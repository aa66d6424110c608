-------------------------- MODULE RecordReplay_proofs --------------------------
(***************************************************************************)
(* Proofs about RecordReplay, for every program, every set of threads,     *)
(* channels and values, both desync modes and any timing: types; that a    *)
(* replay repeats the recording until it desyncs; and that the channels,   *)
(* as their users see them, keep each sender's messages in order and lose  *)
(* none while the receiver lives, but in one case.                         *)
(***************************************************************************)
EXTENDS RecordReplay, RecordLog_proofs, WellFoundedInduction

\* The program calls operations that exist, on its channels.
WellFormedProgram ==
    \A s \in Setups : \A t \in Id : \A h \in Seq(Observation) :
        Code(s.program, t, h) \in Operation

Loggable == SendResult \cup RecvResult

-----------------------------------------------------------------------------
(* The inductive invariant for the types *)

\* A thread that is inside an operation is inside the operation that its
\* program calls next, and has what that place needs.
Inside(t) ==
    /\ at[t] = "log" => pending[t] \in Loggable /\ Op(t).kind = pending[t].op
    /\ at[t] = "deliver" => Op(t).kind = "send"
    /\ at[t] = "receive" => Op(t).kind \in RecvKind /\ expected[t] \in Id
    /\ at[t] = "desync" \/ status[t] = "asleep" => Op(t).kind \in RecvKind \cup {"send"}
    /\ at[t] = "flush" => Op(t).kind = "execution_done"

InsideOp == \A t \in Id : Inside(t)

IInv == TypeOK /\ InsideOp

-----------------------------------------------------------------------------
(* Operations and their results *)

LEMMA OpTyped ==
    ASSUME WellFormedProgram, TypeOK, NEW t \in Id
    PROVE  Op(t) \in Operation
  BY DEF WellFormedProgram, TypeOK, Op

\* Operations on channels are records of a known shape.
LEMMA OpShape ==
    ASSUME NEW op \in Operation
    PROVE  /\ op.kind = "send" => op.chan \in Chan /\ op.val \in Val
           /\ op.kind \in RecvKind => op.chan \in Chan
  BY DEF Operation, RecvKind

LEMMA SendOutcomesTyped ==
    ASSUME NEW op \in Operation, op.kind = "send"
    PROVE  SendOutcomes(op) \subseteq SendResult
  <1>1. op.chan \in Chan
    BY OpShape
  <1>2. Failure(op, "none") \in SendResult /\ Failure(op, "SendError") \in SendResult
    BY <1>1 DEF Failure, Result, SendResult
  <1> QED
    BY <1>2 DEF SendOutcomes

LEMMA SendTyped ==
    ASSUME TypeOK, NEW t \in Id, NEW op \in Operation, op.kind = "send",
           NEW obs, Send(t, op, obs)
    PROVE  /\ obs \in SendResult
           /\ wire' \in [Chan -> Seq(Message)]
           /\ buffer' \in [Chan -> [Id -> Seq(Val)]]
  <1>1. op.chan \in Chan /\ op.val \in Val
    BY OpShape
  <1>2. [from |-> t, val |-> op.val] \in Message
    BY <1>1 DEF Message
  <1>3. wire' \in [Chan -> Seq(Message)]
    BY <1>1, <1>2 DEF TypeOK, Send
  <1> QED
    BY <1>3, SendOutcomesTyped DEF Send, TypeOK

LEMMA RecvTyped ==
    ASSUME TypeOK, NEW op \in Operation, op.kind \in RecvKind,
           NEW obs, Recv(op, obs)
    PROVE  /\ obs \in RecvResult
           /\ wire' \in [Chan -> Seq(Message)]
           /\ buffer' \in [Chan -> [Id -> Seq(Val)]]
  <1> DEFINE q == wire[op.chan]
  <1>1. op.chan \in Chan /\ q \in Seq(Message)
    BY OpShape DEF TypeOK
  <1>2. \A e \in RecvFailure : Failure(op, e) \in RecvResult
    BY <1>1 DEF Failure, Result, RecvResult
  <1>3. ASSUME q # <<>>
        PROVE  Result(op, Head(q).from, Head(q).val, "none") \in RecvResult
    <2>1. Head(q) \in Message
      BY <1>1, <1>3
    <2>2. Head(q).from \in Id /\ Head(q).val \in Val
      BY <2>1 DEF Message
    <2> QED
      BY <1>1, <2>2 DEF Result, RecvResult
  <1>4. obs \in RecvResult /\ (q = <<>> => obs.error # "none")
    <2>1. CASE q # <<>>
      BY <2>1, <1>3 DEF Recv, RecvOutcomes
    <2>2. CASE q = <<>>
      <3>1. obs \in {Failure(op, e) : e \in RecvFailure}
        BY <2>2 DEF Recv, RecvOutcomes, RecvFailure
      <3>2. PICK e \in RecvFailure : obs = Failure(op, e)
        BY <3>1
      <3>3. obs.error # "none"
        BY <3>2 DEF Failure, Result, RecvFailure
      <3> QED
        BY <1>2, <3>2, <3>3
    <2> QED
      BY <2>1, <2>2
  <1>5. wire' \in [Chan -> Seq(Message)]
    <2>1. CASE obs.error # "none"
      BY <2>1 DEF Recv, TypeOK
    <2>2. CASE obs.error = "none"
      <3>1. Tail(q) \in Seq(Message)
        BY <1>1, <1>4, <2>2
      <3>2. wire' = [wire EXCEPT ![op.chan] = Tail(q)]
        BY <2>2 DEF Recv
      <3> QED
        BY <3>1, <3>2, <1>1 DEF TypeOK
    <2> QED
      BY <2>1, <2>2
  <1> QED
    BY <1>4, <1>5 DEF Recv, TypeOK

\* The entry for a result says where a message came from, or why there is none.
LEMMA EntryForTyped ==
    ASSUME NEW obs \in Loggable
    PROVE  EntryFor(obs) \in Entry
  <1>1. CASE obs \in SendResult
    BY <1>1, ProgramAssumption DEF SendResult, EntryFor, LogEntry
  <1>2. CASE obs \in RecvResult /\ obs.error = "none"
    BY <1>2, ProgramAssumption DEF RecvResult, EntryFor, LogEntry, RecvKind, RecvFailure
  <1>3. CASE obs \in RecvResult /\ obs.error # "none"
    BY <1>3, ProgramAssumption DEF RecvResult, EntryFor, LogEntry, RecvKind, RecvFailure
  <1> QED
    BY <1>1, <1>2, <1>3 DEF Loggable

LEMMA NextEntryTyped ==
    ASSUME LogTypeOK, NEW t \in Id, HasEntry(t)
    PROVE  NextEntry(t) \in LogEntry
  <1>1. log[t] \in Seq(LogEntry) /\ next[t] \in Nat /\ next[t] < Len(log[t])
    BY ProgramAssumption DEF LogTypeOK, HasEntry
  <1> QED
    BY <1>1 DEF NextEntry

-----------------------------------------------------------------------------
(* What the parts of an action do to the state of the threads *)

ThreadsTyped ==
    /\ status \in [Id -> {"running", "asleep", "exited", "panicked"}]
    /\ at \in [Id -> {"idle", "log", "deliver", "receive", "desync", "flush"}]
    /\ pending \in [Id -> Observation]
    /\ expected \in [Id -> Id \cup {NoId}]
    /\ hist \in [Id -> Seq(Observation)]

LEMMA NoResultTyped == NoResult \in Observation /\ Done \in Observation
  BY DEF Observation

\* An operation that returns leaves its thread outside of any operation.
LEMMA ReturnInv ==
    ASSUME IInv, setup' = setup, NEW t \in Id, status[t] = "running", NEW obs \in Observation,
           Return(t, obs)
    PROVE  ThreadsTyped' /\ InsideOp'
  <1>1. ThreadsTyped'
    <2>1. hist' \in [Id -> Seq(Observation)]
      BY DEF Return, IInv, TypeOK
    <2>2. pending' \in [Id -> Observation]
      BY NoResultTyped DEF Return, IInv, TypeOK
    <2>3. at' \in [Id -> {"idle", "log", "deliver", "receive", "desync", "flush"}]
      BY DEF Return, MoveTo, IInv, TypeOK
    <2> QED
      BY <2>1, <2>2, <2>3 DEF ThreadsTyped, Return, IInv, TypeOK
  <1>2. ASSUME NEW u \in Id PROVE Inside(u)'
    <2>1. CASE u = t
      BY <2>1 DEF Inside, Return, MoveTo, IInv, TypeOK
    <2>2. CASE u # t
      BY <2>2 DEF Inside, Return, MoveTo, Op, IInv, InsideOp, TypeOK
    <2> QED
      BY <2>1, <2>2
  <1> QED
    BY <1>1, <1>2 DEF InsideOp

\* A thread moves on inside its operation, or goes to sleep in front of it.
LEMMA MoveInv ==
    ASSUME IInv, setup' = setup, NEW t \in Id, hist' = hist, ThreadsTyped', Inside(t)',
           \A u \in Id \ {t} : /\ status'[u] = status[u] /\ at'[u] = at[u]
                                /\ pending'[u] = pending[u] /\ expected'[u] = expected[u]
    PROVE  ThreadsTyped' /\ InsideOp'
  <1>1. ASSUME NEW u \in Id \ {t} PROVE Inside(u)'
    BY <1>1 DEF Inside, Op, IInv, InsideOp
  <1> QED
    BY <1>1 DEF InsideOp

LEMMA PanicInv ==
    ASSUME IInv, setup' = setup, NEW t \in Id, status' = [status EXCEPT ![t] = "panicked"],
           UNCHANGED <<at, pending, expected, hist>>
    PROVE  ThreadsTyped' /\ InsideOp'
  <1>1. ThreadsTyped'
    BY DEF ThreadsTyped, IInv, TypeOK
  <1>2. Inside(t)'
    BY DEF Inside, Op, IInv, InsideOp, TypeOK
  <1> QED
    BY <1>1, <1>2, MoveInv DEF IInv, TypeOK

LEMMA HandleDesyncInv ==
    ASSUME IInv, setup' = setup, NEW t \in Id, Op(t).kind \in RecvKind \cup {"send"}, HandleDesync(t)
    PROVE  ThreadsTyped' /\ InsideOp' /\ desynced' \in BOOLEAN
  <1>1. CASE Panic(t) /\ UNCHANGED desynced
    BY <1>1, PanicInv DEF Panic, IInv, TypeOK
  <1>2. CASE /\ desynced' = TRUE
             /\ status' = [status EXCEPT ![t] = "running"]
             /\ MoveTo(t, "desync")
             /\ pending' = [pending EXCEPT ![t] = NoResult]
             /\ expected' = [expected EXCEPT ![t] = NoId]
             /\ UNCHANGED hist
    <2>1. pending' \in [Id -> Observation]
      BY <1>2, NoResultTyped DEF IInv, TypeOK
    <2>2. ThreadsTyped'
      BY <1>2, <2>1 DEF ThreadsTyped, MoveTo, IInv, TypeOK
    <2>3. Inside(t)'
      BY <1>2 DEF Inside, Op, MoveTo, IInv, TypeOK
    <2> QED
      BY <1>2, <2>2, <2>3, MoveInv DEF MoveTo, IInv, TypeOK
  <1> QED
    BY <1>1, <1>2 DEF HandleDesync

\* What a step leaves to show: the log, the channels and the threads are typed.
Rest == /\ setup \in Setups
        /\ LogTypeOK
        /\ wire \in [Chan -> Seq(Message)]
        /\ buffer \in [Chan -> [Id -> Seq(Val)]]
        /\ ThreadsTyped
        /\ InsideOp
        /\ recorded \in [Id -> Seq(Observation)]
        /\ desynced \in BOOLEAN

LEMMA RestIsInv == Rest <=> IInv
  BY DEF Rest, IInv, TypeOK, ThreadsTyped

-----------------------------------------------------------------------------
(* Actions *)

LEMMA RecordOpInv ==
    ASSUME WellFormedProgram, IInv, setup' = setup, NEW t \in Id, RecordOp(t) PROVE Rest'
  <1> DEFINE op == Op(t)
  <1>1. op \in Operation /\ op.kind \in RecvKind \cup {"send"}
    BY OpTyped DEF IInv, RecordOp, Calls
  <1>2. PICK obs : /\ \/ op.kind = "send" /\ Send(t, op, obs)
                      \/ op.kind \in RecvKind /\ Recv(op, obs)
                   /\ pending' = [pending EXCEPT ![t] = obs]
    BY DEF RecordOp
  <1>3. /\ obs \in Loggable
        /\ wire' \in [Chan -> Seq(Message)]
        /\ buffer' \in [Chan -> [Id -> Seq(Val)]]
    BY <1>1, <1>2, SendTyped, RecvTyped DEF IInv, Loggable
  <1>4. obs.op = op.kind
    <2>1. CASE op.kind = "send" /\ Send(t, op, obs)
      BY <2>1 DEF Send, SendOutcomes, Failure, Result
    <2>2. CASE op.kind \in RecvKind /\ Recv(op, obs)
      BY <2>2 DEF Recv, RecvOutcomes, Failure, Result
    <2> QED
      BY <1>2, <2>1, <2>2
  <1>5. pending' \in [Id -> Observation]
    BY <1>2, <1>3 DEF IInv, TypeOK, Loggable, Observation
  <1>6. ThreadsTyped'
    BY <1>5 DEF ThreadsTyped, RecordOp, MoveTo, IInv, TypeOK
  <1>7. Inside(t)'
    BY <1>2, <1>3, <1>4 DEF Inside, RecordOp, Calls, At, MoveTo, Op, IInv, TypeOK
  <1>8. InsideOp'
    BY <1>2, <1>6, <1>7, MoveInv DEF RecordOp, MoveTo, IInv, TypeOK
  <1> QED
    BY <1>3, <1>6, <1>8, LogStepTyped DEF Rest, RecordOp, IInv, TypeOK

LEMMA RecordEventInv ==
    ASSUME IInv, setup' = setup, NEW t \in Id, RecordEvent(t) PROVE Rest'
  <1>1. pending[t] \in Loggable /\ status[t] = "running"
    BY DEF RecordEvent, At, IInv, InsideOp, Inside
  <1>2. CASE InitEventSender(t) /\ UNCHANGED threadVars
    <2>1. LogTypeOK'
      BY <1>2, LogStepTyped DEF IInv, TypeOK, LogStep, ThreadLogStep
    <2>2. ThreadsTyped' /\ InsideOp'
      BY <1>2 DEF threadVars, ThreadsTyped, InsideOp, Inside, Op, IInv, TypeOK
    <2> QED
      BY <2>1, <2>2 DEF Rest, RecordEvent, chanVars, IInv, TypeOK
  <1>3. CASE WriteEvent(t, EntryFor(pending[t])) /\ Return(t, pending[t])
    <2>1. LogTypeOK'
      BY <1>1, <1>3, EntryForTyped, LogStepTyped DEF IInv, TypeOK, LogStep, ThreadLogStep
    <2>2. ThreadsTyped' /\ InsideOp'
      BY <1>1, <1>3, ReturnInv DEF Loggable, Observation
    <2> QED
      BY <2>1, <2>2 DEF Rest, RecordEvent, chanVars, IInv, TypeOK
  <1> QED
    BY <1>2, <1>3 DEF RecordEvent

LEMMA RecordEventFailsInv ==
    ASSUME IInv, setup' = setup, NEW t \in Id, RecordEventFails(t) PROVE Rest'
  <1>1. Op(t).kind = pending[t].op /\ pending[t].op \in RecvKind \cup {"send"}
    BY DEF RecordEventFails, At, IInv, InsideOp, Inside, Loggable, SendResult, RecvResult
  <1>2. ThreadsTyped' /\ InsideOp' /\ desynced' \in BOOLEAN
    <2>1. CASE Panic(t) /\ UNCHANGED desynced
      BY <2>1, PanicInv DEF Panic, IInv, TypeOK
    <2>2. CASE HandleDesync(t)
      BY <1>1, <2>2, HandleDesyncInv
    <2> QED
      BY <2>1, <2>2 DEF RecordEventFails
  <1> QED
    BY <1>2, LogStepTyped DEF Rest, RecordEventFails, chanVars, IInv, TypeOK

LEMMA OpenLogInv ==
    ASSUME IInv, setup' = setup, NEW t \in Id, OpenLog(t) PROVE Rest'
  <1>1. LogTypeOK'
    BY LogStepTyped DEF OpenLog, IInv, TypeOK, LogStep, ThreadLogStep
  <1>2. ThreadsTyped' /\ InsideOp'
    <2>1. CASE UNCHANGED status
      BY <2>1 DEF OpenLog, ThreadsTyped, InsideOp, Inside, Op, IInv, TypeOK
    <2>2. CASE status' = [status EXCEPT ![t] = "panicked"]
      BY <2>2, PanicInv DEF OpenLog
    <2> QED
      BY <2>1, <2>2 DEF OpenLog
  <1> QED
    BY <1>1, <1>2 DEF Rest, OpenLog, chanVars, IInv, TypeOK

LEMMA FallAsleepInv ==
    ASSUME IInv, setup' = setup, NEW t \in Id, FallAsleep(t) PROVE Rest'
  <1>1. ThreadsTyped'
    BY DEF FallAsleep, ThreadsTyped, IInv, TypeOK
  <1>2. Inside(t)'
    BY DEF FallAsleep, AsksLog, Calls, At, Inside, Op, IInv, TypeOK
  <1>3. InsideOp'
    BY <1>1, <1>2, MoveInv DEF FallAsleep, IInv, TypeOK
  <1> QED
    BY <1>1, <1>3, LogStepTyped DEF Rest, FallAsleep, chanVars, IInv, TypeOK

LEMMA ReplayMismatchInv ==
    ASSUME IInv, setup' = setup, NEW t \in Id, ReplayMismatch(t) PROVE Rest'
  <1>1. LogTypeOK'
    BY LogStepTyped DEF ReplayMismatch, IInv, TypeOK, LogStep, ThreadLogStep
  <1>2. ThreadsTyped' /\ InsideOp' /\ desynced' \in BOOLEAN
    BY HandleDesyncInv DEF ReplayMismatch, AsksLog, Calls
  <1> QED
    BY <1>1, <1>2 DEF Rest, ReplayMismatch, chanVars, IInv, TypeOK

LEMMA ReplaySendInv ==
    ASSUME IInv, setup' = setup, NEW t \in Id, ReplaySend(t) PROVE Rest'
  <1>1. LogTypeOK'
    BY LogStepTyped DEF ReplaySend, IInv, TypeOK, LogStep, ThreadLogStep
  <1>2. ThreadsTyped'
    BY DEF ReplaySend, MoveTo, ThreadsTyped, IInv, TypeOK
  <1>3. Inside(t)'
    BY DEF ReplaySend, AsksLog, Calls, At, MoveTo, Inside, Op, IInv, TypeOK
  <1>4. InsideOp'
    BY <1>2, <1>3, MoveInv DEF ReplaySend, MoveTo, IInv, TypeOK
  <1> QED
    BY <1>1, <1>2, <1>4 DEF Rest, ReplaySend, chanVars, IInv, TypeOK

LEMMA DeliverInv ==
    ASSUME WellFormedProgram, IInv, setup' = setup, NEW t \in Id, Deliver(t) PROVE Rest'
  <1>1. Op(t) \in Operation /\ Op(t).kind = "send" /\ status[t] = "running"
    BY OpTyped DEF Deliver, At, IInv, InsideOp, Inside
  <1>2. PICK obs \in SendOutcomes(Op(t)) : Send(t, Op(t), obs) /\ Return(t, obs)
    BY DEF Deliver
  <1>3. /\ obs \in SendResult
        /\ wire' \in [Chan -> Seq(Message)]
        /\ buffer' \in [Chan -> [Id -> Seq(Val)]]
    BY <1>1, <1>2, SendTyped DEF IInv
  <1>4. ThreadsTyped' /\ InsideOp'
    BY <1>1, <1>2, <1>3, ReturnInv DEF Observation
  <1> QED
    BY <1>3, <1>4, LogStepTyped DEF Rest, Deliver, IInv, TypeOK

\* Taking a message out of the buffer or putting one in.
LEMMA BufferTyped ==
    ASSUME TypeOK, NEW c \in Chan, NEW s \in Id, NEW q \in Seq(Val),
           buffer' = [buffer EXCEPT ![c][s] = q]
    PROVE  buffer' \in [Chan -> [Id -> Seq(Val)]]
  <1>1. [buffer[c] EXCEPT ![s] = q] \in [Id -> Seq(Val)]
    BY DEF TypeOK
  <1>2. buffer' = [buffer EXCEPT ![c] = [buffer[c] EXCEPT ![s] = q]]
    BY DEF TypeOK
  <1> QED
    BY <1>1, <1>2 DEF TypeOK

\* A message of a sender is a result.
LEMMA MessageResult ==
    ASSUME NEW op \in Operation, op.kind \in RecvKind, NEW s \in Id, NEW v \in Val
    PROVE  Result(op, s, v, "none") \in Observation
  BY OpShape DEF Result, RecvResult, Observation

LEMMA ReplayRecvInv ==
    ASSUME WellFormedProgram, IInv, setup' = setup, NEW t \in Id, ReplayRecv(t) PROVE Rest'
  <1> DEFINE op == Op(t)
             entry == NextEntry(t)
             early == buffer[op.chan][entry.from]
  <1>1. /\ op \in Operation /\ op.kind \in RecvKind /\ op.chan \in Chan
        /\ status[t] = "running"
    BY OpTyped, OpShape DEF ReplayRecv, AsksLog, Calls, At, IInv
  <1>2. entry \in LogEntry /\ entry.op \in RecvKind
    BY <1>1, NextEntryTyped
    DEF ReplayRecv, GetLogEntry, Mismatch, IInv, TypeOK
  <1>3. LogTypeOK'
    BY LogStepTyped DEF ReplayRecv, IInv, TypeOK, LogStep, ThreadLogStep
  <1>4. CASE /\ entry.error # "none"
             /\ Return(t, Failure(op, entry.error))
             /\ UNCHANGED chanVars
    <2>1. entry.error \in RecvFailure
      BY <1>2, <1>4 DEF LogEntry
    <2>2. Failure(op, entry.error) \in Observation
      BY <1>1, <2>1 DEF Failure, Result, RecvResult, Observation
    <2>3. ThreadsTyped' /\ InsideOp'
      BY <1>1, <1>4, <2>2, ReturnInv
    <2> QED
      BY <1>3, <1>4, <2>3 DEF Rest, ReplayRecv, chanVars, IInv, TypeOK
  <1>5. entry.error = "none" => entry.from \in Id
    BY <1>2 DEF LogEntry, RecvKind, RecvFailure
  <1>6. CASE /\ entry.error = "none" /\ early # <<>>
             /\ Return(t, Result(op, entry.from, Head(early), "none"))
             /\ buffer' = [buffer EXCEPT ![op.chan][entry.from] = Tail(@)]
             /\ UNCHANGED wire
    <2>1. early \in Seq(Val)
      BY <1>1, <1>5, <1>6 DEF IInv, TypeOK
    <2>2. Head(early) \in Val /\ Tail(early) \in Seq(Val)
      BY <1>6, <2>1
    <2>3. ThreadsTyped' /\ InsideOp'
      BY <1>1, <1>5, <1>6, <2>2, ReturnInv, MessageResult
    <2>4. buffer' \in [Chan -> [Id -> Seq(Val)]]
      BY <1>1, <1>5, <1>6, <2>2, BufferTyped DEF IInv
    <2> QED
      BY <1>3, <1>6, <2>3, <2>4 DEF Rest, ReplayRecv, IInv, TypeOK
  <1>7. CASE /\ entry.error = "none" /\ early = <<>>
             /\ expected' = [expected EXCEPT ![t] = entry.from]
             /\ MoveTo(t, "receive")
             /\ UNCHANGED <<chanVars, status, pending, hist>>
    <2>1. ThreadsTyped'
      BY <1>5, <1>7 DEF ThreadsTyped, MoveTo, IInv, TypeOK
    <2>2. Inside(t)'
      BY <1>1, <1>5, <1>7 DEF Inside, Op, MoveTo, IInv, TypeOK
    <2>3. InsideOp'
      BY <1>7, <2>1, <2>2, MoveInv DEF MoveTo, IInv, TypeOK
    <2> QED
      BY <1>3, <1>7, <2>1, <2>3 DEF Rest, ReplayRecv, chanVars, IInv, TypeOK
  <1> QED
    BY <1>4, <1>6, <1>7 DEF ReplayRecv

LEMMA ReceiveExpectedInv ==
    ASSUME WellFormedProgram, IInv, setup' = setup, NEW t \in Id, ReceiveExpected(t) PROVE Rest'
  <1> DEFINE op == Op(t)
             c == op.chan
             m == Head(wire[c])
  <1>1. /\ op \in Operation /\ op.kind \in RecvKind /\ c \in Chan
        /\ status[t] = "running"
    BY OpTyped, OpShape DEF ReceiveExpected, At, IInv, InsideOp, Inside
  <1>2. m.from \in Id /\ m.val \in Val /\ Tail(wire[c]) \in Seq(Message)
    <2>1. wire[c] \in Seq(Message) /\ wire[c] # <<>>
      BY <1>1 DEF ReceiveExpected, IInv, TypeOK
    <2>2. m \in Message
      BY <2>1
    <2> QED
      BY <2>1, <2>2 DEF Message
  <1>3. wire' \in [Chan -> Seq(Message)]
    BY <1>1, <1>2 DEF ReceiveExpected, IInv, TypeOK
  <1>4. LogTypeOK'
    BY LogStepTyped DEF ReceiveExpected, IInv, TypeOK
  <1>5. CASE Return(t, Result(op, m.from, m.val, "none")) /\ UNCHANGED buffer
    <2>1. ThreadsTyped' /\ InsideOp'
      BY <1>1, <1>2, <1>5, ReturnInv, MessageResult
    <2> QED
      BY <1>3, <1>4, <1>5, <2>1 DEF Rest, ReceiveExpected, IInv, TypeOK
  <1>6. CASE /\ buffer' = [buffer EXCEPT ![c][m.from] = Append(@, m.val)]
             /\ UNCHANGED threadVars
    <2>1. Append(buffer[c][m.from], m.val) \in Seq(Val)
      BY <1>1, <1>2 DEF IInv, TypeOK
    <2>2. buffer' \in [Chan -> [Id -> Seq(Val)]]
      BY <1>1, <1>2, <1>6, <2>1, BufferTyped DEF IInv
    <2>3. ThreadsTyped' /\ InsideOp'
      BY <1>6 DEF threadVars, ThreadsTyped, InsideOp, Inside, Op, IInv, TypeOK
    <2> QED
      BY <1>3, <1>4, <2>2, <2>3 DEF Rest, ReceiveExpected, IInv, TypeOK
  <1> QED
    BY <1>5, <1>6 DEF ReceiveExpected

\* Steps that do nothing but handle_desync.
LEMMA DesyncStepInv ==
    ASSUME IInv, setup' = setup, NEW t \in Id, ReceiveTimesOut(t) \/ WakeUp(t) \/ SendDesynced(t)
    PROVE  Rest'
  <1>1. Op(t).kind \in RecvKind \cup {"send"}
    BY DEF ReceiveTimesOut, WakeUp, SendDesynced, Calls, At, IInv, InsideOp, Inside
  <1>2. HandleDesync(t) /\ UNCHANGED <<logVars, chanVars, recorded>>
    BY DEF ReceiveTimesOut, WakeUp, SendDesynced
  <1>3. ThreadsTyped' /\ InsideOp' /\ desynced' \in BOOLEAN
    BY <1>1, <1>2, HandleDesyncInv
  <1> QED
    BY <1>2, <1>3, LogStepTyped DEF Rest, chanVars, IInv, TypeOK

LEMMA ReceiveAnyInv ==
    ASSUME WellFormedProgram, IInv, setup' = setup, NEW t \in Id, ReceiveAny(t) PROVE Rest'
  <1> DEFINE op == Op(t)
             c == op.chan
  <1>1. /\ op \in Operation /\ op.kind \in RecvKind /\ c \in Chan
        /\ status[t] = "running"
    BY OpTyped, OpShape DEF ReceiveAny, At, IInv
  <1>2. LogTypeOK'
    BY LogStepTyped DEF ReceiveAny, IInv, TypeOK
  <1>3. ASSUME NEW s \in Id, buffer[c][s] # <<>>,
               buffer' = [buffer EXCEPT ![c][s] = Tail(@)],
               Return(t, Result(op, s, Head(buffer[c][s]), "none")),
               UNCHANGED wire
        PROVE  Rest'
    <2>1. Head(buffer[c][s]) \in Val /\ Tail(buffer[c][s]) \in Seq(Val)
      <3>1. buffer[c][s] \in Seq(Val)
        BY <1>1 DEF IInv, TypeOK
      <3> QED
        BY <1>3, <3>1
    <2>2. ThreadsTyped' /\ InsideOp'
      BY <1>1, <1>3, <2>1, ReturnInv, MessageResult
    <2>3. buffer' \in [Chan -> [Id -> Seq(Val)]]
      BY <1>1, <1>3, <2>1, BufferTyped DEF IInv
    <2> QED
      BY <1>2, <1>3, <2>2, <2>3 DEF Rest, ReceiveAny, IInv, TypeOK
  <1>4. ASSUME NEW obs, Recv(op, obs), Return(t, obs) PROVE Rest'
    <2>1. /\ obs \in RecvResult
          /\ wire' \in [Chan -> Seq(Message)]
          /\ buffer' \in [Chan -> [Id -> Seq(Val)]]
      BY <1>1, <1>4, RecvTyped DEF IInv
    <2>2. ThreadsTyped' /\ InsideOp'
      BY <1>1, <1>4, <2>1, ReturnInv DEF Observation
    <2> QED
      BY <1>2, <2>1, <2>2 DEF Rest, ReceiveAny, IInv, TypeOK
  <1> QED
    BY <1>3, <1>4 DEF ReceiveAny

LEMMA JoinInv ==
    ASSUME IInv, setup' = setup, NEW t \in Id, Join(t) PROVE Rest'
  <1>1. ThreadsTyped' /\ InsideOp'
    BY ReturnInv, NoResultTyped DEF Join, Calls, At
  <1> QED
    BY <1>1, LogStepTyped DEF Rest, Join, chanVars, IInv, TypeOK

LEMMA ExecutionDoneInv ==
    ASSUME IInv, setup' = setup, NEW t \in Id, ExecutionDone(t) PROVE Rest'
  <1>1. CASE /\ Calls(t, {"execution_done"})
             /\ TakeRecorder
             /\ MoveTo(t, "flush")
             /\ UNCHANGED <<chanVars, status, pending, expected, hist, recorded, desynced>>
    <2>1. LogTypeOK'
      BY <1>1, LogStepTyped DEF IInv, TypeOK, LogStep
    <2>2. ThreadsTyped'
      BY <1>1 DEF ThreadsTyped, MoveTo, IInv, TypeOK
    <2>3. Inside(t)'
      BY <1>1 DEF Inside, Calls, At, MoveTo, Op, IInv, TypeOK
    <2>4. InsideOp'
      BY <1>1, <2>2, <2>3, MoveInv DEF MoveTo, IInv, TypeOK
    <2> QED
      BY <1>1, <2>1, <2>2, <2>4 DEF Rest, chanVars, IInv, TypeOK
  <1>2. CASE /\ status[t] = "running"
             /\ Return(t, Done)
             /\ UNCHANGED <<logVars, chanVars, recorded, desynced>>
    <2>1. ThreadsTyped' /\ InsideOp'
      BY <1>2, ReturnInv, NoResultTyped
    <2> QED
      BY <1>2, <2>1, LogStepTyped DEF Rest, chanVars, IInv, TypeOK
  <1> QED
    BY <1>1, <1>2 DEF ExecutionDone, Calls, At

LEMMA ExitInv ==
    ASSUME IInv, setup' = setup, NEW t \in Id, Exit(t) PROVE Rest'
  <1>1. ThreadsTyped'
    BY DEF Exit, ThreadsTyped, IInv, TypeOK
  <1>2. Inside(t)'
    BY DEF Exit, Calls, At, Inside, IInv, TypeOK
  <1>3. InsideOp'
    BY <1>1, <1>2, MoveInv DEF Exit, IInv, TypeOK
  <1> QED
    BY <1>1, <1>3, LogStepTyped DEF Rest, Exit, chanVars, IInv, TypeOK

LEMMA FlushLogInv ==
    ASSUME IInv, FlushLog PROVE Rest'
  <1>1. LogTypeOK'
    BY LogStepTyped DEF FlushLog, IInv, TypeOK, LogStep
  <1> QED
    BY <1>1 DEF Rest, FlushLog, chanVars, threadVars, ThreadsTyped, InsideOp, Inside, Op,
                IInv, TypeOK

\* A process starts with nothing in its channels.
LEMMA EmptyChannels ==
    /\ [c \in Chan |-> <<>>] \in [Chan -> Seq(Message)]
    /\ [c \in Chan |-> [t \in Id |-> <<>>]] \in [Chan -> [Id -> Seq(Val)]]
  <1>1. [t \in Id |-> <<>>] \in [Id -> Seq(Val)]
    OBVIOUS
  <1> QED
    BY <1>1

LEMMA RestartInv ==
    ASSUME IInv, Restart PROVE Rest'
  <1>1. LogTypeOK'
    BY LogStepTyped DEF Restart, IInv, TypeOK, LogStep
  <1>2. ThreadsTyped'
    <2>1. pending' \in [Id -> Observation]
      BY NoResultTyped DEF Restart
    <2> QED
      BY <2>1 DEF ThreadsTyped, Restart
  <1>3. InsideOp'
    BY DEF Restart, InsideOp, Inside
  <1>4. wire' \in [Chan -> Seq(Message)] /\ buffer' \in [Chan -> [Id -> Seq(Val)]]
    BY EmptyChannels DEF Restart
  <1> QED
    BY <1>1, <1>2, <1>3, <1>4 DEF Rest, Restart, IInv, TypeOK

-----------------------------------------------------------------------------
(* The invariant holds *)

LEMMA InvInit == Init => IInv
  <1> SUFFICES ASSUME Init PROVE IInv
    OBVIOUS
  <1>1. LogTypeOK
    BY LogInitTyped DEF Init
  <1>2. pending \in [Id -> Observation]
    BY NoResultTyped DEF Init, ProgramStart
  <1>3. InsideOp
    BY DEF Init, ProgramStart, InsideOp, Inside
  <1>4. wire \in [Chan -> Seq(Message)] /\ buffer \in [Chan -> [Id -> Seq(Val)]]
    BY EmptyChannels DEF Init, ProgramStart
  <1>5. /\ hist \in [Id -> Seq(Observation)] /\ recorded \in [Id -> Seq(Observation)]
        /\ expected \in [Id -> Id \cup {NoId}]
        /\ status \in [Id -> {"running", "asleep", "exited", "panicked"}]
        /\ at \in [Id -> {"idle", "log", "deliver", "receive", "desync", "flush"}]
    BY DEF Init, ProgramStart
  <1> QED
    BY <1>1, <1>2, <1>3, <1>4, <1>5 DEF Init, ProgramStart, IInv, TypeOK

LEMMA InvStep ==
    ASSUME WellFormedProgram PROVE IInv /\ [Next]_vars => IInv'
  <1> SUFFICES ASSUME IInv, [Next]_vars PROVE Rest'
    BY RestIsInv, PTL
  <1>1. ASSUME NEW t \in Id, ThreadStep(t) PROVE Rest'
    BY <1>1, RecordOpInv, RecordEventInv, RecordEventFailsInv, OpenLogInv, FallAsleepInv,
       ReplayMismatchInv, ReplaySendInv, DeliverInv, ReplayRecvInv, ReceiveExpectedInv,
       DesyncStepInv, ReceiveAnyInv, JoinInv, ExecutionDoneInv, ExitInv
    DEF ThreadStep
  <1>2. CASE UNCHANGED vars
    <2>1. LogTypeOK'
      BY <1>2, LogStepTyped DEF vars, IInv, TypeOK
    <2> QED
      BY <1>2, <2>1 DEF Rest, vars, chanVars, threadVars, ThreadsTyped, InsideOp, Inside,
                        Op, IInv, TypeOK
  <1> QED
    BY <1>1, <1>2, FlushLogInv, RestartInv DEF Next

\* In both executions of every program that calls existing operations, with
\* any number of threads and channels, in both desync modes: every variable
\* keeps its type.  In particular each entry that the log holds has a sender
\* or an error, and each message that is replayed is a message of a sender.
THEOREM TypeCorrect ==
    ASSUME WellFormedProgram PROVE Spec => []TypeOK
  <1>1. IInv => TypeOK
    BY DEF IInv
  <1>2. Spec => []IInv
    BY InvInit, InvStep, PTL DEF Spec
  <1> QED
    BY <1>1, <1>2, PTL

-----------------------------------------------------------------------------
(* Histories *)

Program == setup.program

\* The history of a thread, with the operation that it has still to log.
H(t) == IF at[t] = "log" THEN Append(hist[t], pending[t]) ELSE hist[t]

\* obs is what operation op may return.
ResultOf(op, obs) ==
    /\ op.kind \in LoggedKind => obs.op = op.kind /\ obs.chan = op.chan
    /\ op.kind \notin LoggedKind => obs \in {NoResult, Done} /\ obs.op = op.kind

\* h is a history of thread t of program p.
Follows(p, t, h) == \A i \in DOMAIN h : ResultOf(Code(p, t, SubSeq(h, 1, i - 1)), h[i])

\* The operations of h that go into the log, and the number of an operation
\* among them.
LogPos(h) == {i \in DOMAIN h : h[i].op \in LoggedKind}
LogNo(h, i) == 1 + Before(LogPos(h), i)
Logs(h) == Before(LogPos(h), Len(h) + 1)

\* The messages of h to channel c, and those from s on channel c.
Sends(h, c) == {i \in DOMAIN h : h[i].op = "send" /\ h[i].chan = c /\ h[i].error = "none"}
Recvs(h, c, s) == {i \in DOMAIN h : h[i].op \in RecvKind /\ h[i].chan = c /\ h[i].from = s}
OnWire(w, s) == {i \in DOMAIN w : w[i].from = s}

\* What thread s sent at position i of its history.
SendVal(p, s, h, i) == Code(p, s, SubSeq(h, 1, i - 1)).val

\* v is the value of the message that s sent on c after n others.
IsMessage(p, s, h, c, n, v) ==
    \E j \in Sends(h, c) : Before(Sends(h, c), j) = n /\ v = SendVal(p, s, h, j)

-----------------------------------------------------------------------------
(* The log of a recording *)

\* At j the thread sent a message, after a desync, that it has not logged.
Gap(h, list, j) ==
    /\ j \in LogPos(h)
    /\ h[j].op = "send"
    /\ LogNo(h, j) \in DOMAIN list => list[LogNo(h, j)].op # "send"

\* The list may end early, and is of no use from the first gap on.
IsLogOf(h, list) ==
    /\ Len(list) <= Logs(h)
    /\ \A i \in LogPos(h) : LogNo(h, i) \in DOMAIN list =>
           \/ list[LogNo(h, i)] = EntryFor(h[i])
           \/ \E j \in 1 .. i : Gap(h, list, j)

\* As above, for a list that is not cut short.
IsFullLogOf(h, list) ==
    /\ Len(list) <= Logs(h)
    /\ \A i \in LogPos(h) :
           \/ LogNo(h, i) \in DOMAIN list /\ list[LogNo(h, i)] = EntryFor(h[i])
           \/ \E j \in 1 .. i : Gap(h, list, j)

Past(t) == IF mode = "Record" THEN hist[t] ELSE recorded[t]

Lists ==
    /\ \A t \in Id : IsLogOf(Past(t), log[t])
    /\ mode = "Record" => \A t \in Id \ saved :
           /\ IsFullLogOf(hist[t], Carried(t))
           /\ \/ Len(Carried(t)) = Logs(hist[t])
              \/ /\ \E j \in LogPos(hist[t]) : Gap(hist[t], Carried(t), j)
                 /\ desynced
                 /\ at[t] = "log" => pending[t].op # "send"

-----------------------------------------------------------------------------
(* Messages under way *)

\* How many there are of each.
Sent(h, c) == Before(Sends(h, c), Len(h) + 1)
Got(h, c, s) == Before(Recvs(h, c, s), Len(h) + 1)
Waiting(w, s) == Before(OnWire(w, s), Len(w) + 1)

\* Every message of s on c is received, in the buffer or in the queue, in the
\* order of sending.
InOrder(p, c, s, ho, hs, buf, w) ==
    /\ Sent(hs, c) = Got(ho, c, s) + Len(buf) + Waiting(w, s)
    /\ \A i \in Recvs(ho, c, s) :
           IsMessage(p, s, hs, c, Before(Recvs(ho, c, s), i), ho[i].val)
    /\ \A i \in DOMAIN buf : IsMessage(p, s, hs, c, Got(ho, c, s) + i - 1, buf[i])
    /\ \A i \in OnWire(w, s) :
           IsMessage(p, s, hs, c, Got(ho, c, s) + Len(buf) + Before(OnWire(w, s), i), w[i].val)

\* The receiver of c gets what the log says, or makes the log.
Live(c) == (mode = "Record" /\ Owner[c] \notin saved) \/ (mode = "Replay" /\ ~desynced)

Flow(c, s) == InOrder(Program, c, s, H(Owner[c]), H(s), buffer[c][s], wire[c])

Messages == \A c \in Chan, s \in Id : Live(c) => Flow(c, s)

\* What the list of a receiver with history h says it received from s, is what
\* s, with history hs, has sent.
LogIsSent(p, c, s, h, hs, list) ==
    \A i \in Recvs(h, c, s) : LogNo(h, i) <= Len(list) =>
        IsMessage(p, s, hs, c, Before(Recvs(h, c, s), i), h[i].val)

\* The same, as far as the histories go.
LogIsAsSent(p, c, s, h, hs, list) ==
    \A i \in Recvs(h, c, s) : LogNo(h, i) <= Len(list) =>
        \A j \in Sends(hs, c) : Before(Sends(hs, c), j) = Before(Recvs(h, c, s), i) =>
            h[i].val = SendVal(p, s, hs, j)

LoggedReceives ==
    \A c \in Chan, s \in Id :
        LET o == Owner[c] IN
        /\ mode = "Record" => LogIsSent(Program, c, s, hist[o], H(s), log[o])
        /\ mode = "Replay" => LogIsAsSent(Program, c, s, recorded[o], recorded[s], log[o])

-----------------------------------------------------------------------------
(* The replay *)

IsFaithful(h, g) == \A i \in DOMAIN h :
    IF i \in DOMAIN g THEN h[i] = g[i] ELSE h[i] \in {NoResult, Done}

Reading(t) == IF at[t] \in {"deliver", "receive"} THEN 1 ELSE 0

\* A thread has read the entries of what it has done, and inside an operation
\* the one of this operation.
Cursor(t) == status[t] # "panicked" =>
    /\ next[t] = Logs(hist[t]) + Reading(t)
    /\ at[t] \in {"deliver", "receive"} =>
        LET r == Len(hist[t]) + 1 IN
        /\ next[t] \in DOMAIN log[t]
        /\ r \in DOMAIN recorded[t]
        /\ log[t][next[t]] = EntryFor(recorded[t][r])
        /\ at[t] = "receive" => recorded[t][r].error = "none" /\ recorded[t][r].from = expected[t]

\* The entries that have been read are of the kinds of these operations.
KindsRead(h, list) == \A i \in LogPos(h) :
    LogNo(h, i) \in DOMAIN list /\ list[LogNo(h, i)].op = h[i].op

IsReplayed(t) ==
    /\ IsFaithful(hist[t], recorded[t])
    /\ KindsRead(hist[t], log[t])
    /\ Cursor(t)

Replayed == mode = "Replay" /\ ~desynced /\ SendsSucceed => \A t \in Id : IsReplayed(t)

-----------------------------------------------------------------------------
(* Modes *)

\* A thread in a recording.
InRecord(t) ==
    /\ at[t] \notin {"deliver", "receive"} /\ status[t] # "asleep" /\ next[t] = 0
    /\ at[t] = "desync" /\ Op(t).kind \in RecvKind => t \in saved
    /\ t \in sender => t \in open \/ t \in saved

InReplay(t) == at[t] \notin {"log", "flush"}

InEither(t) ==
    /\ at[t] = "receive" => buffer[Op(t).chan][expected[t]] = <<>>
    /\ at[t] = "desync" => desynced
    /\ status[t] = "asleep" => at[t] = "idle"

NothingBuffered == \A c \in Chan, s \in Id : buffer[c][s] = <<>>

Places ==
    /\ mode = "Record" => NothingBuffered /\ \A t \in Id : InRecord(t)
    /\ mode = "Replay" => \A t \in Id : InReplay(t)
    /\ \A t \in Id : InEither(t)

Histories == \A t \in Id : Follows(Program, t, H(t)) /\ Follows(Program, t, recorded[t])

FInv == IInv /\ Places /\ Histories /\ Lists /\ Messages /\ LoggedReceives /\ Replayed
-----------------------------------------------------------------------------
(* Histories that agree *)

\* Receivers are not shared: only its owner receives from a channel.
OwnReceivers ==
    \A s \in Setups : \A t \in Id : \A h \in Seq(Observation) :
        LET op == Code(s.program, t, h) IN
        op.kind \in RecvKind => Owner[op.chan] = t

\* h and g begin with the same k results.
Agree(h, g, k) == k <= Len(h) /\ k <= Len(g) /\ \A i \in 1 .. k : h[i] = g[i]

LEMMA HistoryPositions ==
    ASSUME NEW S, NEW h \in Seq(S)
    PROVE  Len(h) \in Nat /\ DOMAIN h = 1 .. Len(h)
  BY LenProperties

\* A history and the one with another result.
LEMMA AppendAgrees ==
    ASSUME NEW S, NEW h \in Seq(S), NEW o \in S
    PROVE  /\ Append(h, o) \in Seq(S)
           /\ Len(Append(h, o)) = Len(h) + 1
           /\ Append(h, o)[Len(h) + 1] = o
           /\ Agree(h, Append(h, o), Len(h))
           /\ Agree(Append(h, o), h, Len(h))
           /\ DOMAIN h = 1 .. Len(h)
           /\ DOMAIN Append(h, o) = 1 .. Len(h) + 1
           /\ Len(h) \in Nat
  <1>1. /\ Append(h, o) \in Seq(S) /\ Len(Append(h, o)) = Len(h) + 1
        /\ Append(h, o)[Len(h) + 1] = o /\ Len(h) \in Nat
        /\ \A i \in 1 .. Len(h) : Append(h, o)[i] = h[i]
    BY AppendProperties
  <1> HIDE DEF Agree
  <1>2. DOMAIN h = 1 .. Len(h) /\ DOMAIN Append(h, o) = 1 .. Len(h) + 1
    BY <1>1, HistoryPositions
  <1>3. Agree(h, Append(h, o), Len(h)) /\ Agree(Append(h, o), h, Len(h))
    BY <1>1 DEF Agree
  <1> QED
    BY <1>1, <1>2, <1>3

LEMMA AgreeLess ==
    ASSUME NEW h \in Seq(Observation), NEW g \in Seq(Observation), NEW k \in Nat, Agree(h, g, k),
           NEW i \in Nat, i <= k
    PROVE  Agree(h, g, i)
  <1>1. Len(h) \in Nat /\ Len(g) \in Nat
    BY HistoryPositions
  <1> QED
    BY <1>1 DEF Agree

LEMMA AgreeSame ==
    ASSUME NEW h \in Seq(Observation), NEW g \in Seq(Observation), NEW k \in Nat, Agree(h, g, k)
    PROVE  SubSeq(h, 1, k) = SubSeq(g, 1, k)
  <1>1. k <= Len(h) /\ k <= Len(g) /\ Len(h) \in Nat /\ Len(g) \in Nat
        /\ \A i \in 1 .. k : h[i] = g[i]
    BY HistoryPositions DEF Agree
  <1>2. /\ SubSeq(h, 1, k) \in Seq(Observation) /\ Len(SubSeq(h, 1, k)) = k
        /\ \A i \in 1 .. k : SubSeq(h, 1, k)[i] = h[i]
    BY <1>1
  <1>3. /\ SubSeq(g, 1, k) \in Seq(Observation) /\ Len(SubSeq(g, 1, k)) = k
        /\ \A i \in 1 .. k : SubSeq(g, 1, k)[i] = g[i]
    BY <1>1
  <1>4. \A i \in 1 .. Len(SubSeq(h, 1, k)) : SubSeq(h, 1, k)[i] = SubSeq(g, 1, k)[i]
    BY <1>1, <1>2, <1>3
  <1> QED
    BY <1>2, <1>3, <1>4, SeqEqual

LEMMA WholeHistory ==
    ASSUME NEW h \in Seq(Observation)
    PROVE  SubSeq(h, 1, Len(h)) = h
  <1>1. Len(h) \in Nat
    BY HistoryPositions
  <1>2. /\ SubSeq(h, 1, Len(h)) \in Seq(Observation) /\ Len(SubSeq(h, 1, Len(h))) = Len(h)
        /\ \A i \in 1 .. Len(h) : SubSeq(h, 1, Len(h))[i] = h[i]
    BY <1>1
  <1> QED
    BY <1>2, SeqEqual

\* What histories with the same beginning have in common.
LEMMA SamePast ==
    ASSUME NEW h \in Seq(Observation), NEW g \in Seq(Observation), NEW k \in Nat, Agree(h, g, k),
           NEW i \in Nat, i <= k
    PROVE  SubSeq(h, 1, i) = SubSeq(g, 1, i)
  <1>1. Agree(h, g, i)
    BY AgreeLess
  <1> QED
    BY <1>1, AgreeSame

LEMMA SameResult ==
    ASSUME NEW h \in Seq(Observation), NEW g \in Seq(Observation), NEW k \in Nat, Agree(h, g, k),
           NEW i \in 1 .. k
    PROVE  /\ i \in DOMAIN h /\ i \in DOMAIN g /\ h[i] = g[i]
           /\ i \in LogPos(h) <=> i \in LogPos(g)
  <1>1. i \in DOMAIN h /\ i \in DOMAIN g /\ h[i] = g[i]
    BY HistoryPositions DEF Agree
  <1> QED
    BY <1>1 DEF LogPos

LEMMA SameSend ==
    ASSUME NEW h \in Seq(Observation), NEW g \in Seq(Observation), NEW k \in Nat, Agree(h, g, k),
           NEW c, NEW i \in 1 .. k
    PROVE  i \in Sends(h, c) <=> i \in Sends(g, c)
  BY SameResult DEF Sends

LEMMA SameRecv ==
    ASSUME NEW h \in Seq(Observation), NEW g \in Seq(Observation), NEW k \in Nat, Agree(h, g, k),
           NEW c, NEW s, NEW i \in 1 .. k
    PROVE  i \in Recvs(h, c, s) <=> i \in Recvs(g, c, s)
  BY SameResult DEF Recvs

LEMMA SameLogNo ==
    ASSUME NEW h \in Seq(Observation), NEW g \in Seq(Observation), NEW k \in Nat, Agree(h, g, k),
           NEW i \in 1 .. k + 1
    PROVE  /\ Before(LogPos(h), i) = Before(LogPos(g), i)
           /\ LogNo(h, i) = LogNo(g, i)
  <1>1. i \in Nat /\ \A j \in 1 .. i - 1 : j \in 1 .. k
    OBVIOUS
  <1>2. \A j \in 1 .. i - 1 : j \in LogPos(h) <=> j \in LogPos(g)
    BY <1>1, SameResult
  <1> QED
    BY <1>1, <1>2, BeforeAgrees DEF LogNo

LEMMA SameSendNo ==
    ASSUME NEW h \in Seq(Observation), NEW g \in Seq(Observation), NEW k \in Nat, Agree(h, g, k),
           NEW c, NEW i \in 1 .. k + 1
    PROVE  Before(Sends(h, c), i) = Before(Sends(g, c), i)
  <1>1. i \in Nat /\ \A j \in 1 .. i - 1 : j \in 1 .. k
    OBVIOUS
  <1>2. \A j \in 1 .. i - 1 : j \in Sends(h, c) <=> j \in Sends(g, c)
    BY <1>1, SameSend
  <1> QED
    BY <1>1, <1>2, BeforeAgrees

LEMMA SameRecvNo ==
    ASSUME NEW h \in Seq(Observation), NEW g \in Seq(Observation), NEW k \in Nat, Agree(h, g, k),
           NEW c, NEW s, NEW i \in 1 .. k + 1
    PROVE  Before(Recvs(h, c, s), i) = Before(Recvs(g, c, s), i)
  <1>1. i \in Nat /\ \A j \in 1 .. i - 1 : j \in 1 .. k
    OBVIOUS
  <1>2. \A j \in 1 .. i - 1 : j \in Recvs(h, c, s) <=> j \in Recvs(g, c, s)
    BY <1>1, SameRecv
  <1> QED
    BY <1>1, <1>2, BeforeAgrees

\* The totals of a history that gets one more result.
LEMMA OneMoreLogged ==
    ASSUME NEW h \in Seq(Observation), NEW o \in Observation
    PROVE  /\ Logs(h) \in Nat
           /\ LogNo(Append(h, o), Len(h) + 1) = Logs(h) + 1
           /\ Logs(Append(h, o)) = Logs(h) + (IF o.op \in LoggedKind THEN 1 ELSE 0)
  <1> DEFINE g == Append(h, o)
             n == Len(h) + 1
  <1>1. /\ Len(h) \in Nat /\ g \in Seq(Observation) /\ Len(g) = n
        /\ g[n] = o /\ Agree(h, g, Len(h)) /\ DOMAIN g = 1 .. n
    BY AppendAgrees
  <1>2. n \in Nat \ {0} /\ n \in 1 .. Len(h) + 1
    BY <1>1
  <1> HIDE DEF g
  <1>3. Before(LogPos(g), n) = Before(LogPos(h), n)
    BY <1>1, <1>2, SameLogNo
  <1> HIDE DEF n
  <1>4. Before(LogPos(g), n + 1) = Before(LogPos(g), n) + (IF n \in LogPos(g) THEN 1 ELSE 0)
    BY <1>2, BeforeNext
  <1>5. n \in LogPos(g) <=> o.op \in LoggedKind
    BY <1>1, <1>2 DEF LogPos
  <1>6. Before(LogPos(h), n) \in Nat
    BY <1>2, BeforeType
  <1>7. Logs(h) = Before(LogPos(h), n) /\ Logs(g) = Before(LogPos(g), n + 1)
    BY <1>1 DEF Logs, n
  <1>8. LogNo(g, n) = 1 + Before(LogPos(g), n)
    BY DEF LogNo
  <1>9. /\ Logs(h) \in Nat
        /\ LogNo(g, n) = Logs(h) + 1
        /\ Logs(g) = Logs(h) + (IF o.op \in LoggedKind THEN 1 ELSE 0)
    BY <1>3, <1>4, <1>5, <1>6, <1>7, <1>8
  <1> QED
    BY <1>9 DEF g, n

LEMMA OneMoreSend ==
    ASSUME NEW h \in Seq(Observation), NEW o \in Observation, NEW c
    PROVE  Before(Sends(Append(h, o), c), Len(h) + 2) = Before(Sends(h, c), Len(h) + 1)
               + (IF Len(h) + 1 \in Sends(Append(h, o), c) THEN 1 ELSE 0)
  <1> DEFINE g == Append(h, o)
             n == Len(h) + 1
  <1>1. /\ Len(h) \in Nat /\ g \in Seq(Observation) /\ Agree(h, g, Len(h))
    BY AppendAgrees
  <1>2. n \in Nat \ {0} /\ n \in 1 .. Len(h) + 1 /\ Len(h) + 2 = n + 1
    BY <1>1
  <1> HIDE DEF g
  <1>3. Before(Sends(g, c), n) = Before(Sends(h, c), n)
    BY <1>1, <1>2, SameSendNo
  <1> HIDE DEF n
  <1>4. Before(Sends(g, c), n + 1) = Before(Sends(g, c), n) + (IF n \in Sends(g, c) THEN 1 ELSE 0)
    BY <1>2, BeforeNext
  <1>5. Before(Sends(g, c), Len(h) + 2) = Before(Sends(h, c), n)
            + (IF n \in Sends(g, c) THEN 1 ELSE 0)
    BY <1>2, <1>3, <1>4
  <1> QED
    BY <1>5 DEF g, n

LEMMA OneMoreRecv ==
    ASSUME NEW h \in Seq(Observation), NEW o \in Observation, NEW c, NEW s
    PROVE  Before(Recvs(Append(h, o), c, s), Len(h) + 2) = Before(Recvs(h, c, s), Len(h) + 1)
               + (IF Len(h) + 1 \in Recvs(Append(h, o), c, s) THEN 1 ELSE 0)
  <1> DEFINE g == Append(h, o)
             n == Len(h) + 1
  <1>1. /\ Len(h) \in Nat /\ g \in Seq(Observation) /\ Agree(h, g, Len(h))
    BY AppendAgrees
  <1>2. n \in Nat \ {0} /\ n \in 1 .. Len(h) + 1 /\ Len(h) + 2 = n + 1
    BY <1>1
  <1> HIDE DEF g
  <1>3. Before(Recvs(g, c, s), n) = Before(Recvs(h, c, s), n)
    BY <1>1, <1>2, SameRecvNo
  <1> HIDE DEF n
  <1>4. Before(Recvs(g, c, s), n + 1)
            = Before(Recvs(g, c, s), n) + (IF n \in Recvs(g, c, s) THEN 1 ELSE 0)
    BY <1>2, BeforeNext
  <1>5. Before(Recvs(g, c, s), Len(h) + 2) = Before(Recvs(h, c, s), n)
            + (IF n \in Recvs(g, c, s) THEN 1 ELSE 0)
    BY <1>2, <1>3, <1>4
  <1> QED
    BY <1>5 DEF g, n

\* The operations of a history are numbered up to their total.
LEMMA NumbersAreBounded ==
    ASSUME NEW h \in Seq(Observation), NEW i \in LogPos(h)
    PROVE  LogNo(h, i) \in 1 .. Logs(h)
  <1>1. i \in Nat \ {0} /\ i < Len(h) + 1 /\ Len(h) + 1 \in Nat
    BY HistoryPositions DEF LogPos
  <1>2. Before(LogPos(h), i) < Logs(h)
    BY <1>1, BeforeIncreases DEF Logs
  <1>3. Before(LogPos(h), i) \in Nat /\ Logs(h) \in Nat
    BY <1>1, BeforeType DEF Logs
  <1> QED
    BY <1>2, <1>3 DEF LogNo

-----------------------------------------------------------------------------
(* Messages that stay in order *)

LEMMA CountsTyped ==
    ASSUME NEW h \in Seq(Observation), NEW c, NEW s
    PROVE  Sent(h, c) \in Nat /\ Got(h, c, s) \in Nat
  <1>1. Len(h) + 1 \in Nat
    BY HistoryPositions
  <1> QED
    BY <1>1, BeforeType DEF Sent, Got

LEMMA WaitingTyped ==
    ASSUME NEW w \in Seq(Message), NEW s
    PROVE  Waiting(w, s) \in Nat
  <1>1. Len(w) + 1 \in Nat
    BY HistoryPositions
  <1> QED
    BY <1>1, BeforeType DEF Waiting

\* A message stays one in a history that has the same sends on the channel.
LEMMA MessageKept ==
    ASSUME NEW h \in Seq(Observation), NEW g \in Seq(Observation), NEW k \in Nat, Agree(h, g, k),
           NEW p, NEW c, NEW s, NEW n, NEW v, \A j \in Sends(h, c) : j <= k,
           IsMessage(p, s, h, c, n, v)
    PROVE  IsMessage(p, s, g, c, n, v)
  <1>1. PICK j \in Sends(h, c) : Before(Sends(h, c), j) = n /\ v = SendVal(p, s, h, j)
    BY DEF IsMessage
  <1>2. j \in Nat /\ j \in 1 .. k /\ j \in 1 .. k + 1 /\ j - 1 \in Nat /\ j - 1 <= k
    BY HistoryPositions DEF Sends
  <1>3. j \in Sends(g, c)
    BY <1>2, SameSend
  <1>4. Before(Sends(g, c), j) = n
    BY <1>1, <1>2, SameSendNo
  <1>5. SendVal(p, s, g, j) = v
    BY <1>1, <1>2, SamePast DEF SendVal
  <1> QED
    BY <1>3, <1>4, <1>5 DEF IsMessage

LEMMA MessageKeptByAppend ==
    ASSUME NEW h \in Seq(Observation), NEW o \in Observation,
           NEW p, NEW c, NEW s, NEW n, NEW v, IsMessage(p, s, h, c, n, v)
    PROVE  IsMessage(p, s, Append(h, o), c, n, v)
  <1> DEFINE g == Append(h, o)
  <1>1. g \in Seq(Observation) /\ Agree(h, g, Len(h)) /\ Len(h) \in Nat
    BY AppendAgrees
  <1>2. \A j \in Sends(h, c) : j <= Len(h)
    BY HistoryPositions DEF Sends
  <1> HIDE DEF g
  <1>3. IsMessage(p, s, g, c, n, v)
    BY <1>1, <1>2, MessageKept
  <1> QED
    BY <1>3 DEF g

\* The last operation goes, and it was no message on the channel.
LEMMA MessageKeptByDrop ==
    ASSUME NEW h \in Seq(Observation), NEW o \in Observation, o.op # "send",
           NEW p, NEW c, NEW s, NEW n, NEW v, IsMessage(p, s, Append(h, o), c, n, v)
    PROVE  IsMessage(p, s, h, c, n, v)
  <1> DEFINE g == Append(h, o)
  <1>1. /\ g \in Seq(Observation) /\ Agree(g, h, Len(h)) /\ Len(h) \in Nat
        /\ DOMAIN g = 1 .. Len(h) + 1 /\ g[Len(h) + 1] = o
    BY AppendAgrees
  <1>2. \A j \in Sends(g, c) : j <= Len(h)
    <2> TAKE j \in Sends(g, c)
    <2>1. j \in 1 .. Len(h) + 1 /\ j # Len(h) + 1
      BY <1>1 DEF Sends
    <2> QED
      BY <1>1, <2>1
  <1> HIDE DEF g
  <1>3. IsMessage(p, s, g, c, n, v)
    BY DEF g
  <1> QED
    BY <1>1, <1>2, <1>3, MessageKept

\* The sender did something else than send on this channel.
LEMMA SenderMoves ==
    ASSUME NEW h \in Seq(Observation), NEW g \in Seq(Observation),
           NEW p, NEW c, NEW s, NEW ho, NEW buf, NEW w,
           \A n, v : IsMessage(p, s, h, c, n, v) => IsMessage(p, s, g, c, n, v),
           Sent(g, c) = Sent(h, c), InOrder(p, c, s, ho, h, buf, w)
    PROVE  InOrder(p, c, s, ho, g, buf, w)
  BY DEF InOrder

LEMMA SenderNotes ==
    ASSUME NEW h \in Seq(Observation), NEW o \in Observation,
           NEW p, NEW c, NEW s, NEW ho, NEW buf, NEW w,
           ~(o.op = "send" /\ o.chan = c /\ o.error = "none"), InOrder(p, c, s, ho, h, buf, w)
    PROVE  InOrder(p, c, s, ho, Append(h, o), buf, w)
  <1> DEFINE g == Append(h, o)
  <1>1. /\ g \in Seq(Observation) /\ Len(h) \in Nat /\ Len(g) = Len(h) + 1
        /\ g[Len(h) + 1] = o
    BY AppendAgrees
  <1>2. Len(h) + 1 \notin Sends(g, c)
    BY <1>1 DEF Sends
  <1>3. Before(Sends(g, c), Len(h) + 2) = Before(Sends(h, c), Len(h) + 1) + 0
    BY <1>2, OneMoreSend
  <1>4. Sent(h, c) \in Nat /\ Len(g) + 1 = Len(h) + 2
    BY <1>1, CountsTyped
  <1>5. Sent(g, c) = Sent(h, c)
    BY <1>3, <1>4 DEF Sent
  <1>6. \A n, v : IsMessage(p, s, h, c, n, v) => IsMessage(p, s, g, c, n, v)
    BY MessageKeptByAppend
  <1> HIDE DEF g
  <1>7. InOrder(p, c, s, ho, g, buf, w)
    BY <1>1, <1>5, <1>6, SenderMoves
  <1> QED
    BY <1>7 DEF g

LEMMA SenderDrops ==
    ASSUME NEW h \in Seq(Observation), NEW o \in Observation,
           NEW p, NEW c, NEW s, NEW ho, NEW buf, NEW w,
           o.op # "send", InOrder(p, c, s, ho, Append(h, o), buf, w)
    PROVE  InOrder(p, c, s, ho, h, buf, w)
  <1> DEFINE g == Append(h, o)
  <1>1. /\ g \in Seq(Observation) /\ Len(h) \in Nat /\ Len(g) = Len(h) + 1
        /\ g[Len(h) + 1] = o
    BY AppendAgrees
  <1>2. Len(h) + 1 \notin Sends(g, c)
    BY <1>1 DEF Sends
  <1>3. Before(Sends(g, c), Len(h) + 2) = Before(Sends(h, c), Len(h) + 1) + 0
    BY <1>2, OneMoreSend
  <1>4. Sent(h, c) \in Nat /\ Len(g) + 1 = Len(h) + 2
    BY <1>1, CountsTyped
  <1>5. Sent(g, c) = Sent(h, c)
    BY <1>3, <1>4 DEF Sent
  <1>6. \A n, v : IsMessage(p, s, g, c, n, v) => IsMessage(p, s, h, c, n, v)
    BY MessageKeptByDrop
  <1>7. InOrder(p, c, s, ho, g, buf, w)
    OBVIOUS
  <1> HIDE DEF g
  <1> QED
    BY <1>1, <1>5, <1>6, <1>7, SenderMoves

\* The receiver did something else than take a message of s.
LEMMA ReceiverNotes ==
    ASSUME NEW h \in Seq(Observation), NEW o \in Observation,
           NEW p, NEW c, NEW s, NEW hs, NEW buf, NEW w,
           ~(o.op \in RecvKind /\ o.chan = c /\ o.from = s), InOrder(p, c, s, h, hs, buf, w)
    PROVE  InOrder(p, c, s, Append(h, o), hs, buf, w)
  <1> DEFINE g == Append(h, o)
  <1>1. /\ g \in Seq(Observation) /\ Len(h) \in Nat /\ Len(g) = Len(h) + 1
        /\ g[Len(h) + 1] = o /\ Agree(h, g, Len(h)) /\ DOMAIN g = 1 .. Len(h) + 1
    BY AppendAgrees
  <1>2. Len(h) + 1 \notin Recvs(g, c, s)
    BY <1>1 DEF Recvs
  <1>3. Before(Recvs(g, c, s), Len(h) + 2) = Before(Recvs(h, c, s), Len(h) + 1) + 0
    BY <1>2, OneMoreRecv
  <1>4. Got(h, c, s) \in Nat /\ Len(g) + 1 = Len(h) + 2
    BY <1>1, CountsTyped
  <1>5. Got(g, c, s) = Got(h, c, s)
    BY <1>3, <1>4 DEF Got
  <1> HIDE DEF g
  <1>6. ASSUME NEW i \in Recvs(g, c, s)
        PROVE  i \in Recvs(h, c, s) /\ g[i] = h[i] /\ Before(Recvs(g, c, s), i) = Before(Recvs(h, c, s), i)
    <2>1. i \in 1 .. Len(h) + 1 /\ i # Len(h) + 1
      BY <1>1, <1>2, <1>6 DEF Recvs
    <2>2. i \in 1 .. Len(h)
      BY <1>1, <2>1
    <2> QED
      BY <1>1, <1>6, <2>1, <2>2, SameResult, SameRecv, SameRecvNo
  <1>7. InOrder(p, c, s, g, hs, buf, w)
    BY <1>5, <1>6 DEF InOrder
  <1> QED
    BY <1>7 DEF g

\* Positions in a queue.
LEMMA WireTyped ==
    ASSUME NEW w \in Seq(Message), NEW m \in Message, NEW s
    PROVE  /\ Append(w, m) \in Seq(Message) /\ Len(Append(w, m)) = Len(w) + 1
           /\ Len(w) \in Nat /\ Append(w, m)[Len(w) + 1] = m
           /\ \A i \in 1 .. Len(w) : Append(w, m)[i] = w[i]
           /\ \A i \in 1 .. Len(w) : i \in OnWire(w, s) <=> i \in OnWire(Append(w, m), s)
           /\ OnWire(w, s) \subseteq 1 .. Len(w)
           /\ OnWire(Append(w, m), s) \subseteq 1 .. Len(w) + 1
           /\ Len(w) + 1 \in OnWire(Append(w, m), s) <=> m.from = s
  <1> DEFINE g == Append(w, m)
  <1>1. /\ g \in Seq(Message) /\ Len(g) = Len(w) + 1 /\ Len(w) \in Nat
        /\ g[Len(w) + 1] = m /\ \A i \in 1 .. Len(w) : g[i] = w[i]
        /\ DOMAIN w = 1 .. Len(w) /\ DOMAIN g = 1 .. Len(w) + 1
    BY AppendAgrees, AppendProperties
  <1> HIDE DEF g
  <1>2. \A i \in 1 .. Len(w) : i \in OnWire(w, s) <=> i \in OnWire(g, s)
    BY <1>1 DEF OnWire
  <1>3. OnWire(w, s) \subseteq 1 .. Len(w) /\ OnWire(g, s) \subseteq 1 .. Len(w) + 1
    BY <1>1 DEF OnWire
  <1>4. Len(w) + 1 \in OnWire(g, s) <=> m.from = s
    BY <1>1 DEF OnWire
  <1> QED
    BY <1>1, <1>2, <1>3, <1>4 DEF g

\* A message joins the queue behind the others.
LEMMA WireGrows ==
    ASSUME NEW w \in Seq(Message), NEW m \in Message, NEW s
    PROVE  /\ \A i \in OnWire(w, s) : Before(OnWire(Append(w, m), s), i) = Before(OnWire(w, s), i)
           /\ Before(OnWire(Append(w, m), s), Len(w) + 1) = Waiting(w, s)
           /\ Waiting(Append(w, m), s) = Waiting(w, s) + (IF m.from = s THEN 1 ELSE 0)
  <1> DEFINE g == Append(w, m)
             n == Len(w)
  <1>1. /\ n \in Nat /\ Len(g) + 1 = n + 2 /\ OnWire(w, s) \subseteq 1 .. n
        /\ \A i \in 1 .. n : i \in OnWire(w, s) <=> i \in OnWire(g, s)
        /\ n + 1 \in OnWire(g, s) <=> m.from = s
    <2>1. Len(g) = n + 1 /\ n \in Nat
      BY WireTyped
    <2> QED
      BY <2>1, WireTyped
  <1> HIDE DEF g, n
  <1>2. /\ \A i \in 0 .. n + 1 : Before(OnWire(g, s), i) = Before(OnWire(w, s), i)
        /\ Before(OnWire(g, s), n + 2) = Before(OnWire(w, s), n + 1) + (IF n + 1 \in OnWire(g, s) THEN 1 ELSE 0)
    BY <1>1, BeforeGrows
  <1>3. n + 1 \in 0 .. n + 1 /\ \A i \in OnWire(w, s) : i \in 0 .. n + 1
    BY <1>1
  <1>4. Waiting(w, s) = Before(OnWire(w, s), n + 1) /\ Waiting(g, s) = Before(OnWire(g, s), n + 2)
    BY <1>1 DEF Waiting, n
  <1>5. /\ \A i \in OnWire(w, s) : Before(OnWire(g, s), i) = Before(OnWire(w, s), i)
        /\ Before(OnWire(g, s), n + 1) = Waiting(w, s)
        /\ Waiting(g, s) = Waiting(w, s) + (IF m.from = s THEN 1 ELSE 0)
    BY <1>1, <1>2, <1>3, <1>4
  <1> QED
    BY <1>5 DEF g, n

\* Behind the front of the queue, the message at i + 1 becomes the one at i.
WireShift(w, s, i) ==
    /\ i + 1 \in OnWire(w, s) /\ Tail(w)[i] = w[i + 1]
    /\ Before(OnWire(w, s), i + 1)
           = Before(OnWire(Tail(w), s), i) + (IF Head(w).from = s THEN 1 ELSE 0)
    /\ Before(OnWire(Tail(w), s), i) \in Nat

\* A message leaves the queue at the front.
LEMMA WireShrinks ==
    ASSUME NEW w \in Seq(Message), w # <<>>, NEW s
    PROVE  /\ Tail(w) \in Seq(Message) /\ Head(w) = w[1] /\ 1 \in DOMAIN w
           /\ 1 \in OnWire(w, s) <=> Head(w).from = s
           /\ \A i \in OnWire(Tail(w), s) : WireShift(w, s, i)
           /\ Waiting(w, s) = Waiting(Tail(w), s) + (IF Head(w).from = s THEN 1 ELSE 0)
  <1> DEFINE r == Tail(w)
             S == OnWire(w, s)
             T == OnWire(r, s)
  <1>1. /\ r \in Seq(Message) /\ Head(w) = w[1] /\ Len(w) \in Nat \ {0} /\ Len(r) = Len(w) - 1
        /\ \A i \in 1 .. Len(r) : r[i] = w[i + 1]
        /\ DOMAIN w = 1 .. Len(w) /\ DOMAIN r = 1 .. Len(r)
    <2>1. /\ r \in Seq(Message) /\ Head(w) = w[1] /\ Len(w) \in Nat \ {0} /\ Len(r) = Len(w) - 1
          /\ \A i \in 1 .. Len(r) : r[i] = w[i + 1]
      BY HeadTailProperties, EmptySeq
    <2> QED
      BY <2>1, LenProperties
  <1> HIDE DEF r
  <1>2. \A j \in Nat \ {0} : j \in T <=> j + 1 \in S
    BY <1>1 DEF OnWire
  <1>3. 1 \in DOMAIN w /\ (1 \in S <=> Head(w).from = s)
    BY <1>1 DEF OnWire
  <1>4. \A i \in T : i \in Nat \ {0} /\ i \in 1 .. Len(r)
    BY <1>1 DEF OnWire
  <1> HIDE DEF S, T
  <1>5. \A i \in Nat \ {0} : Before(S, i + 1) = Before(T, i) + (IF 1 \in S THEN 1 ELSE 0)
    BY <1>2, BeforeShifted
  <1>6. Waiting(w, s) = Before(S, Len(w) + 1) /\ Waiting(r, s) = Before(T, Len(w))
    BY <1>1 DEF Waiting, S, T
  <1>7. Waiting(w, s) = Waiting(r, s) + (IF Head(w).from = s THEN 1 ELSE 0)
    BY <1>1, <1>3, <1>5, <1>6
  <1>8. ASSUME NEW i \in T
        PROVE  /\ i + 1 \in S /\ r[i] = w[i + 1]
               /\ Before(S, i + 1) = Before(T, i) + (IF Head(w).from = s THEN 1 ELSE 0)
               /\ Before(T, i) \in Nat
    <2>1. i \in Nat \ {0} /\ i \in 1 .. Len(r)
      BY <1>4, <1>8
    <2>2. Before(T, i) \in Nat
      BY <2>1, BeforeType
    <2> QED
      BY <1>1, <1>2, <1>3, <1>5, <1>8, <2>1, <2>2
  <1> QED
    BY <1>1, <1>3, <1>7, <1>8 DEF r, S, T, WireShift

\* s sends a message on c.
LEMMA Sends1 ==
    ASSUME NEW h \in Seq(Observation), NEW o \in Observation, NEW m \in Message,
           NEW ho \in Seq(Observation), NEW buf \in Seq(Val), NEW w \in Seq(Message),
           NEW p, NEW c, NEW s,
           o.op = "send", o.chan = c, o.error = "none", m.from = s, m.val = Code(p, s, h).val,
           InOrder(p, c, s, ho, h, buf, w)
    PROVE  InOrder(p, c, s, ho, Append(h, o), buf, Append(w, m))
  <1> DEFINE g == Append(h, o)
             x == Append(w, m)
             n == Len(h) + 1
  <1>1. /\ g \in Seq(Observation) /\ Len(h) \in Nat /\ Len(g) = n
        /\ g[n] = o /\ Agree(h, g, Len(h)) /\ DOMAIN g = 1 .. n
    BY AppendAgrees
  <1>2. n \in Sends(g, c)
    BY <1>1 DEF Sends
  <1>3. Before(Sends(g, c), Len(h) + 2) = Sent(h, c) + 1
    BY <1>2, OneMoreSend DEF Sent
  <1>4. Before(Sends(g, c), n) = Sent(h, c)
    <2>1. n \in 1 .. Len(h) + 1
      BY <1>1
    <2> HIDE DEF g
    <2>2. Before(Sends(h, c), n) = Before(Sends(g, c), n)
      BY <1>1, <2>1, SameSendNo
    <2> QED
      BY <2>2 DEF Sent
  <1>5. SendVal(p, s, g, n) = m.val
    <2>1. n - 1 = Len(h)
      BY <1>1
    <2> HIDE DEF g
    <2>2. SubSeq(h, 1, Len(h)) = SubSeq(g, 1, Len(h))
      BY <1>1, AgreeSame
    <2>3. SubSeq(g, 1, n - 1) = h
      BY <2>1, <2>2, WholeHistory
    <2> QED
      BY <2>3 DEF SendVal
  <1>6. IsMessage(p, s, g, c, Sent(h, c), m.val)
    BY <1>2, <1>4, <1>5 DEF IsMessage
  <1>7. \A k, v : IsMessage(p, s, h, c, k, v) => IsMessage(p, s, g, c, k, v)
    BY MessageKeptByAppend
  <1>8. Sent(g, c) = Sent(h, c) + 1
    <2>1. Len(g) + 1 = Len(h) + 2
      BY <1>1
    <2> QED
      BY <1>3, <2>1 DEF Sent
  <1>9. /\ x \in Seq(Message)
        /\ \A i \in OnWire(w, s) : Before(OnWire(x, s), i) = Before(OnWire(w, s), i)
        /\ Before(OnWire(x, s), Len(w) + 1) = Waiting(w, s)
        /\ Waiting(x, s) = Waiting(w, s) + 1
        /\ x[Len(w) + 1] = m
    BY WireGrows, WireTyped
  <1>10. \A i \in OnWire(x, s) : i = Len(w) + 1 \/ (i \in OnWire(w, s) /\ x[i] = w[i])
    <2> TAKE i \in OnWire(x, s)
    <2>1. Len(w) \in Nat /\ i \in 1 .. Len(w) + 1
      BY WireTyped
    <2>2. i \in 1 .. Len(w) => i \in OnWire(w, s) /\ x[i] = w[i]
      BY WireTyped
    <2> QED
      BY <2>1, <2>2
  <1>11. /\ Sent(h, c) \in Nat /\ Got(ho, c, s) \in Nat /\ Waiting(w, s) \in Nat /\ Len(buf) \in Nat
    BY CountsTyped, WaitingTyped
  <1> HIDE DEF g, x, n
  <1>12. Sent(h, c) = Got(ho, c, s) + Len(buf) + Waiting(w, s)
    BY DEF InOrder
  <1>13. Sent(g, c) = Got(ho, c, s) + Len(buf) + Waiting(x, s)
    BY <1>8, <1>9, <1>11, <1>12
  <1>14. ASSUME NEW i \in OnWire(x, s)
         PROVE  IsMessage(p, s, g, c, Got(ho, c, s) + Len(buf) + Before(OnWire(x, s), i), x[i].val)
    <2>1. CASE i = Len(w) + 1
      BY <1>6, <1>9, <1>12, <2>1
    <2>2. CASE i \in OnWire(w, s) /\ x[i] = w[i]
      BY <1>7, <1>9, <2>2 DEF InOrder
    <2> QED
      BY <1>10, <2>1, <2>2
  <1>15. InOrder(p, c, s, ho, g, buf, x)
    BY <1>7, <1>13, <1>14 DEF InOrder
  <1> QED
    BY <1>15 DEF g, x

\* Another thread sends on c.
LEMMA OtherSends ==
    ASSUME NEW m \in Message, NEW w \in Seq(Message), NEW p, NEW c, NEW s, NEW ho, NEW hs, NEW buf,
           m.from # s, InOrder(p, c, s, ho, hs, buf, w)
    PROVE  InOrder(p, c, s, ho, hs, buf, Append(w, m))
  <1> DEFINE x == Append(w, m)
  <1>1. /\ \A i \in OnWire(w, s) : Before(OnWire(x, s), i) = Before(OnWire(w, s), i)
        /\ Waiting(w, s) \in Nat
        /\ Waiting(x, s) = Waiting(w, s) + 0
    BY WireGrows, WaitingTyped
  <1>2. \A i \in OnWire(x, s) : i \in OnWire(w, s) /\ x[i] = w[i]
    <2> TAKE i \in OnWire(x, s)
    <2>1. Len(w) \in Nat /\ i \in 1 .. Len(w) + 1 /\ i # Len(w) + 1
      BY WireTyped
    <2>2. i \in 1 .. Len(w) => i \in OnWire(w, s) /\ x[i] = w[i]
      BY WireTyped
    <2> QED
      BY <2>1, <2>2
  <1> HIDE DEF x
  <1>3. Waiting(x, s) = Waiting(w, s)
    BY <1>1
  <1>4. InOrder(p, c, s, ho, hs, buf, x)
    BY <1>1, <1>2, <1>3 DEF InOrder
  <1> QED
    BY <1>4 DEF x

\* A message of another thread is taken from the queue.
LEMMA OtherTaken ==
    ASSUME NEW w \in Seq(Message), w # <<>>, NEW p, NEW c, NEW s, NEW ho, NEW hs, NEW buf,
           Head(w).from # s, InOrder(p, c, s, ho, hs, buf, w)
    PROVE  InOrder(p, c, s, ho, hs, buf, Tail(w))
  <1> DEFINE x == Tail(w)
  <1>1. /\ \A i \in OnWire(x, s) :
               /\ i + 1 \in OnWire(w, s) /\ x[i] = w[i + 1]
               /\ Before(OnWire(w, s), i + 1) = Before(OnWire(x, s), i)
        /\ Waiting(w, s) = Waiting(x, s) + 0
        /\ Waiting(x, s) \in Nat
    <2>1. /\ x \in Seq(Message)
          /\ \A i \in OnWire(x, s) : WireShift(w, s, i)
          /\ Waiting(w, s) = Waiting(x, s) + 0
      BY WireShrinks
    <2>2. Waiting(x, s) \in Nat
      BY <2>1, WaitingTyped
    <2>3. ASSUME NEW i \in OnWire(x, s)
          PROVE  /\ i + 1 \in OnWire(w, s) /\ x[i] = w[i + 1]
                 /\ Before(OnWire(w, s), i + 1) = Before(OnWire(x, s), i)
      <3>1. /\ i + 1 \in OnWire(w, s) /\ x[i] = w[i + 1]
            /\ Before(OnWire(w, s), i + 1) = Before(OnWire(x, s), i) + 0
            /\ Before(OnWire(x, s), i) \in Nat
        BY <2>1, <2>3 DEF WireShift
      <3> HIDE DEF x
      <3> QED
        BY <3>1
    <2> QED
      BY <2>1, <2>2, <2>3
  <1> HIDE DEF x
  <1>2. Waiting(x, s) = Waiting(w, s)
    BY <1>1
  <1>3. InOrder(p, c, s, ho, hs, buf, x)
    BY <1>1, <1>2 DEF InOrder
  <1> QED
    BY <1>3 DEF x

\* The receiver moves a message of s from the queue to the buffer.
LEMMA Buffered ==
    ASSUME NEW w \in Seq(Message), w # <<>>, NEW p, NEW c, NEW s,
           NEW ho \in Seq(Observation), NEW hs, NEW buf \in Seq(Val),
           Head(w).from = s, InOrder(p, c, s, ho, hs, buf, w)
    PROVE  InOrder(p, c, s, ho, hs, Append(buf, Head(w).val), Tail(w))
  <1> DEFINE x == Tail(w)
             v == Head(w).val
             b == Append(buf, v)
             n == Got(ho, c, s)
  <1>1. /\ x \in Seq(Message) /\ Head(w) = w[1] /\ 1 \in OnWire(w, s)
        /\ \A i \in OnWire(x, s) :
               /\ i + 1 \in OnWire(w, s) /\ x[i] = w[i + 1]
               /\ Before(OnWire(w, s), i + 1) = Before(OnWire(x, s), i) + 1
               /\ Before(OnWire(x, s), i) \in Nat
        /\ Waiting(w, s) = Waiting(x, s) + 1
    <2>1. /\ x \in Seq(Message) /\ Head(w) = w[1] /\ 1 \in OnWire(w, s)
          /\ \A i \in OnWire(x, s) : WireShift(w, s, i)
          /\ Waiting(w, s) = Waiting(x, s) + 1
      BY WireShrinks
    <2> QED
      BY <2>1 DEF WireShift
  <1>2. Waiting(x, s) \in Nat
    BY <1>1, WaitingTyped
  <1>3. v \in Val
    <2>1. w[1] \in Message
      BY <1>1, WireShrinks, LenProperties
    <2> QED
      BY <1>1, <2>1 DEF Message
  <1>4. /\ Len(buf) \in Nat /\ Len(b) = Len(buf) + 1 /\ b[Len(buf) + 1] = v
        /\ \A i \in 1 .. Len(buf) : b[i] = buf[i]
        /\ DOMAIN b = 1 .. Len(buf) + 1 /\ DOMAIN buf = 1 .. Len(buf)
    BY <1>3, AppendAgrees, AppendProperties
  <1>5. n \in Nat
    BY CountsTyped
  <1> HIDE DEF x, v, b, n
  <1>6. Before(OnWire(w, s), 1) = 0
    BY BeforeFirst
  <1>7. /\ Sent(hs, c) = n + Len(buf) + Waiting(w, s)
        /\ \A i \in Recvs(ho, c, s) :
               IsMessage(p, s, hs, c, Before(Recvs(ho, c, s), i), ho[i].val)
        /\ \A i \in DOMAIN buf : IsMessage(p, s, hs, c, n + i - 1, buf[i])
        /\ \A i \in OnWire(w, s) :
               IsMessage(p, s, hs, c, n + Len(buf) + Before(OnWire(w, s), i), w[i].val)
    BY DEF InOrder, n
  <1>8. Sent(hs, c) = n + Len(b) + Waiting(x, s)
    BY <1>1, <1>2, <1>4, <1>5, <1>7
  <1>9. ASSUME NEW i \in DOMAIN b PROVE IsMessage(p, s, hs, c, n + i - 1, b[i])
    <2>1. CASE i \in 1 .. Len(buf)
      BY <1>4, <1>7, <2>1
    <2>2. CASE i = Len(buf) + 1
      <3>1. IsMessage(p, s, hs, c, n + Len(buf) + 0, v)
        BY <1>1, <1>6, <1>7 DEF v
      <3>2. n + i - 1 = n + Len(buf) + 0
        BY <1>4, <1>5, <2>2
      <3>3. b[i] = v
        BY <1>4, <2>2
      <3> QED
        BY <3>1, <3>2, <3>3
    <2> QED
      BY <1>4, <1>9, <2>1, <2>2
  <1>10. ASSUME NEW i \in OnWire(x, s)
         PROVE  IsMessage(p, s, hs, c, n + Len(b) + Before(OnWire(x, s), i), x[i].val)
    <2>1. i + 1 \in OnWire(w, s) /\ x[i] = w[i + 1]
      BY <1>1, <1>10
    <2>2. n + Len(buf) + Before(OnWire(w, s), i + 1) = n + Len(b) + Before(OnWire(x, s), i)
      BY <1>1, <1>4, <1>5, <1>10
    <2>3. IsMessage(p, s, hs, c, n + Len(buf) + Before(OnWire(w, s), i + 1), w[i + 1].val)
      BY <1>7, <2>1
    <2> QED
      BY <2>1, <2>2, <2>3
  <1>11. InOrder(p, c, s, ho, hs, b, x)
    BY <1>7, <1>8, <1>9, <1>10 DEF InOrder, n
  <1> QED
    BY <1>11 DEF b, x, v

\* The receiver returns the first message of s in the buffer.
LEMMA Unbuffered ==
    ASSUME NEW w \in Seq(Message), NEW p, NEW c, NEW s,
           NEW h \in Seq(Observation), NEW o \in Observation, NEW hs,
           NEW buf \in Seq(Val), buf # <<>>,
           o.op \in RecvKind, o.chan = c, o.from = s, o.val = Head(buf),
           InOrder(p, c, s, h, hs, buf, w)
    PROVE  InOrder(p, c, s, Append(h, o), hs, Tail(buf), w)
  <1> DEFINE g == Append(h, o)
             b == Tail(buf)
             n == Got(h, c, s)
             k == Len(h) + 1
  <1>1. /\ g \in Seq(Observation) /\ Len(h) \in Nat /\ Len(g) = k
        /\ g[k] = o /\ Agree(h, g, Len(h)) /\ DOMAIN g = 1 .. k
    BY AppendAgrees
  <1>2. k \in Recvs(g, c, s)
    BY <1>1 DEF Recvs
  <1>3. Got(g, c, s) = n + 1
    <2>1. Before(Recvs(g, c, s), Len(h) + 2) = Before(Recvs(h, c, s), Len(h) + 1) + 1
      BY <1>2, OneMoreRecv
    <2>2. Len(g) + 1 = Len(h) + 2
      BY <1>1
    <2> QED
      BY <2>1, <2>2 DEF Got
  <1>4. /\ Len(buf) \in Nat \ {0} /\ Len(b) = Len(buf) - 1 /\ Head(buf) = buf[1]
        /\ DOMAIN buf = 1 .. Len(buf) /\ DOMAIN b = 1 .. Len(buf) - 1
        /\ \A i \in 1 .. Len(buf) - 1 : b[i] = buf[i + 1]
    <2>1. /\ b \in Seq(Val) /\ Head(buf) = buf[1] /\ Len(buf) \in Nat \ {0} /\ Len(b) = Len(buf) - 1
          /\ \A i \in 1 .. Len(b) : b[i] = buf[i + 1]
      BY HeadTailProperties, EmptySeq
    <2> HIDE DEF b
    <2> QED
      BY <2>1, LenProperties
  <1>5. n \in Nat /\ Waiting(w, s) \in Nat
    BY CountsTyped, WaitingTyped
  <1> HIDE DEF g, b, n
  <1>6. ASSUME NEW i \in Recvs(g, c, s)
        PROVE  \/ i = k
               \/ /\ i \in Recvs(h, c, s) /\ g[i] = h[i]
                  /\ Before(Recvs(g, c, s), i) = Before(Recvs(h, c, s), i)
    <2>1. i \in 1 .. Len(h) + 1
      BY <1>1, <1>6 DEF Recvs
    <2>2. CASE i \in 1 .. Len(h)
      BY <1>1, <1>6, <2>1, <2>2, SameResult, SameRecv, SameRecvNo
    <2> QED
      BY <1>1, <2>1, <2>2
  <1>7. Before(Recvs(g, c, s), k) = n
    <2>1. k \in 1 .. Len(h) + 1
      BY <1>1
    <2>2. Before(Recvs(h, c, s), k) = Before(Recvs(g, c, s), k)
      BY <1>1, <2>1, SameRecvNo
    <2> QED
      BY <2>2 DEF Got, n
  <1> HIDE DEF k
  <1>8. /\ Sent(hs, c) = n + Len(buf) + Waiting(w, s)
        /\ \A i \in Recvs(h, c, s) :
               IsMessage(p, s, hs, c, Before(Recvs(h, c, s), i), h[i].val)
        /\ \A i \in DOMAIN buf : IsMessage(p, s, hs, c, n + i - 1, buf[i])
        /\ \A i \in OnWire(w, s) :
               IsMessage(p, s, hs, c, n + Len(buf) + Before(OnWire(w, s), i), w[i].val)
    BY DEF InOrder, n
  <1>9. Sent(hs, c) = Got(g, c, s) + Len(b) + Waiting(w, s)
    BY <1>3, <1>4, <1>5, <1>8
  <1>10. ASSUME NEW i \in Recvs(g, c, s)
         PROVE  IsMessage(p, s, hs, c, Before(Recvs(g, c, s), i), g[i].val)
    <2>1. CASE i = k
      <3>1. IsMessage(p, s, hs, c, n + 1 - 1, buf[1])
        BY <1>4, <1>8
      <3>2. n + 1 - 1 = n
        BY <1>5
      <3>3. g[i].val = buf[1]
        BY <1>1, <1>4, <2>1
      <3> QED
        BY <1>7, <2>1, <3>1, <3>2, <3>3
    <2>2. CASE i # k
      BY <1>6, <1>8, <1>10, <2>2
    <2> QED
      BY <2>1, <2>2
  <1>11. ASSUME NEW i \in DOMAIN b PROVE IsMessage(p, s, hs, c, Got(g, c, s) + i - 1, b[i])
    <2>1. i \in 1 .. Len(buf) - 1 /\ i + 1 \in DOMAIN buf
      BY <1>4, <1>11
    <2>2. Got(g, c, s) + i - 1 = n + (i + 1) - 1
      BY <1>3, <1>5, <2>1
    <2>3. IsMessage(p, s, hs, c, n + (i + 1) - 1, buf[i + 1])
      BY <1>8, <2>1
    <2>4. b[i] = buf[i + 1]
      BY <1>4, <2>1
    <2> QED
      BY <2>2, <2>3, <2>4
  <1>12. Got(g, c, s) + Len(b) = n + Len(buf)
    BY <1>3, <1>4, <1>5
  <1>13. InOrder(p, c, s, g, hs, b, w)
    BY <1>8, <1>9, <1>10, <1>11, <1>12 DEF InOrder
  <1> QED
    BY <1>13 DEF g, b

\* The receiver returns a message of s from the queue, when none is in the buffer.
LEMMA Received1 ==
    ASSUME NEW w \in Seq(Message), w # <<>>, NEW p, NEW c, NEW s,
           NEW h \in Seq(Observation), NEW o \in Observation, NEW hs, NEW buf \in Seq(Val),
           Head(w).from = s, o.op \in RecvKind, o.chan = c, o.from = s, o.val = Head(w).val,
           buf = <<>>, InOrder(p, c, s, h, hs, buf, w)
    PROVE  InOrder(p, c, s, Append(h, o), hs, buf, Tail(w))
  <1> DEFINE v == Head(w).val
             b == Append(buf, v)
  <1>1. InOrder(p, c, s, h, hs, b, Tail(w))
    BY Buffered
  <1>2. v \in Val /\ Tail(w) \in Seq(Message)
    <2>1. Head(w) \in Message /\ Tail(w) \in Seq(Message)
      BY HeadTailProperties
    <2> QED
      BY <2>1 DEF Message
  <1>3. b \in Seq(Val) /\ b # <<>> /\ Head(b) = v /\ Tail(b) = buf
    BY <1>2
  <1> HIDE DEF v, b
  <1>4. o.val = Head(b)
    BY <1>3 DEF v
  <1>5. InOrder(p, c, s, Append(h, o), hs, Tail(b), Tail(w))
    BY <1>1, <1>2, <1>3, <1>4, Unbuffered
  <1> QED
    BY <1>3, <1>5

-----------------------------------------------------------------------------
(* What a step leaves alone *)

\* A step of t, seen from the other threads.
Frame(t) ==
    /\ UNCHANGED <<setup, mode, recorded, saved, log>>
    /\ desynced => desynced'
    /\ \A u \in Id \ {t} :
           /\ hist'[u] = hist[u] /\ pending'[u] = pending[u] /\ expected'[u] = expected[u]
           /\ at'[u] = at[u] /\ status'[u] = status[u] /\ next'[u] = next[u]
           /\ channel'[u] = channel[u]
           /\ u \in sender' <=> u \in sender
           /\ u \in open' <=> u \in open

ThreadFrame(t) ==
    /\ desynced => desynced'
    /\ \A u \in Id \ {t} :
           /\ hist'[u] = hist[u] /\ pending'[u] = pending[u] /\ expected'[u] = expected[u]
           /\ at'[u] = at[u] /\ status'[u] = status[u]

LogFrame(t) ==
    /\ UNCHANGED <<mode, saved, log>>
    /\ \A u \in Id \ {t} :
           /\ next'[u] = next[u] /\ channel'[u] = channel[u]
           /\ u \in sender' <=> u \in sender
           /\ u \in open' <=> u \in open

LEMMA LogFrames ==
    ASSUME LogTypeOK, NEW t \in Id,
           \/ InitEventSender(t)
           \/ \E entry : WriteEvent(t, entry)
           \/ TakeRecorder
           \/ InitEventReceiver(t)
           \/ EventReceiverPanics(t)
           \/ GetLogEntry(t)
           \/ UNCHANGED logVars
    PROVE  LogFrame(t)
  <1> USE DEF LogTypeOK, LogFrame
  <1>1. CASE InitEventSender(t)
    BY <1>1 DEF InitEventSender, replayVars
  <1>2. CASE \E entry : WriteEvent(t, entry)
    BY <1>2 DEF WriteEvent, replayVars
  <1>3. CASE TakeRecorder
    BY <1>3 DEF TakeRecorder, replayVars
  <1>4. CASE InitEventReceiver(t)
    BY <1>4 DEF InitEventReceiver, recordVars
  <1>5. CASE EventReceiverPanics(t)
    BY <1>5 DEF EventReceiverPanics, recordVars
  <1>6. CASE GetLogEntry(t)
    BY <1>6 DEF GetLogEntry, recordVars
  <1>7. CASE UNCHANGED logVars
    BY <1>7 DEF logVars, recordVars, replayVars
  <1> QED
    BY <1>1, <1>2, <1>3, <1>4, <1>5, <1>6, <1>7

LEMMA ThreadFrames ==
    ASSUME TypeOK, NEW t \in Id,
           \/ UNCHANGED desynced /\ \E obs : Return(t, obs)
           \/ UNCHANGED desynced /\ Panic(t)
           \/ HandleDesync(t)
           \/ UNCHANGED <<desynced, threadVars>>
    PROVE  ThreadFrame(t)
  <1> USE DEF TypeOK, ThreadFrame
  <1>1. CASE UNCHANGED desynced /\ \E obs : Return(t, obs)
    BY <1>1 DEF Return, MoveTo
  <1>2. CASE UNCHANGED desynced /\ Panic(t)
    BY <1>2 DEF Panic
  <1>3. CASE HandleDesync(t)
    BY <1>3 DEF HandleDesync, Panic, MoveTo
  <1>4. CASE UNCHANGED <<desynced, threadVars>>
    BY <1>4 DEF threadVars
  <1> QED
    BY <1>1, <1>2, <1>3, <1>4

LEMMA StepFrame ==
    ASSUME TypeOK, NEW t \in Id, ThreadStep(t)
    PROVE  Frame(t)
  <1> SUFFICES ThreadFrame(t) /\ LogFrame(t) /\ UNCHANGED <<setup, recorded>>
    BY DEF Frame, ThreadFrame, LogFrame
  <1>0. LogTypeOK /\ UNCHANGED setup
    BY DEF TypeOK, ThreadStep
  <1>1. CASE RecordOp(t)
    <2>1. ThreadFrame(t)
      BY <1>1 DEF RecordOp, ThreadFrame, MoveTo, TypeOK
    <2> QED
      BY <1>0, <1>1, <2>1, LogFrames DEF RecordOp
  <1>2. CASE RecordEvent(t)
    BY <1>0, <1>2, LogFrames, ThreadFrames DEF RecordEvent, threadVars
  <1>3. CASE RecordEventFails(t)
    BY <1>0, <1>3, LogFrames, ThreadFrames DEF RecordEventFails
  <1>4. CASE OpenLog(t)
    <2>1. ThreadFrame(t)
      BY <1>4 DEF OpenLog, ThreadFrame, TypeOK
    <2> QED
      BY <1>0, <1>4, <2>1, LogFrames DEF OpenLog
  <1>5. CASE FallAsleep(t)
    <2>1. ThreadFrame(t)
      BY <1>5 DEF FallAsleep, ThreadFrame, TypeOK
    <2> QED
      BY <1>0, <1>5, <2>1, LogFrames DEF FallAsleep
  <1>6. CASE ReplayMismatch(t)
    BY <1>0, <1>6, LogFrames, ThreadFrames DEF ReplayMismatch
  <1>7. CASE ReplaySend(t)
    <2>1. ThreadFrame(t)
      BY <1>7 DEF ReplaySend, ThreadFrame, MoveTo, TypeOK
    <2> QED
      BY <1>0, <1>7, <2>1, LogFrames DEF ReplaySend
  <1>8. CASE Deliver(t)
    BY <1>0, <1>8, LogFrames, ThreadFrames DEF Deliver
  <1>9. CASE ReplayRecv(t)
    <2>1. ThreadFrame(t)
      <3>1. CASE \E obs : Return(t, obs)
        BY <1>9, <3>1, ThreadFrames DEF ReplayRecv
      <3>2. CASE /\ expected' = [expected EXCEPT ![t] = NextEntry(t).from]
                 /\ MoveTo(t, "receive")
                 /\ UNCHANGED <<chanVars, status, pending, hist>>
        BY <1>9, <3>2 DEF ReplayRecv, ThreadFrame, MoveTo, TypeOK
      <3> QED
        BY <1>9, <3>1, <3>2 DEF ReplayRecv
    <2> QED
      BY <1>0, <1>9, <2>1, LogFrames DEF ReplayRecv
  <1>10. CASE ReceiveExpected(t)
    BY <1>0, <1>10, LogFrames, ThreadFrames DEF ReceiveExpected
  <1>11. CASE ReceiveTimesOut(t) \/ WakeUp(t) \/ SendDesynced(t)
    BY <1>0, <1>11, LogFrames, ThreadFrames DEF ReceiveTimesOut, WakeUp, SendDesynced
  <1>12. CASE ReceiveAny(t)
    BY <1>0, <1>12, LogFrames, ThreadFrames DEF ReceiveAny
  <1>13. CASE Join(t)
    BY <1>0, <1>13, LogFrames, ThreadFrames DEF Join
  <1>14. CASE ExecutionDone(t)
    <2>1. ThreadFrame(t)
      <3>1. CASE \E obs : Return(t, obs)
        BY <1>14, <3>1, ThreadFrames DEF ExecutionDone
      <3>2. CASE MoveTo(t, "flush") /\ UNCHANGED <<status, pending, expected, hist, desynced>>
        BY <3>2 DEF ThreadFrame, MoveTo, TypeOK
      <3> QED
        BY <1>14, <3>1, <3>2 DEF ExecutionDone
    <2> QED
      BY <1>0, <1>14, <2>1, LogFrames DEF ExecutionDone
  <1>15. CASE Exit(t)
    <2>1. ThreadFrame(t)
      BY <1>15 DEF Exit, ThreadFrame, TypeOK
    <2> QED
      BY <1>0, <1>15, <2>1, LogFrames DEF Exit
  <1> QED
    BY <1>1, <1>2, <1>3, <1>4, <1>5, <1>6, <1>7, <1>8, <1>9, <1>10, <1>11, <1>12, <1>13,
       <1>14, <1>15 DEF ThreadStep

-----------------------------------------------------------------------------
(* What a step does to the histories and the channels *)

\* t gets the result obs.
Appends(t, obs) ==
    /\ obs \in Observation
    /\ ResultOf(Op(t), obs)
    /\ H(t) = hist[t]
    /\ H(t)' = Append(H(t), obs)

Quiet(t) == UNCHANGED chanVars /\ H(t)' = H(t)

Notes(t) ==
    /\ UNCHANGED chanVars
    /\ \E obs : /\ Appends(t, obs)
                /\ ~(obs.op = "send" /\ obs.error = "none")
                /\ ~(obs.op \in RecvKind /\ obs.from \in Id)

SendsOne(t) ==
    LET c == Op(t).chan IN
    /\ c \in Chan /\ Op(t).val \in Val
    /\ \E obs : /\ Appends(t, obs)
                /\ obs.op = "send" /\ obs.chan = c /\ obs.error = "none"
    /\ wire' = [wire EXCEPT ![c] = Append(@, [from |-> t, val |-> Op(t).val])]
    /\ UNCHANGED buffer

TakesFromWire(t) ==
    LET c == Op(t).chan IN
    /\ c \in Chan /\ Owner[c] = t /\ wire[c] # <<>>
    /\ buffer[c][Head(wire[c]).from] = <<>>
    /\ \E obs : /\ Appends(t, obs)
                /\ obs.op \in RecvKind /\ obs.chan = c
                /\ obs.from = Head(wire[c]).from /\ obs.val = Head(wire[c]).val
    /\ wire' = [wire EXCEPT ![c] = Tail(@)]
    /\ UNCHANGED buffer

TakesFromBuffer(t) ==
    LET c == Op(t).chan IN
    /\ c \in Chan /\ Owner[c] = t
    /\ \E s \in Id :
           /\ buffer[c][s] # <<>>
           /\ \E obs : /\ Appends(t, obs)
                       /\ obs.op \in RecvKind /\ obs.chan = c
                       /\ obs.from = s /\ obs.val = Head(buffer[c][s])
           /\ buffer' = [buffer EXCEPT ![c][s] = Tail(@)]
    /\ UNCHANGED wire

Buffers(t) ==
    LET c == Op(t).chan
        m == Head(wire[c])
    IN
    /\ H(t)' = H(t)
    /\ c \in Chan /\ Owner[c] = t /\ wire[c] # <<>>
    /\ at[t] = "receive" /\ m.from # expected[t] /\ UNCHANGED <<at, expected, hist>>
    /\ wire' = [wire EXCEPT ![c] = Tail(@)]
    /\ buffer' = [buffer EXCEPT ![c][m.from] = Append(@, m.val)]

\* t has lost what it received: the log is closed.
Forgets(t) ==
    /\ mode = "Record" /\ t \in saved
    /\ UNCHANGED chanVars
    /\ H(t)' = hist[t]
    /\ pending[t].op # "send" /\ H(t) = Append(hist[t], pending[t])

Effect(t) ==
    \/ Quiet(t) \/ Notes(t) \/ SendsOne(t)
    \/ TakesFromWire(t) \/ TakesFromBuffer(t) \/ Buffers(t) \/ Forgets(t)

LEMMA RecvAtHome ==
    ASSUME OwnReceivers, TypeOK, NEW t \in Id, Op(t).kind \in RecvKind
    PROVE  Owner[Op(t).chan] = t
  BY DEF OwnReceivers, TypeOK, Op

LEMMA ReturnAppends ==
    ASSUME TypeOK, NEW t \in Id, at[t] # "log", NEW obs \in Observation, ResultOf(Op(t), obs),
           Return(t, obs)
    PROVE  Appends(t, obs)
  <1>1. H(t) = hist[t] /\ hist'[t] = Append(hist[t], obs) /\ at'[t] = "idle"
    BY DEF Return, MoveTo, TypeOK, H
  <1> QED
    BY <1>1 DEF Appends, H

\* Failures, messages and finished sends are results.
LEMMA FailureIsResult ==
    ASSUME NEW op \in Operation, op.kind \in LoggedKind, NEW obs,
           \/ \E e : obs = Failure(op, e)
           \/ \E s, v, e : obs = Result(op, s, v, e)
    PROVE  ResultOf(op, obs) /\ obs.op = op.kind /\ obs.chan = op.chan
  BY DEF Failure, Result, ResultOf

LEMMA SendEffect ==
    ASSUME TypeOK, NEW t \in Id, NEW op, op = Op(t), op \in Operation, op.kind = "send",
           NEW obs, Send(t, op, obs), Appends(t, obs)
    PROVE  SendsOne(t) \/ Notes(t)
  <1>1. op.chan \in Chan /\ op.val \in Val
    BY OpShape
  <1>2. obs = Failure(op, "SendError") \/ obs = Failure(op, "none")
    BY DEF Send, SendOutcomes
  <1>3. obs.op = "send" /\ obs.chan = op.chan
    BY <1>2 DEF Failure, Result
  <1>4. CASE obs.error = "none"
    <2>1. wire' = [wire EXCEPT ![op.chan] = Append(@, [from |-> t, val |-> op.val])]
          /\ UNCHANGED buffer
      BY <1>4 DEF Send
    <2> QED
      BY <1>1, <1>3, <1>4, <2>1 DEF SendsOne
  <1>5. CASE obs.error # "none"
    <2>1. obs.error = "SendError"
      BY <1>2, <1>5 DEF Failure, Result
    <2>2. UNCHANGED chanVars
      BY <2>1 DEF Send, chanVars
    <2>3. "send" \notin RecvKind
      BY DEF RecvKind
    <2> QED
      BY <1>3, <1>5, <2>2, <2>3 DEF Notes
  <1> QED
    BY <1>4, <1>5

LEMMA RecvEffect ==
    ASSUME TypeOK, OwnReceivers, NEW t \in Id, NEW op, op = Op(t), op \in Operation,
           op.kind \in RecvKind, \A s \in Id : buffer[op.chan][s] = <<>>,
           NEW obs, Recv(op, obs), Appends(t, obs)
    PROVE  TakesFromWire(t) \/ Notes(t)
  <1> DEFINE q == wire[op.chan]
  <1>1. op.chan \in Chan /\ Owner[op.chan] = t /\ q \in Seq(Message)
    BY OpShape, RecvAtHome DEF TypeOK
  <1>2. CASE q # <<>>
    <2>1. obs = Result(op, Head(q).from, Head(q).val, "none")
      BY <1>2 DEF Recv, RecvOutcomes
    <2>2. /\ obs.op = op.kind /\ obs.chan = op.chan /\ obs.from = Head(q).from
          /\ obs.val = Head(q).val /\ obs.error = "none"
      BY <2>1 DEF Result
    <2>3. wire' = [wire EXCEPT ![op.chan] = Tail(@)] /\ UNCHANGED buffer
      BY <2>2 DEF Recv
    <2>4. Head(q).from \in Id
      <3>1. Head(q) \in Message
        BY <1>1, <1>2
      <3> QED
        BY <3>1 DEF Message
    <2> QED
      BY <1>1, <1>2, <2>2, <2>3, <2>4 DEF TakesFromWire
  <1>3. CASE q = <<>>
    <2>1. \E e \in RecvFailure : obs = Failure(op, e)
      BY <1>3 DEF Recv, RecvOutcomes, RecvFailure
    <2>2. obs.op = op.kind /\ obs.from = NoId /\ obs.error # "none"
      BY <2>1 DEF Failure, Result, RecvFailure
    <2>3. UNCHANGED chanVars
      BY <2>2 DEF Recv, chanVars
    <2>4. op.kind # "send"
      BY DEF RecvKind
    <2> QED
      BY <2>2, <2>3, <2>4, NoIdAssumption DEF Notes
  <1> QED
    BY <1>2, <1>3

\* handle_desync changes no history, but for a receive that cannot be logged.
LEMMA DesyncQuiet ==
    ASSUME TypeOK, NEW t \in Id, at[t] # "log" \/ KeepGoing = FALSE, HandleDesync(t), UNCHANGED chanVars
    PROVE  Quiet(t)
  <1>1. CASE Panic(t)
    BY <1>1 DEF Panic, Quiet, H
  <1>2. CASE KeepGoing = TRUE /\ MoveTo(t, "desync") /\ UNCHANGED hist
    BY <1>2 DEF MoveTo, Quiet, H, TypeOK
  <1> QED
    BY <1>1, <1>2 DEF HandleDesync

LEMMA StepEffect ==
    ASSUME WellFormedProgram, OwnReceivers, IInv, Places, NEW t \in Id, ThreadStep(t)
    PROVE  Effect(t)
  <1> USE DEF Effect
  <1>0. TypeOK /\ Op(t) \in Operation /\ LoggedKind = RecvKind \cup {"send"} /\ Inside(t)
    BY OpTyped DEF IInv, InsideOp, LoggedKind
  <1>1. ASSUME RecordOp(t) PROVE Effect(t)
    <2> DEFINE op == Op(t)
    <2>1. /\ at[t] = "idle" /\ op.kind \in LoggedKind /\ op \in Operation /\ mode = "Record"
      BY <1>0, <1>1 DEF RecordOp, Calls, At
    <2>2. PICK obs : /\ \/ op.kind = "send" /\ Send(t, op, obs)
                        \/ op.kind \in RecvKind /\ Recv(op, obs)
                     /\ pending' = [pending EXCEPT ![t] = obs]
      BY <1>1 DEF RecordOp
    <2>3. obs \in Observation
      BY <1>0, <2>1, <2>2, SendTyped, RecvTyped DEF Observation
    <2>4. ResultOf(op, obs)
      <3>1. \/ \E e : obs = Failure(op, e)
            \/ \E s, v, e : obs = Result(op, s, v, e)
        BY <2>2 DEF Send, SendOutcomes, Recv, RecvOutcomes
      <3> QED
        BY <2>1, <3>1, FailureIsResult
    <2>5. H(t) = hist[t] /\ H(t)' = Append(hist[t], obs)
      BY <1>0, <1>1, <2>1, <2>2 DEF RecordOp, MoveTo, H, TypeOK
    <2>6. Appends(t, obs)
      BY <2>3, <2>4, <2>5 DEF Appends
    <2>7. op.kind \in RecvKind => \A s \in Id : buffer[op.chan][s] = <<>>
      BY <2>1, OpShape DEF Places, NothingBuffered
    <2> HIDE DEF op
    <2>8. op = Op(t)
      BY DEF op
    <2> QED
      BY <1>0, <2>1, <2>2, <2>6, <2>7, <2>8, SendEffect, RecvEffect
  <1>2. ASSUME RecordEvent(t) PROVE Effect(t)
    BY <1>0, <1>2 DEF RecordEvent, At, threadVars, Return, MoveTo, Quiet, H, TypeOK
  <1>3. ASSUME RecordEventFails(t) PROVE Effect(t)
    <2>1. at[t] = "log" /\ UNCHANGED chanVars
      BY <1>3 DEF RecordEventFails, At
    <2>2. CASE Panic(t)
      BY <2>1, <2>2 DEF Panic, Quiet, H
    <2>3. CASE CannotWriteEvent(t) /\ pending[t].op # "send" /\ HandleDesync(t)
      <3>1. CASE KeepGoing = FALSE
        BY <1>0, <2>1, <2>3, <3>1, DesyncQuiet
      <3>2. CASE KeepGoing = TRUE
        <4>1. MoveTo(t, "desync") /\ UNCHANGED hist
          BY <2>3, <3>2 DEF HandleDesync
        <4>2. H(t)' = hist[t] /\ H(t) = Append(hist[t], pending[t])
          BY <1>0, <2>1, <4>1 DEF MoveTo, H, TypeOK
        <4>3. mode = "Record" /\ t \in saved
          BY <2>3 DEF CannotWriteEvent, Places, InRecord
        <4> QED
          BY <2>1, <2>3, <4>2, <4>3 DEF Forgets
      <3>3. KeepGoing = TRUE \/ KeepGoing = FALSE
        BY <2>3 DEF HandleDesync
      <3> QED
        BY <3>1, <3>2, <3>3
    <2> QED
      BY <1>3, <2>2, <2>3 DEF RecordEventFails
  <1>4. ASSUME OpenLog(t) PROVE Effect(t)
    BY <1>4 DEF OpenLog, Quiet, H
  <1>5. ASSUME FallAsleep(t) PROVE Effect(t)
    BY <1>5 DEF FallAsleep, Quiet, H
  <1>6. ASSUME ReplayMismatch(t) PROVE Effect(t)
    <2>1. at[t] # "log" /\ HandleDesync(t) /\ UNCHANGED chanVars
      BY <1>6 DEF ReplayMismatch, AsksLog, Calls, At
    <2> QED
      BY <1>0, <2>1, DesyncQuiet
  <1>7. ASSUME ReplaySend(t) PROVE Effect(t)
    BY <1>0, <1>7 DEF ReplaySend, AsksLog, Calls, At, MoveTo, Quiet, H, TypeOK
  <1>8. ASSUME Deliver(t) PROVE Effect(t)
    <2> DEFINE op == Op(t)
    <2>1. op \in Operation /\ op.kind = "send" /\ op.kind \in LoggedKind /\ at[t] # "log"
      BY <1>0, <1>8 DEF Deliver, At, Inside
    <2>2. PICK obs : Send(t, op, obs) /\ Return(t, obs)
      BY <1>8 DEF Deliver
    <2>3. obs \in Observation
      BY <1>0, <2>1, <2>2, SendTyped DEF Observation
    <2>4. ResultOf(op, obs)
      <3>1. \E e : obs = Failure(op, e)
        BY <2>2 DEF Send, SendOutcomes
      <3> QED
        BY <2>1, <3>1, FailureIsResult
    <2>5. Appends(t, obs)
      BY <1>0, <2>1, <2>2, <2>3, <2>4, ReturnAppends
    <2> HIDE DEF op
    <2>6. op = Op(t)
      BY DEF op
    <2> QED
      BY <1>0, <2>1, <2>2, <2>5, <2>6, SendEffect
  <1>9. ASSUME ReplayRecv(t) PROVE Effect(t)
    <2> DEFINE op == Op(t)
               entry == NextEntry(t)
               early == buffer[op.chan][entry.from]
    <2>1. /\ op \in Operation /\ op.kind \in RecvKind /\ op.kind \in LoggedKind
          /\ op.chan \in Chan /\ Owner[op.chan] = t /\ at[t] = "idle"
      BY <1>0, <1>9, OpShape, RecvAtHome DEF ReplayRecv, AsksLog, Calls, At
    <2>2. entry \in LogEntry /\ entry.op \in RecvKind
      BY <1>0, <1>9, <2>1, NextEntryTyped DEF ReplayRecv, GetLogEntry, Mismatch, TypeOK
    <2>3. CASE /\ entry.error # "none"
               /\ Return(t, Failure(op, entry.error))
               /\ UNCHANGED chanVars
      <3> DEFINE obs == Failure(op, entry.error)
      <3>1. entry.error \in RecvFailure
        BY <2>2, <2>3 DEF LogEntry
      <3>2. obs \in Observation
        BY <2>1, <3>1 DEF Failure, Result, RecvResult, Observation
      <3>3. ResultOf(op, obs)
        BY <2>1, FailureIsResult
      <3>4. Appends(t, obs)
        BY <1>0, <2>1, <2>3, <3>2, <3>3, ReturnAppends
      <3>5. obs.op = op.kind /\ obs.from = NoId /\ op.kind # "send"
        BY <2>1 DEF Failure, Result, RecvKind
      <3> HIDE DEF obs
      <3> QED
        BY <2>3, <3>4, <3>5, NoIdAssumption DEF Notes
    <2>4. CASE /\ entry.error = "none" /\ early # <<>>
               /\ Return(t, Result(op, entry.from, Head(early), "none"))
               /\ buffer' = [buffer EXCEPT ![op.chan][entry.from] = Tail(@)]
               /\ UNCHANGED wire
      <3> DEFINE s == entry.from
                 obs == Result(op, s, Head(early), "none")
      <3>1. s \in Id
        BY <2>2, <2>4 DEF LogEntry, RecvKind, RecvFailure
      <3>2. obs \in Observation
        <4>1. early \in Seq(Val)
          BY <1>0, <2>1, <3>1 DEF TypeOK
        <4>2. Head(early) \in Val
          BY <2>4, <4>1
        <4> QED
          BY <2>1, <3>1, <4>2, MessageResult
      <3>3. ResultOf(op, obs)
        BY <2>1, FailureIsResult
      <3>4. Appends(t, obs)
        BY <1>0, <2>1, <2>4, <3>2, <3>3, ReturnAppends
      <3>5. obs.op = op.kind /\ obs.from = s /\ obs.chan = op.chan /\ obs.val = Head(early)
        BY DEF Result
      <3> HIDE DEF obs
      <3> QED
        BY <2>1, <2>4, <3>1, <3>4, <3>5 DEF TakesFromBuffer
    <2>5. CASE MoveTo(t, "receive") /\ UNCHANGED <<chanVars, hist>>
      BY <1>0, <2>1, <2>5 DEF MoveTo, Quiet, H, TypeOK
    <2> QED
      BY <1>9, <2>3, <2>4, <2>5 DEF ReplayRecv
  <1>10. ASSUME ReceiveExpected(t) PROVE Effect(t)
    <2> DEFINE op == Op(t)
               c == op.chan
               m == Head(wire[c])
    <2>1. /\ op \in Operation /\ op.kind \in RecvKind /\ op.kind \in LoggedKind
          /\ c \in Chan /\ Owner[c] = t /\ at[t] = "receive" /\ expected[t] \in Id
          /\ wire[c] # <<>> /\ buffer[c][expected[t]] = <<>>
      BY <1>0, <1>10, OpShape, RecvAtHome DEF ReceiveExpected, At, Inside, Places, InEither
    <2>2. m.from \in Id /\ m.val \in Val
      <3>1. wire[c] \in Seq(Message)
        BY <1>0, <2>1 DEF TypeOK
      <3>2. m \in Message
        BY <2>1, <3>1
      <3> QED
        BY <3>2 DEF Message
    <2>3. CASE /\ m.from = expected[t]
               /\ Return(t, Result(op, m.from, m.val, "none"))
               /\ UNCHANGED buffer
      <3> DEFINE obs == Result(op, m.from, m.val, "none")
      <3>1. obs \in Observation
        BY <2>1, <2>2, MessageResult
      <3>2. ResultOf(op, obs)
        BY <2>1, FailureIsResult
      <3>3. Appends(t, obs)
        BY <1>0, <2>1, <2>3, <3>1, <3>2, ReturnAppends
      <3>4. obs.op = op.kind /\ obs.from = m.from /\ obs.chan = c /\ obs.val = m.val
        BY DEF Result
      <3>5. wire' = [wire EXCEPT ![c] = Tail(@)]
        BY <1>10 DEF ReceiveExpected
      <3> HIDE DEF obs
      <3> QED
        BY <2>1, <2>3, <3>3, <3>4, <3>5 DEF TakesFromWire
    <2>4. CASE /\ m.from # expected[t]
               /\ buffer' = [buffer EXCEPT ![c][m.from] = Append(@, m.val)]
               /\ UNCHANGED threadVars
      <3>1. wire' = [wire EXCEPT ![c] = Tail(@)]
        BY <1>10 DEF ReceiveExpected
      <3> QED
        BY <2>1, <2>4, <3>1 DEF Buffers, threadVars, H
    <2> QED
      BY <1>10, <2>3, <2>4 DEF ReceiveExpected
  <1>11. ASSUME ReceiveTimesOut(t) \/ WakeUp(t) \/ SendDesynced(t) PROVE Effect(t)
    <2>1. at[t] # "log" /\ HandleDesync(t) /\ UNCHANGED chanVars
      BY <1>11 DEF ReceiveTimesOut, WakeUp, SendDesynced, Calls, At, Places, InEither
    <2> QED
      BY <1>0, <2>1, DesyncQuiet
  <1>12. ASSUME ReceiveAny(t) PROVE Effect(t)
    <2> DEFINE op == Op(t)
               c == op.chan
    <2>1. /\ op \in Operation /\ op.kind \in RecvKind /\ op.kind \in LoggedKind
          /\ c \in Chan /\ Owner[c] = t /\ at[t] # "log"
      BY <1>0, <1>12, OpShape, RecvAtHome DEF ReceiveAny, At
    <2>2. ASSUME NEW s \in Id, buffer[c][s] # <<>>,
                 buffer' = [buffer EXCEPT ![c][s] = Tail(@)],
                 Return(t, Result(op, s, Head(buffer[c][s]), "none")),
                 UNCHANGED wire
          PROVE  Effect(t)
      <3> DEFINE v == Head(buffer[c][s])
                 obs == Result(op, s, v, "none")
      <3>1. v \in Val
        <4>1. buffer[c][s] \in Seq(Val)
          BY <1>0, <2>1 DEF TypeOK
        <4> QED
          BY <2>2, <4>1
      <3>2. obs \in Observation
        BY <2>1, <3>1, MessageResult
      <3>3. ResultOf(op, obs)
        BY <2>1, FailureIsResult
      <3>4. Appends(t, obs)
        BY <1>0, <2>1, <2>2, <3>2, <3>3, ReturnAppends
      <3>5. obs.op = op.kind /\ obs.from = s /\ obs.chan = c /\ obs.val = v
        BY DEF Result
      <3> HIDE DEF obs
      <3> QED
        BY <2>1, <2>2, <3>4, <3>5 DEF TakesFromBuffer
    <2>3. ASSUME \A s \in Id : buffer[c][s] = <<>>, NEW obs, Recv(op, obs), Return(t, obs)
          PROVE  Effect(t)
      <3>1. obs \in Observation
        BY <1>0, <2>1, <2>3, RecvTyped DEF Observation
      <3>2. ResultOf(op, obs)
        <4>1. \/ \E e : obs = Failure(op, e)
              \/ \E s, v, e : obs = Result(op, s, v, e)
          BY <2>3 DEF Recv, RecvOutcomes
        <4> QED
          BY <2>1, <4>1, FailureIsResult
      <3>3. Appends(t, obs)
        BY <1>0, <2>1, <2>3, <3>1, <3>2, ReturnAppends
      <3> HIDE DEF op
      <3>4. op = Op(t)
        BY DEF op
      <3> QED
        BY <1>0, <2>1, <2>3, <3>3, <3>4, RecvEffect
    <2> QED
      BY <1>12, <2>2, <2>3 DEF ReceiveAny
  <1>13. ASSUME NEW obs \in {NoResult, Done}, Return(t, obs), Op(t).kind = obs.op,
                at[t] # "log", UNCHANGED chanVars
         PROVE  Effect(t)
    <2>1. obs \in Observation
      BY <1>13, NoResultTyped
    <2>2. obs.op \in {"join", "execution_done"}
      BY <1>13 DEF NoResult, Done
    <2>3. obs.op \notin RecvKind /\ obs.op # "send"
      BY <2>2 DEF RecvKind
    <2>4. ResultOf(Op(t), obs)
      BY <1>0, <1>13, <2>3 DEF ResultOf
    <2>5. Appends(t, obs)
      BY <1>0, <1>13, <2>1, <2>4, ReturnAppends
    <2> QED
      BY <1>13, <2>3, <2>5 DEF Notes
  <1>14. ASSUME Join(t) PROVE Effect(t)
    BY <1>13, <1>14 DEF Join, Calls, At, NoResult
  <1>15. ASSUME ExecutionDone(t) PROVE Effect(t)
    <2>1. CASE Calls(t, {"execution_done"}) /\ MoveTo(t, "flush") /\ UNCHANGED <<chanVars, hist>>
      BY <1>0, <2>1 DEF Calls, At, MoveTo, Quiet, H, TypeOK
    <2>2. CASE /\ at[t] # "log" /\ Op(t).kind = "execution_done"
               /\ Return(t, Done) /\ UNCHANGED chanVars
      BY <1>13, <2>2 DEF Done, NoResult
    <2>3. at[t] = "flush" => Op(t).kind = "execution_done"
      BY <1>0 DEF Inside
    <2> QED
      BY <1>15, <2>1, <2>2, <2>3 DEF ExecutionDone, Calls, At
  <1>16. ASSUME Exit(t) PROVE Effect(t)
    BY <1>16 DEF Exit, Quiet, H
  <1> QED
    BY <1>1, <1>2, <1>3, <1>4, <1>5, <1>6, <1>7, <1>8, <1>9, <1>10, <1>11, <1>12,
       <1>14, <1>15, <1>16 DEF ThreadStep

-----------------------------------------------------------------------------
(* Messages stay in order *)

LEMMA HTyped ==
    ASSUME TypeOK, NEW t \in Id
    PROVE  H(t) \in Seq(Observation) /\ hist[t] \in Seq(Observation) /\ pending[t] \in Observation
  BY DEF TypeOK, H

LEMMA FrameH ==
    ASSUME NEW t \in Id, Frame(t), NEW u \in Id \ {t}
    PROVE  H(u)' = H(u)
  BY DEF Frame, H

LEMMA FrameLive ==
    ASSUME NEW t \in Id, Frame(t), NEW c, Live(c)'
    PROVE  Live(c) /\ Program' = Program
  BY DEF Frame, Live, Program

\* t gets a result that is no message of s on c ...
LEMMA AppendReceiver ==
    ASSUME TypeOK, NEW t \in Id, Frame(t), NEW o, Appends(t, o), NEW p, NEW c, NEW s, NEW r \in Id,
           NEW hs, NEW buf, NEW w,
           ~(o.op \in RecvKind /\ o.chan = c /\ o.from = s),
           InOrder(p, c, s, H(r), hs, buf, w)
    PROVE  InOrder(p, c, s, H(r)', hs, buf, w)
  <1>1. CASE r = t
    <2>1. H(t) \in Seq(Observation) /\ o \in Observation /\ H(t)' = Append(H(t), o)
      BY HTyped DEF Appends
    <2> QED
      BY <1>1, <2>1, ReceiverNotes
  <1>2. CASE r # t
    BY <1>2, FrameH
  <1> QED
    BY <1>1, <1>2

\* ... or sends none on c.
LEMMA AppendSender ==
    ASSUME TypeOK, NEW t \in Id, Frame(t), NEW o, Appends(t, o), NEW p, NEW c, NEW s \in Id,
           NEW ho, NEW buf, NEW w,
           ~(o.op = "send" /\ o.chan = c /\ o.error = "none"),
           InOrder(p, c, s, ho, H(s), buf, w)
    PROVE  InOrder(p, c, s, ho, H(s)', buf, w)
  <1>1. CASE s = t
    <2>1. H(t) \in Seq(Observation) /\ o \in Observation /\ H(t)' = Append(H(t), o)
      BY HTyped DEF Appends
    <2> QED
      BY <1>1, <2>1, SenderNotes
  <1>2. CASE s # t
    BY <1>2, FrameH
  <1> QED
    BY <1>1, <1>2

LEMMA OwnerTyped ==
    ASSUME NEW c \in Chan
    PROVE  Owner[c] \in Id
  BY ProgramAssumption

LEMMA NotesKeepOrder ==
    ASSUME TypeOK, NEW t \in Id, Frame(t), Notes(t), NEW c \in Chan, NEW s \in Id,
           Program' = Program, Flow(c, s)
    PROVE  Flow(c, s)'
  <1>1. PICK o : /\ Appends(t, o)
                 /\ ~(o.op = "send" /\ o.error = "none")
                 /\ ~(o.op \in RecvKind /\ o.from \in Id)
    BY DEF Notes
  <1>2. InOrder(Program, c, s, H(Owner[c])', H(s), buffer[c][s], wire[c])
    BY <1>1, OwnerTyped, AppendReceiver DEF Flow
  <1>3. InOrder(Program, c, s, H(Owner[c])', H(s)', buffer[c][s], wire[c])
    BY <1>1, <1>2, AppendSender
  <1>4. buffer' = buffer /\ wire' = wire
    BY DEF Notes, chanVars
  <1> QED
    BY <1>3, <1>4 DEF Flow

LEMMA SendKeepsOrder ==
    ASSUME TypeOK, NEW t \in Id, Frame(t), SendsOne(t), NEW c \in Chan, NEW s \in Id,
           Program' = Program, Flow(c, s)
    PROVE  Flow(c, s)'
  <1> DEFINE d == Op(t).chan
             m == [from |-> t, val |-> Op(t).val]
  <1>1. PICK o : Appends(t, o) /\ o.op = "send" /\ o.chan = d /\ o.error = "none"
    BY DEF SendsOne
  <1>2. /\ d \in Chan /\ m \in Message /\ m.from = t /\ m.val = Op(t).val
        /\ wire' = [wire EXCEPT ![d] = Append(wire[d], m)] /\ buffer' = buffer
    BY DEF SendsOne, Message
  <1> HIDE DEF d, m
  <1>3. wire \in [Chan -> Seq(Message)] /\ buffer[c][s] \in Seq(Val)
    BY DEF TypeOK
  <1>4. o.op \notin RecvKind
    BY <1>1 DEF RecvKind
  <1>5. InOrder(Program, c, s, H(Owner[c])', H(s), buffer[c][s], wire[c])
    BY <1>1, <1>4, OwnerTyped, AppendReceiver DEF Flow
  <1>6. CASE c # d
    <2>1. InOrder(Program, c, s, H(Owner[c])', H(s)', buffer[c][s], wire[c])
      BY <1>1, <1>5, <1>6, AppendSender
    <2>2. wire'[c] = wire[c]
      BY <1>2, <1>3, <1>6
    <2> QED
      BY <1>2, <2>1, <2>2 DEF Flow
  <1>7. CASE c = d
    <2>1. wire'[c] = Append(wire[c], m) /\ wire[c] \in Seq(Message)
      BY <1>2, <1>3, <1>7
    <2>2. CASE s = t
      <3>1. H(s) \in Seq(Observation) /\ o \in Observation /\ H(s)' = Append(H(s), o)
        BY <1>1, <2>2, HTyped DEF Appends
      <3>2. m.val = Code(Program, s, H(s)).val
        BY <1>1, <1>2, <2>2 DEF Appends, Op, Program
      <3>3. H(Owner[c])' \in Seq(Observation)
        <4>1. CASE Owner[c] = t
          BY <2>2, <3>1, <4>1
        <4>2. CASE Owner[c] # t
          BY <4>2, FrameH, HTyped, OwnerTyped
        <4> QED
          BY <4>1, <4>2
      <3> DEFINE ho == H(Owner[c])'
                 hs == H(s)
                 buf == buffer[c][s]
                 w == wire[c]
                 p == Program
      <3>4. InOrder(p, c, s, ho, hs, buf, w)
        BY <1>5
      <3>5. /\ ho \in Seq(Observation) /\ hs \in Seq(Observation) /\ buf \in Seq(Val)
            /\ w \in Seq(Message) /\ m.val = Code(p, s, hs).val /\ H(s)' = Append(hs, o)
            /\ wire'[c] = Append(w, m) /\ buffer'[c][s] = buf /\ o \in Observation
            /\ m.from = s /\ o.chan = c
        BY <1>1, <1>2, <1>3, <1>7, <2>1, <2>2, <3>1, <3>2, <3>3
      <3> HIDE DEF ho, hs, buf, w, p
      <3>6. InOrder(p, c, s, ho, Append(hs, o), buf, Append(w, m))
        BY <1>1, <1>2, <3>4, <3>5, Sends1
      <3> QED
        BY <3>5, <3>6 DEF Flow, ho, p
    <2>3. CASE s # t
      <3>1. InOrder(Program, c, s, H(Owner[c])', H(s), buffer[c][s], Append(wire[c], m))
        BY <1>2, <1>5, <2>1, <2>3, OtherSends
      <3>2. H(s)' = H(s)
        BY <2>3, FrameH
      <3> QED
        BY <1>2, <2>1, <3>1, <3>2 DEF Flow
    <2> QED
      BY <2>2, <2>3
  <1> QED
    BY <1>6, <1>7

LEMMA TakeKeepsOrder ==
    ASSUME TypeOK, NEW t \in Id, Frame(t), TakesFromWire(t), NEW c \in Chan, NEW s \in Id,
           Program' = Program, Flow(c, s)
    PROVE  Flow(c, s)'
  <1> DEFINE d == Op(t).chan
             x == wire[d]
  <1>1. PICK o : /\ Appends(t, o) /\ o.op \in RecvKind /\ o.chan = d
                 /\ o.from = Head(x).from /\ o.val = Head(x).val
    BY DEF TakesFromWire
  <1>2. /\ d \in Chan /\ Owner[d] = t /\ x # <<>> /\ buffer[d][Head(x).from] = <<>>
        /\ wire' = [wire EXCEPT ![d] = Tail(x)] /\ buffer' = buffer
    BY DEF TakesFromWire
  <1> HIDE DEF d
  <1>3. wire \in [Chan -> Seq(Message)] /\ buffer[c][s] \in Seq(Val)
    BY DEF TypeOK
  <1>4. o.op # "send"
    BY <1>1 DEF RecvKind
  <1>5. CASE c # d
    <2>1. InOrder(Program, c, s, H(Owner[c])', H(s), buffer[c][s], wire[c])
      BY <1>1, <1>5, OwnerTyped, AppendReceiver DEF Flow
    <2>2. InOrder(Program, c, s, H(Owner[c])', H(s)', buffer[c][s], wire[c])
      BY <1>1, <1>4, <2>1, AppendSender
    <2>3. wire'[c] = wire[c]
      BY <1>2, <1>3, <1>5
    <2> QED
      BY <1>2, <2>2, <2>3 DEF Flow
  <1>6. CASE c = d
    <2>1. wire'[c] = Tail(wire[c]) /\ wire[c] \in Seq(Message) /\ wire[c] # <<>> /\ Owner[c] = t
      BY <1>2, <1>3, <1>6
    <2>2. InOrder(Program, c, s, H(t)', H(s), buffer[c][s], Tail(wire[c]))
      <3>1. H(t) \in Seq(Observation) /\ o \in Observation /\ H(t)' = Append(H(t), o)
        BY <1>1, HTyped DEF Appends
      <3>2. InOrder(Program, c, s, H(t), H(s), buffer[c][s], wire[c])
        BY <2>1 DEF Flow
      <3>3. CASE Head(wire[c]).from = s
        <4> DEFINE buf == buffer[c][s]
                   w == wire[c]
                   h == H(t)
                   hs == H(s)
                   p == Program
        <4>1. /\ buf \in Seq(Val) /\ buf = <<>> /\ w \in Seq(Message) /\ w # <<>>
              /\ h \in Seq(Observation) /\ o.chan = c /\ o.from = s /\ o.val = Head(w).val
              /\ Head(w).from = s
          BY <1>1, <1>2, <1>3, <1>6, <2>1, <3>1, <3>3
        <4>2. InOrder(p, c, s, h, hs, buf, w)
          BY <3>2
        <4> HIDE DEF buf, w, h, hs, p
        <4>3. InOrder(p, c, s, Append(h, o), hs, buf, Tail(w))
          BY <1>1, <3>1, <4>1, <4>2, Received1
        <4> QED
          BY <3>1, <4>3 DEF buf, w, h, hs, p
      <3>4. CASE Head(wire[c]).from # s
        <4>1. o.from # s
          BY <1>1, <1>6, <3>4
        <4>2. InOrder(Program, c, s, H(t)', H(s), buffer[c][s], wire[c])
          BY <1>1, <3>2, <4>1, AppendReceiver
        <4> QED
          BY <2>1, <3>4, <4>2, OtherTaken
      <3> QED
        BY <3>3, <3>4
    <2>3. InOrder(Program, c, s, H(t)', H(s)', buffer[c][s], Tail(wire[c]))
      BY <1>1, <1>4, <2>2, AppendSender
    <2> QED
      BY <1>2, <2>1, <2>3 DEF Flow
  <1> QED
    BY <1>5, <1>6

LEMMA UnbufferKeepsOrder ==
    ASSUME TypeOK, NEW t \in Id, Frame(t), TakesFromBuffer(t), NEW c \in Chan, NEW s \in Id,
           Program' = Program, Flow(c, s)
    PROVE  Flow(c, s)'
  <1> DEFINE d == Op(t).chan
  <1>1. PICK r \in Id : /\ buffer[d][r] # <<>>
                        /\ \E o : /\ Appends(t, o)
                                  /\ o.op \in RecvKind /\ o.chan = d
                                  /\ o.from = r /\ o.val = Head(buffer[d][r])
                        /\ buffer' = [buffer EXCEPT ![d][r] = Tail(@)]
    BY DEF TakesFromBuffer
  <1>2. PICK o : /\ Appends(t, o) /\ o.op \in RecvKind /\ o.chan = d
                 /\ o.from = r /\ o.val = Head(buffer[d][r])
    BY <1>1
  <1>3. d \in Chan /\ Owner[d] = t /\ wire' = wire
    BY DEF TakesFromBuffer
  <1> HIDE DEF d
  <1>4. wire[c] \in Seq(Message) /\ buffer \in [Chan -> [Id -> Seq(Val)]] /\ buffer[c][s] \in Seq(Val)
    BY DEF TypeOK
  <1>5. o.op # "send"
    BY <1>2 DEF RecvKind
  <1>6. InOrder(Program, c, s, H(Owner[c])', H(s), buffer'[c][s], wire[c])
    <2>1. CASE c # d \/ s # r
      <3>1. ~(o.chan = c /\ o.from = s)
        BY <1>2, <2>1
      <3>2. buffer'[c][s] = buffer[c][s]
        BY <1>1, <1>3, <1>4, <2>1
      <3>3. InOrder(Program, c, s, H(Owner[c])', H(s), buffer[c][s], wire[c])
        BY <1>2, <3>1, OwnerTyped, AppendReceiver DEF Flow
      <3> QED
        BY <3>2, <3>3
    <2>2. CASE c = d /\ s = r
      <3> DEFINE buf == buffer[c][s]
                 w == wire[c]
                 h == H(t)
                 hs == H(s)
                 p == Program
      <3>1. /\ h \in Seq(Observation) /\ o \in Observation /\ H(t)' = Append(h, o)
        BY <1>2, HTyped DEF Appends
      <3>2. /\ buf \in Seq(Val) /\ buf # <<>> /\ w \in Seq(Message)
            /\ o.chan = c /\ o.from = s /\ o.val = Head(buf) /\ Owner[c] = t
            /\ buffer'[c][s] = Tail(buf)
        BY <1>1, <1>2, <1>3, <1>4, <2>2
      <3>3. InOrder(p, c, s, h, hs, buf, w)
        BY <3>2 DEF Flow
      <3> HIDE DEF buf, w, h, hs, p
      <3>4. InOrder(p, c, s, Append(h, o), hs, Tail(buf), w)
        BY <1>2, <3>1, <3>2, <3>3, Unbuffered
      <3> QED
        BY <3>1, <3>2, <3>4 DEF w, hs, p
    <2> QED
      BY <2>1, <2>2
  <1>7. InOrder(Program, c, s, H(Owner[c])', H(s)', buffer'[c][s], wire[c])
    BY <1>2, <1>5, <1>6, AppendSender
  <1> QED
    BY <1>3, <1>7 DEF Flow

LEMMA BufferKeepsOrder ==
    ASSUME TypeOK, NEW t \in Id, Frame(t), Buffers(t), NEW c \in Chan, NEW s \in Id,
           Program' = Program, Flow(c, s)
    PROVE  Flow(c, s)'
  <1> DEFINE d == Op(t).chan
             m == Head(wire[d])
  <1>1. /\ d \in Chan /\ wire[d] # <<>>
        /\ wire' = [wire EXCEPT ![d] = Tail(wire[d])]
        /\ buffer' = [buffer EXCEPT ![d][m.from] = Append(@, m.val)]
        /\ H(t)' = H(t)
    BY DEF Buffers
  <1>2. \A u \in Id : H(u)' = H(u)
    BY <1>1, FrameH
  <1>3. /\ wire \in [Chan -> Seq(Message)] /\ buffer \in [Chan -> [Id -> Seq(Val)]]
        /\ H(Owner[c]) \in Seq(Observation)
    BY HTyped, OwnerTyped DEF TypeOK
  <1>4. InOrder(Program, c, s, H(Owner[c]), H(s), buffer[c][s], wire[c])
    BY DEF Flow
  <1> HIDE DEF d
  <1>5. InOrder(Program, c, s, H(Owner[c]), H(s), buffer'[c][s], wire'[c])
    <2>1. CASE c # d
      BY <1>1, <1>3, <1>4, <2>1
    <2>2. CASE c = d /\ s # m.from
      <3>1. buffer'[c][s] = buffer[c][s] /\ wire'[c] = Tail(wire[c]) /\ wire[c] \in Seq(Message)
            /\ wire[c] # <<>> /\ Head(wire[c]).from # s
        BY <1>1, <1>3, <2>2
      <3> QED
        BY <1>4, <3>1, OtherTaken
    <2>3. CASE c = d /\ s = m.from
      <3> DEFINE buf == buffer[c][s]
                 w == wire[c]
                 ho == H(Owner[c])
                 hs == H(s)
                 p == Program
      <3>1. /\ buf \in Seq(Val) /\ w \in Seq(Message) /\ w # <<>> /\ Head(w).from = s
            /\ ho \in Seq(Observation)
            /\ buffer'[c][s] = Append(buf, Head(w).val) /\ wire'[c] = Tail(w)
        BY <1>1, <1>3, <2>3
      <3>2. InOrder(p, c, s, ho, hs, buf, w)
        BY <1>4
      <3> HIDE DEF buf, w, ho, hs, p
      <3>3. InOrder(p, c, s, ho, hs, Append(buf, Head(w).val), Tail(w))
        BY <3>1, <3>2, Buffered
      <3> QED
        BY <3>1, <3>3 DEF ho, hs, p
    <2> QED
      BY <2>1, <2>2, <2>3
  <1> QED
    BY <1>2, <1>5, OwnerTyped DEF Flow

\* The messages stay in order, whatever a thread does.
LEMMA StepMessages ==
    ASSUME TypeOK, Messages, NEW t \in Id, Frame(t), Effect(t)
    PROVE  Messages'
  <1> SUFFICES ASSUME NEW c \in Chan, NEW s \in Id, Live(c)' PROVE Flow(c, s)'
    BY DEF Messages
  <1>1. Flow(c, s) /\ Program' = Program /\ Live(c)
    BY FrameLive DEF Messages
  <1>2. CASE Quiet(t)
    <2>1. \A u \in Id : H(u)' = H(u)
      BY <1>2, FrameH DEF Quiet
    <2> QED
      BY <1>1, <1>2, <2>1, OwnerTyped DEF Quiet, chanVars, Flow
  <1>3. CASE Forgets(t)
    <2>1. /\ Owner[c] # t /\ buffer' = buffer /\ wire' = wire
          /\ H(t)' = hist[t] /\ pending[t].op # "send" /\ H(t) = Append(hist[t], pending[t])
      BY <1>1, <1>3 DEF Forgets, Live, chanVars
    <2>2. H(Owner[c])' = H(Owner[c])
      BY <2>1, FrameH, OwnerTyped
    <2>3. CASE s = t
      <3>1. InOrder(Program, c, s, H(Owner[c]), Append(hist[t], pending[t]), buffer[c][s], wire[c])
        BY <1>1, <2>1, <2>3 DEF Flow
      <3>2. InOrder(Program, c, s, H(Owner[c]), hist[t], buffer[c][s], wire[c])
        BY <2>1, <3>1, HTyped, SenderDrops
      <3> QED
        BY <1>1, <2>1, <2>2, <2>3, <3>2 DEF Flow
    <2>4. CASE s # t
      BY <1>1, <2>1, <2>2, <2>4, FrameH DEF Flow
    <2> QED
      BY <2>3, <2>4
  <1> QED
    BY <1>1, <1>2, <1>3, NotesKeepOrder, SendKeepsOrder, TakeKeepsOrder, UnbufferKeepsOrder,
       BufferKeepsOrder DEF Effect

-----------------------------------------------------------------------------
(* Histories follow the program *)

LEMMA FollowsAgree ==
    ASSUME NEW p, NEW t, NEW g \in Seq(Observation), NEW h \in Seq(Observation),
           Agree(g, h, Len(h)), Follows(p, t, g)
    PROVE  Follows(p, t, h)
  <1> SUFFICES ASSUME NEW i \in DOMAIN h
               PROVE  ResultOf(Code(p, t, SubSeq(h, 1, i - 1)), h[i])
    BY DEF Follows
  <1>1. Len(h) \in Nat /\ i \in 1 .. Len(h) /\ i - 1 \in Nat /\ i - 1 <= Len(h)
    BY HistoryPositions
  <1>2. i \in DOMAIN g /\ g[i] = h[i]
    BY <1>1, SameResult
  <1>3. SubSeq(g, 1, i - 1) = SubSeq(h, 1, i - 1)
    BY <1>1, SamePast
  <1> QED
    BY <1>2, <1>3 DEF Follows

LEMMA FollowsAppend ==
    ASSUME NEW p, NEW t, NEW h \in Seq(Observation), NEW o \in Observation,
           Follows(p, t, h), ResultOf(Code(p, t, h), o)
    PROVE  Follows(p, t, Append(h, o))
  <1> DEFINE g == Append(h, o)
  <1>1. /\ g \in Seq(Observation) /\ Len(h) \in Nat /\ g[Len(h) + 1] = o
        /\ Agree(h, g, Len(h)) /\ DOMAIN g = 1 .. Len(h) + 1
    BY AppendAgrees
  <1> HIDE DEF g
  <1>2. ASSUME NEW i \in DOMAIN g
        PROVE  ResultOf(Code(p, t, SubSeq(g, 1, i - 1)), g[i])
    <2>1. i - 1 \in Nat /\ i - 1 <= Len(h) /\ i \in 1 .. Len(h) + 1
      BY <1>1, <1>2
    <2>2. SubSeq(h, 1, i - 1) = SubSeq(g, 1, i - 1)
      BY <1>1, <2>1, SamePast
    <2>3. CASE i = Len(h) + 1
      <3>1. i - 1 = Len(h)
        BY <1>1, <2>3
      <3>2. SubSeq(g, 1, i - 1) = h
        BY <2>2, <3>1, WholeHistory
      <3> QED
        BY <1>1, <2>3, <3>2
    <2>4. CASE i \in 1 .. Len(h)
      <3>1. i \in DOMAIN h /\ h[i] = g[i]
        BY <1>1, <2>4, SameResult
      <3> QED
        BY <2>2, <3>1 DEF Follows
    <2> QED
      BY <1>1, <2>1, <2>3, <2>4
  <1>3. Follows(p, t, g)
    BY <1>2 DEF Follows
  <1> QED
    BY <1>3 DEF g

\* A step leaves the history of t alone, or adds to it, or takes back what t
\* could not log.
LEMMA EffectOnH ==
    ASSUME NEW t \in Id, Effect(t)
    PROVE  \/ H(t)' = H(t)
           \/ \E o : Appends(t, o)
           \/ H(t)' = hist[t] /\ H(t) = Append(hist[t], pending[t]) /\ pending[t].op # "send"
  BY DEF Effect, Quiet, Notes, SendsOne, TakesFromWire, TakesFromBuffer, Buffers, Forgets

LEMMA StepHistories ==
    ASSUME TypeOK, Histories, NEW t \in Id, Frame(t), Effect(t)
    PROVE  Histories'
  <1>1. Program' = Program /\ recorded' = recorded
    BY DEF Frame, Program
  <1>2. Follows(Program, t, H(t)')
    <2>1. Follows(Program, t, H(t)) /\ H(t) \in Seq(Observation)
      BY HTyped DEF Histories
    <2>2. ASSUME NEW o, Appends(t, o) PROVE Follows(Program, t, H(t)')
      <3>1. o \in Observation /\ ResultOf(Code(Program, t, H(t)), o) /\ H(t)' = Append(H(t), o)
        BY <2>2 DEF Appends, Op, Program
      <3> QED
        BY <2>1, <3>1, FollowsAppend
    <2>3. CASE H(t)' = hist[t] /\ H(t) = Append(hist[t], pending[t])
      <3>1. hist[t] \in Seq(Observation) /\ pending[t] \in Observation
        BY HTyped
      <3>2. Agree(H(t), hist[t], Len(hist[t]))
        BY <2>3, <3>1, AppendAgrees
      <3> QED
        BY <2>1, <2>3, <3>1, <3>2, FollowsAgree
    <2> QED
      BY <2>1, <2>2, <2>3, EffectOnH
  <1>3. ASSUME NEW u \in Id PROVE (Follows(Program, u, H(u)) /\ Follows(Program, u, recorded[u]))'
    <2>1. CASE u = t
      BY <1>1, <1>2, <2>1 DEF Histories
    <2>2. CASE u # t
      BY <1>1, <2>2, FrameH DEF Histories
    <2> QED
      BY <2>1, <2>2
  <1> QED
    BY <1>3 DEF Histories

-----------------------------------------------------------------------------
(* Where threads are *)

Place(t) ==
    /\ mode = "Record" => InRecord(t)
    /\ mode = "Replay" => InReplay(t)
    /\ InEither(t)

\* What an operation on the log may do to the thread that calls it.
LogPlace(t) ==
    /\ UNCHANGED <<mode, saved>>
    /\ mode = "Record" => next'[t] = next[t]
    /\ t \in sender' => t \in sender \/ t \in open'
    /\ t \in open => t \in open'

LEMMA LogPlaces ==
    ASSUME LogTypeOK, NEW t \in Id,
           \/ InitEventSender(t)
           \/ \E entry : WriteEvent(t, entry)
           \/ TakeRecorder
           \/ InitEventReceiver(t)
           \/ EventReceiverPanics(t)
           \/ GetLogEntry(t)
           \/ UNCHANGED logVars
    PROVE  LogPlace(t)
  <1> USE DEF LogTypeOK, LogPlace
  <1>1. CASE InitEventSender(t)
    BY <1>1 DEF InitEventSender, replayVars
  <1>2. CASE \E entry : WriteEvent(t, entry)
    BY <1>2 DEF WriteEvent, replayVars
  <1>3. CASE TakeRecorder
    BY <1>3 DEF TakeRecorder, replayVars
  <1>4. CASE InitEventReceiver(t)
    BY <1>4 DEF InitEventReceiver, recordVars
  <1>5. CASE EventReceiverPanics(t)
    BY <1>5 DEF EventReceiverPanics, recordVars
  <1>6. CASE GetLogEntry(t)
    BY <1>6 DEF GetLogEntry, HasEntry, recordVars
  <1>7. CASE UNCHANGED logVars
    BY <1>7 DEF logVars, recordVars, replayVars
  <1> QED
    BY <1>1, <1>2, <1>3, <1>4, <1>5, <1>6, <1>7

LEMMA ReturnPlace ==
    ASSUME TypeOK, NEW t \in Id, Place(t), LogPlace(t), NEW obs, Return(t, obs),
           status[t] = "running"
    PROVE  Place(t)'
  <1>1. at'[t] = "idle" /\ status'[t] = "running"
    BY DEF Return, MoveTo, TypeOK
  <1> QED
    BY <1>1 DEF Place, LogPlace, InRecord, InReplay, InEither

LEMMA PanicPlace ==
    ASSUME TypeOK, NEW t \in Id, Place(t), LogPlace(t), status' = [status EXCEPT ![t] = "panicked"],
           UNCHANGED <<setup, at, expected, hist, buffer, desynced>>
    PROVE  Place(t)'
  <1>1. status'[t] = "panicked"
    BY DEF TypeOK
  <1>2. Op(t)' = Op(t)
    BY DEF Op
  <1> QED
    BY <1>1, <1>2 DEF Place, LogPlace, InRecord, InReplay, InEither

LEMMA DesyncPlace ==
    ASSUME TypeOK, NEW t \in Id, Place(t), LogPlace(t), HandleDesync(t),
           UNCHANGED <<setup, buffer>>,
           mode = "Record" /\ Op(t).kind \in RecvKind => t \in saved
    PROVE  Place(t)'
  <1>1. CASE Panic(t) /\ UNCHANGED desynced
    BY <1>1, PanicPlace DEF Panic
  <1>2. CASE /\ desynced' = TRUE
             /\ status' = [status EXCEPT ![t] = "running"]
             /\ MoveTo(t, "desync")
             /\ UNCHANGED hist
    <2>1. at'[t] = "desync" /\ status'[t] = "running" /\ desynced' /\ Op(t)' = Op(t)
      BY <1>2 DEF MoveTo, Op, TypeOK
    <2> QED
      BY <2>1 DEF Place, LogPlace, InRecord, InReplay, InEither
  <1> QED
    BY <1>1, <1>2 DEF HandleDesync

LEMMA StepPlace ==
    ASSUME WellFormedProgram, OwnReceivers, IInv, Places, NEW t \in Id, ThreadStep(t)
    PROVE  Place(t)'
  <1>0. TypeOK /\ LogTypeOK /\ setup' = setup /\ Place(t) /\ Inside(t)
    BY DEF IInv, TypeOK, InsideOp, ThreadStep, Places, Place
  <1>1. CASE RecordOp(t)
    <2>1. at'[t] = "log" /\ status'[t] = "running" /\ mode = "Record"
      BY <1>0, <1>1 DEF RecordOp, MoveTo, Calls, At, TypeOK
    <2>2. LogPlace(t)
      BY <1>0, <1>1, LogPlaces DEF RecordOp
    <2> QED
      BY <1>0, <2>1, <2>2 DEF Place, LogPlace, InRecord, InReplay, InEither
  <1>2. CASE RecordEvent(t)
    <2>1. LogPlace(t)
      BY <1>0, <1>2, LogPlaces DEF RecordEvent
    <2>2. CASE UNCHANGED threadVars
      BY <1>0, <1>2, <2>1, <2>2
      DEF RecordEvent, threadVars, chanVars, Place, LogPlace, InRecord, InReplay, InEither, Op
    <2> QED
      BY <1>0, <1>2, <2>1, <2>2, ReturnPlace DEF RecordEvent, At
  <1>3. CASE RecordEventFails(t)
    <2>1. LogPlace(t) /\ buffer' = buffer
      BY <1>0, <1>3, LogPlaces DEF RecordEventFails, chanVars
    <2>2. CASE Panic(t) /\ UNCHANGED desynced
      BY <1>0, <2>1, <2>2, PanicPlace DEF Panic
    <2>3. CASE CannotWriteEvent(t) /\ HandleDesync(t)
      BY <1>0, <2>1, <2>3, DesyncPlace DEF CannotWriteEvent, Place, InRecord
    <2> QED
      BY <1>3, <2>2, <2>3 DEF RecordEventFails
  <1>4. CASE OpenLog(t)
    <2>1. LogPlace(t) /\ buffer' = buffer
      BY <1>0, <1>4, LogPlaces DEF OpenLog, chanVars
    <2>2. CASE UNCHANGED status
      BY <1>0, <1>4, <2>1, <2>2
      DEF OpenLog, Place, LogPlace, InRecord, InReplay, InEither, Op
    <2>3. CASE status' = [status EXCEPT ![t] = "panicked"]
      BY <1>0, <1>4, <2>1, <2>3, PanicPlace DEF OpenLog
    <2> QED
      BY <1>4, <2>2, <2>3 DEF OpenLog
  <1>5. CASE FallAsleep(t)
    <2>1. mode = "Replay" /\ mode' = mode /\ at'[t] = "idle"
      BY <1>5 DEF FallAsleep, NoEntryInLog, AsksLog, Calls, At, logVars
    <2> QED
      BY <2>1 DEF Place, InReplay, InEither
  <1>6. CASE ReplayMismatch(t)
    <2>1. LogPlace(t) /\ buffer' = buffer /\ HandleDesync(t) /\ mode = "Replay"
      BY <1>0, <1>6, LogPlaces DEF ReplayMismatch, chanVars, GetLogEntry, HasEntry
    <2> QED
      BY <1>0, <2>1, DesyncPlace
  <1>7. CASE ReplaySend(t)
    <2>1. /\ mode = "Replay" /\ mode' = mode /\ at'[t] = "deliver" /\ status'[t] = "running"
      BY <1>0, <1>7 DEF ReplaySend, GetLogEntry, HasEntry, MoveTo, AsksLog, Calls, At, TypeOK
    <2> QED
      BY <2>1 DEF Place, InReplay, InEither
  <1>8. CASE Deliver(t)
    BY <1>0, <1>8, LogPlaces, ReturnPlace DEF Deliver, At
  <1>9. CASE ReplayRecv(t)
    <2>1. LogPlace(t) /\ mode = "Replay" /\ at[t] = "idle" /\ status[t] = "running"
      BY <1>0, <1>9, LogPlaces DEF ReplayRecv, GetLogEntry, HasEntry, AsksLog, Calls, At
    <2>2. CASE \E obs : Return(t, obs)
      BY <1>0, <2>1, <2>2, ReturnPlace
    <2>3. CASE /\ buffer[Op(t).chan][NextEntry(t).from] = <<>>
               /\ expected' = [expected EXCEPT ![t] = NextEntry(t).from]
               /\ MoveTo(t, "receive")
               /\ UNCHANGED <<chanVars, status, pending, hist>>
      <3>1. /\ at'[t] = "receive" /\ status'[t] = "running" /\ Op(t)' = Op(t)
            /\ expected'[t] = NextEntry(t).from /\ buffer' = buffer
        BY <1>0, <2>1, <2>3 DEF MoveTo, Op, chanVars, TypeOK
      <3> QED
        BY <2>1, <2>3, <3>1 DEF Place, LogPlace, InReplay, InEither
    <2> QED
      BY <1>9, <2>2, <2>3 DEF ReplayRecv
  <1>10. CASE ReceiveExpected(t)
    <2>1. LogPlace(t) /\ status[t] = "running" /\ at[t] = "receive"
      BY <1>0, <1>10, LogPlaces DEF ReceiveExpected, At
    <2>2. CASE \E obs : Return(t, obs)
      BY <1>0, <2>1, <2>2, ReturnPlace
    <2> DEFINE c == Op(t).chan
               m == Head(wire[c])
    <2>3. CASE /\ m.from # expected[t]
               /\ buffer' = [buffer EXCEPT ![c][m.from] = Append(@, m.val)]
               /\ UNCHANGED threadVars
      <3>1. buffer[c][expected[t]] = <<>> /\ mode # "Record"
        BY <1>0, <2>1 DEF Place, InRecord, InEither
      <3>2. Op(t)' = Op(t) /\ expected' = expected /\ at' = at /\ status' = status
        BY <1>0, <2>3 DEF threadVars, Op
      <3>3. buffer'[c][expected[t]] = buffer[c][expected[t]]
        BY <1>0, <2>3 DEF TypeOK
      <3> QED
        BY <1>0, <2>1, <3>1, <3>2, <3>3 DEF Place, LogPlace, InReplay, InEither
    <2> QED
      BY <1>10, <2>2, <2>3 DEF ReceiveExpected
  <1>11. CASE ReceiveTimesOut(t) \/ WakeUp(t) \/ SendDesynced(t)
    <2>1. LogPlace(t) /\ buffer' = buffer /\ HandleDesync(t)
      BY <1>0, <1>11, LogPlaces DEF ReceiveTimesOut, WakeUp, SendDesynced, chanVars
    <2>2. mode = "Record" => Op(t).kind = "send"
      BY <1>0, <1>11 DEF ReceiveTimesOut, WakeUp, SendDesynced, Calls, At, Place, InRecord
    <2>3. "send" \notin RecvKind
      BY DEF RecvKind
    <2> QED
      BY <1>0, <2>1, <2>2, <2>3, DesyncPlace
  <1>12. CASE ReceiveAny(t)
    BY <1>0, <1>12, LogPlaces, ReturnPlace DEF ReceiveAny, At
  <1>13. CASE Join(t)
    BY <1>0, <1>13, LogPlaces, ReturnPlace DEF Join, Calls, At
  <1>14. CASE ExecutionDone(t)
    <2>1. LogPlace(t)
      BY <1>0, <1>14, LogPlaces DEF ExecutionDone
    <2>2. CASE Return(t, Done) /\ status[t] = "running"
      BY <1>0, <2>1, <2>2, ReturnPlace
    <2>3. CASE TakeRecorder /\ MoveTo(t, "flush") /\ Calls(t, {"execution_done"}) /\ UNCHANGED status
      <3>1. at'[t] = "flush" /\ status'[t] = "running" /\ mode = "Record"
        BY <1>0, <2>3 DEF MoveTo, Calls, At, TakeRecorder, TypeOK
      <3> QED
        BY <1>0, <2>1, <3>1 DEF Place, LogPlace, InRecord, InReplay, InEither
    <2> QED
      BY <1>14, <2>2, <2>3 DEF ExecutionDone, Calls, At
  <1>15. CASE Exit(t)
    <2>1. LogPlace(t) /\ at'[t] = "idle" /\ status'[t] = "exited"
      BY <1>0, <1>15, LogPlaces DEF Exit, Calls, At, TypeOK
    <2> QED
      BY <1>0, <2>1 DEF Place, LogPlace, InRecord, InReplay, InEither
  <1> QED
    BY <1>1, <1>2, <1>3, <1>4, <1>5, <1>6, <1>7, <1>8, <1>9, <1>10, <1>11, <1>12, <1>13,
       <1>14, <1>15 DEF ThreadStep

\* A buffer is changed by the receiver alone.
LEMMA BuffersStay ==
    ASSUME TypeOK, NEW t \in Id, Effect(t), NEW c \in Chan, Owner[c] # t
    PROVE  buffer'[c] = buffer[c]
  <1>1. CASE Quiet(t) \/ Notes(t) \/ SendsOne(t) \/ TakesFromWire(t) \/ Forgets(t)
    BY <1>1 DEF Quiet, Notes, SendsOne, TakesFromWire, Forgets, chanVars
  <1>2. CASE TakesFromBuffer(t)
    BY <1>2 DEF TakesFromBuffer, TypeOK
  <1>3. CASE Buffers(t)
    BY <1>3 DEF Buffers, TypeOK
  <1> QED
    BY <1>1, <1>2, <1>3 DEF Effect

LEMMA StepPlaces ==
    ASSUME WellFormedProgram, OwnReceivers, IInv, Places, NEW t \in Id, ThreadStep(t),
           Frame(t), Effect(t)
    PROVE  Places'
  <1>1. TypeOK
    BY DEF IInv
  <1>2. Place(t)'
    BY StepPlace
  <1>3. ASSUME NEW u \in Id \ {t} PROVE Place(u)'
    <2>1. Place(u) /\ Op(u)' = Op(u) /\ UNCHANGED <<mode, saved>>
      BY DEF Places, Place, Frame, Op
    <2>2. at[u] = "receive" => buffer'[Op(u).chan] = buffer[Op(u).chan]
      <3>1. at[u] = "receive" => Op(u).kind \in RecvKind
        BY DEF IInv, InsideOp, Inside
      <3>2. Op(u) \in Operation
        BY <1>1, OpTyped
      <3>3. at[u] = "receive" => Op(u).chan \in Chan /\ Owner[Op(u).chan] = u
        BY <1>1, <3>1, <3>2, RecvAtHome, OpShape
      <3> QED
        BY <1>1, <3>3, BuffersStay
    <2> QED
      BY <2>1, <2>2 DEF Place, Frame, InRecord, InReplay, InEither
  <1>4. mode = "Record" => NothingBuffered'
    <2> SUFFICES ASSUME mode = "Record" PROVE buffer' = buffer
      BY DEF Places, NothingBuffered
    <2>1. CASE Quiet(t) \/ Notes(t) \/ SendsOne(t) \/ TakesFromWire(t) \/ Forgets(t)
      BY <2>1 DEF Quiet, Notes, SendsOne, TakesFromWire, Forgets, chanVars
    <2>2. CASE TakesFromBuffer(t)
      BY <2>2 DEF TakesFromBuffer, Places, NothingBuffered
    <2>3. CASE Buffers(t)
      BY <2>3 DEF Buffers, Places, InRecord
    <2> QED
      BY <2>1, <2>2, <2>3 DEF Effect
  <1>5. mode' = mode
    BY DEF Frame
  <1> QED
    BY <1>2, <1>3, <1>4, <1>5 DEF Places, Place

-----------------------------------------------------------------------------
(* The log agrees with the history *)

LEMMA SameGap ==
    ASSUME NEW h \in Seq(Observation), NEW g \in Seq(Observation), NEW k \in Nat, Agree(h, g, k),
           NEW list, NEW j \in 1 .. k
    PROVE  Gap(h, list, j) <=> Gap(g, list, j)
  <1>1. j \in 1 .. k + 1
    OBVIOUS
  <1> QED
    BY <1>1, SameResult, SameLogNo DEF Gap

\* A position of a history with one more result is an old one or the new one.
LEMMA OldOrNew ==
    ASSUME NEW h \in Seq(Observation), NEW o \in Observation, NEW i \in LogPos(Append(h, o))
    PROVE  \/ i = Len(h) + 1
           \/ /\ i \in 1 .. Len(h) /\ i \in LogPos(h) /\ Append(h, o)[i] = h[i]
              /\ LogNo(Append(h, o), i) = LogNo(h, i)
  <1> DEFINE g == Append(h, o)
  <1>1. /\ g \in Seq(Observation) /\ Len(h) \in Nat /\ Agree(h, g, Len(h))
        /\ DOMAIN g = 1 .. Len(h) + 1
    BY AppendAgrees
  <1> HIDE DEF g
  <1>2. i \in LogPos(g) /\ i \in 1 .. Len(h) + 1
    BY <1>1 DEF LogPos, g
  <1>3. ASSUME i \in 1 .. Len(h)
        PROVE  i \in LogPos(h) /\ g[i] = h[i] /\ LogNo(g, i) = LogNo(h, i)
    BY <1>1, <1>2, <1>3, SameResult, SameLogNo
  <1> QED
    BY <1>1, <1>2, <1>3 DEF g

LEMMA ListTyped ==
    ASSUME NEW list \in Seq(Entry)
    PROVE  Len(list) \in Nat /\ DOMAIN list = 1 .. Len(list)
  BY LenProperties

\* What a thread does later is behind the end of its list.
LEMMA LogKept ==
    ASSUME NEW h \in Seq(Observation), NEW o \in Observation, NEW list \in Seq(Entry),
           IsLogOf(h, list)
    PROVE  IsLogOf(Append(h, o), list)
  <1> DEFINE g == Append(h, o)
             n == Len(h) + 1
  <1>1. /\ g \in Seq(Observation) /\ Len(h) \in Nat /\ Agree(h, g, Len(h))
    BY AppendAgrees
  <1>2. Logs(h) \in Nat /\ LogNo(g, n) = Logs(h) + 1 /\ Logs(g) >= Logs(h)
    BY OneMoreLogged
  <1>3. \A i \in LogPos(g) : \/ i = n
                             \/ /\ i \in 1 .. Len(h) /\ i \in LogPos(h) /\ g[i] = h[i]
                                /\ LogNo(g, i) = LogNo(h, i)
    BY OldOrNew
  <1>4. Logs(g) \in Nat /\ Len(list) \in Nat /\ DOMAIN list = 1 .. Len(list) /\ Len(list) <= Logs(h)
    BY <1>2, ListTyped, OneMoreLogged DEF IsLogOf
  <1> HIDE DEF g, n
  <1>5. Len(list) <= Logs(g)
    BY <1>2, <1>4
  <1>6. ASSUME NEW i \in LogPos(g), LogNo(g, i) \in DOMAIN list
        PROVE  \/ list[LogNo(g, i)] = EntryFor(g[i])
               \/ \E j \in 1 .. i : Gap(g, list, j)
    <2>1. i # n
      BY <1>2, <1>4, <1>6
    <2>2. /\ i \in 1 .. Len(h) /\ i \in LogPos(h) /\ g[i] = h[i]
          /\ LogNo(g, i) = LogNo(h, i)
      BY <1>3, <2>1
    <2>3. CASE list[LogNo(h, i)] = EntryFor(h[i])
      BY <2>2, <2>3
    <2>4. CASE \E j \in 1 .. i : Gap(h, list, j)
      <3>1. PICK j \in 1 .. i : Gap(h, list, j)
        BY <2>4
      <3>2. j \in 1 .. Len(h)
        BY <1>1, <2>2
      <3>3. Gap(g, list, j)
        BY <1>1, <3>1, <3>2, SameGap
      <3> QED
        BY <3>3
    <2> QED
      BY <1>6, <2>2, <2>3, <2>4 DEF IsLogOf
  <1>7. IsLogOf(g, list)
    BY <1>5, <1>6 DEF IsLogOf
  <1> QED
    BY <1>7 DEF g

\* What get_all_entries has taken out of a channel is a list that ends early.
LEMMA StartOfFullLog ==
    ASSUME NEW h \in Seq(Observation), NEW full \in Seq(Entry), IsFullLogOf(h, full),
           NEW list \in Seq(Entry), Len(list) <= Len(full),
           \A i \in 1 .. Len(list) : full[i] = list[i]
    PROVE  IsLogOf(h, list)
  <1>1. /\ Len(list) \in Nat /\ DOMAIN list = 1 .. Len(list)
        /\ Len(full) \in Nat /\ DOMAIN full = 1 .. Len(full) /\ Logs(h) \in Nat
    BY ListTyped, OneMoreLogged, NoResultTyped
  <1>2. \A i \in DOMAIN list : i \in DOMAIN full /\ full[i] = list[i]
    BY <1>1
  <1>3. \A j : Gap(h, full, j) => Gap(h, list, j)
    BY <1>2 DEF Gap
  <1>4. Len(list) <= Logs(h)
    BY <1>1 DEF IsFullLogOf
  <1> QED
    BY <1>2, <1>3, <1>4 DEF IsFullLogOf, IsLogOf

\* At i the list is right, or of no use any more.
Covered(h, list, i) ==
    \/ LogNo(h, i) \in DOMAIN list /\ list[LogNo(h, i)] = EntryFor(h[i])
    \/ \E j \in 1 .. i : Gap(h, list, j)

LEMMA CoveredKept ==
    ASSUME NEW h \in Seq(Observation), NEW g \in Seq(Observation), NEW k \in Nat, Agree(h, g, k),
           NEW list, NEW i \in 1 .. k, Covered(h, list, i)
    PROVE  Covered(g, list, i)
  <1>1. i \in 1 .. k + 1
    OBVIOUS
  <1>2. h[i] = g[i] /\ LogNo(h, i) = LogNo(g, i)
    BY <1>1, SameResult, SameLogNo
  <1>3. ASSUME NEW j \in 1 .. i, Gap(h, list, j) PROVE Gap(g, list, j)
    <2>1. j \in 1 .. k
      OBVIOUS
    <2> QED
      BY <1>3, <2>1, SameGap
  <1> QED
    BY <1>2, <1>3 DEF Covered

\* t has done something that is not logged: no operation on a channel, or a
\* send after a desync.
LEMMA FullLogKept ==
    ASSUME NEW h \in Seq(Observation), NEW o \in Observation, NEW list \in Seq(Entry),
           IsFullLogOf(h, list), o.op \notin RecvKind
    PROVE  /\ IsFullLogOf(Append(h, o), list)
           /\ o.op # "send" => Logs(Append(h, o)) = Logs(h)
           /\ o.op = "send" => Gap(Append(h, o), list, Len(h) + 1)
           /\ \A j \in LogPos(h) : Gap(h, list, j) =>
                  Gap(Append(h, o), list, j) /\ j \in LogPos(Append(h, o))
  <1> DEFINE g == Append(h, o)
             n == Len(h) + 1
  <1>1. /\ g \in Seq(Observation) /\ Len(h) \in Nat /\ Agree(h, g, Len(h))
        /\ g[n] = o /\ DOMAIN g = 1 .. n /\ DOMAIN h = 1 .. Len(h)
    BY AppendAgrees
  <1>2. /\ Logs(h) \in Nat /\ LogNo(g, n) = Logs(h) + 1
        /\ Logs(g) = Logs(h) + (IF o.op \in LoggedKind THEN 1 ELSE 0)
    BY OneMoreLogged
  <1>3. \A i \in LogPos(g) : i = n \/ (i \in 1 .. Len(h) /\ i \in LogPos(h))
    BY OldOrNew
  <1>4. Len(list) \in Nat /\ DOMAIN list = 1 .. Len(list) /\ Len(list) <= Logs(h)
    BY ListTyped DEF IsFullLogOf
  <1> HIDE DEF g
  <1>5. Len(list) <= Logs(g) /\ LogNo(g, n) \notin DOMAIN list
    BY <1>2, <1>4
  <1>6. o.op = "send" => Gap(g, list, n)
    BY <1>1, <1>5 DEF Gap, LogPos, LoggedKind
  <1>7. ASSUME NEW i \in LogPos(g) PROVE Covered(g, list, i)
    <2>1. CASE i = n
      <3>1. o.op = "send"
        BY <1>1, <2>1 DEF LogPos, LoggedKind
      <3>2. n \in 1 .. n
        BY <1>1
      <3> QED
        BY <1>6, <2>1, <3>1, <3>2 DEF Covered
    <2>2. CASE i \in 1 .. Len(h) /\ i \in LogPos(h)
      <3>1. Covered(h, list, i)
        BY <2>2 DEF IsFullLogOf, Covered
      <3> QED
        BY <1>1, <2>2, <3>1, CoveredKept
    <2> QED
      BY <1>3, <2>1, <2>2
  <1>8. IsFullLogOf(g, list)
    BY <1>5, <1>7 DEF IsFullLogOf, Covered
  <1>9. o.op # "send" => Logs(g) = Logs(h)
    BY <1>2 DEF LoggedKind
  <1>10. ASSUME NEW j \in LogPos(h), Gap(h, list, j)
         PROVE  Gap(g, list, j) /\ j \in LogPos(g)
    <2>1. j \in 1 .. Len(h)
      BY <1>1 DEF LogPos
    <2> QED
      BY <1>1, <1>10, <2>1, SameGap, SameResult
  <1> QED
    BY <1>6, <1>8, <1>9, <1>10 DEF g

\* t logs what it has done.
LEMMA FullLogGrows ==
    ASSUME NEW h \in Seq(Observation), NEW o \in Observation, NEW list \in Seq(Entry),
           o.op \in LoggedKind, EntryFor(o) \in Entry,
           IsFullLogOf(h, list), Len(list) = Logs(h)
    PROVE  /\ IsFullLogOf(Append(h, o), Append(list, EntryFor(o)))
           /\ Len(Append(list, EntryFor(o))) = Logs(Append(h, o))
  <1> DEFINE g == Append(h, o)
             e == EntryFor(o)
             more == Append(list, e)
             n == Len(h) + 1
  <1>1. /\ g \in Seq(Observation) /\ Len(h) \in Nat /\ Agree(h, g, Len(h)) /\ g[n] = o
    BY AppendAgrees
  <1>2. Logs(h) \in Nat /\ LogNo(g, n) = Logs(h) + 1 /\ Logs(g) = Logs(h) + 1
    BY OneMoreLogged
  <1>3. \A i \in LogPos(g) : i = n \/ (i \in 1 .. Len(h) /\ i \in LogPos(h))
    BY OldOrNew
  <1>4. /\ Len(list) \in Nat /\ DOMAIN list = 1 .. Len(list) /\ Len(more) = Len(list) + 1
        /\ DOMAIN more = 1 .. Len(list) + 1 /\ more[Len(list) + 1] = e
        /\ \A i \in 1 .. Len(list) : more[i] = list[i]
    BY AppendAgrees DEF Agree
  <1> HIDE DEF g, more, e
  <1>5. ASSUME NEW i \in LogPos(g) PROVE Covered(g, more, i)
    <2>1. CASE i = n
      BY <1>1, <1>2, <1>4, <2>1 DEF Covered, e
    <2>2. CASE i \in 1 .. Len(h) /\ i \in LogPos(h)
      <3>1. LogNo(h, i) \in DOMAIN list
        BY <1>4, <2>2, NumbersAreBounded
      <3>2. ASSUME NEW j \in 1 .. i, Gap(h, list, j) PROVE Gap(h, more, j)
        <4>1. LogNo(h, j) \in DOMAIN list
          BY <1>4, <3>2, NumbersAreBounded DEF Gap
        <4> QED
          BY <1>4, <3>2, <4>1 DEF Gap
      <3>3. Covered(h, more, i)
        BY <1>4, <2>2, <3>1, <3>2 DEF IsFullLogOf, Covered
      <3> QED
        BY <1>1, <2>2, <3>3, CoveredKept
    <2> QED
      BY <1>3, <1>5, <2>1, <2>2
  <1>6. Len(more) = Logs(g)
    BY <1>2, <1>4
  <1>7. IsFullLogOf(g, more)
    BY <1>2, <1>5, <1>6 DEF IsFullLogOf, Covered
  <1> QED
    BY <1>6, <1>7 DEF g, more, e

\* t logs what it has received, after a send that it has not logged.
LEMMA FullLogAfterGap ==
    ASSUME NEW h \in Seq(Observation), NEW o \in Observation, NEW list \in Seq(Entry),
           o.op \in RecvKind, EntryFor(o) \in Entry,
           IsFullLogOf(h, list), NEW j \in LogPos(h), Gap(h, list, j)
    PROVE  /\ IsFullLogOf(Append(h, o), Append(list, EntryFor(o)))
           /\ j \in LogPos(Append(h, o))
           /\ Gap(Append(h, o), Append(list, EntryFor(o)), j)
  <1> DEFINE g == Append(h, o)
             e == EntryFor(o)
             more == Append(list, e)
             n == Len(h) + 1
  <1>1. /\ g \in Seq(Observation) /\ Len(h) \in Nat /\ Agree(h, g, Len(h)) /\ g[n] = o
        /\ DOMAIN h = 1 .. Len(h)
    BY AppendAgrees
  <1>2. Logs(h) \in Nat /\ LogNo(g, n) = Logs(h) + 1 /\ Logs(g) = Logs(h) + 1
    BY OneMoreLogged DEF LoggedKind
  <1>3. \A i \in LogPos(g) : i = n \/ (i \in 1 .. Len(h) /\ i \in LogPos(h))
    BY OldOrNew
  <1>4. /\ Len(list) \in Nat /\ DOMAIN list = 1 .. Len(list) /\ Len(more) = Len(list) + 1
        /\ DOMAIN more = 1 .. Len(list) + 1 /\ more[Len(list) + 1] = e
        /\ \A i \in 1 .. Len(list) : more[i] = list[i]
    BY AppendAgrees DEF Agree
  <1>5. e.op # "send"
    BY DEF EntryFor, RecvKind
  <1> HIDE DEF g, more, e
  <1>6. ASSUME NEW k \in 1 .. Len(h), Gap(h, list, k) PROVE Gap(g, more, k)
    <2>1. Gap(h, more, k)
      BY <1>4, <1>5, <1>6 DEF Gap
    <2> QED
      BY <1>1, <2>1, SameGap
  <1>7. j \in 1 .. Len(h) /\ j \in LogPos(g) /\ Gap(g, more, j)
    <2>1. j \in 1 .. Len(h)
      BY <1>1 DEF LogPos
    <2> QED
      BY <1>1, <1>6, <2>1, SameResult
  <1>8. ASSUME NEW i \in LogPos(g) PROVE Covered(g, more, i)
    <2>1. CASE i = n
      <3>1. j \in 1 .. i
        BY <1>1, <1>7, <2>1
      <3> QED
        BY <1>7, <3>1 DEF Covered
    <2>2. CASE i \in 1 .. Len(h) /\ i \in LogPos(h)
      <3>1. CASE LogNo(h, i) \in DOMAIN list /\ list[LogNo(h, i)] = EntryFor(h[i])
        <4>1. LogNo(h, i) \in DOMAIN more /\ more[LogNo(h, i)] = EntryFor(h[i])
          BY <1>4, <3>1
        <4>2. Covered(h, more, i)
          BY <4>1 DEF Covered
        <4> QED
          BY <1>1, <2>2, <4>2, CoveredKept
      <3>2. CASE \E k \in 1 .. i : Gap(h, list, k)
        <4>1. PICK k \in 1 .. i : Gap(h, list, k)
          BY <3>2
        <4>2. k \in 1 .. Len(h)
          BY <1>1, <2>2
        <4> QED
          BY <1>6, <4>1, <4>2 DEF Covered
      <3> QED
        BY <2>2, <3>1, <3>2 DEF IsFullLogOf
    <2> QED
      BY <1>3, <1>8, <2>1, <2>2
  <1>9. Len(more) <= Logs(g)
    BY <1>2, <1>4 DEF IsFullLogOf
  <1>10. IsFullLogOf(g, more)
    BY <1>8, <1>9 DEF IsFullLogOf, Covered
  <1> QED
    BY <1>7, <1>10 DEF g, more, e

-----------------------------------------------------------------------------
(* The log keeps agreeing with the history *)

\* What a step of a recording does to the thread's list: nothing, ...
Stays(t) ==
    /\ hist'[t] = hist[t] /\ channel'[t] = channel[t]
    /\ at'[t] = "log" => \/ at[t] = "log" /\ pending'[t] = pending[t]
                         \/ ~desynced
                         \/ pending'[t].op # "send"

\* ... also when the history gets a result that is not logged, ...
Skips(t, o) ==
    /\ hist'[t] = Append(hist[t], o) /\ channel'[t] = channel[t]
    /\ o.op \notin RecvKind /\ at'[t] # "log"
    /\ o.op = "send" => desynced'

\* ... or it gets the entry for the result.
WritesTo(t, o) ==
    /\ at[t] = "log" /\ o = pending[t]
    /\ hist'[t] = Append(hist[t], o) /\ channel'[t] = Append(channel[t], EntryFor(o))
    /\ at'[t] # "log"

ListStep(t) ==
    \/ Stays(t)
    \/ \E o \in Observation : Skips(t, o)
    \/ \E o \in Loggable : WritesTo(t, o)
    \/ t \in saved /\ \E o \in Observation : hist'[t] = Append(hist[t], o)

LEMMA Returned ==
    ASSUME TypeOK, NEW t \in Id, NEW obs, Return(t, obs)
    PROVE  hist'[t] = Append(hist[t], obs) /\ at'[t] = "idle" /\ status'[t] = status[t]
  BY DEF Return, MoveTo, TypeOK

LEMMA UnmovedByDesync ==
    ASSUME TypeOK, NEW t \in Id, HandleDesync(t), UNCHANGED logVars
    PROVE  Stays(t)
  <1>1. CASE Panic(t)
    BY <1>1 DEF Panic, Stays, logVars, recordVars
  <1>2. CASE MoveTo(t, "desync") /\ UNCHANGED hist
    BY <1>2 DEF MoveTo, Stays, logVars, recordVars, TypeOK
  <1> QED
    BY <1>1, <1>2 DEF HandleDesync

LEMMA StepList ==
    ASSUME WellFormedProgram, IInv, Places, mode = "Record", NEW t \in Id, ThreadStep(t)
    PROVE  ListStep(t)
  <1>0. TypeOK /\ LogTypeOK /\ Op(t) \in Operation /\ Inside(t) /\ InRecord(t) /\ InEither(t)
    BY OpTyped DEF IInv, TypeOK, InsideOp, Places
  <1>1. CASE RecordOp(t)
    <2>1. CASE ~desynced
      BY <1>1, <2>1 DEF RecordOp, ListStep, Stays, logVars, recordVars
    <2>2. CASE desynced
      <3>1. PICK obs : Op(t).kind \in RecvKind /\ Recv(Op(t), obs)
                       /\ pending' = [pending EXCEPT ![t] = obs]
        BY <1>1, <2>2 DEF RecordOp
      <3>2. obs.op # "send"
        BY <1>0, <3>1, RecvTyped DEF RecvResult, RecvKind
      <3>3. pending'[t] = obs
        BY <1>0, <3>1 DEF TypeOK
      <3> QED
        BY <1>1, <3>2, <3>3 DEF RecordOp, ListStep, Stays, logVars, recordVars
    <2> QED
      BY <2>1, <2>2
  <1>2. CASE RecordEvent(t)
    <2>1. CASE InitEventSender(t) /\ UNCHANGED threadVars
      BY <2>1 DEF InitEventSender, threadVars, ListStep, Stays
    <2>2. CASE WriteEvent(t, EntryFor(pending[t])) /\ Return(t, pending[t])
      <3>1. at[t] = "log" /\ pending[t] \in Loggable
        BY <1>0, <1>2 DEF RecordEvent, At, Inside
      <3>2. channel'[t] = Append(channel[t], EntryFor(pending[t]))
        BY <1>0, <2>2 DEF WriteEvent, LogTypeOK
      <3> QED
        BY <1>0, <2>2, <3>1, <3>2, Returned DEF ListStep, WritesTo
    <2> QED
      BY <1>2, <2>1, <2>2 DEF RecordEvent
  <1>3. CASE RecordEventFails(t)
    <2>1. CASE Panic(t)
      BY <1>3, <2>1 DEF RecordEventFails, Panic, ListStep, Stays, logVars, recordVars
    <2>2. CASE HandleDesync(t)
      BY <1>0, <1>3, <2>2, UnmovedByDesync DEF RecordEventFails, ListStep
    <2> QED
      BY <1>3, <2>1, <2>2 DEF RecordEventFails
  <1>4. CASE Deliver(t)
    <2>1. desynced /\ Op(t).kind = "send" /\ UNCHANGED logVars /\ desynced' = desynced
      BY <1>0, <1>4 DEF Deliver, At, InRecord, InEither
    <2>2. PICK obs : Send(t, Op(t), obs) /\ Return(t, obs)
      BY <1>4 DEF Deliver
    <2>3. obs \in SendResult
      BY <1>0, <2>1, <2>2, SendTyped
    <2>4. obs \in Observation /\ obs.op = "send" /\ "send" \notin RecvKind
      BY <2>3 DEF SendResult, Observation, RecvKind
    <2> QED
      BY <1>0, <2>1, <2>2, <2>4, Returned DEF ListStep, Skips, logVars, recordVars
  <1>5. CASE ReceiveAny(t)
    <2> DEFINE op == Op(t)
               c == op.chan
    <2>1. t \in saved /\ op.kind \in RecvKind /\ c \in Chan
      BY <1>0, <1>5, OpShape DEF ReceiveAny, At, InRecord
    <2>2. ASSUME NEW s \in Id, buffer[c][s] # <<>>, Return(t, Result(op, s, Head(buffer[c][s]), "none"))
          PROVE  ListStep(t)
      BY <2>1, <2>2, <1>0 DEF Places, NothingBuffered
    <2>3. ASSUME NEW obs, Recv(op, obs), Return(t, obs) PROVE ListStep(t)
      <3>1. obs \in Observation
        BY <1>0, <2>1, <2>3, RecvTyped DEF Observation
      <3> QED
        BY <1>0, <2>1, <2>3, <3>1, Returned DEF ListStep
    <2> QED
      BY <1>5, <2>2, <2>3 DEF ReceiveAny
  <1>6. CASE SendDesynced(t)
    BY <1>0, <1>6, UnmovedByDesync DEF SendDesynced, ListStep
  <1>7. ASSUME NEW obs \in {NoResult, Done}, Return(t, obs), UNCHANGED <<logVars, desynced>>
        PROVE  ListStep(t)
    <2>1. obs \in Observation /\ obs.op \notin RecvKind /\ obs.op # "send"
      BY <1>7, NoResultTyped DEF NoResult, Done, RecvKind
    <2> QED
      BY <1>0, <1>7, <2>1, Returned DEF ListStep, Skips, logVars, recordVars
  <1>8. CASE Join(t)
    BY <1>7, <1>8 DEF Join
  <1>9. CASE ExecutionDone(t)
    <2>1. CASE TakeRecorder /\ MoveTo(t, "flush") /\ UNCHANGED hist
      BY <1>0, <2>1 DEF TakeRecorder, MoveTo, ListStep, Stays, TypeOK
    <2> QED
      BY <1>7, <1>9, <2>1 DEF ExecutionDone
  <1>10. CASE Exit(t)
    BY <1>10 DEF Exit, Calls, At, ListStep, Stays, logVars, recordVars
  <1>11. ~(OpenLog(t) \/ FallAsleep(t) \/ ReplayMismatch(t) \/ ReplaySend(t) \/ ReplayRecv(t))
    BY DEF OpenLog, InitEventReceiver, EventReceiverPanics, FallAsleep, NoEntryInLog,
           ReplayMismatch, ReplaySend, ReplayRecv, GetLogEntry, HasEntry
  <1>12. ~(ReceiveExpected(t) \/ ReceiveTimesOut(t) \/ WakeUp(t))
    BY <1>0 DEF ReceiveExpected, ReceiveTimesOut, WakeUp, At, InRecord
  <1> QED
    BY <1>1, <1>2, <1>3, <1>4, <1>5, <1>6, <1>8, <1>9, <1>10, <1>11, <1>12 DEF ThreadStep

\* A history grows at its end.
LEMMA HistoryGrows ==
    ASSUME mode = "Record", NEW t \in Id, ListStep(t)
    PROVE  hist'[t] = hist[t] \/ \E o \in Observation : hist'[t] = Append(hist[t], o)
  BY DEF ListStep, Stays, Skips, WritesTo, Loggable, Observation

FullList(t) ==
    /\ IsFullLogOf(hist[t], Carried(t))
    /\ \/ Len(Carried(t)) = Logs(hist[t])
       \/ /\ \E j \in LogPos(hist[t]) : Gap(hist[t], Carried(t), j)
          /\ desynced
          /\ at[t] = "log" => pending[t].op # "send"

LEMMA StepFullList ==
    ASSUME IInv, NEW t \in Id, FullList(t), ListStep(t), Frame(t), t \notin saved
    PROVE  FullList(t)'
  <1> DEFINE h == hist[t]
             list == Carried(t)
             more == Carried(t)'
  <1>0. /\ h \in Seq(Observation) /\ list \in Seq(Entry) /\ Len(list) \in Nat
        /\ IsFullLogOf(h, list) /\ (desynced => desynced')
        /\ LogTypeOK /\ log'[t] = log[t]
    BY CarriedTyped, ListTyped DEF IInv, TypeOK, FullList, Frame
  <1>4. channel'[t] = channel[t] => more = list
    BY <1>0 DEF Carried
  <1>1. CASE Stays(t)
    BY <1>1, <1>0, <1>4 DEF FullList, Stays
  <1>2. ASSUME NEW o \in Observation, Skips(t, o) PROVE FullList(t)'
    <2> DEFINE g == Append(h, o)
    <2>1. /\ hist'[t] = g /\ more = list /\ o.op \notin RecvKind /\ at'[t] # "log"
          /\ o.op = "send" => desynced'
      BY <1>2, <1>4 DEF Skips
    <2>2. IsFullLogOf(g, list)
      BY <1>0, <2>1, FullLogKept
    <2>3. CASE o.op = "send"
      <3>1. Gap(g, list, Len(h) + 1)
        BY <1>0, <2>1, <2>3, FullLogKept
      <3>2. Len(h) + 1 \in LogPos(g)
        BY <3>1 DEF Gap
      <3> HIDE DEF g, h, list
      <3> QED
        BY <2>1, <2>2, <2>3, <3>1, <3>2 DEF FullList
    <2>4. CASE o.op # "send" /\ Len(list) = Logs(h)
      <3>1. Logs(g) = Logs(h)
        BY <1>0, <2>1, <2>4, FullLogKept
      <3> HIDE DEF g
      <3> QED
        BY <2>1, <2>2, <2>4, <3>1 DEF FullList
    <2>5. CASE desynced /\ \E j \in LogPos(h) : Gap(h, list, j)
      <3>1. PICK j \in LogPos(h) : Gap(h, list, j)
        BY <2>5
      <3>2. Gap(g, list, j) /\ j \in LogPos(g)
        BY <1>0, <2>1, <3>1, FullLogKept
      <3> HIDE DEF g
      <3> QED
        BY <1>0, <2>1, <2>2, <2>5, <3>2 DEF FullList
    <2> QED
      BY <2>3, <2>4, <2>5 DEF FullList
  <1>3. ASSUME NEW o \in Loggable, WritesTo(t, o) PROVE FullList(t)'
    <2> DEFINE g == Append(h, o)
               e == EntryFor(o)
               l == Append(list, e)
    <2>1. /\ hist'[t] = g /\ more = l /\ at'[t] # "log"
          /\ at[t] = "log" /\ o = pending[t]
      BY <1>0, <1>3, EntryForTyped, CarriedWrite DEF WritesTo
    <2>2. /\ o \in Observation /\ o.op \in LoggedKind /\ (o.op # "send" => o.op \in RecvKind)
      BY DEF Loggable, Observation, SendResult, RecvResult, LoggedKind, RecvKind
    <2>3. e \in Entry
      BY EntryForTyped
    <2>4. CASE Len(list) = Logs(h)
      <3>1. IsFullLogOf(g, l) /\ Len(l) = Logs(g)
        BY <1>0, <2>2, <2>3, <2>4, FullLogGrows
      <3> HIDE DEF g, l
      <3> QED
        BY <2>1, <3>1 DEF FullList
    <2>5. CASE /\ \E j \in LogPos(h) : Gap(h, list, j)
               /\ desynced
               /\ at[t] = "log" => pending[t].op # "send"
      <3>1. PICK j \in LogPos(h) : Gap(h, list, j)
        BY <2>5
      <3>2. o.op \in RecvKind
        BY <2>1, <2>2, <2>5
      <3>3. IsFullLogOf(g, l) /\ j \in LogPos(g) /\ Gap(g, l, j)
        BY <1>0, <2>2, <2>3, <3>1, <3>2, FullLogAfterGap
      <3> HIDE DEF g, l
      <3> QED
        BY <1>0, <2>1, <2>5, <3>3 DEF FullList
    <2> QED
      BY <2>4, <2>5 DEF FullList
  <1> QED
    BY <1>1, <1>2, <1>3 DEF ListStep

LEMMA StepLists ==
    ASSUME WellFormedProgram, IInv, Places, Lists, NEW t \in Id, ThreadStep(t), Frame(t)
    PROVE  Lists'
  <1>0. /\ TypeOK /\ UNCHANGED <<mode, saved, log, recorded>>
        /\ \A u \in Id : hist[u] \in Seq(Observation) /\ log[u] \in Seq(Entry)
    BY DEF IInv, TypeOK, LogTypeOK, Frame
  <1>1. ASSUME NEW u \in Id PROVE IsLogOf(Past(u), log[u])'
    <2>1. CASE mode = "Record" /\ u = t
      <3>1. IsLogOf(hist[t], log[t])
        BY <2>1 DEF Lists, Past
      <3>2. CASE hist'[t] = hist[t]
        BY <1>0, <2>1, <3>1, <3>2 DEF Past
      <3>3. ASSUME NEW o \in Observation, hist'[t] = Append(hist[t], o)
            PROVE  IsLogOf(Past(u), log[u])'
        <4>1. IsLogOf(Append(hist[t], o), log[t])
          BY <1>0, <3>1, LogKept
        <4> QED
          BY <1>0, <2>1, <3>3, <4>1 DEF Past
      <3> QED
        BY <2>1, <3>2, <3>3, StepList, HistoryGrows
    <2>2. CASE mode = "Record" /\ u # t
      BY <1>0, <2>2 DEF Lists, Past, Frame
    <2>3. CASE mode # "Record"
      BY <1>0, <2>3 DEF Lists, Past
    <2> QED
      BY <2>1, <2>2, <2>3
  <1>2. ASSUME mode = "Record", NEW u \in Id \ saved PROVE FullList(u)'
    <2>1. FullList(u)
      BY <1>2 DEF Lists, FullList
    <2>2. CASE u = t
      BY <1>2, <2>1, <2>2, StepList, StepFullList
    <2>3. CASE u # t
      <3>1. Carried(u)' = Carried(u)
        BY <1>0, <2>3 DEF Frame, Carried
      <3> QED
        BY <2>1, <2>3, <3>1 DEF FullList, Frame
    <2> QED
      BY <2>2, <2>3
  <1> QED
    BY <1>0, <1>1, <1>2 DEF Lists, FullList

-----------------------------------------------------------------------------
(* What the log says was received *)

LEMMA MessageStays ==
    ASSUME TypeOK, NEW t \in Id, Frame(t), Effect(t), NEW s \in Id,
           NEW p, NEW c, NEW n, NEW v, IsMessage(p, s, H(s), c, n, v)
    PROVE  IsMessage(p, s, H(s)', c, n, v)
  <1>1. CASE s # t
    BY <1>1, FrameH
  <1>2. CASE H(s)' = H(s)
    BY <1>2
  <1>3. ASSUME NEW o, s = t, Appends(t, o) PROVE IsMessage(p, s, H(s)', c, n, v)
    <2>1. H(s) \in Seq(Observation) /\ o \in Observation /\ H(s)' = Append(H(s), o)
      BY <1>3, HTyped DEF Appends
    <2> QED
      BY <2>1, MessageKeptByAppend
  <1>4. CASE s = t /\ H(t)' = hist[t] /\ H(t) = Append(hist[t], pending[t]) /\ pending[t].op # "send"
    <2> DEFINE h == hist[s]
               o == pending[s]
    <2>1. h \in Seq(Observation) /\ o \in Observation /\ o.op # "send"
      BY <1>4, HTyped
    <2>2. H(s) = Append(h, o) /\ H(s)' = h
      BY <1>4
    <2> HIDE DEF h, o
    <2>3. IsMessage(p, s, Append(h, o), c, n, v)
      BY <2>2
    <2>4. IsMessage(p, s, h, c, n, v)
      BY <2>1, <2>3, MessageKeptByDrop
    <2> QED
      BY <2>2, <2>4
  <1> QED
    BY <1>1, <1>2, <1>3, <1>4, EffectOnH

\* A receive that a history gets is not in a log that has been closed already.
LEMMA OldReceives ==
    ASSUME NEW h \in Seq(Observation), NEW o \in Observation, NEW list \in Seq(Entry),
           IsLogOf(h, list), NEW p, NEW c, NEW s, NEW hs, LogIsSent(p, c, s, h, hs, list)
    PROVE  LogIsSent(p, c, s, Append(h, o), hs, list)
  <1> DEFINE g == Append(h, o)
             n == Len(h) + 1
  <1>1. /\ g \in Seq(Observation) /\ Len(h) \in Nat /\ Agree(h, g, Len(h))
        /\ Agree(g, h, Len(h)) /\ DOMAIN g = 1 .. n
    BY AppendAgrees
  <1>2. Logs(h) \in Nat /\ LogNo(g, n) = Logs(h) + 1
    BY OneMoreLogged
  <1>3. Len(list) \in Nat /\ Len(list) <= Logs(h)
    BY ListTyped DEF IsLogOf
  <1> HIDE DEF g
  <1>4. ASSUME NEW i \in Recvs(g, c, s), LogNo(g, i) <= Len(list)
        PROVE  IsMessage(p, s, hs, c, Before(Recvs(g, c, s), i), g[i].val)
    <2>1. i \in 1 .. n
      BY <1>1 DEF Recvs
    <2>2. i # n
      BY <1>2, <1>3, <1>4
    <2>3. i \in 1 .. Len(h) /\ i \in 1 .. Len(h) + 1
      BY <1>1, <2>1, <2>2
    <2>4. i \in Recvs(h, c, s)
      BY <1>1, <2>3, SameRecv
    <2>5. h[i] = g[i]
      BY <1>1, <2>3, SameResult
    <2>6. LogNo(h, i) = LogNo(g, i)
      BY <1>1, <2>3, SameLogNo
    <2>7. Before(Recvs(g, c, s), i) = Before(Recvs(h, c, s), i)
      BY <1>1, <2>3, SameRecvNo
    <2> QED
      BY <1>4, <2>4, <2>5, <2>6, <2>7 DEF LogIsSent
  <1>5. LogIsSent(p, c, s, g, hs, list)
    BY <1>4 DEF LogIsSent
  <1> QED
    BY <1>5 DEF g

LEMMA StepLoggedReceives ==
    ASSUME WellFormedProgram, IInv, Places, Lists, LoggedReceives,
           NEW t \in Id, ThreadStep(t), Frame(t), Effect(t)
    PROVE  LoggedReceives'
  <1>0. /\ TypeOK /\ UNCHANGED <<setup, mode, saved, log, recorded>> /\ Program' = Program
        /\ \A u \in Id : hist[u] \in Seq(Observation) /\ log[u] \in Seq(Entry)
    BY DEF IInv, TypeOK, LogTypeOK, Frame, Program
  <1>1. ASSUME NEW c \in Chan, NEW s \in Id, mode = "Record"
        PROVE  LogIsSent(Program, c, s, hist'[Owner[c]], H(s)', log[Owner[c]])
    <2> DEFINE u == Owner[c]
               h == hist[u]
               list == log[u]
               p == Program
    <2>1. /\ u \in Id /\ h \in Seq(Observation) /\ list \in Seq(Entry)
          /\ IsLogOf(h, list)
      BY <1>0, <1>1, OwnerTyped DEF Lists, Past
    <2>2. LogIsSent(p, c, s, h, H(s), list)
      BY <1>1 DEF LoggedReceives
    <2>3. \/ hist'[u] = h
          \/ \E o \in Observation : hist'[u] = Append(h, o)
      <3>1. CASE u = t
        BY <1>1, <3>1, StepList, HistoryGrows
      <3>2. CASE u # t
        BY <2>1, <3>2 DEF Frame
      <3> QED
        BY <3>1, <3>2
    <2> HIDE DEF h, list, p
    <2>4. LogIsSent(p, c, s, hist'[u], H(s), list)
      BY <2>1, <2>2, <2>3, OldReceives
    <2>5. \A n, v : IsMessage(p, s, H(s), c, n, v) => IsMessage(p, s, H(s)', c, n, v)
      BY <1>0, MessageStays
    <2> QED
      BY <2>4, <2>5 DEF LogIsSent, list, p
  <1> QED
    BY <1>0, <1>1 DEF LoggedReceives
-----------------------------------------------------------------------------
(* A replayed history *)

\* A replayed thread that is within its recording has done what it did then.
LEMMA WithinRecording ==
    ASSUME NEW h \in Seq(Observation), NEW g \in Seq(Observation), IsFaithful(h, g),
           NEW k \in Nat, k <= Len(h), k <= Len(g)
    PROVE  Agree(h, g, k)
  <1>1. Len(h) \in Nat /\ DOMAIN h = 1 .. Len(h) /\ Len(g) \in Nat /\ DOMAIN g = 1 .. Len(g)
    BY HistoryPositions
  <1>2. \A i \in 1 .. k : i \in DOMAIN h /\ i \in DOMAIN g
    BY <1>1
  <1> QED
    BY <1>2 DEF Agree, IsFaithful

\* What the program of a recorded thread called next.
LEMMA NextRecorded ==
    ASSUME NEW h \in Seq(Observation), NEW g \in Seq(Observation), IsFaithful(h, g),
           NEW p, NEW t, Follows(p, t, g), Len(h) + 1 \in DOMAIN g
    PROVE  Agree(h, g, Len(h)) /\ ResultOf(Code(p, t, h), g[Len(h) + 1])
  <1>1. Len(h) \in Nat /\ Len(g) \in Nat /\ DOMAIN g = 1 .. Len(g)
    BY HistoryPositions
  <1>2. Agree(h, g, Len(h))
    BY <1>1, WithinRecording
  <1>3. SubSeq(h, 1, Len(h)) = SubSeq(g, 1, Len(h))
    BY <1>1, <1>2, AgreeSame
  <1>4. SubSeq(g, 1, Len(h) + 1 - 1) = h
    BY <1>1, <1>3, WholeHistory
  <1>5. ResultOf(Code(p, t, SubSeq(g, 1, Len(h) + 1 - 1)), g[Len(h) + 1])
    BY DEF Follows
  <1> QED
    BY <1>2, <1>4, <1>5

\* A thread that finds an entry of the right kind is within its recording.
LEMMA EntryWithinRecording ==
    ASSUME NEW h \in Seq(Observation), NEW g \in Seq(Observation), IsFaithful(h, g),
           NEW list \in Seq(Entry), Len(list) <= Logs(g), Logs(h) < Len(list)
    PROVE  Len(h) + 1 \in DOMAIN g
  <1>1. Len(h) \in Nat /\ Len(g) \in Nat /\ DOMAIN g = 1 .. Len(g) /\ Len(list) \in Nat
    BY HistoryPositions, ListTyped
  <1> SUFFICES ASSUME Len(g) <= Len(h) PROVE FALSE
    BY <1>1
  <1>2. Agree(h, g, Len(g))
    BY <1>1, WithinRecording
  <1>3. Before(LogPos(h), Len(g) + 1) = Before(LogPos(g), Len(g) + 1)
    BY <1>1, <1>2, SameLogNo
  <1>4. Before(LogPos(h), Len(g) + 1) <= Before(LogPos(h), Len(h) + 1)
    BY <1>1, BeforeMonotone
  <1>5. Before(LogPos(h), Len(h) + 1) \in Nat /\ Before(LogPos(g), Len(g) + 1) \in Nat
    BY OneMoreLogged, NoResultTyped DEF Logs
  <1> QED
    BY <1>1, <1>3, <1>4, <1>5 DEF Logs

\* The entry that a replayed operation finds is the one it was given in the
\* recording.
LEMMA EntryOfRecording ==
    ASSUME NEW h \in Seq(Observation), NEW g \in Seq(Observation), IsFaithful(h, g),
           NEW list \in Seq(Entry), IsLogOf(g, list), KindsRead(h, list),
           NEW p, NEW t, Follows(p, t, g),
           NEW op, op = Code(p, t, h), op.kind \in LoggedKind,
           Logs(h) < Len(list), list[Logs(h) + 1].op = op.kind
    PROVE  /\ Len(h) + 1 \in DOMAIN g
           /\ Logs(h) + 1 \in DOMAIN list
           /\ LogNo(g, Len(h) + 1) = Logs(h) + 1
           /\ list[Logs(h) + 1] = EntryFor(g[Len(h) + 1])
  <1> DEFINE r == Len(h) + 1
             n == Logs(h) + 1
  <1>1. /\ Len(h) \in Nat /\ r \in Nat /\ Len(list) \in Nat /\ DOMAIN list = 1 .. Len(list)
        /\ r \in 1 .. Len(h) + 1
    BY HistoryPositions, ListTyped
  <1>2. Logs(h) \in Nat /\ n \in DOMAIN list
    <2>1. Logs(h) \in Nat
      BY <1>1, BeforeType DEF Logs
    <2> QED
      BY <1>1, <2>1
  <1>3. r \in DOMAIN g
    BY EntryWithinRecording DEF IsLogOf
  <1>4. Agree(h, g, Len(h)) /\ ResultOf(op, g[r])
    BY <1>3, NextRecorded
  <1>5. g[r].op = op.kind /\ r \in LogPos(g)
    BY <1>3, <1>4 DEF ResultOf, LogPos
  <1> HIDE DEF r
  <1>6. LogNo(g, r) = n
    <2>1. LogNo(g, r) = LogNo(h, r)
      BY <1>1, <1>4, SameLogNo
    <2>2. LogNo(h, r) = 1 + Logs(h)
      BY DEF LogNo, Logs, r
    <2> QED
      BY <1>2, <2>1, <2>2
  <1>7. ASSUME NEW j \in 1 .. r, Gap(g, list, j) PROVE FALSE
    <2>1. CASE j = r
      BY <1>2, <1>5, <1>6, <1>7, <2>1 DEF Gap
    <2>2. CASE j # r
      <3>1. j \in 1 .. Len(h)
        BY <1>1, <2>2 DEF r
      <3>2. Gap(h, list, j)
        BY <1>1, <1>4, <1>7, <3>1, SameGap
      <3> QED
        BY <3>2 DEF Gap, KindsRead
    <2> QED
      BY <2>1, <2>2
  <1>8. list[n] = EntryFor(g[r])
    BY <1>2, <1>5, <1>6, <1>7 DEF IsLogOf
  <1> QED
    BY <1>2, <1>3, <1>6, <1>8 DEF r

\* A replayed operation returns what it returned in the recording.
LEMMA ReturnsRecorded ==
    ASSUME NEW h \in Seq(Observation), NEW g \in Seq(Observation), IsFaithful(h, g),
           NEW list \in Seq(Entry), KindsRead(h, list),
           NEW o, Len(h) + 1 \in DOMAIN g, o = g[Len(h) + 1], o.op \in LoggedKind,
           Logs(h) + 1 \in DOMAIN list, list[Logs(h) + 1].op = o.op
    PROVE  /\ IsFaithful(Append(h, o), g)
           /\ KindsRead(Append(h, o), list)
           /\ Logs(Append(h, o)) = Logs(h) + 1
  <1> DEFINE k == Append(h, o)
             r == Len(h) + 1
  <1>0. o \in Observation
    OBVIOUS
  <1>1. /\ k \in Seq(Observation) /\ Len(h) \in Nat /\ k[r] = o /\ Agree(h, k, Len(h))
        /\ DOMAIN k = 1 .. r /\ DOMAIN h = 1 .. Len(h)
    BY <1>0, AppendAgrees
  <1>2. Logs(k) = Logs(h) + 1 /\ LogNo(k, r) = Logs(h) + 1
    BY <1>0, OneMoreLogged
  <1>3. \A i \in LogPos(k) : \/ i = r
                             \/ /\ i \in 1 .. Len(h) /\ i \in LogPos(h) /\ k[i] = h[i]
                                /\ LogNo(k, i) = LogNo(h, i)
    BY <1>0, OldOrNew
  <1> HIDE DEF k
  <1>4. \A i \in 1 .. Len(h) : k[i] = h[i]
    BY <1>1 DEF Agree
  <1>5. IsFaithful(k, g)
    BY <1>1, <1>4 DEF IsFaithful
  <1>6. KindsRead(k, list)
    BY <1>1, <1>2, <1>3 DEF KindsRead
  <1> QED
    BY <1>2, <1>5, <1>6 DEF k

\* The same for an operation that is not logged, as far as the recording goes.
LEMMA ReturnsUnlogged ==
    ASSUME NEW h \in Seq(Observation), NEW g \in Seq(Observation), IsFaithful(h, g),
           NEW list \in Seq(Entry), KindsRead(h, list),
           NEW p, NEW t, Follows(p, t, g), NEW o \in {NoResult, Done}, o.op = Code(p, t, h).kind
    PROVE  /\ IsFaithful(Append(h, o), g)
           /\ KindsRead(Append(h, o), list)
           /\ Logs(Append(h, o)) = Logs(h)
  <1> DEFINE k == Append(h, o)
             r == Len(h) + 1
  <1>0. /\ o \in Observation /\ o.op \notin LoggedKind
        /\ \A q \in {NoResult, Done} : q.op = o.op => q = o
    BY NoResultTyped DEF NoResult, Done, LoggedKind, RecvKind
  <1>1. /\ k \in Seq(Observation) /\ Len(h) \in Nat /\ k[r] = o /\ Agree(h, k, Len(h))
        /\ DOMAIN k = 1 .. r /\ DOMAIN h = 1 .. Len(h)
    BY <1>0, AppendAgrees
  <1>2. Logs(h) \in Nat /\ Logs(k) = Logs(h) + (IF o.op \in LoggedKind THEN 1 ELSE 0)
    BY <1>0, OneMoreLogged
  <1>3. Logs(k) = Logs(h)
    BY <1>0, <1>2
  <1>4. \A i \in LogPos(k) : \/ i = r
                             \/ /\ i \in 1 .. Len(h) /\ i \in LogPos(h) /\ k[i] = h[i]
                                /\ LogNo(k, i) = LogNo(h, i)
    BY <1>0, OldOrNew
  <1>5. r \in DOMAIN g => g[r] = o
    <2> SUFFICES ASSUME r \in DOMAIN g PROVE g[r] = o
      OBVIOUS
    <2>1. ResultOf(Code(p, t, h), g[r])
      BY NextRecorded
    <2> QED
      BY <1>0, <2>1 DEF ResultOf
  <1> HIDE DEF k, r
  <1>6. \A i \in 1 .. Len(h) : k[i] = h[i]
    BY <1>1 DEF Agree
  <1>7. IsFaithful(k, g)
    <2> SUFFICES ASSUME NEW i \in 1 .. r
                 PROVE  IF i \in DOMAIN g THEN k[i] = g[i] ELSE k[i] \in {NoResult, Done}
      BY <1>1 DEF IsFaithful
    <2>1. CASE i = r
      BY <1>1, <1>5, <2>1
    <2>2. CASE i # r
      <3>1. i \in 1 .. Len(h)
        BY <1>1, <2>2 DEF r
      <3> QED
        BY <1>1, <1>6, <3>1 DEF IsFaithful
    <2> QED
      BY <2>1, <2>2
  <1>8. r \notin LogPos(k)
    BY <1>0, <1>1 DEF LogPos
  <1>9. KindsRead(k, list)
    BY <1>4, <1>8 DEF KindsRead
  <1> QED
    BY <1>3, <1>7, <1>9 DEF k

\* A message of a replayed sender is one of its recording.
LEMMA MessageOfRecording ==
    ASSUME NEW h \in Seq(Observation), NEW g \in Seq(Observation), IsFaithful(h, g),
           NEW p, NEW c, NEW s, NEW n, NEW v, IsMessage(p, s, h, c, n, v)
    PROVE  IsMessage(p, s, g, c, n, v)
  <1>1. PICK j \in Sends(h, c) : Before(Sends(h, c), j) = n /\ v = SendVal(p, s, h, j)
    BY DEF IsMessage
  <1>2. /\ j \in DOMAIN h /\ h[j].op = "send" /\ j \in Nat \ {0} /\ j <= Len(h)
        /\ j - 1 \in Nat /\ j - 1 <= j /\ j \in 1 .. j /\ j \in 1 .. j + 1
    BY HistoryPositions DEF Sends
  <1>3. j \in DOMAIN g
    BY <1>2 DEF IsFaithful, NoResult, Done
  <1>4. j <= Len(g)
    BY <1>3, HistoryPositions
  <1>5. Agree(h, g, j)
    BY <1>2, <1>4, WithinRecording
  <1>6. j \in Sends(g, c)
    BY <1>1, <1>2, <1>5, SameSend
  <1>7. Before(Sends(g, c), j) = n
    BY <1>1, <1>2, <1>5, SameSendNo
  <1>8. SendVal(p, s, g, j) = v
    <2>1. SubSeq(h, 1, j - 1) = SubSeq(g, 1, j - 1)
      BY <1>2, <1>5, SamePast
    <2> QED
      BY <1>1, <2>1 DEF SendVal
  <1> QED
    BY <1>6, <1>7, <1>8 DEF IsMessage

\* So a replayed receiver gets the value that it got in the recording.
LEMMA ValueOfRecording ==
    ASSUME NEW h \in Seq(Observation), NEW g \in Seq(Observation), Agree(h, g, Len(h)),
           NEW hs \in Seq(Observation), NEW gs \in Seq(Observation), IsFaithful(hs, gs),
           NEW p, NEW c, NEW s, NEW list, LogIsAsSent(p, c, s, g, gs, list),
           Len(h) + 1 \in Recvs(g, c, s), LogNo(g, Len(h) + 1) <= Len(list),
           NEW v, IsMessage(p, s, hs, c, Got(h, c, s), v)
    PROVE  v = g[Len(h) + 1].val
  <1> DEFINE r == Len(h) + 1
  <1>1. Len(h) \in Nat /\ r \in 1 .. Len(h) + 1
    BY HistoryPositions
  <1>2. Got(h, c, s) = Before(Recvs(g, c, s), r)
    BY <1>1, SameRecvNo DEF Got
  <1>3. IsMessage(p, s, gs, c, Before(Recvs(g, c, s), r), v)
    BY <1>2, MessageOfRecording
  <1> QED
    BY <1>3 DEF IsMessage, LogIsAsSent

-----------------------------------------------------------------------------
(* A step of a replayed thread *)

Playing == mode = "Replay" /\ ~desynced /\ SendsSucceed

\* The operation that a thread is in, in the recording, and its entry.
Then(t) == recorded[t][Len(hist[t]) + 1]

FindsEntry(t) ==
    /\ Len(hist[t]) + 1 \in DOMAIN recorded[t]
    /\ Logs(hist[t]) + 1 \in DOMAIN log[t]
    /\ log[t][Logs(hist[t]) + 1] = EntryFor(Then(t))

LEMMA Replaying ==
    ASSUME FInv, Playing, NEW t \in Id
    PROVE  /\ hist[t] \in Seq(Observation) /\ recorded[t] \in Seq(Observation)
           /\ log[t] \in Seq(Entry) /\ next[t] \in Nat
           /\ IsLogOf(recorded[t], log[t]) /\ Follows(Program, t, recorded[t])
           /\ H(t) = hist[t]
           /\ IsFaithful(hist[t], recorded[t]) /\ KindsRead(hist[t], log[t]) /\ Cursor(t)
           /\ Op(t) = Code(Program, t, hist[t])
  <1>1. /\ hist[t] \in Seq(Observation) /\ recorded[t] \in Seq(Observation)
        /\ log[t] \in Seq(Entry) /\ next[t] \in Nat
    BY DEF FInv, IInv, TypeOK, LogTypeOK
  <1>2. IsLogOf(recorded[t], log[t]) /\ Follows(Program, t, recorded[t])
    BY DEF FInv, Playing, Lists, Past, Histories
  <1>3. H(t) = hist[t]
    BY DEF FInv, Playing, Places, InReplay, H
  <1>4. IsFaithful(hist[t], recorded[t]) /\ KindsRead(hist[t], log[t]) /\ Cursor(t)
    BY DEF FInv, Playing, Replayed, IsReplayed
  <1> QED
    BY <1>1, <1>2, <1>3, <1>4 DEF Op, Program

LEMMA TakesEntry ==
    ASSUME FInv, Playing, NEW t \in Id, AsksLog(t), GetLogEntry(t), ~Mismatch(Op(t), NextEntry(t))
    PROVE  /\ FindsEntry(t)
           /\ next'[t] = Logs(hist[t]) + 1
           /\ NextEntry(t) = EntryFor(Then(t))
  <1> DEFINE h == hist[t]
             g == recorded[t]
             list == log[t]
             op == Op(t)
             p == Program
  <1>1. /\ h \in Seq(Observation) /\ g \in Seq(Observation) /\ list \in Seq(Entry)
        /\ IsLogOf(g, list) /\ Follows(p, t, g) /\ IsFaithful(h, g) /\ KindsRead(h, list)
        /\ op = Code(p, t, h) /\ next[t] \in Nat /\ Cursor(t)
    BY Replaying
  <1>2. at[t] = "idle" /\ status[t] = "running" /\ op.kind \in LoggedKind
    BY DEF AsksLog, Calls, At, LoggedKind
  <1>3. next[t] = Logs(h) /\ Logs(h) \in Nat
    <2>1. Reading(t) = 0 /\ next[t] = Logs(h) + Reading(t)
      BY <1>1, <1>2 DEF Cursor, Reading
    <2>2. Logs(h) \in Nat
      BY <1>1, OneMoreLogged, NoResultTyped
    <2> QED
      BY <2>1, <2>2
  <1>4. /\ next[t] < Len(list) /\ next'[t] = next[t] + 1
        /\ NextEntry(t) = list[next[t] + 1] /\ NextEntry(t).op = op.kind
    BY DEF GetLogEntry, HasEntry, NextEntry, Mismatch, FInv, IInv, TypeOK, LogTypeOK
  <1> HIDE DEF h, g, list, op, p
  <1>5. Logs(h) < Len(list) /\ list[Logs(h) + 1].op = op.kind
    BY <1>3, <1>4
  <1>6. /\ Len(h) + 1 \in DOMAIN g
        /\ Logs(h) + 1 \in DOMAIN list
        /\ list[Logs(h) + 1] = EntryFor(g[Len(h) + 1])
    BY <1>1, <1>2, <1>5, EntryOfRecording
  <1> QED
    BY <1>3, <1>4, <1>6 DEF FindsEntry, Then, h, g, list

\* A thread that waits for the channel or the message has taken its entry.
LEMMA HasTakenEntry ==
    ASSUME FInv, Playing, NEW t \in Id, status[t] = "running", at[t] \in {"deliver", "receive"}
    PROVE  /\ FindsEntry(t)
           /\ next[t] = Logs(hist[t]) + 1
           /\ at[t] = "receive" => Then(t).error = "none" /\ Then(t).from = expected[t]
  <1>1. Cursor(t) /\ Reading(t) = 1
    BY Replaying DEF Reading
  <1> QED
    BY <1>1 DEF Cursor, FindsEntry, Then

\* What a thread did then is what its operation may return.
LEMMA ThenTyped ==
    ASSUME FInv, Playing, NEW t \in Id, FindsEntry(t), Op(t).kind \in LoggedKind
    PROVE  /\ Then(t) \in Observation
           /\ Then(t).op = Op(t).kind /\ Then(t).chan = Op(t).chan
           /\ Then(t).op = "send" => Then(t) \in SendResult
           /\ Then(t).op \in RecvKind => Then(t) \in RecvResult
           /\ EntryFor(Then(t)).op = Then(t).op
           /\ Agree(hist[t], recorded[t], Len(hist[t]))
           /\ LogNo(recorded[t], Len(hist[t]) + 1) = Logs(hist[t]) + 1
  <1> DEFINE h == hist[t]
             g == recorded[t]
             p == Program
             r == Len(h) + 1
  <1>1. /\ h \in Seq(Observation) /\ g \in Seq(Observation)
        /\ Follows(p, t, g) /\ IsFaithful(h, g) /\ Op(t) = Code(p, t, h)
        /\ Len(h) + 1 \in DOMAIN g
    BY Replaying DEF FindsEntry
  <1> HIDE DEF h, g, p
  <1>2. Agree(h, g, Len(h)) /\ ResultOf(Op(t), g[Len(h) + 1])
    BY <1>1, NextRecorded
  <1>3. g[r] \in Observation
    BY <1>1
  <1>4. LogNo(g, r) = Logs(h) + 1
    <2>1. Len(h) \in Nat /\ r \in 1 .. Len(h) + 1
      BY <1>1, HistoryPositions
    <2>2. LogNo(g, r) = LogNo(h, r)
      BY <1>1, <1>2, <2>1, SameLogNo
    <2>3. Logs(h) \in Nat
      BY <1>1, OneMoreLogged, NoResultTyped
    <2> QED
      BY <2>2, <2>3 DEF LogNo, Logs
  <1>5. Then(t) = g[r]
    BY DEF Then, h, g
  <1> HIDE DEF r
  <1>6. Then(t) \in Observation /\ Then(t).op = Op(t).kind /\ Then(t).chan = Op(t).chan
    BY <1>2, <1>3, <1>5 DEF ResultOf, r
  <1>7. /\ Then(t).op = "send" => Then(t) \in SendResult
        /\ Then(t).op \in RecvKind => Then(t) \in RecvResult
    BY <1>6 DEF Observation, SendResult, RecvResult, NoResult, Done, RecvKind
  <1>8. EntryFor(Then(t)).op = Then(t).op
    BY DEF EntryFor
  <1> QED
    BY <1>2, <1>4, <1>6, <1>7, <1>8 DEF h, g, r

\* Then(t) is returned.
LEMMA ReturnReplayed ==
    ASSUME FInv, Playing, NEW t \in Id, FindsEntry(t), Op(t).kind \in LoggedKind,
           Return(t, Then(t)), next'[t] = Logs(hist[t]) + 1, UNCHANGED <<log, recorded>>
    PROVE  IsReplayed(t)'
  <1> DEFINE h == hist[t]
             g == recorded[t]
             list == log[t]
             o == Then(t)
  <1>1. /\ h \in Seq(Observation) /\ g \in Seq(Observation) /\ list \in Seq(Entry)
        /\ IsFaithful(h, g) /\ KindsRead(h, list)
    BY Replaying
  <1>2. /\ Len(h) + 1 \in DOMAIN g /\ o = g[Len(h) + 1]
        /\ Logs(h) + 1 \in DOMAIN list /\ list[Logs(h) + 1] = EntryFor(o)
    BY DEF FindsEntry, Then
  <1>3. o.op \in LoggedKind /\ EntryFor(o).op = o.op
    BY ThenTyped
  <1>4. hist'[t] = Append(h, o) /\ at'[t] = "idle"
    BY Returned DEF FInv, IInv
  <1> HIDE DEF h, g, list, o
  <1>5. /\ IsFaithful(Append(h, o), g)
        /\ KindsRead(Append(h, o), list)
        /\ Logs(Append(h, o)) = Logs(h) + 1
    BY <1>1, <1>2, <1>3, ReturnsRecorded
  <1>6. next'[t] = Logs(hist'[t]) + 0
    <2>1. Logs(h) \in Nat
      BY <1>1, OneMoreLogged, NoResultTyped
    <2> QED
      BY <1>4, <1>5, <2>1 DEF h
  <1> QED
    BY <1>4, <1>5, <1>6 DEF IsReplayed, Cursor, Reading, g, list

\* A message of the right sender is the one that was received then.
LEMMA RightMessage ==
    ASSUME FInv, Playing, NEW t \in Id, FindsEntry(t), Op(t).kind \in RecvKind,
           Owner[Op(t).chan] = t, Op(t).chan \in Chan,
           Then(t).error = "none", NEW v,
           IsMessage(Program, Then(t).from, hist[Then(t).from], Op(t).chan,
                     Got(hist[t], Op(t).chan, Then(t).from), v)
    PROVE  Result(Op(t), Then(t).from, v, "none") = Then(t)
  <1> DEFINE h == hist[t]
             g == recorded[t]
             list == log[t]
             o == Then(t)
             s == o.from
             c == Op(t).chan
             p == Program
             hs == hist[s]
             gs == recorded[s]
             r == Len(h) + 1
  <1>0. Op(t).kind \in LoggedKind
    BY DEF LoggedKind
  <1>1. /\ o \in RecvResult /\ o.op = Op(t).kind /\ o.chan = c
        /\ Agree(h, g, Len(h)) /\ LogNo(g, r) = Logs(h) + 1
    BY <1>0, ThenTyped
  <1>2. s \in Id
    BY <1>1 DEF RecvResult, RecvFailure
  <1>3. /\ h \in Seq(Observation) /\ g \in Seq(Observation) /\ list \in Seq(Entry)
        /\ hs \in Seq(Observation) /\ gs \in Seq(Observation) /\ IsFaithful(hs, gs)
    BY <1>2, Replaying
  <1>4. LogIsAsSent(p, c, s, g, gs, list)
    BY <1>2 DEF FInv, Playing, LoggedReceives
  <1>5. r \in DOMAIN g /\ Logs(h) + 1 \in DOMAIN list /\ o = g[r]
    BY DEF FindsEntry, Then
  <1>6. LogNo(g, r) <= Len(list)
    BY <1>1, <1>3, <1>5, ListTyped
  <1>7. r \in Recvs(g, c, s)
    BY <1>0, <1>1, <1>5 DEF Recvs
  <1>8. IsMessage(p, s, hs, c, Got(h, c, s), v)
    OBVIOUS
  <1>9. o = Result(Op(t), o.from, o.val, "none")
    BY <1>1 DEF RecvResult, Result, RecvFailure
  <1> HIDE DEF h, g, list, hs, gs, p, c, s, o, r
  <1>10. v = g[Len(h) + 1].val
    BY <1>1, <1>3, <1>4, <1>6, <1>7, <1>8, ValueOfRecording DEF r
  <1> QED
    BY <1>5, <1>9, <1>10 DEF s, r, o

\* A step that changes nothing the replay depends on.
LEMMA StaysReplayed ==
    ASSUME FInv, Playing, NEW t \in Id, UNCHANGED <<log, recorded>>, hist'[t] = hist[t],
           \/ status'[t] = "panicked"
           \/ /\ next'[t] = next[t] /\ at'[t] = at[t] /\ expected'[t] = expected[t]
              /\ status[t] # "panicked"
    PROVE  IsReplayed(t)'
  <1>1. IsFaithful(hist[t], recorded[t]) /\ KindsRead(hist[t], log[t]) /\ Cursor(t)
    BY Replaying
  <1>2. Cursor(t)'
    <2>1. CASE status'[t] = "panicked"
      BY <2>1 DEF Cursor
    <2>2. CASE /\ next'[t] = next[t] /\ at'[t] = at[t] /\ expected'[t] = expected[t]
               /\ status[t] # "panicked"
      BY <1>1, <2>2 DEF Cursor, Reading
    <2> QED
      BY <2>1, <2>2
  <1> QED
    BY <1>1, <1>2 DEF IsReplayed

\* The thread enters the second half of its operation.
LEMMA EntersReplayed ==
    ASSUME FInv, Playing, NEW t \in Id, UNCHANGED <<log, recorded>>, hist'[t] = hist[t],
           FindsEntry(t), next'[t] = Logs(hist[t]) + 1, at'[t] \in {"deliver", "receive"},
           at'[t] = "receive" => Then(t).error = "none" /\ Then(t).from = expected'[t]
    PROVE  IsReplayed(t)'
  <1>1. IsFaithful(hist[t], recorded[t]) /\ KindsRead(hist[t], log[t])
    BY Replaying
  <1>2. Cursor(t)'
    BY DEF Cursor, Reading, FindsEntry, Then
  <1> QED
    BY <1>1, <1>2 DEF IsReplayed

\* An operation that is not logged returns.
LEMMA UnloggedReplayed ==
    ASSUME FInv, Playing, NEW t \in Id, UNCHANGED <<log, recorded>>, next'[t] = next[t],
           at[t] = "idle", status[t] = "running",
           NEW o \in {NoResult, Done}, Return(t, o), o.op = Op(t).kind
    PROVE  IsReplayed(t)'
  <1> DEFINE h == hist[t]
             g == recorded[t]
             list == log[t]
             p == Program
  <1>1. /\ h \in Seq(Observation) /\ g \in Seq(Observation) /\ list \in Seq(Entry)
        /\ IsFaithful(h, g) /\ KindsRead(h, list) /\ Follows(p, t, g)
        /\ Op(t) = Code(p, t, h) /\ Cursor(t)
    BY Replaying
  <1>2. hist'[t] = Append(h, o) /\ at'[t] = "idle"
    BY Returned DEF FInv, IInv
  <1>3. next[t] = Logs(h) + 0
    BY <1>1 DEF Cursor, Reading
  <1> HIDE DEF h, g, list, p
  <1>4. /\ IsFaithful(Append(h, o), g)
        /\ KindsRead(Append(h, o), list)
        /\ Logs(Append(h, o)) = Logs(h)
    BY <1>1, ReturnsUnlogged
  <1>5. next'[t] = Logs(hist'[t]) + 0
    BY <1>2, <1>3, <1>4
  <1> QED
    BY <1>2, <1>4, <1>5 DEF IsReplayed, Cursor, Reading, g, list

\* The program does not desync, so handle_desync can only panic.
LEMMA DesyncReplayed ==
    ASSUME FInv, Playing, NEW t \in Id, UNCHANGED <<log, recorded>>, HandleDesync(t), ~desynced'
    PROVE  IsReplayed(t)'
  <1>1. Panic(t)
    BY DEF HandleDesync
  <1>2. status'[t] = "panicked" /\ hist'[t] = hist[t]
    BY <1>1 DEF Panic, FInv, IInv, TypeOK
  <1> QED
    BY <1>2, StaysReplayed

\* A channel of a replay: what its receiver gets next.
LEMMA ReplayFlow ==
    ASSUME FInv, Playing, NEW c \in Chan, NEW s \in Id
    PROVE  InOrder(Program, c, s, hist[Owner[c]], hist[s], buffer[c][s], wire[c])
  <1>1. Flow(c, s)
    BY DEF FInv, Playing, Messages, Live
  <1>2. H(s) = hist[s] /\ H(Owner[c]) = hist[Owner[c]]
    BY Replaying, OwnerTyped
  <1> QED
    BY <1>1, <1>2 DEF Flow

LEMMA FirstBuffered ==
    ASSUME NEW p, NEW c, NEW s, NEW h \in Seq(Observation), NEW hs, NEW buf \in Seq(Val),
           NEW w, buf # <<>>, InOrder(p, c, s, h, hs, buf, w)
    PROVE  IsMessage(p, s, hs, c, Got(h, c, s), Head(buf))
  <1>1. 1 \in DOMAIN buf /\ Head(buf) = buf[1]
    OBVIOUS
  <1>2. Got(h, c, s) \in Nat
    BY CountsTyped
  <1>3. Got(h, c, s) + 1 - 1 = Got(h, c, s)
    BY <1>2
  <1>4. IsMessage(p, s, hs, c, Got(h, c, s) + 1 - 1, buf[1])
    BY <1>1 DEF InOrder
  <1> QED
    BY <1>1, <1>3, <1>4

LEMMA FirstOnWire ==
    ASSUME NEW p, NEW c, NEW s, NEW h \in Seq(Observation), NEW hs, NEW buf, buf = <<>>,
           NEW w \in Seq(Message), w # <<>>, Head(w).from = s,
           InOrder(p, c, s, h, hs, buf, w)
    PROVE  IsMessage(p, s, hs, c, Got(h, c, s), Head(w).val)
  <1>1. 1 \in DOMAIN w /\ Head(w) = w[1]
    OBVIOUS
  <1>2. 1 \in OnWire(w, s)
    BY <1>1 DEF OnWire
  <1>3. Got(h, c, s) \in Nat /\ Len(buf) = 0
    BY CountsTyped
  <1>4. Before(OnWire(w, s), 1) = 0
    BY BeforeFirst
  <1>5. IsMessage(p, s, hs, c, Got(h, c, s) + Len(buf) + Before(OnWire(w, s), 1), w[1].val)
    BY <1>2 DEF InOrder
  <1>6. Got(h, c, s) + Len(buf) + Before(OnWire(w, s), 1) = Got(h, c, s)
    BY <1>3, <1>4
  <1> QED
    BY <1>1, <1>5, <1>6

LEMMA SendReplayed ==
    ASSUME FInv, Playing, Playing', WellFormedProgram, NEW t \in Id, Frame(t), Deliver(t)
    PROVE  IsReplayed(t)'
  <1> DEFINE op == Op(t)
  <1>0. TypeOK /\ op \in Operation /\ Inside(t) /\ InEither(t)
    BY OpTyped DEF FInv, IInv, InsideOp, Places
  <1>1. At(t, "deliver") /\ op.kind = "send" /\ op.kind \in LoggedKind
    BY <1>0 DEF Deliver, At, InEither, Playing, Inside, LoggedKind
  <1>2. FindsEntry(t) /\ next[t] = Logs(hist[t]) + 1
    BY <1>1, HasTakenEntry DEF At
  <1>3. Then(t) \in SendResult /\ Then(t).chan = op.chan
    BY <1>1, <1>2, ThenTyped
  <1>4. Then(t).error # "SendError"
    BY <1>2 DEF Playing, SendsSucceed, SendFailed, FindsEntry, Then
  <1>5. Then(t) = Failure(op, "none")
    BY <1>1, <1>3, <1>4 DEF SendResult, Failure, Result
  <1>6. PICK obs : Send(t, op, obs) /\ Return(t, obs)
    BY <1>1 DEF Deliver
  <1>7. obs \in SendResult
    BY <1>0, <1>1, <1>6, SendTyped
  <1>8. obs.error # "SendError"
    <2>1. hist[t] \in Seq(Observation) /\ obs \in Observation
      BY <1>0, <1>7 DEF TypeOK, Observation
    <2>2. hist'[t] = Append(hist[t], obs)
      BY <1>0, <1>6, Returned
    <2>3. Len(hist[t]) + 1 \in DOMAIN hist'[t] /\ hist'[t][Len(hist[t]) + 1] = obs
      BY <2>1, <2>2, AppendAgrees
    <2> QED
      BY <2>3 DEF Playing, SendsSucceed, SendFailed
  <1>9. obs = Failure(op, "none")
    BY <1>6, <1>8 DEF Send, SendOutcomes, Failure, Result
  <1>10. UNCHANGED <<log, recorded>> /\ next'[t] = next[t]
    BY DEF Deliver, logVars, recordVars, replayVars
  <1> HIDE DEF op
  <1> QED
    BY <1>1, <1>2, <1>5, <1>6, <1>9, <1>10, ReturnReplayed DEF op

LEMMA RecvReplayed ==
    ASSUME FInv, Playing, WellFormedProgram, OwnReceivers, NEW t \in Id, Frame(t),
           ReplayRecv(t)
    PROVE  IsReplayed(t)'
  <1> DEFINE op == Op(t)
             c == op.chan
             entry == NextEntry(t)
             s == entry.from
             early == buffer[c][s]
             o == Then(t)
  <1>0. TypeOK /\ op \in Operation
    BY OpTyped DEF FInv, IInv
  <1>1. op.kind \in RecvKind /\ op.kind \in LoggedKind /\ c \in Chan /\ Owner[c] = t
    BY <1>0, RecvAtHome, OpShape DEF ReplayRecv, LoggedKind
  <1>2. FindsEntry(t) /\ next'[t] = Logs(hist[t]) + 1 /\ entry = EntryFor(o)
    BY TakesEntry DEF ReplayRecv
  <1>3. o \in RecvResult /\ o.op = op.kind /\ o.chan = c
    BY <1>1, <1>2, ThenTyped
  <1>4. entry.error = o.error /\ s = o.from
    <2>1. o.op # "send"
      BY <1>1, <1>3 DEF RecvKind
    <2> QED
      BY <1>2, <2>1 DEF EntryFor
  <1>5. UNCHANGED <<log, recorded>>
    BY DEF Frame
  <1>6. CASE entry.error # "none" /\ Return(t, Failure(op, entry.error))
    <2>1. o = Failure(op, entry.error)
      BY <1>3, <1>4, <1>6 DEF RecvResult, Failure, Result
    <2> QED
      BY <1>1, <1>2, <1>5, <1>6, <2>1, ReturnReplayed
  <1>7. CASE entry.error = "none" /\ early # <<>> /\ Return(t, Result(op, s, Head(early), "none"))
    <2>1. s \in Id
      BY <1>3, <1>4, <1>7 DEF RecvResult, RecvFailure
    <2>2. early \in Seq(Val) /\ hist[t] \in Seq(Observation)
      BY <1>0, <1>1, <2>1 DEF TypeOK
    <2>3. InOrder(Program, c, s, hist[t], hist[s], early, wire[c])
      BY <1>1, <2>1, ReplayFlow
    <2>4. IsMessage(Program, s, hist[s], c, Got(hist[t], c, s), Head(early))
      BY <1>7, <2>2, <2>3, FirstBuffered
    <2>5. Result(op, s, Head(early), "none") = o
      BY <1>1, <1>2, <1>4, <1>7, <2>4, RightMessage
    <2> QED
      BY <1>1, <1>2, <1>5, <1>7, <2>5, ReturnReplayed
  <1>8. CASE /\ entry.error = "none"
             /\ expected' = [expected EXCEPT ![t] = s]
             /\ MoveTo(t, "receive")
             /\ UNCHANGED hist
    <2>1. expected'[t] = s /\ at'[t] = "receive" /\ hist'[t] = hist[t]
      BY <1>0, <1>8 DEF MoveTo, TypeOK
    <2> QED
      BY <1>2, <1>4, <1>5, <1>8, <2>1, EntersReplayed
  <1> QED
    BY <1>6, <1>7, <1>8 DEF ReplayRecv

LEMMA ReceiveReplayed ==
    ASSUME FInv, Playing, WellFormedProgram, OwnReceivers, NEW t \in Id, Frame(t),
           ReceiveExpected(t)
    PROVE  IsReplayed(t)'
  <1> DEFINE op == Op(t)
             c == op.chan
             m == Head(wire[c])
             s == expected[t]
             o == Then(t)
  <1>0. TypeOK /\ op \in Operation /\ Inside(t) /\ InEither(t)
    BY OpTyped DEF FInv, IInv, InsideOp, Places
  <1>1. /\ at[t] = "receive" /\ status[t] = "running" /\ op.kind \in RecvKind
        /\ op.kind \in LoggedKind /\ c \in Chan /\ Owner[c] = t
        /\ s \in Id /\ wire[c] # <<>> /\ buffer[c][s] = <<>>
    BY <1>0, RecvAtHome, OpShape DEF ReceiveExpected, At, Inside, InEither, LoggedKind
  <1>2. FindsEntry(t) /\ next[t] = Logs(hist[t]) + 1 /\ o.error = "none" /\ o.from = s
    BY <1>1, HasTakenEntry
  <1>3. UNCHANGED <<log, recorded>> /\ next'[t] = next[t]
    BY DEF ReceiveExpected, logVars, recordVars, replayVars
  <1>4. CASE m.from = s /\ Return(t, Result(op, m.from, m.val, "none"))
    <2>1. wire[c] \in Seq(Message) /\ hist[t] \in Seq(Observation)
      BY <1>0, <1>1 DEF TypeOK
    <2>2. InOrder(Program, c, s, hist[t], hist[s], buffer[c][s], wire[c])
      BY <1>1, ReplayFlow
    <2>3. IsMessage(Program, s, hist[s], c, Got(hist[t], c, s), m.val)
      BY <1>1, <1>4, <2>1, <2>2, FirstOnWire
    <2>4. Result(op, s, m.val, "none") = o
      BY <1>1, <1>2, <2>3, RightMessage
    <2> QED
      BY <1>1, <1>2, <1>3, <1>4, <2>4, ReturnReplayed
  <1>5. CASE UNCHANGED threadVars
    BY <1>1, <1>3, <1>5, StaysReplayed DEF threadVars
  <1> QED
    BY <1>4, <1>5 DEF ReceiveExpected

LEMMA StepReplayed ==
    ASSUME FInv, Playing, Playing', WellFormedProgram, OwnReceivers, NEW t \in Id, Frame(t),
           ThreadStep(t)
    PROVE  IsReplayed(t)'
  <1>0. TypeOK /\ Inside(t) /\ InReplay(t) /\ InEither(t) /\ UNCHANGED <<log, recorded>>
    BY DEF FInv, IInv, InsideOp, Places, Playing, Frame
  <1>1. ~desynced /\ ~desynced' /\ mode = "Replay"
    BY DEF Playing
  <1>2. ~(RecordOp(t) \/ RecordEvent(t) \/ RecordEventFails(t))
    BY <1>1 DEF RecordOp, RecordEvent, RecordEventFails, InitEventSender, WriteEvent,
                EventSenderPanics, CannotWriteEvent
  <1>3. CASE OpenLog(t)
    <2>1. /\ next'[t] = next[t] /\ at'[t] = at[t] /\ expected'[t] = expected[t]
          /\ hist'[t] = hist[t] /\ status[t] # "panicked"
      BY <1>3 DEF OpenLog, InitEventReceiver, EventReceiverPanics, AsksLog, Calls, At
    <2> QED
      BY <1>0, <2>1, StaysReplayed
  <1>4. CASE FallAsleep(t)
    <2>1. /\ next'[t] = next[t] /\ at'[t] = at[t] /\ expected'[t] = expected[t]
          /\ hist'[t] = hist[t] /\ status[t] # "panicked"
      BY <1>4 DEF FallAsleep, AsksLog, Calls, At, logVars, replayVars
    <2> QED
      BY <1>0, <2>1, StaysReplayed
  <1>5. CASE ReplayMismatch(t)
    BY <1>0, <1>1, <1>5, DesyncReplayed DEF ReplayMismatch
  <1>6. CASE ReplaySend(t)
    <2>1. FindsEntry(t) /\ next'[t] = Logs(hist[t]) + 1
      BY <1>6, TakesEntry DEF ReplaySend
    <2>2. at'[t] = "deliver" /\ hist'[t] = hist[t]
      BY <1>0, <1>6 DEF ReplaySend, MoveTo, TypeOK
    <2> QED
      BY <1>0, <2>1, <2>2, EntersReplayed
  <1>7. CASE Deliver(t)
    BY <1>7, SendReplayed
  <1>8. CASE ReplayRecv(t)
    BY <1>8, RecvReplayed
  <1>9. CASE ReceiveExpected(t)
    BY <1>9, ReceiveReplayed
  <1>10. CASE ReceiveTimesOut(t)
    BY <1>0, <1>1, <1>10, DesyncReplayed DEF ReceiveTimesOut
  <1>11. ~(WakeUp(t) \/ SendDesynced(t) \/ ReceiveAny(t))
    BY <1>0, <1>1 DEF WakeUp, SendDesynced, ReceiveAny, At, InEither
  <1>12. CASE Join(t)
    <2>1. /\ next'[t] = next[t] /\ at[t] = "idle" /\ status[t] = "running"
          /\ Return(t, NoResult) /\ NoResult.op = Op(t).kind
      BY <1>12 DEF Join, Calls, At, logVars, replayVars, NoResult
    <2> QED
      BY <1>0, <2>1, UnloggedReplayed
  <1>13. CASE ExecutionDone(t)
    <2>1. /\ next'[t] = next[t] /\ at[t] = "idle" /\ status[t] = "running"
          /\ Return(t, Done) /\ Done.op = Op(t).kind
      BY <1>0, <1>1, <1>13 DEF ExecutionDone, TakeRecorder, InReplay, Calls, At, logVars,
                               replayVars, Done, NoResult
    <2> QED
      BY <1>0, <2>1, UnloggedReplayed
  <1>14. CASE Exit(t)
    <2>1. /\ next'[t] = next[t] /\ at'[t] = at[t] /\ expected'[t] = expected[t]
          /\ hist'[t] = hist[t] /\ status[t] # "panicked"
      BY <1>14 DEF Exit, Calls, At, logVars, replayVars
    <2> QED
      BY <1>0, <2>1, StaysReplayed
  <1> QED
    BY <1>2, <1>3, <1>4, <1>5, <1>6, <1>7, <1>8, <1>9, <1>10, <1>11, <1>12, <1>13, <1>14
    DEF ThreadStep

\* What a step does in a replay says nothing about the steps before it that
\* the replay forgives.
LEMMA SendsSucceeded ==
    ASSUME FInv, Places', NEW t \in Id, Frame(t), Effect(t), mode = "Replay", SendsSucceed'
    PROVE  SendsSucceed
  <1>1. mode = "Replay" /\ recorded' = recorded
    BY DEF Frame
  <1>2. ASSUME NEW u \in Id, SendFailed(hist[u]) PROVE SendFailed(hist'[u])
    <2>1. CASE hist'[u] = hist[u]
      BY <1>2, <2>1
    <2>2. CASE u # t
      BY <1>2, <2>2 DEF Frame
    <2>3. ASSUME NEW o, u = t, Appends(t, o) PROVE SendFailed(hist'[u])
      <3>1. at'[t] # "log" /\ H(t)' = hist'[t] /\ H(t) = hist[t] /\ o \in Observation
        BY <1>1, <2>3 DEF Frame, Places, InReplay, H, Appends
      <3>2. hist[t] \in Seq(Observation) /\ hist'[t] = Append(hist[t], o)
        BY <2>3, <3>1 DEF Appends, FInv, IInv, TypeOK
      <3>3. PICK i \in DOMAIN hist[t] : hist[t][i].error = "SendError"
        BY <1>2, <2>3 DEF SendFailed
      <3>4. i \in DOMAIN hist'[t] /\ hist'[t][i] = hist[t][i]
        BY <3>1, <3>2, <3>3
      <3> QED
        BY <2>3, <3>3, <3>4 DEF SendFailed
    <2>4. at[t] # "log" /\ at'[t] # "log"
      BY <1>1 DEF Frame, FInv, Places, InReplay
    <2>5. H(t)' = hist'[t] /\ H(t) = hist[t]
      BY <2>4 DEF H
    <2>6. \/ H(t)' = H(t)
          \/ \E o : Appends(t, o)
          \/ H(t)' = hist[t]
      BY EffectOnH
    <2> QED
      BY <2>1, <2>2, <2>3, <2>5, <2>6
  <1> QED
    BY <1>1, <1>2 DEF SendsSucceed

LEMMA WasPlaying ==
    ASSUME FInv, Places', NEW t \in Id, Frame(t), Effect(t), Playing'
    PROVE  Playing
  BY SendsSucceeded DEF Playing, Frame

LEMMA ThreadStepReplayed ==
    ASSUME FInv, Places', WellFormedProgram, OwnReceivers, NEW t \in Id, ThreadStep(t),
           Frame(t), Effect(t)
    PROVE  Replayed'
  <1> SUFFICES ASSUME Playing', NEW u \in Id PROVE IsReplayed(u)'
    BY DEF Replayed, Playing
  <1>1. Playing
    BY WasPlaying
  <1>2. CASE u = t
    BY <1>1, <1>2, StepReplayed
  <1>3. CASE u # t
    <2>1. IsReplayed(u)
      BY <1>1 DEF FInv, Replayed, Playing
    <2> QED
      BY <1>3, <2>1 DEF IsReplayed, Cursor, Reading, Frame
  <1> QED
    BY <1>2, <1>3

-----------------------------------------------------------------------------
(* The flush *)

\* What the log has when a list is saved.
LEMMA SavedIsSent ==
    ASSUME NEW h \in Seq(Observation), NEW k \in Seq(Observation), NEW o \in Observation,
           k = h \/ k = Append(h, o),
           NEW p, NEW c, NEW s, NEW hs, NEW buf, NEW w, InOrder(p, c, s, k, hs, buf, w), NEW list
    PROVE  LogIsSent(p, c, s, h, hs, list)
  <1>1. Len(h) \in Nat /\ DOMAIN h = 1 .. Len(h)
    BY HistoryPositions
  <1>2. Agree(h, k, Len(h))
    BY <1>1, AppendAgrees DEF Agree
  <1> SUFFICES ASSUME NEW i \in Recvs(h, c, s)
               PROVE  IsMessage(p, s, hs, c, Before(Recvs(h, c, s), i), h[i].val)
    BY DEF LogIsSent
  <1>3. i \in 1 .. Len(h) /\ i \in 1 .. Len(h) + 1
    BY <1>1 DEF Recvs
  <1>4. i \in Recvs(k, c, s)
    BY <1>1, <1>2, <1>3, SameRecv
  <1>5. h[i] = k[i]
    BY <1>1, <1>2, <1>3, SameResult
  <1>6. Before(Recvs(h, c, s), i) = Before(Recvs(k, c, s), i)
    BY <1>1, <1>2, <1>3, SameRecvNo
  <1> QED
    BY <1>4, <1>5, <1>6 DEF InOrder

LEMMA HIsHistory ==
    ASSUME NEW t \in Id
    PROVE  H(t) = hist[t] \/ H(t) = Append(hist[t], pending[t])
  BY DEF H

\* try_iter gives the next entry of an event channel.
LEMMA CollectKept ==
    ASSUME FInv, mode = "Record", NEW id \in Id, CollectEntry(id),
           UNCHANGED <<setup, chanVars, threadVars, recorded, desynced>>
    PROVE  Lists' /\ Messages' /\ LoggedReceives'
  <1>0. /\ TypeOK /\ LogTypeOK /\ UNCHANGED <<mode, saved, hist, recorded, desynced, at, pending>>
        /\ \A u \in Id : H(u)' = H(u)
        /\ Program' = Program
    BY DEF FInv, IInv, TypeOK, CollectEntry, threadVars, H, Program
  <1>1. id \notin saved
    BY DEF CollectEntry
  <1>2. \A u \in Id \ {id} : log'[u] = log[u]
    BY <1>0 DEF CollectEntry, LogTypeOK
  <1>3. Lists'
    <2>1. /\ \A u \in Id : Carried(u)' = Carried(u)
          /\ log'[id] \in Seq(Entry) /\ Carried(id) \in Seq(Entry)
          /\ Len(log'[id]) <= Len(Carried(id))
          /\ \A i \in 1 .. Len(log'[id]) : Carried(id)[i] = log'[id][i]
      BY <1>0, CarriedTyped, CarriedCollect
    <2>2. IsLogOf(hist[id], log'[id])
      <3>1. IsFullLogOf(hist[id], Carried(id)) /\ hist[id] \in Seq(Observation)
        BY <1>0, <1>1 DEF FInv, Lists, TypeOK
      <3> QED
        BY <2>1, <3>1, StartOfFullLog
    <2>3. ASSUME NEW u \in Id PROVE IsLogOf(Past(u), log[u])'
      <3>1. CASE u = id
        BY <1>0, <2>2, <3>1 DEF Past
      <3>2. CASE u # id
        BY <1>0, <1>2, <3>2 DEF Past, FInv, Lists
      <3> QED
        BY <3>1, <3>2
    <2>4. ASSUME NEW u \in Id \ saved' PROVE FullList(u)'
      BY <1>0, <2>1, <2>4 DEF FInv, Lists, FullList
    <2> QED
      BY <2>3, <2>4 DEF Lists, FullList
  <1>4. Messages'
    <2> SUFFICES ASSUME NEW c \in Chan, NEW s \in Id, Live(c)' PROVE Flow(c, s)'
      BY DEF Messages
    <2>1. Live(c)
      BY <1>0 DEF Live
    <2> QED
      BY <1>0, <2>1, OwnerTyped DEF FInv, Messages, Flow, chanVars
  <1>5. ASSUME NEW c \in Chan, NEW s \in Id
        PROVE  LogIsSent(Program, c, s, hist[Owner[c]], H(s), log'[Owner[c]])
    <2> DEFINE o == Owner[c]
    <2>1. o \in Id
      BY OwnerTyped
    <2>2. CASE o = id
      <3>1. Flow(c, s)
        BY <1>1, <2>2 DEF FInv, Messages, Live
      <3>2. hist[o] \in Seq(Observation) /\ H(o) \in Seq(Observation) /\ pending[o] \in Observation
        BY <1>0, <2>1, HTyped
      <3>3. InOrder(Program, c, s, H(o), H(s), buffer[c][s], wire[c])
        BY <3>1 DEF Flow
      <3> HIDE DEF o
      <3> QED
        BY <2>1, <3>2, <3>3, HIsHistory, SavedIsSent DEF o
    <2>3. CASE o # id
      BY <1>2, <2>1, <2>3 DEF FInv, LoggedReceives
    <2> QED
      BY <2>2, <2>3
  <1> QED
    BY <1>0, <1>3, <1>4, <1>5 DEF LoggedReceives

LEMMA FlushKept ==
    ASSUME FInv, DrainedOnce, FlushLog
    PROVE  Places' /\ Histories' /\ Lists' /\ Messages' /\ LoggedReceives' /\ Replayed'
  <1>0. /\ TypeOK /\ LogTypeOK /\ UNCHANGED <<setup, chanVars, threadVars, recorded, desynced>>
        /\ \A u \in Id : H(u)' = H(u) /\ Op(u)' = Op(u)
        /\ Program' = Program
    BY DEF FInv, IInv, TypeOK, FlushLog, threadVars, H, Program, Op
  <1>1. mode = "Record" /\ mode' = "Record" /\ next' = next
    BY <1>0, NoIdAssumption
    DEF LogTypeOK, DrainedOnce, FlushLog, Flush, CollectEntry, CollectEntries, DropReceiver,
        WriteFile, replayVars
  <1>2. /\ saved \subseteq saved' /\ sender' = sender
        /\ \A u \in Id : u \in open => u \in open' \/ u \in saved'
    BY DEF DrainedOnce, FlushLog, Flush, CollectEntry, CollectEntries, DropReceiver, WriteFile
  <1>3. Places'
    <2>1. ASSUME NEW u \in Id PROVE InRecord(u)' /\ InEither(u)'
      BY <1>0, <1>1, <1>2
      DEF FInv, Places, InRecord, InEither, threadVars, chanVars
    <2> QED
      BY <1>0, <1>1, <2>1 DEF FInv, Places, NothingBuffered, chanVars
  <1>4. Histories'
    BY <1>0 DEF FInv, Histories
  <1>5. Replayed'
    BY <1>1 DEF Replayed
  <1>6. CASE \E id \in Id : CollectEntry(id)
    BY <1>0, <1>1, <1>3, <1>4, <1>5, <1>6, CollectKept
  <1>7. CASE (\E id \in Id : CollectEntries(id)) \/ DropReceiver \/ WriteFile
    <2>1. /\ saved \subseteq saved' /\ log' = log
          /\ \A u \in Id \ saved' : channel'[u] = channel[u]
      BY <1>0, <1>7 DEF CollectEntries, DropReceiver, WriteFile, DrainedOnce, LogTypeOK
    <2>2. Lists'
      <3>1. \A u \in Id : Past(u)' = Past(u)
        BY <1>0, <1>1 DEF Past, threadVars
      <3>2. ASSUME NEW u \in Id \ saved' PROVE FullList(u)'
        <4>1. Carried(u)' = Carried(u) /\ u \notin saved
          BY <2>1 DEF Carried
        <4> QED
          BY <1>0, <1>1, <4>1 DEF FInv, Lists, FullList, threadVars
      <3> QED
        BY <1>1, <2>1, <3>1, <3>2 DEF FInv, Lists, FullList
    <2>3. Messages'
      <3> SUFFICES ASSUME NEW c \in Chan, NEW s \in Id, Live(c)' PROVE Flow(c, s)'
        BY DEF Messages
      <3>1. Live(c)
        BY <1>0, <1>1, <2>1 DEF Live
      <3> QED
        BY <1>0, <3>1, OwnerTyped DEF FInv, Messages, Flow, chanVars
    <2>4. LoggedReceives'
      BY <1>0, <1>1, <2>1, OwnerTyped DEF FInv, LoggedReceives, threadVars
    <2> QED
      BY <1>3, <1>4, <1>5, <2>2, <2>3, <2>4
  <1> QED
    BY <1>6, <1>7 DEF FlushLog, Flush

-----------------------------------------------------------------------------
(* The two starts *)

LEMMA EmptyHistory ==
    /\ LogPos(<<>>) = {} /\ Logs(<<>>) = 0
    /\ \A p, t : Follows(p, t, <<>>)
    /\ \A c : Sends(<<>>, c) = {} /\ Sent(<<>>, c) = 0
    /\ \A c, s : Recvs(<<>>, c, s) = {} /\ Got(<<>>, c, s) = 0
    /\ \A s : OnWire(<<>>, s) = {} /\ Waiting(<<>>, s) = 0
  <1>1. DOMAIN <<>> = {} /\ Len(<<>>) + 1 = 1
    OBVIOUS
  <1>2. \A S : Before(S, Len(<<>>) + 1) = 0
    BY <1>1, BeforeFirst
  <1> QED
    BY <1>1, <1>2 DEF LogPos, Logs, Follows, Sends, Sent, Recvs, Got, OnWire, Waiting

LEMMA EmptyInOrder ==
    ASSUME NEW p, NEW c, NEW s
    PROVE  InOrder(p, c, s, <<>>, <<>>, <<>>, <<>>)
  <1>1. Len(<<>>) = 0 /\ DOMAIN <<>> = {}
    OBVIOUS
  <1> QED
    BY <1>1, EmptyHistory DEF InOrder

LEMMA EmptyLog == IsLogOf(<<>>, <<>>) /\ IsFullLogOf(<<>>, <<>>) /\ Len(<<>>) = Logs(<<>>)
  BY EmptyHistory DEF IsLogOf, IsFullLogOf

LEMMA InitKept ==
    ASSUME Init
    PROVE  Places /\ Histories /\ Lists /\ Messages /\ LoggedReceives /\ Replayed
  <1>0. /\ mode = "Record" /\ desynced = FALSE /\ saved = {} /\ sender = {}
        /\ \A t \in Id : /\ at[t] = "idle" /\ status[t] = "running" /\ next[t] = 0
                         /\ hist[t] = <<>> /\ recorded[t] = <<>> /\ H(t) = <<>>
                         /\ log[t] = <<>> /\ channel[t] = <<>>
        /\ \A c \in Chan : wire[c] = <<>> /\ \A s \in Id : buffer[c][s] = <<>>
    BY DEF Init, LogInit, ProgramStart, NoEntries, H
  <1>1. Places
    BY <1>0 DEF Places, InRecord, InEither, NothingBuffered
  <1>2. Histories
    BY <1>0, EmptyHistory DEF Histories
  <1>3. Lists
    <2>1. \A t \in Id : Carried(t) = <<>>
      BY <1>0, LogInitTyped, NothingCarried DEF Init
    <2> QED
      BY <1>0, <2>1, EmptyLog DEF Lists, Past
  <1>4. Messages
    BY <1>0, EmptyInOrder, OwnerTyped DEF Messages, Flow
  <1>5. LoggedReceives
    BY <1>0, OwnerTyped, EmptyHistory DEF LoggedReceives, LogIsSent
  <1>6. Replayed
    BY <1>0 DEF Replayed
  <1> QED
    BY <1>1, <1>2, <1>3, <1>4, <1>5, <1>6

\* What is a message to the recording is one to its history.
LEMMA ReadsAsSent ==
    ASSUME NEW hs \in Seq(Observation), NEW k \in Seq(Observation), NEW o \in Observation,
           k = hs \/ k = Append(hs, o),
           NEW p, NEW c, NEW s, NEW h, NEW list, LogIsSent(p, c, s, h, k, list)
    PROVE  LogIsAsSent(p, c, s, h, hs, list)
  <1>1. Len(hs) \in Nat /\ DOMAIN hs = 1 .. Len(hs)
    BY HistoryPositions
  <1>2. Agree(hs, k, Len(hs))
    BY <1>1, AppendAgrees DEF Agree
  <1> SUFFICES ASSUME NEW i \in Recvs(h, c, s), LogNo(h, i) <= Len(list),
                      NEW j \in Sends(hs, c),
                      Before(Sends(hs, c), j) = Before(Recvs(h, c, s), i)
               PROVE  h[i].val = SendVal(p, s, hs, j)
    BY DEF LogIsAsSent
  <1>3. PICK m \in Sends(k, c) : /\ Before(Sends(k, c), m) = Before(Recvs(h, c, s), i)
                                 /\ h[i].val = SendVal(p, s, k, m)
    BY DEF LogIsSent, IsMessage
  <1>4. j \in 1 .. Len(hs) /\ j \in 1 .. Len(hs) + 1 /\ j \in Nat \ {0} /\ j - 1 \in Nat
        /\ j - 1 <= Len(hs)
    BY <1>1 DEF Sends
  <1>5. m \in Nat \ {0}
    BY HistoryPositions DEF Sends
  <1>6. j \in Sends(k, c)
    BY <1>1, <1>2, <1>4, SameSend
  <1>7. Before(Sends(k, c), j) = Before(Sends(hs, c), j)
    BY <1>1, <1>2, <1>4, SameSendNo
  <1>8. j = m
    BY <1>3, <1>4, <1>5, <1>6, <1>7, BeforeInjective
  <1>9. SubSeq(hs, 1, j - 1) = SubSeq(k, 1, j - 1)
    BY <1>1, <1>2, <1>4, SamePast
  <1> QED
    BY <1>3, <1>8, <1>9 DEF SendVal

LEMMA RestartKept ==
    ASSUME FInv, Restart
    PROVE  Places' /\ Histories' /\ Lists' /\ Messages' /\ LoggedReceives' /\ Replayed'
  <1>0. /\ mode = "Record" /\ mode' = "Replay" /\ desynced' = FALSE
        /\ UNCHANGED <<setup, saved, log>> /\ Program' = Program
        /\ \A t \in Id : /\ at'[t] = "idle" /\ status'[t] = "running" /\ next'[t] = next[t]
                         /\ hist'[t] = <<>> /\ recorded'[t] = hist[t] /\ H(t)' = <<>>
        /\ \A c \in Chan : wire'[c] = <<>> /\ \A s \in Id : buffer'[c][s] = <<>>
    BY DEF Restart, StartReplay, Program, H
  <1>1. TypeOK
    BY DEF FInv, IInv
  <1>2. Places'
    BY <1>0 DEF Places, InReplay, InEither
  <1>3. Histories'
    <2> SUFFICES ASSUME NEW t \in Id PROVE Follows(Program, t, hist[t])
      BY <1>0, EmptyHistory DEF Histories
    <2> DEFINE h == hist[t]
               k == H(t)
               p == Program
    <2>1. Follows(p, t, k)
      BY DEF FInv, Histories
    <2>2. h \in Seq(Observation) /\ k \in Seq(Observation) /\ pending[t] \in Observation
      BY <1>1, HTyped
    <2>3. k = h \/ k = Append(h, pending[t])
      BY HIsHistory
    <2> HIDE DEF h, k, p
    <2>4. Agree(k, h, Len(h))
      <3>1. Len(h) \in Nat
        BY <2>2, HistoryPositions
      <3> QED
        BY <2>2, <2>3, <3>1, AppendAgrees DEF Agree
    <2>5. Follows(p, t, h)
      BY <2>1, <2>2, <2>4, FollowsAgree
    <2> QED
      BY <2>5 DEF h, p
  <1>4. Lists'
    BY <1>0 DEF FInv, Lists, Past
  <1>5. Messages'
    BY <1>0, EmptyInOrder, OwnerTyped DEF Messages, Flow
  <1>6. LoggedReceives'
    <2> SUFFICES ASSUME NEW c \in Chan, NEW s \in Id
                 PROVE  LogIsAsSent(Program, c, s, hist[Owner[c]], hist[s], log[Owner[c]])
      BY <1>0, OwnerTyped DEF LoggedReceives
    <2> DEFINE h == hist[Owner[c]]
               hs == hist[s]
               k == H(s)
               list == log[Owner[c]]
               p == Program
    <2>1. LogIsSent(p, c, s, h, k, list)
      BY <1>0 DEF FInv, LoggedReceives
    <2>2. hs \in Seq(Observation) /\ k \in Seq(Observation) /\ pending[s] \in Observation
      BY <1>1, HTyped
    <2>3. k = hs \/ k = Append(hs, pending[s])
      BY HIsHistory
    <2> HIDE DEF h, hs, k, list, p
    <2>4. LogIsAsSent(p, c, s, h, hs, list)
      BY <2>1, <2>2, <2>3, ReadsAsSent
    <2> QED
      BY <2>4 DEF p, h, hs, list
  <1>7. Replayed'
    <2> SUFFICES ASSUME NEW t \in Id PROVE IsReplayed(t)'
      BY DEF Replayed
    <2>1. next[t] = 0
      BY <1>0 DEF FInv, Places, InRecord
    <2>2. Cursor(t)'
      BY <1>0, <2>1, EmptyHistory DEF Cursor, Reading
    <2>3. IsFaithful(<<>>, recorded'[t]) /\ KindsRead(<<>>, log'[t])
      BY EmptyHistory DEF IsFaithful, KindsRead
    <2> QED
      BY <1>0, <2>2, <2>3 DEF IsReplayed
  <1> QED
    BY <1>2, <1>3, <1>4, <1>5, <1>6, <1>7

-----------------------------------------------------------------------------
(* The theorem *)

FaithfulInv == FInv /\ DrainedOnce

LEMMA StepLogStep ==
    ASSUME IInv, NEW t \in Id, ThreadStep(t)
    PROVE  LogStep \/ UNCHANGED logVars
  <1>1. ASSUME RecordEvent(t) PROVE LogStep
    <2>1. EntryFor(pending[t]) \in Entry
      BY <1>1, EntryForTyped DEF RecordEvent, At, IInv, InsideOp, Inside
    <2> QED
      BY <1>1, <2>1 DEF RecordEvent, LogStep, ThreadLogStep
  <1> QED
    BY <1>1 DEF ThreadStep, RecordOp, RecordEventFails, OpenLog, FallAsleep, ReplayMismatch,
                ReplaySend, Deliver, ReplayRecv, ReceiveExpected, ReceiveTimesOut, WakeUp,
                SendDesynced, ReceiveAny, Join, ExecutionDone, Exit, LogStep, ThreadLogStep

LEMMA UnchangedKept ==
    ASSUME FInv, UNCHANGED vars
    PROVE  Places' /\ Histories' /\ Lists' /\ Messages' /\ LoggedReceives' /\ Replayed'
  <1>0. /\ UNCHANGED <<setup, mode, log, saved, channel, sender, open, next>>
        /\ UNCHANGED <<wire, buffer, status, at, pending, expected, hist, recorded, desynced>>
    BY DEF vars, logVars, recordVars, replayVars, chanVars, threadVars
  <1>1. /\ \A t \in Id : H(t)' = H(t) /\ Op(t)' = Op(t) /\ Past(t)' = Past(t)
        /\ Program' = Program
    BY <1>0 DEF H, Op, Past, Program
  <1>2. Places' /\ Histories'
    BY <1>0, <1>1 DEF FInv, Places, InRecord, InReplay, InEither, NothingBuffered, Histories
  <1>3. Lists'
    BY <1>0, <1>1 DEF FInv, Lists, Carried
  <1>4. Messages'
    BY <1>0, <1>1, OwnerTyped DEF FInv, Messages, Flow, Live
  <1>5. LoggedReceives'
    BY <1>0, <1>1 DEF FInv, LoggedReceives
  <1>6. Replayed'
    BY <1>0 DEF FInv, Replayed, IsReplayed, Cursor, Reading, SendsSucceed
  <1> QED
    BY <1>2, <1>3, <1>4, <1>5, <1>6

LEMMA FaithInit == Init => FaithfulInv
  BY InvInit, InitKept, LogInitDrained DEF Init, FaithfulInv, FInv

LEMMA FaithStep ==
    ASSUME WellFormedProgram, OwnReceivers PROVE FaithfulInv /\ [Next]_vars => FaithfulInv'
  <1> SUFFICES ASSUME FaithfulInv, [Next]_vars PROVE FaithfulInv'
    OBVIOUS
  <1>0. FInv /\ DrainedOnce /\ IInv /\ TypeOK /\ LogTypeOK
    BY DEF FaithfulInv, FInv, IInv, TypeOK
  <1>1. IInv'
    BY <1>0, InvStep
  <1>2. DrainedOnce'
    <2>1. LogStep \/ UNCHANGED logVars
      BY <1>0, StepLogStep DEF Next, FlushLog, Restart, LogStep, vars
    <2> QED
      BY <1>0, <2>1, LogStepDrained
  <1>3. ASSUME NEW t \in Id, ThreadStep(t)
        PROVE  Places' /\ Histories' /\ Lists' /\ Messages' /\ LoggedReceives' /\ Replayed'
    <2>0. Places /\ Histories /\ Lists /\ Messages /\ LoggedReceives
      BY <1>0 DEF FInv
    <2>1. Frame(t)
      BY <1>0, <1>3, StepFrame
    <2>2. Effect(t)
      BY <1>0, <1>3, <2>0, StepEffect
    <2>3. Places'
      BY <1>0, <1>3, <2>0, <2>1, <2>2, StepPlaces
    <2>4. Histories'
      BY <1>0, <2>0, <2>1, <2>2, StepHistories
    <2>5. Lists'
      BY <1>0, <1>3, <2>0, <2>1, StepLists
    <2>6. Messages'
      BY <1>0, <2>0, <2>1, <2>2, StepMessages
    <2>7. LoggedReceives'
      BY <1>0, <1>3, <2>0, <2>1, <2>2, StepLoggedReceives
    <2>8. Replayed'
      BY <1>0, <1>3, <2>1, <2>2, <2>3, ThreadStepReplayed
    <2> QED
      BY <2>3, <2>4, <2>5, <2>6, <2>7, <2>8
  <1>4. Places' /\ Histories' /\ Lists' /\ Messages' /\ LoggedReceives' /\ Replayed'
    BY <1>0, <1>3, FlushKept, RestartKept, UnchangedKept DEF Next
  <1> QED
    BY <1>1, <1>2, <1>4 DEF FaithfulInv, FInv

\* In every replay that has not desynced, and in which no send fails in either
\* execution, each thread has observed what it observed in the recording:
\* for every program of threads that receive on channels of their own only,
\* whatever the two schedules and wherever the flush cut the log.
THEOREM ReplayIsFaithfulCorrect ==
    ASSUME WellFormedProgram, OwnReceivers PROVE Spec => []ReplayIsFaithful
  <1>1. FaithfulInv => ReplayIsFaithful
    BY DEF FaithfulInv, FInv, Replayed, IsReplayed, IsFaithful, ReplayIsFaithful
  <1>2. Spec => []FaithfulInv
    BY FaithInit, FaithStep, PTL DEF Spec
  <1> QED
    BY <1>1, <1>2, PTL

-----------------------------------------------------------------------------
(* The elements of a sequence at some positions, and what happens to them when
   the sequence grows behind or shrinks in front *)

\* A nonempty set of numbers has a least one.
LEMMA WellOrder ==
    ASSUME NEW S, S \subseteq Nat, S # {}
    PROVE  \E m \in S : \A n \in S : m <= n
  <1> DEFINE R == OpToRel(<, Nat)
  <1>1. IsWellFoundedOn(R, Nat)
    BY NatLessThanWellFounded
  <1> HIDE DEF R
  <1>2. PICK x \in S : \A y \in S : ~(<<y, x>> \in R)
    BY <1>1, WFMin
  <1>3. \A y, z \in Nat : y < z => <<y, z>> \in R
    BY DEF R, OpToRel
  <1>4. ASSUME NEW n \in S PROVE x <= n
    <2>1. n \in Nat /\ x \in Nat
      OBVIOUS
    <2>2. ~(n < x)
      BY <1>2, <1>3, <2>1
    <2> QED
      BY <2>1, <2>2
  <1> QED
    BY <1>4

\* There is a position for each count.
LEMMA BeforeReaches ==
    ASSUME NEW n \in Nat, NEW P, NEW k \in 1 .. Before(P, n + 1)
    PROVE  \E i \in P : i \in 1 .. n /\ Before(P, i) = k - 1
  <1>0. \A i \in Nat : Before(P, i) \in Nat
    BY BeforeType
  <1> DEFINE S == {m \in Nat : k <= Before(P, m + 1)}
  <1>1. n \in S /\ S \subseteq Nat
    BY <1>0
  <1>2. PICK m \in S : \A j \in S : m <= j
    BY <1>1, WellOrder
  <1>3. m \in Nat /\ m <= n /\ k <= Before(P, m + 1)
    BY <1>1, <1>2
  <1>4. m # 0
    BY <1>0, <1>3, BeforeFirst
  <1>5. m - 1 \in Nat /\ m - 1 \notin S /\ m = (m - 1) + 1
    BY <1>2, <1>3, <1>4
  <1>6. ~(k <= Before(P, m))
    BY <1>5
  <1>7. Before(P, m + 1) = Before(P, m) + (IF m \in P THEN 1 ELSE 0)
    BY <1>3, <1>4, BeforeNext
  <1>8. m \in P /\ Before(P, m) = k - 1
    BY <1>0, <1>3, <1>6, <1>7
  <1> QED
    BY <1>3, <1>4, <1>8

\* Counting the elements of a set of positions.
LEMMA BeforeIsCount ==
    ASSUME NEW n \in Nat, NEW P, P \subseteq 1 .. n
    PROVE  /\ Cardinality(P) = Before(P, n + 1)
           /\ \A i \in P : Cardinality({j \in P : j < i}) = Before(P, i)
  <1>1. P = {j \in 1 .. (n + 1) - 1 : j \in P}
    <2>1. (n + 1) - 1 = n
      OBVIOUS
    <2>2. \A j : j \in P => j \in 1 .. n
      OBVIOUS
    <2> QED
      BY <2>1, <2>2, Zenon
  <1>2. ASSUME NEW i \in P PROVE {j \in P : j < i} = {j \in 1 .. i - 1 : j \in P}
    <2>0. \A j : j \in P => j \in 1 .. n
      OBVIOUS
    <2>1. i \in Nat /\ \A j : j \in P => j \in Nat \ {0}
      BY <2>0
    <2>2. \A j \in Nat \ {0} : j < i <=> j \in 1 .. i - 1
      BY <2>1
    <2>3. \A j : j \in 1 .. i - 1 => j \in Nat \ {0}
      BY <2>1
    <2> QED
      BY <2>1, <2>2, <2>3, Zenon
  <1> QED
    BY <1>1, <1>2 DEF Before

\* q is the b elements of seq at the positions in P.
IsPicked(q, seq, P, b) ==
    /\ b \in Nat
    /\ q = [k \in 1 .. b |-> q[k]]
    /\ \A k \in 1 .. b : \E i \in P : Before(P, i) = k - 1
    /\ \A i \in P, k \in Nat : k - 1 = Before(P, i) => q[k] = seq[i]

LEMMA PickedAt ==
    ASSUME NEW m \in Nat \ {0}, NEW P, P \subseteq 1 .. m - 1, NEW seq
    PROVE  IsPicked(Picked(seq, P), seq, P, Before(P, m))
  <1> SUFFICES ASSUME NEW n \in Nat, P \subseteq 1 .. n, n + 1 = m
               PROVE  IsPicked(Picked(seq, P), seq, P, Before(P, n + 1))
    <2>1. m - 1 \in Nat /\ (m - 1) + 1 = m
      OBVIOUS
    <2> QED
      BY <2>1
  <1>1. Before(P, n + 1) \in Nat /\ \A i \in P : Before(P, i) \in Nat
    <2>1. n + 1 \in Nat /\ \A i \in P : i \in Nat
      OBVIOUS
    <2> QED
      BY <2>1, BeforeType
  <1>2. Picked(seq, P) = [k \in 1 .. Before(P, n + 1) |-> seq[CHOOSE i \in P : Before(P, i) = k - 1]]
    <2> DEFINE F(k) == CHOOSE i \in P : Cardinality({j \in P : j < i}) = k - 1
               G(k) == CHOOSE i \in P : Before(P, i) = k - 1
    <2>1. \A k : F(k) = G(k)
      <3> TAKE k
      <3>1. \A i : i \in P /\ Cardinality({j \in P : j < i}) = k - 1 <=> i \in P /\ Before(P, i) = k - 1
        BY BeforeIsCount, Zenon
      <3> QED
        BY <3>1, Zenon
    <2>2. Cardinality(P) = Before(P, n + 1)
      BY BeforeIsCount
    <2>3. Picked(seq, P) = [k \in 1 .. Before(P, n + 1) |-> seq[F(k)]]
      BY <2>2, Zenon DEF Picked
    <2> HIDE DEF F, G
    <2>4. [k \in 1 .. Before(P, n + 1) |-> seq[F(k)]] = [k \in 1 .. Before(P, n + 1) |-> seq[G(k)]]
      BY <2>1
    <2> QED
      BY <2>3, <2>4, Zenon DEF G
  <1>3. ASSUME NEW i \in P
        PROVE  /\ Before(P, i) + 1 \in 1 .. Before(P, n + 1)
               /\ Picked(seq, P)[Before(P, i) + 1] = seq[i]
    <2>1. i \in Nat \ {0} /\ i < n + 1
      OBVIOUS
    <2>2. Before(P, i) < Before(P, n + 1)
      BY <2>1, BeforeIncreases
    <2>3. Before(P, i) + 1 \in 1 .. Before(P, n + 1)
      BY <1>1, <2>2
    <2>4. (Before(P, i) + 1) - 1 = Before(P, i)
      BY <1>1
    <2>5. \A j \in P : Before(P, j) = Before(P, i) => j = i
      BY <2>1, BeforeInjective
    <2>6. (CHOOSE j \in P : Before(P, j) = Before(P, i)) = i
      BY <2>5
    <2>7. Picked(seq, P)[Before(P, i) + 1] = seq[CHOOSE j \in P : Before(P, j) = (Before(P, i) + 1) - 1]
      BY <1>2, <2>3
    <2> QED
      BY <2>3, <2>4, <2>6, <2>7, Zenon
  <1>4. ASSUME NEW k \in 1 .. Before(P, n + 1) PROVE \E i \in P : Before(P, i) = k - 1
    BY <1>4, BeforeReaches
  <1>5. ASSUME NEW i \in P, NEW k \in Nat, k - 1 = Before(P, i) PROVE Picked(seq, P)[k] = seq[i]
    <2>1. k = Before(P, i) + 1
      BY <1>1, <1>5
    <2> QED
      BY <1>3, <2>1
  <1>6. DOMAIN Picked(seq, P) = 1 .. Before(P, n + 1)
    BY <1>2
  <1>7. Picked(seq, P) = [k \in 1 .. Before(P, n + 1) |-> Picked(seq, P)[k]]
    BY <1>2, <1>6
  <1> QED
    BY <1>1, <1>4, <1>5, <1>7 DEF IsPicked

AllIn(seq, P, V) == \A i \in P : seq[i] \in V

LEMMA PickedTyped ==
    ASSUME NEW q, NEW seq, NEW P, NEW b, NEW V, IsPicked(q, seq, P, b), AllIn(seq, P, V)
    PROVE  q \in Seq(V) /\ Len(q) = b
  <1>1. ASSUME NEW k \in 1 .. b PROVE q[k] \in V
    <2>1. PICK i \in P : Before(P, i) = k - 1
      BY DEF IsPicked
    <2>2. k \in Nat
      BY DEF IsPicked
    <2> QED
      BY <2>1, <2>2 DEF IsPicked, AllIn
  <1>2. [k \in 1 .. b |-> q[k]] \in Seq(V) /\ Len([k \in 1 .. b |-> q[k]]) = b
    BY <1>1, IsASeq DEF IsPicked
  <1>3. q = [k \in 1 .. b |-> q[k]]
    BY DEF IsPicked
  <1> QED
    BY <1>2, <1>3

\* g and T are seq and P with another position, n + 1, behind the others.
OneMore(seq, P, g, T, n) ==
    /\ n \in Nat /\ P \subseteq 1 .. n /\ T \subseteq 1 .. n + 1
    /\ \A j \in 1 .. n : (j \in P <=> j \in T) /\ g[j] = seq[j]

LEMMA PickedGrows ==
    ASSUME NEW n, NEW P, NEW T, NEW seq, NEW g, OneMore(seq, P, g, T, n)
    PROVE  /\ n + 1 \in T => Picked(g, T) = Append(Picked(seq, P), g[n + 1])
           /\ n + 1 \notin T => Picked(g, T) = Picked(seq, P)
  <1> DEFINE q == Picked(seq, P)
             r == Picked(g, T)
             b == Before(P, n + 1)
             x == g[n + 1]
             V == {seq[i] : i \in P} \cup {g[i] : i \in T}
  <1> USE DEF OneMore
  <1>0. AllIn(g, T, V) /\ (n + 1 \in T => x \in V)
    BY DEF AllIn
  <1>a. AllIn(seq, P, V)
    BY DEF AllIn
  <1> HIDE DEF V
  <1>1. n + 1 \in Nat /\ (n + 1) + 1 = n + 2 /\ n + 1 \in Nat \ {0}
    OBVIOUS
  <1>2. /\ \A i \in 0 .. n + 1 : Before(T, i) = Before(P, i)
        /\ Before(T, n + 2) = b + (IF n + 1 \in T THEN 1 ELSE 0)
    BY BeforeGrows
  <1>3. AllIn(g, T, V)
    BY <1>0
  <1>4. /\ q \in Seq(V) /\ Len(q) = b
        /\ b \in Nat
        /\ \A k \in 1 .. b : \E i \in P : Before(P, i) = k - 1
        /\ \A i \in P, k \in Nat : k - 1 = Before(P, i) => q[k] = seq[i]
    <2>1. n + 1 \in Nat \ {0} /\ P \subseteq 1 .. (n + 1) - 1
      OBVIOUS
    <2>2. IsPicked(q, seq, P, b)
      BY <2>1, PickedAt
    <2>3. q \in Seq(V) /\ Len(q) = b
      <3>1. \A z, y : IsPicked(z, seq, P, y) => z \in Seq(V) /\ Len(z) = y
        BY <1>a, PickedTyped, Zenon
      <3> QED
        BY <2>2, <3>1, Zenon
    <2> QED
      BY <2>2, <2>3 DEF IsPicked
  <1>5. /\ r \in Seq(V) /\ Len(r) = Before(T, n + 2)
        /\ \A i \in T, k \in Nat : k - 1 = Before(T, i) => r[k] = g[i]
    <2>1. n + 2 \in Nat \ {0} /\ T \subseteq 1 .. (n + 2) - 1
      OBVIOUS
    <2>2. IsPicked(r, g, T, Before(T, n + 2))
      BY <2>1, PickedAt
    <2>3. r \in Seq(V) /\ Len(r) = Before(T, n + 2)
      <3>1. \A z, y : IsPicked(z, g, T, y) => z \in Seq(V) /\ Len(z) = y
        BY <1>3, PickedTyped, Zenon
      <3> QED
        BY <2>2, <3>1, Zenon
    <2> QED
      BY <2>2, <2>3 DEF IsPicked
  <1>6. ASSUME NEW k \in 1 .. b PROVE r[k] = q[k]
    <2>1. PICK i \in P : Before(P, i) = k - 1
      BY <1>4
    <2>2. i \in 1 .. n /\ i \in T /\ i \in 0 .. n + 1
      OBVIOUS
    <2>3. k - 1 = Before(T, i) /\ k - 1 = Before(P, i) /\ k \in Nat
      BY <1>2, <1>4, <2>1, <2>2
    <2>4. q[k] = seq[i] /\ r[k] = g[i]
      BY <1>4, <1>5, <2>2, <2>3
    <2> QED
      BY <2>2, <2>4
  <1>7. n + 1 \in T => r[b + 1] = x
    <2>1. n + 1 \in 0 .. n + 1
      OBVIOUS
    <2>2. (b + 1) - 1 = Before(T, n + 1) /\ b + 1 \in Nat
      BY <1>2, <1>4, <2>1
    <2> QED
      BY <1>5, <2>2
  <1>8. n + 1 \in T => x \in V
    BY <1>0
  <1> HIDE DEF q, r, b, x
  <1>9. ASSUME n + 1 \in T PROVE r = Append(q, x)
    <2>1. /\ Append(q, x) \in Seq(V) /\ Len(Append(q, x)) = b + 1
          /\ Append(q, x)[b + 1] = x /\ \A i \in 1 .. b : Append(q, x)[i] = q[i]
      BY <1>4, <1>8, <1>9, AppendProperties
    <2>2. Len(r) = b + 1
      BY <1>2, <1>5, <1>9
    <2>3. \A i \in 1 .. b + 1 : i \in 1 .. b \/ i = b + 1
      BY <1>4
    <2>4. \A i \in 1 .. Len(r) : r[i] = Append(q, x)[i]
      BY <1>6, <1>7, <1>9, <2>1, <2>2, <2>3
    <2> QED
      BY <1>5, <2>1, <2>2, <2>4, SeqEqual
  <1>10. ASSUME n + 1 \notin T PROVE r = q
    <2>1. Len(r) = b
      BY <1>2, <1>4, <1>5, <1>10
    <2> QED
      BY <1>4, <1>5, <1>6, <2>1, SeqEqual
  <1> QED
    BY <1>9, <1>10 DEF q, r, x

\* u and T are w and P without the first of n + 1 positions.
OneLess(w, P, u, T, n) ==
    /\ n \in Nat /\ P \subseteq 1 .. n + 1 /\ T \subseteq 1 .. n
    /\ \A j \in Nat \ {0} : j \in T <=> j + 1 \in P
    /\ \A i \in 1 .. n : u[i] = w[i + 1]

LEMMA PickedShrinks ==
    ASSUME NEW n, NEW P, NEW T, NEW w, NEW u, OneLess(w, P, u, T, n)
    PROVE  /\ 1 \in P => Picked(w, P) = <<w[1]>> \o Picked(u, T)
           /\ 1 \notin P => Picked(w, P) = Picked(u, T)
  <1> DEFINE q == Picked(w, P)
             r == Picked(u, T)
             b == Before(T, n + 1)
             d == IF 1 \in P THEN 1 ELSE 0
             x == w[1]
             V == {w[i] : i \in P}
  <1> USE DEF OneLess
  <1>0. AllIn(w, P, V)
    BY DEF AllIn
  <1> HIDE DEF V
  <1>1. n + 1 \in Nat /\ (n + 1) + 1 = n + 2 /\ n + 1 \in Nat \ {0}
    OBVIOUS
  <1>2. /\ \A i \in Nat \ {0} : Before(P, i + 1) = Before(T, i) + d
        /\ Before(P, n + 2) = b + d
    <2>1. \A i \in Nat \ {0} : Before(P, i + 1) = Before(T, i) + d
      BY BeforeShifted
    <2> QED
      BY <1>1, <2>1
  <1>3. \A i \in T : i \in 1 .. n /\ i \in Nat \ {0} /\ i + 1 \in P
    OBVIOUS
  <1>4. AllIn(u, T, V)
    BY <1>0, <1>3 DEF AllIn
  <1>5. /\ r \in Seq(V) /\ Len(r) = b
        /\ b \in Nat
        /\ \A k \in 1 .. b : \E i \in T : Before(T, i) = k - 1
        /\ \A i \in T, k \in Nat : k - 1 = Before(T, i) => r[k] = u[i]
    <2>1. n + 1 \in Nat \ {0} /\ T \subseteq 1 .. (n + 1) - 1
      OBVIOUS
    <2>2. IsPicked(r, u, T, Before(T, n + 1))
      BY <2>1, PickedAt
    <2>3. r \in Seq(V) /\ Len(r) = Before(T, n + 1)
      <3>1. \A z, y : IsPicked(z, u, T, y) => z \in Seq(V) /\ Len(z) = y
        BY <1>4, PickedTyped, Zenon
      <3> QED
        BY <2>2, <3>1, Zenon
    <2> QED
      BY <2>2, <2>3 DEF IsPicked
  <1>6. /\ q \in Seq(V) /\ Len(q) = Before(P, n + 2)
        /\ \A i \in P, k \in Nat : k - 1 = Before(P, i) => q[k] = w[i]
    <2>1. n + 2 \in Nat \ {0} /\ P \subseteq 1 .. (n + 2) - 1
      OBVIOUS
    <2>2. IsPicked(q, w, P, Before(P, n + 2))
      BY <2>1, PickedAt
    <2>3. q \in Seq(V) /\ Len(q) = Before(P, n + 2)
      <3>1. \A z, y : IsPicked(z, w, P, y) => z \in Seq(V) /\ Len(z) = y
        BY <1>0, PickedTyped, Zenon
      <3> QED
        BY <2>2, <3>1, Zenon
    <2> QED
      BY <2>2, <2>3 DEF IsPicked
  <1>7. ASSUME NEW k \in 1 .. b PROVE q[k + d] = r[k]
    <2>1. PICK i \in T : Before(T, i) = k - 1
      BY <1>5
    <2>2. i \in 1 .. n /\ i \in Nat \ {0} /\ i + 1 \in P
      BY <1>3
    <2>3. k - 1 = Before(T, i) /\ (k + d) - 1 = Before(P, i + 1) /\ k \in Nat /\ k + d \in Nat
      <3>1. k \in Nat /\ d \in {0, 1}
        BY <1>5
      <3>2. Before(P, i + 1) = (k - 1) + d
        BY <1>2, <2>1, <2>2
      <3> HIDE DEF d
      <3> QED
        BY <2>1, <3>1, <3>2
    <2>4. r[k] = u[i] /\ q[k + d] = w[i + 1]
      BY <1>5, <1>6, <2>2, <2>3
    <2> QED
      BY <2>2, <2>4
  <1>8. 1 \in P => q[1] = x /\ x \in V /\ d = 1
    <2>1. 1 - 1 = Before(P, 1)
      BY BeforeFirst
    <2>2. 1 \in P => q[1] = w[1]
      BY <1>6, <2>1
    <2> QED
      BY <1>0, <2>2 DEF AllIn
  <1>9. 1 \notin P => d = 0
    OBVIOUS
  <1> HIDE DEF q, r, b, x, d
  <1>10. ASSUME 1 \in P PROVE q = <<x>> \o r
    <2>1. <<x>> \in Seq(V) /\ Len(<<x>>) = 1 /\ <<x>>[1] = x
      BY <1>8, <1>10
    <2>2. /\ <<x>> \o r \in Seq(V) /\ Len(<<x>> \o r) = 1 + b
          /\ \A i \in 1 .. 1 + b : (<<x>> \o r)[i] = IF i <= 1 THEN <<x>>[i] ELSE r[i - 1]
      <3> DEFINE e == <<x>>
      <3>1. e \in Seq(V) /\ r \in Seq(V) /\ Len(e) = 1 /\ Len(r) = b
        BY <1>5, <2>1
      <3> HIDE DEF e
      <3>2. e \o r \in Seq(V) /\ Len(e \o r) = Len(e) + Len(r)
        BY <3>1, ConcatProperties
      <3>3. \A i \in 1 .. Len(e) + Len(r) : (e \o r)[i] = IF i <= Len(e) THEN e[i] ELSE r[i - Len(e)]
        BY <3>1, ConcatProperties
      <3>4. e \o r \in Seq(V) /\ Len(e \o r) = 1 + b
            /\ \A i \in 1 .. 1 + b : (e \o r)[i] = IF i <= 1 THEN e[i] ELSE r[i - 1]
        BY <3>1, <3>2, <3>3
      <3> QED
        BY <3>4 DEF e
    <2>3. Len(q) = 1 + b
      BY <1>2, <1>5, <1>6, <1>8, <1>10
    <2>4. ASSUME NEW i \in 1 .. Len(q) PROVE q[i] = (<<x>> \o r)[i]
      <3>1. CASE i = 1
        BY <1>5, <1>8, <1>10, <2>1, <2>2, <2>3, <3>1
      <3>2. CASE i # 1
        <4>0. i \in 1 .. 1 + b
          BY <2>3
        <4>1. i - 1 \in 1 .. b /\ (i - 1) + 1 = i /\ i \in 1 .. 1 + b /\ ~(i <= 1)
          BY <1>5, <3>2, <4>0
        <4>2. q[(i - 1) + 1] = r[i - 1]
          BY <1>7, <1>8, <1>10, <4>1
        <4> QED
          BY <2>2, <4>1, <4>2
      <3> QED
        BY <3>1, <3>2
    <2> QED
      BY <1>6, <2>2, <2>3, <2>4, SeqEqual
  <1>11. ASSUME 1 \notin P PROVE q = r
    <2>1. Len(q) = b
      BY <1>2, <1>5, <1>6, <1>9, <1>11
    <2>2. \A k \in 1 .. b : q[k] = r[k]
      <3> TAKE k \in 1 .. b
      <3>1. k + d = k
        BY <1>5, <1>9, <1>11
      <3> QED
        BY <1>7, <3>1
    <2> QED
      BY <1>5, <1>6, <2>1, <2>2, SeqEqual
  <1> QED
    BY <1>10, <1>11 DEF q, r, x

LEMMA PickedShifts ==
    ASSUME NEW n, NEW P, NEW T, NEW w, NEW u, OneLess(w, P, u, T, n), 1 \notin P
    PROVE  Picked(w, P) = Picked(u, T)
  <1>1. (1 \in P => Picked(w, P) = <<w[1]>> \o Picked(u, T)) /\ (1 \notin P => Picked(w, P) = Picked(u, T))
    BY PickedShrinks
  <1> QED
    BY <1>1

-----------------------------------------------------------------------------
(* The messages of a sender in a queue; the messages in a history *)

\* The messages of a sender in a queue that grows ...
LEMMA FromSenderGrows ==
    ASSUME NEW w \in Seq(Message), NEW m \in Message, NEW s
    PROVE  /\ m.from = s => FromSender(Append(w, m), s) = Append(FromSender(w, s), m.val)
           /\ m.from # s => FromSender(Append(w, m), s) = FromSender(w, s)
  <1> DEFINE g == Append(w, m)
             n == Len(w)
             P == OnWire(w, s)
             T == OnWire(g, s)
             a == [i \in DOMAIN w |-> w[i].val]
             b == [i \in DOMAIN g |-> g[i].val]
  <1>1. /\ n \in Nat /\ g[n + 1] = m /\ \A i \in 1 .. n : g[i] = w[i]
        /\ \A i \in 1 .. n : i \in P <=> i \in T
        /\ P \subseteq 1 .. n /\ T \subseteq 1 .. n + 1
        /\ n + 1 \in T <=> m.from = s
    BY WireTyped
  <1>2. DOMAIN w = 1 .. n /\ DOMAIN g = 1 .. n + 1
    BY AppendAgrees
  <1>5. FromSender(w, s) = Picked(a, P) /\ FromSender(g, s) = Picked(b, T)
    BY DEF FromSender, OnWire
  <1> HIDE DEF g, n, P, T
  <1>6. /\ \A i \in 1 .. n : b[i] = a[i]
        /\ b[n + 1] = m.val
    BY <1>1, <1>2
  <1> HIDE DEF a, b
  <1>7. /\ n + 1 \in T => Picked(b, T) = Append(Picked(a, P), b[n + 1])
        /\ n + 1 \notin T => Picked(b, T) = Picked(a, P)
    <2>1. OneMore(a, P, b, T, n)
      BY <1>1, <1>6 DEF OneMore
    <2> QED
      BY <2>1, PickedGrows
  <1> QED
    BY <1>1, <1>5, <1>6, <1>7 DEF g

\* ... and shrinks.
LEMMA FromSenderShrinks ==
    ASSUME NEW w \in Seq(Message), w # <<>>, NEW s
    PROVE  /\ Head(w).from = s => FromSender(w, s) = <<Head(w).val>> \o FromSender(Tail(w), s)
           /\ Head(w).from # s => FromSender(w, s) = FromSender(Tail(w), s)
  <1> DEFINE u == Tail(w)
             n == Len(u)
             P == OnWire(w, s)
             T == OnWire(u, s)
             a == [i \in DOMAIN w |-> w[i].val]
             b == [i \in DOMAIN u |-> u[i].val]
  <1>1. /\ u \in Seq(Message) /\ Len(w) = n + 1 /\ n \in Nat
        /\ \A i \in 1 .. n : u[i] = w[i + 1]
        /\ Head(w) = w[1]
    BY HeadTailProperties, EmptySeq
  <1>2. DOMAIN w = 1 .. n + 1 /\ DOMAIN u = 1 .. n
    BY <1>1, LenProperties
  <1>4. FromSender(w, s) = Picked(a, P) /\ FromSender(u, s) = Picked(b, T)
    BY DEF FromSender, OnWire
  <1> HIDE DEF u, n
  <1>5. P \subseteq 1 .. n + 1 /\ T \subseteq 1 .. n
    BY <1>2 DEF OnWire
  <1>6. 1 \in P <=> Head(w).from = s
    BY <1>1, <1>2 DEF OnWire
  <1>7. \A j \in Nat \ {0} : j \in T <=> j + 1 \in P
    BY <1>1, <1>2 DEF OnWire
  <1>8. /\ \A i \in 1 .. n : b[i] = a[i + 1]
        /\ a[1] = Head(w).val
    BY <1>1, <1>2, <1>5
  <1> HIDE DEF P, T, a, b
  <1>9. /\ 1 \in P => Picked(a, P) = <<a[1]>> \o Picked(b, T)
        /\ 1 \notin P => Picked(a, P) = Picked(b, T)
    <2>1. OneLess(a, P, b, T, n)
      BY <1>1, <1>5, <1>7, <1>8 DEF OneLess
    <2>2. 1 \in P => Picked(a, P) = <<a[1]>> \o Picked(b, T)
      BY <2>1, PickedShrinks
    <2>3. ASSUME 1 \notin P PROVE Picked(a, P) = Picked(b, T)
      BY <2>1, <2>3, PickedShifts
    <2> QED
      BY <2>2, <2>3
  <1> QED
    BY <1>4, <1>6, <1>8, <1>9 DEF u

LEMMA FromSenderTyped ==
    ASSUME NEW w \in Seq(Message), NEW s
    PROVE  FromSender(w, s) \in Seq(Val)
  <1> DEFINE n == Len(w)
             P == OnWire(w, s)
             a == [i \in DOMAIN w |-> w[i].val]
             q == Picked(a, P)
  <1>1. n \in Nat /\ DOMAIN w = 1 .. n
    BY LenProperties
  <1>2. AllIn(a, P, Val)
    <2> SUFFICES \A i \in P : a[i] \in Val
      BY DEF AllIn
    <2> TAKE i \in P
    <2>1. i \in DOMAIN w /\ w[i] \in Message
      BY <1>1 DEF OnWire
    <2>2. w[i].val \in Val
      BY <2>1 DEF Message
    <2> QED
      BY <2>1, <2>2
  <1>3. n + 1 \in Nat \ {0} /\ P \subseteq 1 .. (n + 1) - 1
    BY <1>1 DEF OnWire
  <1>4. FromSender(w, s) = Picked(a, P)
    BY DEF FromSender, OnWire
  <1> HIDE DEF n, P, a
  <1>5. IsPicked(q, a, P, Before(P, n + 1))
    BY <1>3, PickedAt
  <1>6. \A z, y : IsPicked(z, a, P, y) => z \in Seq(Val)
    BY <1>2, PickedTyped, Zenon
  <1> QED
    BY <1>4, <1>5, <1>6, Zenon

LEMMA ReceivedGrows ==
    ASSUME NEW h \in Seq(Observation), NEW o \in Observation, NEW c
    PROVE  /\ o.chan = c /\ o.val # NoVal =>
                  ReceivedOn(c, Append(h, o)) = Append(ReceivedOn(c, h), [from |-> o.from, val |-> o.val])
           /\ ~(o.chan = c /\ o.val # NoVal) => ReceivedOn(c, Append(h, o)) = ReceivedOn(c, h)
  <1> DEFINE g == Append(h, o)
             n == Len(h)
             P == {i \in DOMAIN h : h[i].chan = c /\ h[i].val # NoVal}
             T == {i \in DOMAIN g : g[i].chan = c /\ g[i].val # NoVal}
             a == [i \in DOMAIN h |-> [from |-> h[i].from, val |-> h[i].val]]
             b == [i \in DOMAIN g |-> [from |-> g[i].from, val |-> g[i].val]]
  <1>1. /\ n \in Nat /\ g[n + 1] = o /\ \A i \in 1 .. n : g[i] = h[i]
        /\ DOMAIN h = 1 .. n /\ DOMAIN g = 1 .. n + 1
    BY AppendAgrees DEF Agree
  <1>3. ReceivedOn(c, h) = Picked(a, P) /\ ReceivedOn(c, g) = Picked(b, T)
    BY DEF ReceivedOn
  <1> HIDE DEF g, n
  <1>4. /\ P \subseteq 1 .. n /\ T \subseteq 1 .. n + 1
        /\ n + 1 \in T <=> o.chan = c /\ o.val # NoVal
        /\ \A j \in 1 .. n : j \in P <=> j \in T
    BY <1>1
  <1>5. /\ \A i \in 1 .. n : b[i] = a[i]
        /\ b[n + 1] = [from |-> o.from, val |-> o.val]
    BY <1>1
  <1> HIDE DEF P, T, a, b
  <1>9. /\ n + 1 \in T => Picked(b, T) = Append(Picked(a, P), b[n + 1])
        /\ n + 1 \notin T => Picked(b, T) = Picked(a, P)
    <2>1. OneMore(a, P, b, T, n)
      BY <1>1, <1>4, <1>5 DEF OneMore
    <2> QED
      BY <2>1, PickedGrows
  <1> QED
    BY <1>3, <1>4, <1>5, <1>9 DEF g

LEMMA NothingPicked == \A seq : Picked(seq, {}) = <<>>
  <1> TAKE seq
  <1>1. Cardinality({}) = 0
    BY FS_EmptySet
  <1>2. 1 .. Cardinality({}) = {}
    BY <1>1
  <1>3. DOMAIN Picked(seq, {}) = {}
    BY <1>2 DEF Picked
  <1> QED
    BY <1>2 DEF Picked

LEMMA NothingFrom ==
    /\ \A s : FromSender(<<>>, s) = <<>>
    /\ \A c : ReceivedOn(c, <<>>) = <<>>
  <1>1. DOMAIN <<>> = {}
    OBVIOUS
  <1> QED
    BY <1>1, NothingPicked DEF FromSender, ReceivedOn

-----------------------------------------------------------------------------
(* Sequences with an element in front *)

LEMMA FrontElement ==
    ASSUME NEW V, NEW v \in V, NEW q \in Seq(V)
    PROVE  /\ <<v>> \o q \in Seq(V) /\ <<v>> \o q # <<>>
           /\ Head(<<v>> \o q) = v /\ Tail(<<v>> \o q) = q
  <1> DEFINE e == <<v>>
             z == e \o q
  <1>1. e \in Seq(V) /\ Len(e) = 1 /\ e[1] = v
    OBVIOUS
  <1> HIDE DEF e
  <1>2. /\ z \in Seq(V) /\ Len(z) = Len(e) + Len(q)
        /\ \A i \in 1 .. Len(e) + Len(q) : z[i] = IF i <= Len(e) THEN e[i] ELSE q[i - Len(e)]
    BY <1>1, ConcatProperties
  <1>3. Len(q) \in Nat
    BY LenProperties
  <1> HIDE DEF z
  <1>4. Len(z) = 1 + Len(q) /\ z[1] = v /\ \A i \in 1 .. Len(q) : z[i + 1] = q[i]
    <2>1. \A i \in 1 .. Len(q) : i + 1 \in 1 .. 1 + Len(q) /\ ~(i + 1 <= 1) /\ (i + 1) - 1 = i
      BY <1>3
    <2>2. 1 \in 1 .. 1 + Len(q)
      BY <1>3
    <2> QED
      BY <1>1, <1>2, <2>1, <2>2
  <1>5. z # <<>> /\ Head(z) = v
    BY <1>2, <1>3, <1>4, EmptySeq
  <1>6. /\ Tail(z) \in Seq(V) /\ Len(Tail(z)) = Len(z) - 1
        /\ \A i \in 1 .. Len(Tail(z)) : Tail(z)[i] = z[i + 1]
    BY <1>2, <1>5, HeadTailProperties
  <1>7. Len(Tail(z)) = Len(q)
    BY <1>3, <1>4, <1>6
  <1>8. Tail(z) = q
    BY <1>4, <1>6, <1>7, SeqEqual
  <1> QED
    BY <1>2, <1>5, <1>8 DEF z, e

LEMMA SplitFront ==
    ASSUME NEW V, NEW q \in Seq(V), q # <<>>
    PROVE  Head(q) \in V /\ Tail(q) \in Seq(V) /\ q = <<Head(q)>> \o Tail(q)
  <1> DEFINE r == Tail(q)
             v == Head(q)
             e == <<v>>
             z == e \o r
  <1>1. /\ v \in V /\ r \in Seq(V) /\ Len(r) = Len(q) - 1
        /\ \A i \in 1 .. Len(r) : r[i] = q[i + 1]
    BY HeadTailProperties
  <1>2. Len(q) \in Nat \ {0} /\ v = q[1]
    BY EmptySeq, LenProperties
  <1> HIDE DEF r, v
  <1>3. e \in Seq(V) /\ Len(e) = 1 /\ e[1] = v
    BY <1>1
  <1> HIDE DEF e
  <1>4. /\ z \in Seq(V) /\ Len(z) = Len(e) + Len(r)
        /\ \A i \in 1 .. Len(e) + Len(r) : z[i] = IF i <= Len(e) THEN e[i] ELSE r[i - Len(e)]
    <2>1. r \in Seq(V) /\ e \in Seq(V)
      BY <1>1, <1>3
    <2>2. z \in Seq(V) /\ Len(z) = Len(e) + Len(r)
      BY <2>1, ConcatProperties
    <2>3. \A i \in 1 .. Len(e) + Len(r) : z[i] = IF i <= Len(e) THEN e[i] ELSE r[i - Len(e)]
      BY <2>1, ConcatProperties
    <2> QED
      BY <2>2, <2>3
  <1> HIDE DEF z
  <1>5. Len(z) = Len(q)
    BY <1>1, <1>2, <1>3, <1>4
  <1>6. ASSUME NEW i \in 1 .. Len(q) PROVE z[i] = q[i]
    <2>1. CASE i = 1
      <3>1. 1 \in 1 .. Len(e) + Len(r) /\ 1 <= Len(e)
        BY <1>1, <1>2, <1>3
      <3> QED
        BY <1>2, <1>3, <1>4, <2>1, <3>1
    <2>2. CASE i # 1
      <3>1. i \in 1 .. Len(e) + Len(r) /\ ~(i <= Len(e)) /\ i - Len(e) = i - 1
            /\ i - 1 \in 1 .. Len(r) /\ (i - 1) + 1 = i
        BY <1>1, <1>2, <1>3, <2>2
      <3>2. z[i] = r[i - 1]
        BY <1>4, <3>1
      <3>3. r[i - 1] = q[(i - 1) + 1]
        BY <1>1, <3>1
      <3> QED
        BY <3>1, <3>2, <3>3
    <2> QED
      BY <2>1, <2>2
  <1>7. z = q
    BY <1>4, <1>5, <1>6, SeqEqual
  <1> QED
    BY <1>1, <1>7 DEF z, e, v, r

LEMMA MovesToFront ==
    \A v \in Val : \A q, r \in Seq(Val) :
        /\ q \o (<<v>> \o r) = Append(q, v) \o r
        /\ q \o Append(r, v) = Append(q \o r, v)
        /\ (<<v>> \o q) \o r = <<v>> \o (q \o r)
  <1> TAKE v \in Val
  <1> TAKE q, r \in Seq(Val)
  <1> DEFINE e == <<v>>
  <1>1. e \in Seq(Val)
    OBVIOUS
  <1>2. Append(q, v) = q \o e /\ Append(r, v) = r \o e
    BY AppendIsConcat
  <1>3. q \o r \in Seq(Val)
    BY ConcatProperties
  <1>4. Append(q \o r, v) = (q \o r) \o e
    BY <1>3, AppendIsConcat
  <1> HIDE DEF e
  <1>5. (q \o e) \o r = q \o (e \o r)
    BY <1>1, ConcatAssociative
  <1>6. (q \o r) \o e = q \o (r \o e)
    BY <1>1, ConcatAssociative
  <1>7. (e \o q) \o r = e \o (q \o r)
    BY <1>1, ConcatAssociative
  <1> QED
    BY <1>2, <1>4, <1>5, <1>6, <1>7, Zenon DEF e

-----------------------------------------------------------------------------
(* Threads: the step with which a thread dies does nothing else; an operation
   adds one result to a history *)

HistStep(t) ==
    /\ \A u \in Id \ {t} : hist'[u] = hist[u]
    /\ hist'[t] = hist[t] \/ \E o \in Observation : hist'[t] = Append(hist[t], o)

\* A thread that takes a step is alive; the step with which it dies does nothing
\* else.
LifeStep(t) ==
    /\ ~Dead(t)
    /\ Dead(t)' => UNCHANGED <<wire, buffer, hist>>

LEMMA DesyncLife ==
    ASSUME TypeOK, NEW t \in Id, ~Dead(t), HandleDesync(t), UNCHANGED chanVars
    PROVE  LifeStep(t) /\ hist' = hist
  BY DEF HandleDesync, Panic, LifeStep, chanVars

LEMMA ReturnLife ==
    ASSUME TypeOK, NEW t \in Id, status[t] = "running", NEW o \in Observation, Return(t, o)
    PROVE  LifeStep(t) /\ HistStep(t)
  <1>1. status'[t] = "running"
    BY DEF Return
  <1>2. hist' = [hist EXCEPT ![t] = Append(@, o)]
    BY DEF Return
  <1> QED
    BY <1>1, <1>2 DEF LifeStep, Dead, HistStep, TypeOK

LEMMA SameHist ==
    ASSUME NEW t \in Id, hist' = hist PROVE HistStep(t)
  BY DEF HistStep

LEMMA SameLife ==
    ASSUME NEW t \in Id, status[t] = "running", status' = status PROVE LifeStep(t)
  BY DEF LifeStep, Dead

\* What an operation returned is a result.
LEMMA ReturnTyped ==
    ASSUME TypeOK, NEW t \in Id, NEW obs, Return(t, obs), hist' \in [Id -> Seq(Observation)]
    PROVE  obs \in Observation
  <1> DEFINE h == hist[t]
             V == Observation \cup {obs}
             n == Len(h)
  <1>1. h \in Seq(Observation) /\ hist'[t] = Append(h, obs) /\ hist'[t] \in Seq(Observation)
    BY DEF Return, TypeOK
  <1> HIDE DEF h
  <1>2. h \in Seq(V) /\ obs \in V
    BY <1>1, SeqMonotonic
  <1> HIDE DEF V
  <1>3. /\ Len(Append(h, obs)) = n + 1 /\ Append(h, obs)[n + 1] = obs
    BY <1>2, AppendProperties
  <1>4. n \in Nat
    BY <1>1, LenProperties
  <1>5. n + 1 \in 1 .. Len(hist'[t])
    BY <1>1, <1>3, <1>4
  <1>6. hist'[t][n + 1] \in Observation
    BY <1>1, <1>5, ElementOfSeq
  <1> QED
    BY <1>1, <1>3, <1>6

LEMMA ReturnedLife ==
    ASSUME TypeOK, NEW t \in Id, status[t] = "running", NEW obs, Return(t, obs), ThreadsTyped'
    PROVE  LifeStep(t) /\ HistStep(t)
  <1>1. obs \in Observation
    BY ReturnTyped DEF ThreadsTyped
  <1> QED
    BY <1>1, ReturnLife

LEMMA StepLife ==
    ASSUME WellFormedProgram, IInv, NEW t \in Id, ThreadStep(t)
    PROVE  LifeStep(t) /\ HistStep(t)
  <1>0. TypeOK /\ LogTypeOK /\ Op(t) \in Operation /\ Inside(t) /\ setup' = setup
    BY OpTyped DEF IInv, TypeOK, InsideOp, ThreadStep
  <1>1. CASE RecordOp(t)
    BY <1>1, SameHist, SameLife DEF RecordOp, Calls, At
  <1>2. CASE RecordEvent(t)
    <2>1. status[t] = "running" /\ pending[t] \in Observation
      BY <1>0, <1>2 DEF RecordEvent, At, TypeOK
    <2>2. UNCHANGED threadVars \/ Return(t, pending[t])
      BY <1>2 DEF RecordEvent
    <2>3. CASE UNCHANGED threadVars
      BY <2>1, <2>3, SameHist, SameLife DEF threadVars
    <2> QED
      BY <1>0, <2>1, <2>2, <2>3, ReturnLife
  <1>3. CASE RecordEventFails(t)
    <2>1. ~Dead(t) /\ UNCHANGED chanVars
      BY <1>3 DEF RecordEventFails, At, Dead
    <2>2. CASE Panic(t)
      BY <2>1, <2>2, SameHist DEF Panic, LifeStep, chanVars
    <2>3. CASE HandleDesync(t)
      BY <1>0, <2>1, <2>3, SameHist, DesyncLife
    <2> QED
      BY <1>3, <2>2, <2>3 DEF RecordEventFails
  <1>4. CASE OpenLog(t) \/ FallAsleep(t) \/ Exit(t)
    <2>1. ~Dead(t) /\ UNCHANGED chanVars /\ hist' = hist
      BY <1>4 DEF OpenLog, FallAsleep, Exit, AsksLog, Calls, At, Dead
    <2> QED
      BY <2>1, SameHist DEF LifeStep, chanVars
  <1>5. CASE ReplayMismatch(t) \/ SendDesynced(t)
    <2>1. ~Dead(t) /\ UNCHANGED chanVars /\ HandleDesync(t)
      BY <1>5 DEF ReplayMismatch, SendDesynced, AsksLog, Calls, At, Dead
    <2> QED
      BY <1>0, <2>1, SameHist, DesyncLife
  <1>6. CASE ReplaySend(t)
    BY <1>6, SameHist, SameLife DEF ReplaySend, AsksLog, Calls, At
  <1>7. CASE Deliver(t)
    <2>1. status[t] = "running" /\ Op(t).kind = "send"
      BY <1>0, <1>7 DEF Deliver, At, Inside
    <2>2. PICK obs : Send(t, Op(t), obs) /\ Return(t, obs)
      BY <1>7 DEF Deliver
    <2>3. obs \in Observation
      BY <1>0, <2>1, <2>2, SendTyped DEF Observation
    <2> QED
      BY <1>0, <2>1, <2>2, <2>3, ReturnLife
  <1>8. CASE ReplayRecv(t)
    <2>1. status[t] = "running" /\ status' = status
      BY <1>8 DEF ReplayRecv, AsksLog, Calls, At, Return
    <2>2. LifeStep(t)
      BY <2>1, SameLife
    <2>3. hist' = hist \/ \E obs : Return(t, obs)
      BY <1>8 DEF ReplayRecv
    <2>4. ThreadsTyped'
      BY <1>0, <1>8, ReplayRecvInv DEF Rest
    <2>5. CASE hist' = hist
      BY <2>2, <2>5, SameHist
    <2>6. ASSUME NEW obs, Return(t, obs) PROVE HistStep(t)
      BY <1>0, <2>1, <2>4, <2>6, ReturnedLife
    <2> QED
      BY <2>2, <2>3, <2>5, <2>6
  <1>9. CASE ReceiveExpected(t)
    <2>1. status[t] = "running"
      BY <1>9 DEF ReceiveExpected, At
    <2>2. UNCHANGED threadVars \/ \E obs : Return(t, obs)
      BY <1>9 DEF ReceiveExpected
    <2>3. ThreadsTyped'
      BY <1>0, <1>9, ReceiveExpectedInv DEF Rest
    <2>4. CASE UNCHANGED threadVars
      BY <2>1, <2>4, SameHist, SameLife DEF threadVars
    <2>5. ASSUME NEW obs, Return(t, obs) PROVE LifeStep(t) /\ HistStep(t)
      BY <1>0, <2>1, <2>3, <2>5, ReturnedLife
    <2> QED
      BY <2>2, <2>4, <2>5
  <1>10. CASE ReceiveTimesOut(t) \/ WakeUp(t)
    <2>1. ~Dead(t) /\ UNCHANGED chanVars /\ HandleDesync(t)
      BY <1>10 DEF ReceiveTimesOut, WakeUp, At, Dead
    <2> QED
      BY <1>0, <2>1, SameHist, DesyncLife
  <1>11. CASE ReceiveAny(t)
    <2>1. status[t] = "running"
      BY <1>11 DEF ReceiveAny, At
    <2>2. PICK obs : Return(t, obs)
      BY <1>11 DEF ReceiveAny
    <2>3. ThreadsTyped'
      BY <1>0, <1>11, ReceiveAnyInv DEF Rest
    <2> QED
      BY <1>0, <2>1, <2>2, <2>3, ReturnedLife
  <1>12. CASE Join(t)
    <2>1. status[t] = "running" /\ Return(t, NoResult)
      BY <1>12 DEF Join, Calls, At
    <2> QED
      BY <1>0, <2>1, ReturnLife, NoResultTyped
  <1>13. CASE ExecutionDone(t)
    <2>1. status[t] = "running"
      BY <1>13 DEF ExecutionDone, Calls, At
    <2>2. CASE UNCHANGED <<status, hist>>
      BY <2>1, <2>2, SameHist, SameLife
    <2>3. CASE Return(t, Done)
      BY <1>0, <2>1, <2>3, ReturnLife, NoResultTyped
    <2> QED
      BY <1>13, <2>2, <2>3 DEF ExecutionDone
  <1> QED
    BY <1>1, <1>2, <1>3, <1>4, <1>5, <1>6, <1>7, <1>8, <1>9, <1>10, <1>11, <1>12, <1>13 DEF ThreadStep

-----------------------------------------------------------------------------
(* What a thread has in its hands and what it has got *)

\* Two ways in which a thread leaves what it has in its history and in its
\* hands as it was, and the step that writes the one to the other.
LEMMA QuietHistory ==
    ASSUME NEW h \in Seq(Observation), NEW p \in Observation, NEW g \in Seq(Observation),
           NEW q \in Observation, NEW a \in BOOLEAN, NEW b \in BOOLEAN,
           g = h \/ Len(g) = Len(h) + 1,
           (IF b THEN Append(g, q) ELSE g) = (IF a THEN Append(h, p) ELSE h)
    PROVE  \/ g = h /\ a /\ b /\ q = p
           \/ g = h /\ ~a /\ ~b
           \/ a /\ ~b /\ g = Append(h, p)
  <1>1. Len(g) \in Nat /\ Len(h) \in Nat
    BY LenProperties
  <1>2. Len(Append(g, q)) = Len(g) + 1 /\ Len(Append(h, p)) = Len(h) + 1
    BY AppendProperties
  <1>3. CASE a /\ b
    <2>1. Append(g, q) = Append(h, p)
      BY <1>3
    <2>2. Append(g, q)[Len(g) + 1] = q /\ Append(h, p)[Len(h) + 1] = p
      BY AppendProperties
    <2>3. Len(g) = Len(h)
      BY <1>1, <1>2, <2>1
    <2>4. g = h
      BY <1>1, <2>3
    <2> QED
      BY <1>3, <2>1, <2>2, <2>4
  <1>4. CASE ~a /\ b
    <2>1. Append(g, q) = h
      BY <1>4
    <2>2. Len(h) = Len(g) + 1
      BY <1>2, <2>1
    <2> QED
      BY <1>1, <2>2
  <1> QED
    BY <1>3, <1>4

LEMMA NewResult ==
    ASSUME NEW h \in Seq(Observation), NEW p \in Observation, NEW g \in Seq(Observation),
           NEW q \in Observation, NEW o \in Observation, NEW a \in BOOLEAN, NEW b \in BOOLEAN,
           g = h \/ Len(g) = Len(h) + 1,
           (IF a THEN Append(h, p) ELSE h) = h,
           (IF b THEN Append(g, q) ELSE g) = Append(h, o)
    PROVE  /\ ~a
           /\ \/ b /\ g = h /\ q = o
              \/ ~b /\ g = Append(h, o)
  <1>1. Len(g) \in Nat /\ Len(h) \in Nat
    BY LenProperties
  <1>2. Len(Append(g, q)) = Len(g) + 1 /\ Len(Append(h, p)) = Len(h) + 1 /\ Len(Append(h, o)) = Len(h) + 1
    BY AppendProperties
  <1>3. ~a
    <2> SUFFICES ASSUME a PROVE FALSE
      OBVIOUS
    <2>1. Append(h, p) = h
      OBVIOUS
    <2>2. Len(h) = Len(h) + 1
      BY <1>2, <2>1
    <2> QED
      BY <1>1, <2>2
  <1>4. CASE b
    <2>1. Append(g, q) = Append(h, o)
      BY <1>4
    <2>2. Append(g, q)[Len(g) + 1] = q /\ Append(h, o)[Len(h) + 1] = o
      BY AppendProperties
    <2>3. Len(g) = Len(h)
      BY <1>1, <1>2, <2>1
    <2>4. g = h
      BY <1>1, <2>3
    <2> QED
      BY <1>3, <1>4, <2>1, <2>2, <2>4
  <1> QED
    BY <1>3, <1>4

LEMMA HistoryStep ==
    ASSUME TypeOK, TypeOK', NEW t \in Id, HistStep(t)
    PROVE  /\ hist[t] \in Seq(Observation) /\ hist'[t] \in Seq(Observation)
           /\ pending[t] \in Observation /\ pending'[t] \in Observation
           /\ hist'[t] = hist[t] \/ Len(hist'[t]) = Len(hist[t]) + 1
  <1>1. /\ hist[t] \in Seq(Observation) /\ hist'[t] \in Seq(Observation)
        /\ pending[t] \in Observation /\ pending'[t] \in Observation
    BY DEF TypeOK
  <1>2. \A o \in Observation : Len(Append(hist[t], o)) = Len(hist[t]) + 1
    BY <1>1, AppendProperties
  <1> QED
    BY <1>1, <1>2 DEF HistStep

LEMMA QuietHand ==
    ASSUME TypeOK, TypeOK', NEW t \in Id, HistStep(t), H(t)' = H(t)
    PROVE  \/ hist'[t] = hist[t] /\ at[t] = "log" /\ at'[t] = "log" /\ pending'[t] = pending[t]
           \/ hist'[t] = hist[t] /\ at[t] # "log" /\ at'[t] # "log"
           \/ at[t] = "log" /\ at'[t] # "log" /\ hist'[t] = Append(hist[t], pending[t])
  <1> DEFINE h == hist[t]
             g == hist'[t]
             p == pending[t]
             q == pending'[t]
             a == at[t] = "log"
             b == at'[t] = "log"
  <1>1. /\ h \in Seq(Observation) /\ p \in Observation /\ g \in Seq(Observation) /\ q \in Observation
        /\ a \in BOOLEAN /\ b \in BOOLEAN
    BY HistoryStep
  <1>2. g = h \/ Len(g) = Len(h) + 1
    BY HistoryStep
  <1>3. (IF b THEN Append(g, q) ELSE g) = (IF a THEN Append(h, p) ELSE h)
    BY DEF H
  <1> HIDE DEF h, g, p, q, a, b
  <1>4. \/ g = h /\ a /\ b /\ q = p
        \/ g = h /\ ~a /\ ~b
        \/ a /\ ~b /\ g = Append(h, p)
    BY <1>1, <1>2, <1>3, QuietHistory
  <1> QED
    BY <1>4 DEF h, g, p, q, a, b

LEMMA AppendsHand ==
    ASSUME TypeOK, TypeOK', NEW t \in Id, HistStep(t), NEW o, Appends(t, o)
    PROVE  /\ at[t] # "log"
           /\ \/ at'[t] = "log" /\ hist'[t] = hist[t] /\ pending'[t] = o
              \/ at'[t] # "log" /\ hist'[t] = Append(hist[t], o)
  <1> DEFINE h == hist[t]
             g == hist'[t]
             p == pending[t]
             q == pending'[t]
             a == at[t] = "log"
             b == at'[t] = "log"
  <1>1. /\ h \in Seq(Observation) /\ p \in Observation /\ g \in Seq(Observation) /\ q \in Observation
        /\ a \in BOOLEAN /\ b \in BOOLEAN /\ o \in Observation
    BY HistoryStep DEF Appends
  <1>2. g = h \/ Len(g) = Len(h) + 1
    BY HistoryStep
  <1>3. (IF a THEN Append(h, p) ELSE h) = h
    BY DEF H, Appends
  <1>4. (IF b THEN Append(g, q) ELSE g) = Append(h, o)
    BY DEF H, Appends
  <1> HIDE DEF h, g, p, q, a, b
  <1>5. /\ ~a
        /\ \/ b /\ g = h /\ q = o
           \/ ~b /\ g = Append(h, o)
    BY <1>1, <1>2, <1>3, <1>4, NewResult
  <1> QED
    BY <1>5 DEF h, g, p, q, a, b

\* A result is a message of a sender, or it has no value.
LEMMA ResultShape ==
    ASSUME NEW o \in Observation
    PROVE  \/ o.from \in Id /\ o.val \in Val /\ o.chan \in Chan /\ o.val # NoVal /\ o.op \in RecvKind
           \/ o.from = NoId /\ o.val = NoVal
  <1>1. NoVal \notin Val
    BY ProgramAssumption
  <1> QED
    BY <1>1 DEF Observation, SendResult, RecvResult, NoResult, Done

\* What t has received on c and not yet recorded, and what it has got there.
InHand(t, c, s) ==
    IF at[t] = "log" /\ pending[t].chan = c /\ pending[t].from = s THEN <<pending[t].val>> ELSE <<>>
Gets(t, c) == ReceivedOn(c, hist[t])

OneIn(d, r, v, c, s) == IF c = d /\ s = r THEN <<v>> ELSE <<>>

HandStays(t) == \A c \in Chan, s \in Id : InHand(t, c, s)' = InHand(t, c, s) /\ Gets(t, c)' = Gets(t, c)

GetsOne(t, d, r, v) ==
    /\ Gets(t, d)' = Append(Gets(t, d), [from |-> r, val |-> v])
    /\ \A c \in Chan : c # d => Gets(t, c)' = Gets(t, c)

\* A message is recorded; taken to be recorded; taken and returned at once.
Commits(t, d, r, v) ==
    /\ \A c \in Chan, s \in Id : InHand(t, c, s) = OneIn(d, r, v, c, s) /\ InHand(t, c, s)' = <<>>
    /\ GetsOne(t, d, r, v)
PicksUp(t, d, r, v) ==
    \A c \in Chan, s \in Id : /\ InHand(t, c, s) = <<>> /\ InHand(t, c, s)' = OneIn(d, r, v, c, s)
                              /\ Gets(t, c)' = Gets(t, c)
Passes(t, d, r, v) ==
    /\ \A c \in Chan, s \in Id : InHand(t, c, s) = <<>> /\ InHand(t, c, s)' = <<>>
    /\ GetsOne(t, d, r, v)

LEMMA GetsResult ==
    ASSUME NEW t \in Id, hist[t] \in Seq(Observation), NEW o \in Observation,
           hist'[t] = Append(hist[t], o)
    PROVE  /\ o.from \in Id => GetsOne(t, o.chan, o.from, o.val)
           /\ o.from \notin Id => \A c \in Chan : Gets(t, c)' = Gets(t, c)
  <1> DEFINE h == hist[t]
  <1>1. h \in Seq(Observation)
    OBVIOUS
  <1>2. \A c : Gets(t, c) = ReceivedOn(c, h) /\ Gets(t, c)' = ReceivedOn(c, Append(h, o))
    BY DEF Gets
  <1> HIDE DEF h
  <1>3. \A c : /\ o.chan = c /\ o.val # NoVal =>
                      ReceivedOn(c, Append(h, o)) = Append(ReceivedOn(c, h), [from |-> o.from, val |-> o.val])
               /\ ~(o.chan = c /\ o.val # NoVal) => ReceivedOn(c, Append(h, o)) = ReceivedOn(c, h)
    BY <1>1, ReceivedGrows
  <1>4. CASE o.from \in Id
    <2>1. o.val # NoVal
      BY <1>4, ResultShape, NoIdAssumption
    <2> QED
      BY <1>2, <1>3, <1>4, <2>1 DEF GetsOne
  <1>5. CASE o.from \notin Id
    <2>1. o.val = NoVal
      BY <1>5, ResultShape
    <2> QED
      BY <1>2, <1>3, <1>5, <2>1
  <1> QED
    BY <1>4, <1>5

LEMMA QuietView ==
    ASSUME TypeOK, TypeOK', NEW t \in Id, HistStep(t), H(t)' = H(t)
    PROVE  HandStays(t) \/ \E d \in Chan, r \in Id, v \in Val : Commits(t, d, r, v)
  <1>0. hist[t] \in Seq(Observation) /\ pending[t] \in Observation
    BY HistoryStep
  <1>1. CASE hist'[t] = hist[t] /\ at[t] = "log" /\ at'[t] = "log" /\ pending'[t] = pending[t]
    BY <1>1 DEF HandStays, InHand, Gets
  <1>2. CASE hist'[t] = hist[t] /\ at[t] # "log" /\ at'[t] # "log"
    BY <1>2 DEF HandStays, InHand, Gets
  <1>3. CASE at[t] = "log" /\ at'[t] # "log" /\ hist'[t] = Append(hist[t], pending[t])
    <2>0. PICK o \in Observation : o = pending[t]
      BY <1>0
    <2>1. CASE o.from \in Id
      <3>1. o.val \in Val /\ o.chan \in Chan
        BY <1>0, <2>1, ResultShape, NoIdAssumption
      <3>2. GetsOne(t, o.chan, o.from, o.val)
        BY <1>0, <1>3, <2>0, <2>1, GetsResult
      <3>3. \A c \in Chan, s \in Id : /\ InHand(t, c, s) = OneIn(o.chan, o.from, o.val, c, s)
                                      /\ InHand(t, c, s)' = <<>>
        BY <1>3, <2>0 DEF InHand, OneIn
      <3>4. Commits(t, o.chan, o.from, o.val)
        BY <3>2, <3>3 DEF Commits
      <3> QED
        BY <2>1, <3>1, <3>4
    <2>2. CASE o.from \notin Id
      <3>1. \A c \in Chan : Gets(t, c)' = Gets(t, c)
        BY <1>0, <1>3, <2>0, <2>2, GetsResult
      <3>2. \A c \in Chan, s \in Id : InHand(t, c, s) = <<>> /\ InHand(t, c, s)' = <<>>
        BY <1>3, <2>0, <2>2 DEF InHand
      <3> QED
        BY <3>1, <3>2 DEF HandStays
    <2> QED
      BY <2>1, <2>2
  <1> QED
    BY <1>1, <1>2, <1>3, QuietHand

LEMMA ResultView ==
    ASSUME TypeOK, TypeOK', NEW t \in Id, HistStep(t), NEW o, Appends(t, o)
    PROVE  /\ o.from \notin Id => HandStays(t)
           /\ o.from \in Id => PicksUp(t, o.chan, o.from, o.val) \/ Passes(t, o.chan, o.from, o.val)
  <1>0. hist[t] \in Seq(Observation) /\ o \in Observation /\ at[t] # "log"
    BY HistoryStep, AppendsHand DEF Appends
  <1>1. CASE at'[t] = "log" /\ hist'[t] = hist[t] /\ pending'[t] = o
    <2>1. \A c \in Chan, s \in Id : /\ InHand(t, c, s) = <<>>
                                    /\ InHand(t, c, s)' = OneIn(o.chan, o.from, o.val, c, s)
                                    /\ Gets(t, c)' = Gets(t, c)
      BY <1>0, <1>1 DEF InHand, OneIn, Gets
    <2>2. o.from \notin Id => HandStays(t)
      BY <2>1 DEF OneIn, HandStays
    <2> QED
      BY <2>1, <2>2 DEF PicksUp
  <1>2. CASE at'[t] # "log" /\ hist'[t] = Append(hist[t], o)
    <2>1. \A c \in Chan, s \in Id : InHand(t, c, s) = <<>> /\ InHand(t, c, s)' = <<>>
      BY <1>0, <1>2 DEF InHand
    <2>2. /\ o.from \in Id => GetsOne(t, o.chan, o.from, o.val)
          /\ o.from \notin Id => \A c \in Chan : Gets(t, c)' = Gets(t, c)
      BY <1>0, <1>2, GetsResult
    <2>3. o.from \notin Id => HandStays(t)
      BY <2>1, <2>2 DEF HandStays
    <2> QED
      BY <2>1, <2>2, <2>3 DEF Passes
  <1> QED
    BY <1>1, <1>2, AppendsHand

-----------------------------------------------------------------------------
(* What is in the buffers and queues of a channel *)

\* What the receiver of c has still to take of the messages of s.
Waits(c, s) == buffer[c][s] \o FromSender(wire[c], s)

Others(d, r) == \A c \in Chan, s \in Id : ~(c = d /\ s = r) => Waits(c, s)' = Waits(c, s)
WaitsStay == \A c \in Chan, s \in Id : Waits(c, s)' = Waits(c, s)
OneLeaves(d, r, v) == Waits(d, r) = <<v>> \o Waits(d, r)' /\ Others(d, r)
OneArrives(d, r, v) == Waits(d, r)' = Append(Waits(d, r), v) /\ Others(d, r)

LEMMA ChannelTyped ==
    ASSUME TypeOK, NEW c \in Chan, NEW s \in Id
    PROVE  /\ buffer[c][s] \in Seq(Val) /\ wire[c] \in Seq(Message)
           /\ FromSender(wire[c], s) \in Seq(Val)
           /\ Waits(c, s) \in Seq(Val)
  <1>1. buffer[c][s] \in Seq(Val) /\ wire[c] \in Seq(Message)
    BY DEF TypeOK
  <1>2. FromSender(wire[c], s) \in Seq(Val)
    BY <1>1, FromSenderTyped
  <1> QED
    BY <1>1, <1>2, ConcatProperties DEF Waits

LEMMA MessageTyped ==
    ASSUME NEW w \in Seq(Message), w # <<>>
    PROVE  Head(w) \in Message /\ Head(w).from \in Id /\ Head(w).val \in Val /\ Tail(w) \in Seq(Message)
  <1>1. Head(w) \in Message /\ Tail(w) \in Seq(Message)
    BY HeadTailProperties
  <1> QED
    BY <1>1 DEF Message

LEMMA FirstTyped ==
    ASSUME TypeOK, NEW c \in Chan, wire[c] # <<>>
    PROVE  /\ wire[c] \in Seq(Message) /\ Head(wire[c]) \in Message /\ Tail(wire[c]) \in Seq(Message)
           /\ Head(wire[c]).from \in Id /\ Head(wire[c]).val \in Val
  <1>1. wire[c] \in Seq(Message)
    BY DEF TypeOK
  <1> QED
    BY <1>1, MessageTyped

LEMMA SendArrives ==
    ASSUME TypeOK, NEW t \in Id, SendsOne(t)
    PROVE  \E d \in Chan, v \in Val : OneArrives(d, t, v)
  <1>0. PICK d \in Chan, v \in Val : d = Op(t).chan /\ v = Op(t).val
    BY DEF SendsOne
  <1>a. PICK m \in Message : m = [from |-> t, val |-> v]
    BY DEF Message
  <1>b. PICK w \in Seq(Message) : w = wire[d]
    BY DEF TypeOK
  <1>1. m.from = t /\ m.val = v
    BY <1>a
  <1>2. wire' = [wire EXCEPT ![d] = Append(w, m)] /\ buffer' = buffer
    BY <1>0, <1>a, <1>b DEF SendsOne
  <1>3. wire'[d] = Append(w, m) /\ \A c \in Chan : c # d => wire'[c] = wire[c]
    BY <1>2 DEF TypeOK
  <1>4. \A s : /\ m.from = s => FromSender(Append(w, m), s) = Append(FromSender(w, s), m.val)
               /\ m.from # s => FromSender(Append(w, m), s) = FromSender(w, s)
    BY FromSenderGrows
  <1>5. Others(d, t)
    BY <1>b, <1>1, <1>2, <1>3, <1>4 DEF Others, Waits
  <1> DEFINE q == buffer[d][t]
             f == FromSender(w, t)
  <1>6. FromSender(wire'[d], t) = Append(f, v)
    BY <1>1, <1>3, <1>4
  <1>7. Waits(d, t) = q \o f /\ Waits(d, t)' = q \o FromSender(wire'[d], t)
    BY <1>b, <1>2 DEF Waits
  <1>8. q \in Seq(Val) /\ f \in Seq(Val)
    BY <1>b, ChannelTyped
  <1> HIDE DEF q, f
  <1>9. q \o Append(f, v) = Append(q \o f, v)
    BY <1>8, MovesToFront, Zenon
  <1>10. OneArrives(d, t, v)
    BY <1>5, <1>6, <1>7, <1>9 DEF OneArrives
  <1> QED
    BY <1>10

\* The queue underneath without its first message.
LEMMA FirstLeaves ==
    ASSUME TypeOK, NEW c \in Chan, wire[c] # <<>>, wire' = [wire EXCEPT ![c] = Tail(@)]
    PROVE  /\ FromSender(wire[c], Head(wire[c]).from)
                 = <<Head(wire[c]).val>> \o FromSender(wire'[c], Head(wire[c]).from)
           /\ FromSender(wire'[c], Head(wire[c]).from) \in Seq(Val)
           /\ \A d \in Chan, s \in Id : ~(d = c /\ s = Head(wire[c]).from) =>
                 FromSender(wire'[d], s) = FromSender(wire[d], s)
  <1> DEFINE w == wire[c]
  <1>1. w \in Seq(Message) /\ w # <<>> /\ wire'[c] = Tail(w) /\ \A d \in Chan : d # c => wire'[d] = wire[d]
    BY DEF TypeOK
  <1> HIDE DEF w
  <1>2. \A s : /\ Head(w).from = s => FromSender(w, s) = <<Head(w).val>> \o FromSender(Tail(w), s)
               /\ Head(w).from # s => FromSender(w, s) = FromSender(Tail(w), s)
    BY <1>1, FromSenderShrinks
  <1>3. Tail(w) \in Seq(Message)
    BY <1>1, MessageTyped
  <1>4. FromSender(Tail(w), Head(w).from) \in Seq(Val)
    BY <1>3, FromSenderTyped
  <1> QED
    BY <1>1, <1>2, <1>4 DEF w

LEMMA WireLeaves ==
    ASSUME TypeOK, NEW c \in Chan, wire[c] # <<>>, NEW s, s = Head(wire[c]).from,
           NEW v, v = Head(wire[c]).val, buffer[c][s] = <<>>,
           wire' = [wire EXCEPT ![c] = Tail(@)], buffer' = buffer
    PROVE  OneLeaves(c, s, v)
  <1> DEFINE f == FromSender(wire[c], s)
             g == FromSender(wire'[c], s)
  <1>0. s \in Id /\ wire[c] \in Seq(Message)
    BY FirstTyped
  <1>1. f \in Seq(Val)
    BY <1>0, FromSenderTyped
  <1>2. f = <<v>> \o g /\ g \in Seq(Val)
    BY FirstLeaves
  <1>3. Others(c, s)
    BY FirstLeaves DEF Others, Waits
  <1>4. Waits(c, s) = <<>> \o f /\ Waits(c, s)' = <<>> \o g
    BY DEF Waits
  <1> HIDE DEF f, g
  <1>5. Waits(c, s) = f /\ Waits(c, s)' = g
    BY <1>1, <1>2, <1>4, ConcatEmptySeq
  <1> QED
    BY <1>2, <1>3, <1>5 DEF OneLeaves

LEMMA BufferLeaves ==
    ASSUME TypeOK, NEW c \in Chan, NEW s \in Id, buffer[c][s] # <<>>,
           NEW v, v = Head(buffer[c][s]),
           buffer' = [buffer EXCEPT ![c][s] = Tail(@)], wire' = wire
    PROVE  v \in Val /\ OneLeaves(c, s, v)
  <1> DEFINE q == buffer[c][s]
             r == Tail(q)
             f == FromSender(wire[c], s)
  <1>1. q \in Seq(Val) /\ f \in Seq(Val) /\ q # <<>> /\ v = Head(q)
    BY ChannelTyped
  <1>2. v \in Val /\ r \in Seq(Val) /\ q = <<v>> \o r
    BY <1>1, SplitFront
  <1>3. buffer'[c][s] = r /\ \A d \in Chan, u \in Id : ~(d = c /\ u = s) => buffer'[d][u] = buffer[d][u]
    BY DEF TypeOK
  <1>4. Others(c, s)
    BY <1>3 DEF Others, Waits
  <1>5. Waits(c, s) = q \o f /\ Waits(c, s)' = r \o f
    BY <1>3 DEF Waits
  <1> HIDE DEF q, r, f
  <1>6. (<<v>> \o r) \o f = <<v>> \o (r \o f)
    BY <1>1, <1>2, MovesToFront, Zenon
  <1> QED
    BY <1>2, <1>4, <1>5, <1>6 DEF OneLeaves

LEMMA BufferingStays ==
    ASSUME TypeOK, NEW c \in Chan, wire[c] # <<>>, wire' = [wire EXCEPT ![c] = Tail(@)],
           buffer' = [buffer EXCEPT ![c][Head(wire[c]).from] = Append(@, Head(wire[c]).val)]
    PROVE  WaitsStay
  <1>0. PICK s \in Id, v \in Val : s = Head(wire[c]).from /\ v = Head(wire[c]).val
    BY FirstTyped
  <1> DEFINE q == buffer[c][s]
             f == FromSender(wire[c], s)
             g == FromSender(wire'[c], s)
  <1>1. f = <<v>> \o g /\ g \in Seq(Val)
    BY <1>0, FirstLeaves
  <1>2. \A d \in Chan, u \in Id : ~(d = c /\ u = s) => FromSender(wire'[d], u) = FromSender(wire[d], u)
    BY <1>0, FirstLeaves
  <1>3. /\ buffer'[c][s] = Append(q, v)
        /\ \A d \in Chan, u \in Id : ~(d = c /\ u = s) => buffer'[d][u] = buffer[d][u]
    BY <1>0 DEF TypeOK
  <1>4. q \in Seq(Val)
    BY ChannelTyped
  <1>5. Others(c, s)
    BY <1>2, <1>3 DEF Others, Waits
  <1>6. Waits(c, s) = q \o f /\ Waits(c, s)' = Append(q, v) \o g
    BY <1>3 DEF Waits
  <1> HIDE DEF q, f, g
  <1>7. q \o (<<v>> \o g) = Append(q, v) \o g
    BY <1>1, <1>4, MovesToFront, Zenon
  <1>8. Waits(c, s)' = Waits(c, s)
    BY <1>1, <1>6, <1>7
  <1> QED
    BY <1>5, <1>8 DEF Others, WaitsStay

LEMMA ChannelsStay ==
    ASSUME UNCHANGED chanVars PROVE WaitsStay
  BY DEF chanVars, WaitsStay, Waits

-----------------------------------------------------------------------------
(* The abstract channels that UnderWay and Received stand for *)

InFront(v, q) ==
    /\ <<v>> \o q \in Seq(Val) /\ <<v>> \o q # <<>>
    /\ Head(<<v>> \o q) = v /\ Tail(<<v>> \o q) = q

LEMMA ValueInFront == \A v \in Val : \A q \in Seq(Val) : InFront(v, q)
  <1> TAKE v \in Val
  <1> TAKE q \in Seq(Val)
  <1> QED
    BY FrontElement DEF InFront

\* The abstract queue and what was got, channel by channel.
ViewTyped ==
    /\ UnderWay \in [Chan -> [Id -> Seq(Val)]]
    /\ DOMAIN Received = Chan /\ Received = [c \in Chan |-> Received[c]]

Views ==
    \A c \in Chan :
        /\ Received[c] = Gets(Owner[c], c)
        /\ \A s \in Id :
            /\ InHand(Owner[c], c, s) \in Seq(Val) /\ Waits(c, s) \in Seq(Val)
            /\ ReceiverGone(c) => UnderWay[c][s] = <<>>
            /\ ~ReceiverGone(c) => UnderWay[c][s] = InHand(Owner[c], c, s) \o Waits(c, s)

LEMMA HandTyped ==
    ASSUME TypeOK, NEW t \in Id, NEW c, NEW s \in Id
    PROVE  InHand(t, c, s) \in Seq(Val)
  <1>1. pending[t] \in Observation
    BY DEF TypeOK
  <1>2. pending[t].from = s => pending[t].val \in Val
    BY <1>1, ResultShape, NoIdAssumption
  <1> QED
    BY <1>2 DEF InHand

LEMMA ViewsHold == TypeOK => ViewTyped /\ Views
  <1> SUFFICES ASSUME TypeOK PROVE ViewTyped /\ Views
    OBVIOUS
  <1>1. ASSUME NEW c \in Chan, NEW s \in Id
        PROVE  /\ InHand(Owner[c], c, s) \in Seq(Val) /\ Waits(c, s) \in Seq(Val)
               /\ ReceiverGone(c) => UnderWay[c][s] = <<>>
               /\ ~ReceiverGone(c) => UnderWay[c][s] = InHand(Owner[c], c, s) \o Waits(c, s)
    <2> DEFINE p == InHand(Owner[c], c, s)
               q == buffer[c][s]
               r == FromSender(wire[c], s)
    <2>1. Owner[c] \in Id
      BY OwnerTyped
    <2>2. p \in Seq(Val) /\ q \in Seq(Val) /\ r \in Seq(Val) /\ Waits(c, s) \in Seq(Val)
      BY <2>1, HandTyped, ChannelTyped
    <2>3. p = BeingRecorded(c, s) /\ Waits(c, s) = q \o r
      BY DEF BeingRecorded, InHand, Waits
    <2>4. UnderWay[c][s] = IF ReceiverGone(c) THEN <<>> ELSE (p \o q) \o r
      BY <2>3 DEF UnderWay
    <2> HIDE DEF p, q, r
    <2>5. (p \o q) \o r = p \o (q \o r)
      BY <2>2, ConcatAssociative
    <2>6. UnderWay[c][s] = IF ReceiverGone(c) THEN <<>> ELSE p \o Waits(c, s)
      BY <2>3, <2>4, <2>5
    <2> QED
      BY <2>2, <2>6 DEF p
  <1>2. ASSUME NEW c \in Chan, NEW s \in Id PROVE UnderWay[c][s] \in Seq(Val)
    <2>1. InHand(Owner[c], c, s) \o Waits(c, s) \in Seq(Val)
      BY <1>1, ConcatProperties
    <2>2. <<>> \in Seq(Val)
      BY EmptySeq
    <2> QED
      BY <1>1, <2>1, <2>2
  <1>3. UnderWay = [c \in Chan |-> [s \in Id |-> UnderWay[c][s]]]
    BY DEF UnderWay
  <1>4. UnderWay \in [Chan -> [Id -> Seq(Val)]]
    BY <1>2, <1>3
  <1>5. DOMAIN Received = Chan /\ Received = [c \in Chan |-> Received[c]]
        /\ \A c \in Chan : Received[c] = Gets(Owner[c], c)
    BY DEF Received, Gets
  <1> QED
    BY <1>1, <1>4, <1>5 DEF ViewTyped, Views

-----------------------------------------------------------------------------
(* The steps of the abstract channels, by what they change *)

Standing == UNCHANGED <<Gone, Refusing>>

OthersSame(d, r) ==
    \A c \in Chan, s \in Id : ~(c = d /\ s = r) => UnderWay'[c][s] = UnderWay[c][s]

LEMMA NothingChanges ==
    ASSUME ViewTyped, ViewTyped',
           \A c \in Chan, s \in Id : UnderWay'[c][s] = UnderWay[c][s],
           \A c \in Chan : Received'[c] = Received[c]
    PROVE  UNCHANGED <<UnderWay, Received>>
  <1>1. UnderWay' = UnderWay
    BY DEF ViewTyped
  <1>2. Received' = [c \in Chan |-> Received'[c]] /\ Received = [c \in Chan |-> Received[c]]
    BY DEF ViewTyped
  <1>3. Received' = Received
    BY <1>2
  <1> QED
    BY <1>1, <1>3

LEMMA OneReceived ==
    ASSUME ViewTyped, ViewTyped', Standing, NEW d \in Chan, NEW r \in Id, NEW v \in Val,
           Owner[d] \notin Gone,
           UnderWay[d][r] = <<v>> \o UnderWay'[d][r], OthersSame(d, r),
           Received'[d] = Append(Received[d], [from |-> r, val |-> v]),
           \A c \in Chan : c # d => Received'[c] = Received[c]
    PROVE  Fifo!Receive(d, r)
  <1> DEFINE q == UnderWay[d][r]
             p == UnderWay'[d][r]
  <1>1. p \in Seq(Val) /\ q = <<v>> \o p
    BY DEF ViewTyped
  <1> HIDE DEF p, q
  <1>2. InFront(v, p)
    BY <1>1, ValueInFront
  <1>3. q # <<>> /\ Head(q) = v /\ Tail(q) = p
    BY <1>1, <1>2 DEF InFront
  <1>4. UnderWay' = [UnderWay EXCEPT ![d][r] = p]
    BY DEF ViewTyped, OthersSame, p
  <1>5. Received' = [Received EXCEPT ![d] = Append(@, [from |-> r, val |-> v])]
    <2> DEFINE e == [Received EXCEPT ![d] = Append(@, [from |-> r, val |-> v])]
    <2>1. DOMAIN Received = Chan /\ DOMAIN Received' = Chan
          /\ Received' = [c \in Chan |-> Received'[c]]
      BY DEF ViewTyped
    <2>2. e = [c \in Chan |-> e[c]] /\ \A c \in Chan : e[c] = Received'[c]
      BY <2>1
    <2> HIDE DEF e
    <2>3. Received' = e
      BY <2>1, <2>2
    <2> QED
      BY <2>3 DEF e
  <1> QED
    BY <1>3, <1>4, <1>5 DEF Fifo!Receive, Standing, q

LEMMA OneLost ==
    ASSUME ViewTyped, ViewTyped', Standing, NEW d \in Chan, NEW r \in Id, NEW v \in Val,
           Owner[d] \in Refusing \ Gone,
           UnderWay[d][r] = <<v>> \o UnderWay'[d][r], OthersSame(d, r),
           \A c \in Chan : Received'[c] = Received[c]
    PROVE  Fifo!Lose(d, r)
  <1> DEFINE q == UnderWay[d][r]
             p == UnderWay'[d][r]
  <1>1. p \in Seq(Val) /\ q = <<v>> \o p
    BY DEF ViewTyped
  <1> HIDE DEF p, q
  <1>2. InFront(v, p)
    BY <1>1, ValueInFront
  <1>3. q # <<>> /\ Tail(q) = p
    BY <1>1, <1>2 DEF InFront
  <1>4. UnderWay' = [UnderWay EXCEPT ![d][r] = p]
    BY DEF ViewTyped, OthersSame, p
  <1>5. Received' = [c \in Chan |-> Received'[c]] /\ Received = [c \in Chan |-> Received[c]]
    BY DEF ViewTyped
  <1>6. Received' = Received
    BY <1>5
  <1> QED
    BY <1>3, <1>4, <1>6 DEF Fifo!Lose, Standing, q

LEMMA OneSent ==
    ASSUME ViewTyped, ViewTyped', Standing, NEW d \in Chan, NEW r \in Id, NEW v \in Val,
           Owner[d] \notin Gone, r \notin Gone,
           UnderWay'[d][r] = Append(UnderWay[d][r], v), OthersSame(d, r),
           \A c \in Chan : Received'[c] = Received[c]
    PROVE  Fifo!Send(d, r)
  <1> DEFINE p == UnderWay'[d][r]
  <1>1. p \in {Append(UnderWay[d][r], x) : x \in Val}
    OBVIOUS
  <1> HIDE DEF p
  <1>2. UnderWay' = [UnderWay EXCEPT ![d][r] = p]
    BY DEF ViewTyped, OthersSame, p
  <1>3. Received' = [c \in Chan |-> Received'[c]] /\ Received = [c \in Chan |-> Received[c]]
    BY DEF ViewTyped
  <1>4. Received' = Received
    BY <1>3
  <1> QED
    BY <1>1, <1>2, <1>4 DEF Fifo!Send, Standing, p

LEMMA SomeClosed ==
    ASSUME ViewTyped, ViewTyped', NEW t \in Id \ Gone, Gone' = Gone \cup {t}, Refusing' = Refusing,
           \A c \in Chan, s \in Id : UnderWay'[c][s] = IF Owner[c] = t THEN <<>> ELSE UnderWay[c][s],
           \A c \in Chan : Received'[c] = Received[c]
    PROVE  Fifo!End(t)
  <1>1. ASSUME NEW c \in Chan
        PROVE  UnderWay'[c] = IF Owner[c] = t THEN Fifo!NothingSent[c] ELSE UnderWay[c]
    <2>1. UnderWay'[c] \in [Id -> Seq(Val)] /\ UnderWay[c] \in [Id -> Seq(Val)]
      BY DEF ViewTyped
    <2>2. Fifo!NothingSent[c] = [s \in Id |-> <<>>]
      BY DEF Fifo!NothingSent
    <2> QED
      BY <2>1, <2>2
  <1>2. UnderWay' = [c \in Chan |-> UnderWay'[c]]
    BY DEF ViewTyped
  <1>3. UnderWay' = [c \in Chan |-> IF Owner[c] = t THEN Fifo!NothingSent[c] ELSE UnderWay[c]]
    BY <1>1, <1>2
  <1>4. Received' = [c \in Chan |-> Received'[c]] /\ Received = [c \in Chan |-> Received[c]]
    BY DEF ViewTyped
  <1>5. Received' = Received
    BY <1>4
  <1> QED
    BY <1>3, <1>5 DEF Fifo!End

-----------------------------------------------------------------------------
(* What each kind of step does to the abstract channels *)

ViewsBoth == ViewTyped /\ ViewTyped' /\ Views /\ Views'

LEMMA BothViews ==
    ASSUME TypeOK, TypeOK' PROVE ViewsBoth
  <1>1. ViewTyped /\ Views
    BY ViewsHold
  <1>2. ViewTyped' /\ Views'
    BY ViewsHold, PTL
  <1> QED
    BY <1>1, <1>2 DEF ViewsBoth

\* No thread's log is closed by a step of a thread.
LEMMA LogRefuses ==
    ASSUME NEW t \in Id,
           \/ InitEventSender(t)
           \/ \E entry : WriteEvent(t, entry)
           \/ TakeRecorder
           \/ InitEventReceiver(t)
           \/ EventReceiverPanics(t)
           \/ GetLogEntry(t)
           \/ UNCHANGED logVars
    PROVE  sender' \ open' = sender \ open /\ mode' = mode
  <1>1. CASE InitEventSender(t)
    BY <1>1 DEF InitEventSender
  <1>2. CASE ~InitEventSender(t)
    BY <1>2 DEF WriteEvent, TakeRecorder, InitEventReceiver, EventReceiverPanics, GetLogEntry,
                logVars, recordVars
  <1> QED
    BY <1>1, <1>2

LEMMA StepRefuses ==
    ASSUME NEW t \in Id, ThreadStep(t)
    PROVE  Refusing' = Refusing
  <1>1. UNCHANGED setup
    BY DEF ThreadStep
  <1>2. sender' \ open' = sender \ open /\ mode' = mode
    BY LogRefuses
    DEF ThreadStep, RecordOp, RecordEvent, RecordEventFails, OpenLog, FallAsleep, ReplayMismatch,
        ReplaySend, Deliver, ReplayRecv, ReceiveExpected, ReceiveTimesOut, WakeUp,
        SendDesynced, ReceiveAny, Join, ExecutionDone, Exit
  <1> QED
    BY <1>1, <1>2 DEF Refusing, CannotWriteEvent, KeepGoing

\* The threads but t keep what they have; nobody dies.
OthersKeep(t) ==
    /\ Standing
    /\ \A c \in Chan : ReceiverGone(c)' <=> ReceiverGone(c)
    /\ ~Dead(t)
    /\ \A c \in Chan : Owner[c] # t =>
           /\ Gets(Owner[c], c)' = Gets(Owner[c], c)
           /\ \A s \in Id : InHand(Owner[c], c, s)' = InHand(Owner[c], c, s)

LEMMA StepOthers ==
    ASSUME NEW t \in Id, ThreadStep(t), Frame(t), LifeStep(t), ~Dead(t)'
    PROVE  OthersKeep(t)
  <1>1. \A u \in Id \ {t} : /\ hist'[u] = hist[u] /\ at'[u] = at[u] /\ pending'[u] = pending[u]
                            /\ status'[u] = status[u]
    BY DEF Frame
  <1>2. \A u \in Id : Dead(u)' <=> Dead(u)
    BY <1>1 DEF Dead, LifeStep
  <1>3. ASSUME NEW c \in Chan PROVE ReceiverGone(c)' <=> ReceiverGone(c)
    BY <1>2, OwnerTyped DEF ReceiverGone
  <1>4. ASSUME NEW c \in Chan, Owner[c] # t
        PROVE  /\ Gets(Owner[c], c)' = Gets(Owner[c], c)
               /\ \A s \in Id : InHand(Owner[c], c, s)' = InHand(Owner[c], c, s)
    BY <1>1, <1>4, OwnerTyped DEF Gets, InHand
  <1>5. Standing
    BY <1>2, StepRefuses DEF Standing, Gone
  <1> QED
    BY <1>3, <1>4, <1>5 DEF OthersKeep, LifeStep

LEMMA NotGone ==
    ASSUME NEW c \in Chan, ~ReceiverGone(c) PROVE Owner[c] \notin Gone
  BY DEF ReceiverGone, Gone

\* What is under way on one channel from one sender.
LEMMA SameUnderWay ==
    ASSUME Views, Views', NEW c \in Chan, NEW s \in Id, ReceiverGone(c)' <=> ReceiverGone(c),
           InHand(Owner[c], c, s)' = InHand(Owner[c], c, s), Waits(c, s)' = Waits(c, s)
    PROVE  UnderWay'[c][s] = UnderWay[c][s]
  <1>1. CASE ReceiverGone(c)
    <2>1. UnderWay[c][s] = <<>> /\ UnderWay'[c][s] = <<>>
      BY <1>1 DEF Views
    <2> QED
      BY <2>1
  <1>2. CASE ~ReceiverGone(c)
    <2>1. /\ UnderWay[c][s] = InHand(Owner[c], c, s) \o Waits(c, s)
          /\ UnderWay'[c][s] = InHand(Owner[c], c, s)' \o Waits(c, s)'
      BY <1>2 DEF Views
    <2> QED
      BY <2>1
  <1> QED
    BY <1>1, <1>2

LEMMA ViewStays ==
    ASSUME ViewsBoth, NEW t \in Id, OthersKeep(t), HandStays(t), WaitsStay
    PROVE  UNCHANGED <<UnderWay, Received>>
  <1>1. ASSUME NEW c \in Chan, NEW s \in Id
        PROVE  Gets(Owner[c], c)' = Gets(Owner[c], c) /\ InHand(Owner[c], c, s)' = InHand(Owner[c], c, s)
    BY DEF OthersKeep, HandStays
  <1>2. \A c \in Chan, s \in Id : UnderWay'[c][s] = UnderWay[c][s]
    BY <1>1, SameUnderWay DEF ViewsBoth, OthersKeep, WaitsStay
  <1>3. \A c \in Chan : Received'[c] = Received[c]
    BY <1>1, OwnerTyped DEF ViewsBoth, Views
  <1> QED
    BY <1>2, <1>3, NothingChanges DEF ViewsBoth

LEMMA EmptyInFront == \A q \in Seq(Val) : <<>> \o q = q
  BY ConcatEmptySeq

\* A message is recorded: the receive returns it.
LEMMA ViewCommits ==
    ASSUME ViewsBoth, NEW t \in Id, OthersKeep(t), WaitsStay,
           NEW d \in Chan, NEW r \in Id, NEW v \in Val, Commits(t, d, r, v)
    PROVE  Fifo!Receive(d, r) \/ UNCHANGED <<UnderWay, Received>>
  <1>0. Views /\ Views' /\ ViewTyped /\ ViewTyped'
    BY DEF ViewsBoth
  <1>1. ASSUME NEW c \in Chan, NEW s \in Id, ~(c = d /\ s = r)
        PROVE  InHand(Owner[c], c, s)' = InHand(Owner[c], c, s)
    BY <1>1 DEF OthersKeep, Commits, OneIn
  <1>2. \A c \in Chan, s \in Id : ~(c = d /\ s = r) => UnderWay'[c][s] = UnderWay[c][s]
    BY <1>0, <1>1, SameUnderWay DEF OthersKeep, WaitsStay
  <1>3. \A c \in Chan : c # d => Gets(Owner[c], c)' = Gets(Owner[c], c)
    BY DEF OthersKeep, Commits, GetsOne
  <1>4. \A c \in Chan : c # d => Received'[c] = Received[c]
    BY <1>0, <1>3 DEF Views
  <1>5. CASE Owner[d] = t
    <2>1. ~ReceiverGone(d) /\ ~ReceiverGone(d)'
      BY <1>5 DEF OthersKeep, ReceiverGone
    <2>2. /\ UnderWay[d][r] = InHand(t, d, r) \o Waits(d, r)
          /\ UnderWay'[d][r] = InHand(t, d, r)' \o Waits(d, r)'
          /\ Waits(d, r) \in Seq(Val)
      BY <1>0, <1>5, <2>1 DEF Views
    <2>3. InHand(t, d, r) = <<v>> /\ InHand(t, d, r)' = <<>> /\ Waits(d, r)' = Waits(d, r)
      BY DEF Commits, OneIn, WaitsStay
    <2>4. <<>> \o Waits(d, r) = Waits(d, r)
      BY <2>2, EmptyInFront
    <2>5. UnderWay[d][r] = <<v>> \o UnderWay'[d][r]
      BY <2>2, <2>3, <2>4
    <2>6. Received'[d] = Append(Received[d], [from |-> r, val |-> v])
      BY <1>0, <1>5 DEF Views, Commits, GetsOne
    <2> QED
      BY <1>0, <1>2, <1>4, <2>1, <2>5, <2>6, NotGone, OneReceived DEF OthersSame, OthersKeep
  <1>6. CASE Owner[d] # t
    <2>1. Gets(Owner[d], d)' = Gets(Owner[d], d) /\ InHand(Owner[d], d, r)' = InHand(Owner[d], d, r)
      BY <1>6 DEF OthersKeep
    <2>2. UnderWay'[d][r] = UnderWay[d][r]
      BY <1>0, <2>1, SameUnderWay DEF OthersKeep, WaitsStay
    <2>3. Received'[d] = Received[d]
      BY <1>0, <2>1 DEF Views
    <2>4. \A c \in Chan, s \in Id : UnderWay'[c][s] = UnderWay[c][s]
      BY <1>2, <2>2
    <2>5. \A c \in Chan : Received'[c] = Received[c]
      BY <1>4, <2>3
    <2> QED
      BY <1>0, <2>4, <2>5, NothingChanges
  <1> QED
    BY <1>5, <1>6

\* A message is received and has still to be recorded.
LEMMA ViewPicksUp ==
    ASSUME ViewsBoth, NEW t \in Id, OthersKeep(t), NEW d \in Chan, NEW r \in Id, NEW v \in Val,
           Owner[d] = t, PicksUp(t, d, r, v), OneLeaves(d, r, v)
    PROVE  UNCHANGED <<UnderWay, Received>>
  <1>0. Views /\ Views' /\ ViewTyped /\ ViewTyped'
    BY DEF ViewsBoth
  <1>1. ASSUME NEW c \in Chan, NEW s \in Id, ~(c = d /\ s = r)
        PROVE  /\ InHand(Owner[c], c, s)' = InHand(Owner[c], c, s)
               /\ Waits(c, s)' = Waits(c, s)
    BY <1>1 DEF OthersKeep, PicksUp, OneIn, OneLeaves, Others
  <1>2. \A c \in Chan, s \in Id : ~(c = d /\ s = r) => UnderWay'[c][s] = UnderWay[c][s]
    BY <1>0, <1>1, SameUnderWay DEF OthersKeep
  <1>3. ~ReceiverGone(d) /\ ~ReceiverGone(d)'
    BY DEF OthersKeep, ReceiverGone
  <1>4. /\ UnderWay[d][r] = InHand(t, d, r) \o Waits(d, r)
        /\ UnderWay'[d][r] = InHand(t, d, r)' \o Waits(d, r)'
        /\ Waits(d, r) \in Seq(Val)
    BY <1>0, <1>3 DEF Views
  <1>5. InHand(t, d, r) = <<>> /\ InHand(t, d, r)' = <<v>> /\ Waits(d, r) = <<v>> \o Waits(d, r)'
    BY DEF PicksUp, OneIn, OneLeaves
  <1>6. <<>> \o Waits(d, r) = Waits(d, r)
    BY <1>4, EmptyInFront
  <1>7. UnderWay'[d][r] = UnderWay[d][r]
    BY <1>4, <1>5, <1>6
  <1>8. \A c \in Chan : Gets(Owner[c], c)' = Gets(Owner[c], c)
    BY DEF OthersKeep, PicksUp
  <1>9. \A c \in Chan : Received'[c] = Received[c]
    BY <1>0, <1>8 DEF Views
  <1>10. \A c \in Chan, s \in Id : UnderWay'[c][s] = UnderWay[c][s]
    BY <1>2, <1>7
  <1> QED
    BY <1>0, <1>9, <1>10, NothingChanges

\* A message is received and returned in one step.
LEMMA ViewPasses ==
    ASSUME ViewsBoth, NEW t \in Id, OthersKeep(t), NEW d \in Chan, NEW r \in Id, NEW v \in Val,
           Owner[d] = t, Passes(t, d, r, v), OneLeaves(d, r, v)
    PROVE  Fifo!Receive(d, r)
  <1>0. Views /\ Views' /\ ViewTyped /\ ViewTyped'
    BY DEF ViewsBoth
  <1>1. ASSUME NEW c \in Chan, NEW s \in Id, ~(c = d /\ s = r)
        PROVE  /\ InHand(Owner[c], c, s)' = InHand(Owner[c], c, s)
               /\ Waits(c, s)' = Waits(c, s)
    BY <1>1 DEF OthersKeep, Passes, OneLeaves, Others
  <1>2. OthersSame(d, r)
    BY <1>0, <1>1, SameUnderWay DEF OthersKeep, OthersSame
  <1>3. ~ReceiverGone(d) /\ ~ReceiverGone(d)'
    BY DEF OthersKeep, ReceiverGone
  <1>4. /\ UnderWay[d][r] = InHand(t, d, r) \o Waits(d, r)
        /\ UnderWay'[d][r] = InHand(t, d, r)' \o Waits(d, r)'
        /\ Waits(d, r) \in Seq(Val) /\ Waits(d, r)' \in Seq(Val)
    BY <1>0, <1>3 DEF Views
  <1>5. InHand(t, d, r) = <<>> /\ InHand(t, d, r)' = <<>> /\ Waits(d, r) = <<v>> \o Waits(d, r)'
    BY DEF Passes, OneLeaves
  <1>6. <<>> \o Waits(d, r) = Waits(d, r) /\ <<>> \o Waits(d, r)' = Waits(d, r)'
    BY <1>4, EmptyInFront
  <1>7. UnderWay[d][r] = <<v>> \o UnderWay'[d][r]
    BY <1>4, <1>5, <1>6
  <1>8. /\ \A c \in Chan : c # d => Gets(Owner[c], c)' = Gets(Owner[c], c)
        /\ Gets(t, d)' = Append(Gets(t, d), [from |-> r, val |-> v])
    BY DEF OthersKeep, Passes, GetsOne
  <1>9. /\ \A c \in Chan : c # d => Received'[c] = Received[c]
        /\ Received'[d] = Append(Received[d], [from |-> r, val |-> v])
    BY <1>0, <1>8 DEF Views
  <1> QED
    BY <1>0, <1>2, <1>3, <1>7, <1>9, NotGone, OneReceived DEF OthersKeep

LEMMA ViewSends ==
    ASSUME ViewsBoth, NEW t \in Id, OthersKeep(t), HandStays(t), NEW d \in Chan, NEW v \in Val,
           OneArrives(d, t, v)
    PROVE  Fifo!Send(d, t) \/ UNCHANGED <<UnderWay, Received>>
  <1>0. Views /\ Views' /\ ViewTyped /\ ViewTyped'
    BY DEF ViewsBoth
  <1>1. \A c \in Chan, s \in Id : InHand(Owner[c], c, s)' = InHand(Owner[c], c, s)
    BY DEF OthersKeep, HandStays
  <1>2. \A c \in Chan, s \in Id : ~(c = d /\ s = t) => Waits(c, s)' = Waits(c, s)
    BY DEF OneArrives, Others
  <1>3. OthersSame(d, t)
    BY <1>0, <1>1, <1>2, SameUnderWay DEF OthersKeep, OthersSame
  <1>4. \A c \in Chan : Gets(Owner[c], c)' = Gets(Owner[c], c)
    BY DEF OthersKeep, HandStays
  <1>5. \A c \in Chan : Received'[c] = Received[c]
    BY <1>0, <1>4 DEF Views
  <1>6. CASE ReceiverGone(d)
    <2>1. ReceiverGone(d)'
      BY <1>6 DEF OthersKeep
    <2>2. UnderWay'[d][t] = UnderWay[d][t]
      BY <1>0, <1>6, <2>1 DEF Views
    <2>3. \A c \in Chan, s \in Id : UnderWay'[c][s] = UnderWay[c][s]
      BY <1>3, <2>2 DEF OthersSame
    <2> QED
      BY <1>0, <1>5, <2>3, NothingChanges
  <1>7. CASE ~ReceiverGone(d)
    <2>1. ~ReceiverGone(d)'
      BY <1>7 DEF OthersKeep
    <2>2. /\ UnderWay[d][t] = InHand(Owner[d], d, t) \o Waits(d, t)
          /\ UnderWay'[d][t] = InHand(Owner[d], d, t)' \o Waits(d, t)'
          /\ InHand(Owner[d], d, t) \in Seq(Val) /\ Waits(d, t) \in Seq(Val)
      BY <1>0, <1>7, <2>1 DEF Views
    <2>3. Waits(d, t)' = Append(Waits(d, t), v)
      BY DEF OneArrives
    <2> DEFINE p == InHand(Owner[d], d, t)
               q == Waits(d, t)
    <2>4. p \in Seq(Val) /\ q \in Seq(Val) /\ UnderWay[d][t] = p \o q
          /\ UnderWay'[d][t] = p \o Append(q, v)
      BY <1>1, <2>2, <2>3
    <2> HIDE DEF p, q
    <2>5. p \o Append(q, v) = Append(p \o q, v)
      BY <2>4, MovesToFront, Zenon
    <2> QED
      BY <1>0, <1>3, <1>5, <1>7, <2>4, <2>5, NotGone, OneSent DEF OthersKeep, Gone
  <1> QED
    BY <1>6, <1>7

\* t dies, and with it the channels that it received from.
LEMMA ViewCloses ==
    ASSUME ViewsBoth, NEW t \in Id, ThreadStep(t), Frame(t), LifeStep(t), Dead(t)'
    PROVE  Fifo!End(t)
  <1>0. Views /\ Views' /\ ViewTyped /\ ViewTyped' /\ UNCHANGED <<wire, buffer, hist>>
    BY DEF ViewsBoth, LifeStep
  <1>1. \A c \in Chan : Gets(Owner[c], c)' = Gets(Owner[c], c)
    BY <1>0 DEF Gets
  <1>2. \A c \in Chan : Received'[c] = Received[c]
    BY <1>0, <1>1 DEF Views
  <1>3. \A u \in Id \ {t} : at'[u] = at[u] /\ pending'[u] = pending[u] /\ status'[u] = status[u]
    BY DEF Frame
  <1>4. t \notin Gone /\ Gone' = Gone \cup {t}
    <2>1. \A u \in Id : Dead(u)' <=> Dead(u) \/ u = t
      BY <1>3 DEF Dead
    <2> QED
      BY <2>1 DEF Gone, LifeStep
  <1>5. ASSUME NEW c \in Chan, NEW s \in Id
        PROVE  UnderWay'[c][s] = IF Owner[c] = t THEN <<>> ELSE UnderWay[c][s]
    <2>1. CASE Owner[c] = t
      <3>1. ReceiverGone(c)'
        BY <2>1 DEF ReceiverGone
      <3> QED
        BY <1>0, <2>1, <3>1 DEF Views
    <2>2. CASE Owner[c] # t
      <3> DEFINE u == Owner[c]
      <3>1. u \in Id \ {t}
        BY <2>2, OwnerTyped
      <3>2. at'[u] = at[u] /\ pending'[u] = pending[u] /\ status'[u] = status[u]
        BY <1>3, <3>1
      <3>3. ReceiverGone(c)' <=> ReceiverGone(c)
        BY <3>2 DEF ReceiverGone, Dead
      <3>4. InHand(Owner[c], c, s)' = InHand(Owner[c], c, s)
        BY <3>2 DEF InHand
      <3>5. Waits(c, s)' = Waits(c, s)
        BY <1>0 DEF Waits
      <3>6. UnderWay'[c][s] = UnderWay[c][s]
        BY <1>0, <3>3, <3>4, <3>5, SameUnderWay
      <3> QED
        BY <2>2, <3>6
    <2> QED
      BY <2>1, <2>2
  <1>6. Refusing' = Refusing
    BY StepRefuses
  <1> QED
    BY <1>0, <1>2, <1>4, <1>5, <1>6, SomeClosed

\* A thread that lives forgets what it has received only because its log is
\* closed, in a program that keeps going.
LEMMA OnlyItForgets ==
    ASSUME TypeOK, TypeOK', Places, NEW t \in Id, ThreadStep(t), Forgets(t), HistStep(t), ~Dead(t)'
    PROVE  /\ t \in Refusing
           /\ at[t] = "log" /\ at'[t] # "log" /\ hist' = hist
           /\ UNCHANGED chanVars
  <1>1. hist[t] \in Seq(Observation) /\ pending[t] \in Observation
    BY HistoryStep
  <1>2. Append(hist[t], pending[t]) # hist[t]
    <2>1. Len(Append(hist[t], pending[t])) = Len(hist[t]) + 1 /\ Len(hist[t]) \in Nat
      BY <1>1, AppendProperties, LenProperties
    <2> QED
      BY <2>1
  <1>3. at[t] = "log" /\ H(t) = Append(hist[t], pending[t]) /\ H(t)' = hist[t]
    BY <1>2 DEF Forgets, H
  <1>4. RecordEvent(t) \/ RecordEventFails(t)
    BY <1>3 DEF ThreadStep, RecordOp, OpenLog, FallAsleep, ReplayMismatch, ReplaySend, Deliver,
                ReplayRecv, ReceiveExpected, ReceiveTimesOut, SendDesynced, ReceiveAny, Join,
                ExecutionDone, Exit, AsksLog, Calls, At, WakeUp, Places, InEither
  <1>5. CASE RecordEvent(t)
    <2>1. CASE UNCHANGED threadVars
      <3>1. H(t)' = H(t)
        BY <2>1 DEF threadVars, H
      <3> QED
        BY <1>2, <1>3, <3>1
    <2>2. CASE Return(t, pending[t])
      <3>1. H(t)' = Append(hist[t], pending[t])
        BY <2>2 DEF Return, MoveTo, H, TypeOK
      <3> QED
        BY <1>2, <1>3, <3>1
    <2> QED
      BY <1>5, <2>1, <2>2 DEF RecordEvent
  <1>6. CASE RecordEventFails(t)
    <2>1. ~Panic(t)
      BY DEF Panic, Dead, TypeOK
    <2>2. KeepGoing = TRUE /\ CannotWriteEvent(t) /\ MoveTo(t, "desync") /\ hist' = hist
      BY <1>6, <2>1 DEF RecordEventFails, HandleDesync
    <2>3. at'[t] = "desync"
      BY <2>2 DEF MoveTo, TypeOK
    <2> QED
      BY <1>3, <2>2, <2>3 DEF Refusing, Forgets
  <1> QED
    BY <1>4, <1>5, <1>6

\* The message that a thread forgets is lost, if it is one of a channel of its
\* own.
LEMMA ViewForgets ==
    ASSUME TypeOK, ViewsBoth, NEW t \in Refusing, OthersKeep(t), at[t] = "log", at'[t] # "log",
           hist' = hist, UNCHANGED chanVars
    PROVE  \/ UNCHANGED <<UnderWay, Received>>
           \/ \E c \in Chan, s \in Id : Fifo!Lose(c, s)
  <1>0. /\ Views /\ Views' /\ ViewTyped /\ ViewTyped' /\ WaitsStay
        /\ t \in Id /\ pending[t] \in Observation
    BY ChannelsStay DEF ViewsBoth, Refusing, TypeOK
  <1>1. \A c \in Chan : Received'[c] = Received[c]
    <2>1. \A c \in Chan : Gets(Owner[c], c)' = Gets(Owner[c], c)
      BY DEF Gets
    <2> QED
      BY <1>0, <2>1 DEF Views
  <1>2. \A c \in Chan, s \in Id : InHand(t, c, s) = OneIn(pending[t].chan, pending[t].from, pending[t].val, c, s)
                                   /\ InHand(t, c, s)' = <<>>
    BY DEF InHand, OneIn
  <1>3. ASSUME NEW c \in Chan, NEW s \in Id, 
               c = pending[t].chan /\ s = pending[t].from => Owner[c] # t
        PROVE  UnderWay'[c][s] = UnderWay[c][s]
    <2>1. InHand(Owner[c], c, s)' = InHand(Owner[c], c, s)
      BY <1>2, <1>3 DEF OneIn, OthersKeep
    <2> QED
      BY <1>0, <2>1, SameUnderWay DEF OthersKeep, WaitsStay
  <1>4. ASSUME NEW d \in Chan, NEW r \in Id, NEW v \in Val, Owner[d] = t,
               d = pending[t].chan, r = pending[t].from, v = pending[t].val
        PROVE  Fifo!Lose(d, r)
    <2>1. ~ReceiverGone(d) /\ ~ReceiverGone(d)'
      BY <1>4 DEF OthersKeep, ReceiverGone
    <2>2. /\ UnderWay[d][r] = InHand(t, d, r) \o Waits(d, r)
          /\ UnderWay'[d][r] = InHand(t, d, r)' \o Waits(d, r)'
          /\ Waits(d, r) \in Seq(Val)
      BY <1>0, <1>4, <2>1 DEF Views
    <2>3. InHand(t, d, r) = <<v>> /\ InHand(t, d, r)' = <<>> /\ Waits(d, r)' = Waits(d, r)
      BY <1>0, <1>2, <1>4 DEF OneIn, WaitsStay
    <2>4. UnderWay[d][r] = <<v>> \o UnderWay'[d][r]
      BY <2>2, <2>3, EmptyInFront
    <2>5. OthersSame(d, r)
      BY <1>3, <1>4 DEF OthersSame
    <2>6. Owner[d] \in Refusing \ Gone
      BY <1>4, <2>1, NotGone
    <2> QED
      BY <1>0, <1>1, <1>4, <2>4, <2>5, <2>6, OneLost DEF OthersKeep
  <1>5. CASE pending[t].from \in Id /\ Owner[pending[t].chan] = t
    <2>1. pending[t].chan \in Chan /\ pending[t].val \in Val
      BY <1>0, <1>5, ResultShape, NoIdAssumption
    <2> QED
      BY <1>4, <1>5, <2>1
  <1>6. CASE pending[t].from \notin Id \/ Owner[pending[t].chan] # t
    <2>1. \A c \in Chan, s \in Id : UnderWay'[c][s] = UnderWay[c][s]
      BY <1>3, <1>6
    <2> QED
      BY <1>0, <1>1, <2>1, NothingChanges
  <1> QED
    BY <1>5, <1>6

\* What a step of a thread that lives does to the abstract channels.
LEMMA EffectView ==
    ASSUME TypeOK, TypeOK', NEW t \in Id, OthersKeep(t), HistStep(t), Effect(t), ~Forgets(t)
    PROVE  \/ UNCHANGED <<UnderWay, Received>>
           \/ \E c \in Chan, s \in Id : Fifo!Receive(c, s) \/ Fifo!Send(c, s)
  <1>0. ViewsBoth
    BY BothViews
  <1>1. CASE H(t)' = H(t) /\ WaitsStay
    BY <1>0, <1>1, QuietView, ViewStays, ViewCommits
  <1>2. CASE Quiet(t)
    BY <1>1, <1>2, ChannelsStay DEF Quiet
  <1>3. CASE Notes(t)
    <2>1. PICK o : /\ Appends(t, o)
                   /\ ~(o.op \in RecvKind /\ o.from \in Id)
      BY <1>3 DEF Notes
    <2>2. o.from \notin Id
      BY <2>1, ResultShape, NoIdAssumption DEF Appends
    <2>3. HandStays(t)
      BY <2>1, <2>2, ResultView
    <2>4. WaitsStay
      BY <1>3, ChannelsStay DEF Notes
    <2> QED
      BY <1>0, <2>3, <2>4, ViewStays
  <1>4. CASE SendsOne(t)
    <2>1. PICK o : Appends(t, o) /\ o.op = "send"
      BY <1>4 DEF SendsOne
    <2>2. "send" \notin RecvKind
      BY DEF RecvKind
    <2>3. o.from \notin Id
      BY <2>1, <2>2, ResultShape, NoIdAssumption DEF Appends
    <2>4. HandStays(t)
      BY <2>1, <2>3, ResultView
    <2>5. PICK d \in Chan, v \in Val : OneArrives(d, t, v)
      BY <1>4, SendArrives
    <2> QED
      BY <1>0, <2>4, <2>5, ViewSends
  <1>5. ASSUME NEW d \in Chan, NEW o, Appends(t, o), Owner[d] = t, o.chan = d, o.from \in Id,
               o.val \in Val, OneLeaves(d, o.from, o.val)
        PROVE  \/ UNCHANGED <<UnderWay, Received>>
               \/ \E c \in Chan, s \in Id : Fifo!Receive(c, s) \/ Fifo!Send(c, s)
    <2>1. PICK r \in Id, v \in Val : r = o.from /\ v = o.val
      BY <1>5
    <2>2. PicksUp(t, d, r, v) \/ Passes(t, d, r, v)
      BY <1>5, <2>1, ResultView
    <2>3. OneLeaves(d, r, v)
      BY <1>5, <2>1
    <2> QED
      BY <1>0, <1>5, <2>2, <2>3, ViewPicksUp, ViewPasses
  <1>6. CASE TakesFromWire(t)
    <2>1. PICK d \in Chan : d = Op(t).chan
      BY <1>6 DEF TakesFromWire
    <2>2. PICK o : Appends(t, o) /\ o.chan = d /\ o.from = Head(wire[d]).from /\ o.val = Head(wire[d]).val
      BY <1>6, <2>1 DEF TakesFromWire
    <2>3. /\ Owner[d] = t /\ wire[d] # <<>> /\ buffer[d][o.from] = <<>>
          /\ wire' = [wire EXCEPT ![d] = Tail(@)] /\ buffer' = buffer
      BY <1>6, <2>1, <2>2 DEF TakesFromWire
    <2>4. o.from \in Id /\ o.val \in Val
      BY <2>2, <2>3, FirstTyped
    <2>5. OneLeaves(d, o.from, o.val)
      BY <2>2, <2>3, WireLeaves
    <2> QED
      BY <1>5, <2>2, <2>3, <2>4, <2>5
  <1>7. CASE TakesFromBuffer(t)
    <2>1. PICK d \in Chan : d = Op(t).chan
      BY <1>7 DEF TakesFromBuffer
    <2>2. PICK s \in Id :
              /\ buffer[d][s] # <<>>
              /\ \E o : /\ Appends(t, o)
                        /\ o.op \in RecvKind /\ o.chan = d
                        /\ o.from = s /\ o.val = Head(buffer[d][s])
              /\ buffer' = [buffer EXCEPT ![d][s] = Tail(@)]
      BY <1>7, <2>1 DEF TakesFromBuffer
    <2>3. PICK o : Appends(t, o) /\ o.chan = d /\ o.from = s /\ o.val = Head(buffer[d][s])
      BY <2>2
    <2>4. Owner[d] = t /\ wire' = wire
      BY <1>7, <2>1 DEF TakesFromBuffer
    <2>5. o.val \in Val /\ OneLeaves(d, s, o.val)
      BY <2>2, <2>3, <2>4, BufferLeaves
    <2> QED
      BY <1>5, <2>3, <2>4, <2>5
  <1>8. CASE Buffers(t)
    <2>1. PICK d \in Chan : d = Op(t).chan
      BY <1>8 DEF Buffers
    <2>2. /\ wire[d] # <<>> /\ wire' = [wire EXCEPT ![d] = Tail(@)]
          /\ buffer' = [buffer EXCEPT ![d][Head(wire[d]).from] = Append(@, Head(wire[d]).val)]
      BY <1>8, <2>1 DEF Buffers
    <2>3. WaitsStay
      BY <2>2, BufferingStays
    <2> QED
      BY <1>1, <1>8, <2>3 DEF Buffers
  <1> QED
    BY <1>2, <1>3, <1>4, <1>6, <1>7, <1>8 DEF Effect

LEMMA StepView ==
    ASSUME WellFormedProgram, OwnReceivers, IInv, IInv', Places, NEW t \in Id, ThreadStep(t)
    PROVE  [Fifo!Next]_Fifo!vars
  <1>0. TypeOK /\ TypeOK'
    BY DEF IInv
  <1>1. Frame(t) /\ Effect(t) /\ LifeStep(t) /\ HistStep(t)
    BY <1>0, StepFrame, StepEffect, StepLife
  <1>2. CASE Dead(t)'
    <2>1. Fifo!End(t)
      BY <1>0, <1>1, <1>2, BothViews, ViewCloses
    <2> QED
      BY <2>1 DEF Fifo!Next
  <1>3. CASE ~Dead(t)'
    <2>1. OthersKeep(t)
      BY <1>1, <1>3, StepOthers
    <2>2. CASE ~Forgets(t)
      <3>1. \/ UNCHANGED <<UnderWay, Received>>
            \/ \E c \in Chan, s \in Id : Fifo!Receive(c, s) \/ Fifo!Send(c, s)
        BY <1>0, <1>1, <2>1, <2>2, EffectView
      <3> QED
        BY <2>1, <3>1 DEF Fifo!Next, Fifo!vars, OthersKeep, Standing
    <2>3. CASE Forgets(t)
      <3>1. \/ UNCHANGED <<UnderWay, Received>>
            \/ \E c \in Chan, s \in Id : Fifo!Lose(c, s)
        BY <1>0, <1>1, <1>3, <2>1, <2>3, OnlyItForgets, BothViews, ViewForgets
      <3> QED
        BY <2>1, <3>1 DEF Fifo!Next, Fifo!vars, OthersKeep, Standing
    <2> QED
      BY <2>2, <2>3
  <1> QED
    BY <1>2, <1>3

\* A process that has not done anything yet.
NothingDone ==
    /\ wire = [c \in Chan |-> <<>>] /\ buffer = [c \in Chan |-> [t \in Id |-> <<>>]]
    /\ hist = [t \in Id |-> <<>>] /\ at = [t \in Id |-> "idle"]
    /\ status = [t \in Id |-> "running"] /\ (sender = {} \/ mode = "Replay")

LEMMA StartView == NothingDone => Fifo!Start
  <1> SUFFICES ASSUME NothingDone PROVE Fifo!Start
    OBVIOUS
  <1> USE DEF NothingDone
  <1>1. ASSUME NEW c \in Chan, NEW s \in Id
        PROVE  BeingRecorded(c, s) \o buffer[c][s] \o FromSender(wire[c], s) = <<>>
    <2>1. BeingRecorded(c, s) = <<>> /\ buffer[c][s] = <<>> /\ FromSender(wire[c], s) = <<>>
      BY NothingFrom, OwnerTyped DEF BeingRecorded
    <2>2. <<>> \o <<>> = <<>>
      OBVIOUS
    <2> QED
      BY <2>1, <2>2
  <1>2. UnderWay = [c \in Chan |-> [s \in Id |-> <<>>]]
    BY <1>1 DEF UnderWay
  <1>3. ASSUME NEW c \in Chan PROVE ReceivedOn(c, hist[Owner[c]]) = <<>>
    BY NothingFrom, OwnerTyped
  <1>4. Received = [c \in Chan |-> <<>>]
    BY <1>3 DEF Received
  <1>5. Gone = {} /\ Refusing = {}
    BY DEF Gone, Dead, Refusing, CannotWriteEvent
  <1> QED
    BY <1>2, <1>4, <1>5 DEF Fifo!Start, Fifo!NothingSent, Fifo!NothingGot

-----------------------------------------------------------------------------
(* The theorems *)

LEMMA FlushView ==
    ASSUME TypeOK, FlushLog
    PROVE  [Fifo!Next]_Fifo!vars
  <1>0. UNCHANGED <<setup, wire, buffer, at, pending, status, hist>>
    BY DEF FlushLog, chanVars, threadVars
  <1>1. UnderWay' = UnderWay
    BY <1>0 DEF UnderWay, ReceiverGone, Dead, BeingRecorded
  <1>2. Received' = Received /\ Gone' = Gone
    BY <1>0 DEF Received, Gone, Dead
  <1>3. CASE DropReceiver
    <2> DEFINE u == draining
    <2>1. u \in Id /\ open' = open \ {u} /\ UNCHANGED <<mode, sender>>
      BY <1>3 DEF DropReceiver, TypeOK, LogTypeOK
    <2>2. CASE KeepGoing = TRUE /\ mode = "Record" /\ u \in sender
      <3>1. Refusing' = Refusing \cup {u}
        BY <1>0, <2>1, <2>2 DEF Refusing, CannotWriteEvent, KeepGoing
      <3>2. Fifo!Refuse(u)
        BY <1>1, <1>2, <3>1 DEF Fifo!Refuse
      <3> QED
        BY <2>1, <3>2 DEF Fifo!Next
    <2>3. CASE ~(KeepGoing = TRUE /\ mode = "Record" /\ u \in sender)
      <3>1. Refusing' = Refusing
        BY <1>0, <2>1, <2>3 DEF Refusing, CannotWriteEvent, KeepGoing
      <3> QED
        BY <1>1, <1>2, <3>1 DEF Fifo!vars
    <2> QED
      BY <2>2, <2>3
  <1>4. CASE ~DropReceiver
    <2>1. UNCHANGED <<mode, sender, open>>
      BY <1>4 DEF FlushLog, Flush, CollectEntry, CollectEntries, WriteFile
    <2>2. Refusing' = Refusing
      BY <1>0, <2>1 DEF Refusing, CannotWriteEvent, KeepGoing
    <2> QED
      BY <1>1, <1>2, <2>2 DEF Fifo!vars
  <1> QED
    BY <1>3, <1>4

LEMMA NextView ==
    ASSUME WellFormedProgram, OwnReceivers
    PROVE  FaithfulInv /\ FaithfulInv' /\ [Next]_vars => [Fifo!Next]_Fifo!vars
  <1> SUFFICES ASSUME FaithfulInv, FaithfulInv', [Next]_vars
               PROVE  [Fifo!Next]_Fifo!vars
    OBVIOUS
  <1>0. IInv /\ IInv' /\ Places /\ TypeOK
    BY DEF FaithfulInv, FInv, IInv
  <1>1. CASE UNCHANGED vars
    <2>1. /\ UNCHANGED <<setup, wire, buffer, at, pending, status, hist>>
          /\ UNCHANGED <<mode, sender, open>>
      BY <1>1 DEF vars, chanVars, threadVars, logVars, recordVars
    <2>2. UnderWay' = UnderWay
      BY <2>1 DEF UnderWay, ReceiverGone, Dead, BeingRecorded
    <2>3. Received' = Received /\ Gone' = Gone /\ Refusing' = Refusing
      BY <2>1 DEF Received, Gone, Dead, Refusing, CannotWriteEvent, KeepGoing
    <2> QED
      BY <2>2, <2>3 DEF Fifo!vars
  <1>2. CASE FlushLog
    BY <1>0, <1>2, FlushView
  <1>3. ASSUME NEW t \in Id, ThreadStep(t) PROVE [Fifo!Next]_Fifo!vars
    BY <1>0, <1>3, StepView
  <1>4. CASE Restart
    <2>1. NothingDone'
      BY <1>4 DEF Restart, StartReplay, NothingDone
    <2>2. Fifo!Start'
      BY <2>1, StartView, PTL
    <2> QED
      BY <2>2 DEF Fifo!Next, Fifo!NewProcess
  <1> QED
    BY <1>1, <1>2, <1>3, <1>4 DEF Next

\* Seen through UnderWay and Received, every step of both executions, before a
\* desync and after it, is a send, a receive, the end of a thread, the closing
\* of a log, a new process, or nothing; or it is the one loss: a thread whose
\* log the flush has closed, in a program that keeps going, drops the message
\* that it has in hand.  So in either desync mode and under any scheduling the
\* messages of a sender are never duplicated or reordered, and but for that
\* loss each waits for as long as the thread that receives on its channel lives.
THEOREM ImplementsSenderFifoCorrect ==
    ASSUME WellFormedProgram, OwnReceivers
    PROVE  Spec => ImplementsSenderFifo
  <1>1. Init => Fifo!Init
    BY StartView DEF Init, LogInit, ProgramStart, NothingDone, Fifo!Init
  <1>2. FaithfulInv /\ FaithfulInv' /\ [Next]_vars => [Fifo!Next]_Fifo!vars
    BY NextView
  <1>3. Spec => []FaithfulInv
    BY FaithInit, FaithStep, PTL DEF Spec
  <1> QED
    BY <1>1, <1>2, <1>3, PTL DEF Spec, ImplementsSenderFifo, Fifo!Spec

-----------------------------------------------------------------------------
(* The order of events in a recording.  A replay that follows its log cannot
   wait for ever: the operation that the log has next, of all the threads, is
   one that the recording did before the others. *)

\* The operation at i of history h of thread t joins thread u.
JoinsAt(p, t, h, i, u) ==
    h[i].op = "join" /\ Code(p, t, SubSeq(h, 1, i - 1)).thread = u

\* time gives the operations of the histories g a time: those of a thread in
\* their order; ...
Rising(time, g) ==
    \A t \in Id : \A i, j \in DOMAIN g[t] : i < j => time[t][i] < time[t][j]

\* ... a message is sent before it is received, and received before the one
\* that needs its place in the channel is sent (K: the operations that count); ...
Crossing(time, g, K, c, s) ==
    LET o == Owner[c] IN
    \A i \in Recvs(g[o], c, s) : i \in K[o] => \A j \in Sends(g[s], c) :
        LET n == Before(Recvs(g[o], c, s), i)
            m == Before(Sends(g[s], c), j)
        IN /\ m = n => time[s][j] < time[o][i]
           /\ c \in Bounded /\ n + Cap[c] <= m => time[o][i] < time[s][j]

\* ... and a thread is joined after all that it did.
Joining(p, time, g) ==
    \A t, u \in Id : \A i \in DOMAIN g[t] : JoinsAt(p, t, g[t], i, u) =>
        \A k \in DOMAIN g[u] : time[u][k] < time[t][i]

IsTimed(p, time, g, K) ==
    /\ Rising(time, g)
    /\ \A c \in Chan, s \in Id : Crossing(time, g, K, c, s)
    /\ Joining(p, time, g)

Times == [Id -> [Nat -> Nat]]
Pasts == [Id -> Seq(Observation)]

\* What histories that agree say at a position.
LEMMA SameEvent ==
    ASSUME NEW h \in Seq(Observation), NEW g \in Seq(Observation), NEW k \in Nat, Agree(h, g, k),
           NEW i \in 1 .. k
    PROVE  /\ i \in DOMAIN h /\ i \in DOMAIN g /\ h[i] = g[i] /\ i \in Nat \ {0}
           /\ \A c : /\ i \in Sends(h, c) <=> i \in Sends(g, c)
                     /\ Before(Sends(h, c), i) = Before(Sends(g, c), i)
           /\ \A c, s : /\ i \in Recvs(h, c, s) <=> i \in Recvs(g, c, s)
                        /\ Before(Recvs(h, c, s), i) = Before(Recvs(g, c, s), i)
           /\ \A p, t, u : JoinsAt(p, t, h, i, u) <=> JoinsAt(p, t, g, i, u)
           /\ LogNo(h, i) = LogNo(g, i)
  <1>1. i \in 1 .. k + 1 /\ i - 1 \in Nat /\ i - 1 <= k
    OBVIOUS
  <1>2. i \in DOMAIN h /\ i \in DOMAIN g /\ h[i] = g[i]
    BY SameResult
  <1>3. SubSeq(h, 1, i - 1) = SubSeq(g, 1, i - 1)
    BY <1>1, SamePast
  <1>4. \A c : /\ i \in Sends(h, c) <=> i \in Sends(g, c)
               /\ Before(Sends(h, c), i) = Before(Sends(g, c), i)
    BY <1>1, SameSend, SameSendNo
  <1>5. \A c, s : /\ i \in Recvs(h, c, s) <=> i \in Recvs(g, c, s)
                  /\ Before(Recvs(h, c, s), i) = Before(Recvs(g, c, s), i)
    BY <1>1, SameRecv, SameRecvNo
  <1>6. LogNo(h, i) = LogNo(g, i)
    BY <1>1, SameLogNo
  <1>7. \A p, t, u : JoinsAt(p, t, h, i, u) <=> JoinsAt(p, t, g, i, u)
    BY <1>2, <1>3 DEF JoinsAt
  <1>8. i \in Nat \ {0}
    OBVIOUS
  <1> QED
    BY <1>2, <1>4, <1>5, <1>6, <1>7, <1>8

\* Histories that end earlier keep their times.
LEMMA TimedPrefix ==
    ASSUME NEW p, NEW time \in Times, NEW g \in Pasts, NEW f \in Pasts, NEW K, NEW L,
           \A t \in Id : Agree(g[t], f[t], Len(f[t])),
           \A t \in Id : \A i \in DOMAIN f[t] : i \in L[t] => i \in K[t],
           IsTimed(p, time, g, K)
    PROVE  IsTimed(p, time, f, L)
  <1> DEFINE Same(t, i) ==
          /\ i \in DOMAIN g[t]
          /\ \A c : /\ i \in Sends(g[t], c) <=> i \in Sends(f[t], c)
                    /\ Before(Sends(g[t], c), i) = Before(Sends(f[t], c), i)
          /\ \A c, s : /\ i \in Recvs(g[t], c, s) <=> i \in Recvs(f[t], c, s)
                       /\ Before(Recvs(g[t], c, s), i) = Before(Recvs(f[t], c, s), i)
          /\ \A u : JoinsAt(p, t, g[t], i, u) <=> JoinsAt(p, t, f[t], i, u)
  <1>1. ASSUME NEW t \in Id, NEW i \in DOMAIN f[t] PROVE Same(t, i)
    <2>1. g[t] \in Seq(Observation) /\ f[t] \in Seq(Observation)
      BY DEF Pasts
    <2>2. Len(f[t]) \in Nat /\ i \in 1 .. Len(f[t])
      BY <2>1, HistoryPositions
    <2>3. Agree(g[t], f[t], Len(f[t]))
      OBVIOUS
    <2> QED
      BY <2>1, <2>2, <2>3, SameEvent
  <1> HIDE DEF Same
  <1>2. Rising(time, f)
    BY <1>1 DEF IsTimed, Rising, Same
  <1>3. ASSUME NEW c \in Chan, NEW s \in Id PROVE Crossing(time, f, L, c, s)
    <2> DEFINE o == Owner[c]
    <2>0. o \in Id
      BY OwnerTyped
    <2> SUFFICES ASSUME NEW i \in Recvs(f[o], c, s), i \in L[o], NEW j \in Sends(f[s], c)
                 PROVE  LET n == Before(Recvs(f[o], c, s), i)
                            m == Before(Sends(f[s], c), j)
                        IN /\ m = n => time[s][j] < time[o][i]
                           /\ c \in Bounded /\ n + Cap[c] <= m => time[o][i] < time[s][j]
      BY DEF Crossing
    <2>1. i \in DOMAIN f[o] /\ j \in DOMAIN f[s]
      BY DEF Recvs, Sends
    <2>2. Same(o, i) /\ Same(s, j) /\ i \in K[o]
      BY <1>1, <2>0, <2>1
    <2>3. /\ i \in Recvs(g[o], c, s) /\ Before(Recvs(g[o], c, s), i) = Before(Recvs(f[o], c, s), i)
          /\ j \in Sends(g[s], c) /\ Before(Sends(g[s], c), j) = Before(Sends(f[s], c), j)
      BY <2>2 DEF Same
    <2>4. Crossing(time, g, K, c, s)
      BY DEF IsTimed
    <2> QED
      BY <2>2, <2>3, <2>4 DEF Crossing
  <1>4. Joining(p, time, f)
    <2> SUFFICES ASSUME NEW t \in Id, NEW u \in Id, NEW i \in DOMAIN f[t], JoinsAt(p, t, f[t], i, u),
                        NEW k \in DOMAIN f[u]
                 PROVE  time[u][k] < time[t][i]
      BY DEF Joining
    <2>1. Same(t, i) /\ Same(u, k)
      BY <1>1
    <2> QED
      BY <2>1 DEF Same, IsTimed, Joining
  <1> QED
    BY <1>2, <1>3, <1>4 DEF IsTimed

\* A thread gets one more result, at a time after all the others.  No event
\* that is there already comes after it: a send is not of a message that was
\* received before, a receive does not make room that was used before, and
\* nobody has joined the thread.
Adds(t, time, now, g, o, time2, f) ==
    /\ f = [g EXCEPT ![t] = Append(g[t], o)]
    /\ time2 = [time EXCEPT ![t] = [time[t] EXCEPT ![Len(g[t]) + 1] = now]]

SamePlace(t, g, f, u, i, time, time2) ==
    /\ i \in DOMAIN g[u]
    /\ \A c : /\ i \in Sends(g[u], c) <=> i \in Sends(f[u], c)
              /\ Before(Sends(g[u], c), i) = Before(Sends(f[u], c), i)
    /\ \A c, s : /\ i \in Recvs(g[u], c, s) <=> i \in Recvs(f[u], c, s)
                 /\ Before(Recvs(g[u], c, s), i) = Before(Recvs(f[u], c, s), i)
    /\ \A p, v : JoinsAt(p, u, g[u], i, v) <=> JoinsAt(p, u, f[u], i, v)
    /\ time2[u][i] = time[u][i]

LEMMA AddedEvent ==
    ASSUME NEW t \in Id, NEW time \in Times, NEW now \in Nat, NEW g \in Pasts,
           NEW o \in Observation, NEW time2, NEW f, Adds(t, time, now, g, o, time2, f)
    PROVE  /\ time2 \in Times /\ f \in Pasts
           /\ Len(g[t]) \in Nat /\ Len(g[t]) + 1 \in DOMAIN f[t]
           /\ f[t][Len(g[t]) + 1] = o /\ time2[t][Len(g[t]) + 1] = now
           /\ \A u \in Id : \A i \in DOMAIN f[u] :
                 \/ u = t /\ i = Len(g[t]) + 1
                 \/ SamePlace(t, g, f, u, i, time, time2)
           /\ \A u \in Id : \A i \in DOMAIN g[u] : i \in DOMAIN f[u] /\ ~(u = t /\ i = Len(g[t]) + 1)
  <1> DEFINE r == Len(g[t]) + 1
  <1>1. \A u \in Id : g[u] \in Seq(Observation) /\ DOMAIN g[u] = 1 .. Len(g[u]) /\ Len(g[u]) \in Nat
    BY HistoryPositions DEF Pasts
  <1>2. /\ f[t] = Append(g[t], o) /\ \A u \in Id \ {t} : f[u] = g[u]
        /\ f \in Pasts
    <2>1. Append(g[t], o) \in Seq(Observation)
      BY <1>1
    <2> QED
      BY <2>1 DEF Adds, Pasts
  <1>3. /\ time2 \in Times /\ time2[t][r] = now
        /\ \A u \in Id : \A i \in DOMAIN g[u] : time2[u][i] = time[u][i]
    <2>1. r \in Nat /\ \A i \in DOMAIN g[t] : i # r /\ i \in Nat
      BY <1>1
    <2>2. time[t] \in [Nat -> Nat] /\ [time[t] EXCEPT ![r] = now] \in [Nat -> Nat]
      BY <2>1 DEF Times
    <2>3. time2[t] = [time[t] EXCEPT ![r] = now] /\ \A u \in Id \ {t} : time2[u] = time[u]
      BY DEF Adds, Times
    <2>4. time2 \in Times
      BY <2>2 DEF Adds, Times
    <2> HIDE DEF r
    <2> QED
      BY <2>1, <2>2, <2>3, <2>4
  <1>4. /\ f[t] \in Seq(Observation) /\ Len(f[t]) = r /\ f[t][r] = o /\ DOMAIN f[t] = 1 .. r
        /\ Agree(g[t], f[t], Len(g[t]))
    BY <1>1, <1>2, AppendAgrees
  <1>5. ASSUME NEW u \in Id PROVE Agree(g[u], f[u], Len(g[u]))
    BY <1>1, <1>2, <1>4 DEF Agree
  <1>6. ASSUME NEW u \in Id, NEW i \in DOMAIN g[u] PROVE SamePlace(t, g, f, u, i, time, time2)
    <2>1. i \in 1 .. Len(g[u]) /\ f[u] \in Seq(Observation) /\ Len(g[u]) \in Nat
      BY <1>1, <1>2 DEF Pasts
    <2>2. g[u] \in Seq(Observation) /\ Agree(g[u], f[u], Len(g[u]))
      BY <1>1, <1>5
    <2> HIDE DEF SamePlace
    <2>3. /\ \A c : /\ i \in Sends(g[u], c) <=> i \in Sends(f[u], c)
                    /\ Before(Sends(g[u], c), i) = Before(Sends(f[u], c), i)
          /\ \A c, s : /\ i \in Recvs(g[u], c, s) <=> i \in Recvs(f[u], c, s)
                       /\ Before(Recvs(g[u], c, s), i) = Before(Recvs(f[u], c, s), i)
          /\ \A p, v : JoinsAt(p, u, g[u], i, v) <=> JoinsAt(p, u, f[u], i, v)
      BY <2>1, <2>2, SameEvent
    <2> QED
      BY <1>3, <2>3 DEF SamePlace
  <1>7. ASSUME NEW u \in Id, NEW i \in DOMAIN f[u]
        PROVE  (u = t /\ i = r) \/ i \in DOMAIN g[u]
    BY <1>1, <1>2, <1>4
  <1>8. \A u \in Id : \A i \in DOMAIN g[u] : i \in DOMAIN f[u] /\ ~(u = t /\ i = r)
    BY <1>1, <1>2, <1>4
  <1> QED
    BY <1>1, <1>2, <1>3, <1>4, <1>6, <1>7, <1>8

LEMMA AppendCounts ==
    ASSUME NEW h \in Seq(Observation), NEW o \in Observation, NEW c, NEW s
    PROVE  /\ Before(Sends(Append(h, o), c), Len(h) + 1) = Sent(h, c)
           /\ Before(Recvs(Append(h, o), c, s), Len(h) + 1) = Got(h, c, s)
  <1> DEFINE k == Append(h, o)
             n == Len(h) + 1
  <1>1. k \in Seq(Observation) /\ Agree(h, k, Len(h)) /\ Len(h) \in Nat
    BY AppendAgrees
  <1>2. n \in 1 .. Len(h) + 1
    BY <1>1
  <1> HIDE DEF k, n
  <1>3. Before(Sends(k, c), n) = Before(Sends(h, c), n)
    BY <1>1, <1>2, SameSendNo
  <1>4. Before(Recvs(k, c, s), n) = Before(Recvs(h, c, s), n)
    BY <1>1, <1>2, SameRecvNo
  <1> QED
    BY <1>3, <1>4 DEF Sent, Got, k, n

LEMMA TimedAdd ==
    ASSUME NEW p, NEW t \in Id, NEW time \in Times, NEW now \in Nat, NEW g \in Pasts,
           NEW o \in Observation, NEW time2, NEW f, Adds(t, time, now, g, o, time2, f),
           NEW K, NEW L, \A u \in Id : \A i \in DOMAIN g[u] : i \in L[u] => i \in K[u],
           IsTimed(p, time, g, K),
           \A u \in Id : \A i \in DOMAIN g[u] : time[u][i] < now,
           \A c \in Chan : Len(g[t]) + 1 \in Sends(f[t], c) =>
               \A i \in Recvs(g[Owner[c]], c, t) : i \in K[Owner[c]] =>
                   Before(Recvs(g[Owner[c]], c, t), i) < Sent(g[t], c),
           \A c \in Bounded, s \in Id :
               Owner[c] = t /\ Len(g[t]) + 1 \in Recvs(f[t], c, s) /\ Len(g[t]) + 1 \in L[t] =>
                   \A j \in Sends(g[s], c) : Before(Sends(g[s], c), j) < Got(g[t], c, s) + Cap[c],
           \A u \in Id : \A i \in DOMAIN f[u] : ~JoinsAt(p, u, f[u], i, t)
    PROVE  IsTimed(p, time2, f, L)
  <1> DEFINE r == Len(g[t]) + 1
  <1>1. /\ f[t][r] = o /\ time2[t][r] = now /\ r \in DOMAIN f[t] /\ r \in Nat
        /\ \A c : Before(Sends(f[t], c), r) = Sent(g[t], c)
        /\ \A c, s : Before(Recvs(f[t], c, s), r) = Got(g[t], c, s)
    <2>1. Len(g[t]) \in Nat /\ Len(g[t]) + 1 \in DOMAIN f[t]
      BY AddedEvent
    <2>3. f[t][Len(g[t]) + 1] = o /\ time2[t][Len(g[t]) + 1] = now
      BY AddedEvent
    <2>4. ASSUME NEW c, NEW s
          PROVE  /\ Before(Sends(f[t], c), Len(g[t]) + 1) = Sent(g[t], c)
                 /\ Before(Recvs(f[t], c, s), Len(g[t]) + 1) = Got(g[t], c, s)
      <3>1. g[t] \in Seq(Observation) /\ f[t] = Append(g[t], o)
        BY DEF Adds, Pasts
      <3> QED
        BY <3>1, AppendCounts
    <2>2. Len(g[t]) + 1 \in Nat
      BY <2>1
    <2> QED
      BY <2>1, <2>2, <2>3, <2>4, Zenon
  <1>2. \A u \in Id : \A i \in DOMAIN f[u] : (u = t /\ i = r) \/ SamePlace(t, g, f, u, i, time, time2)
    BY AddedEvent
  <1>3. ASSUME NEW u \in Id, NEW i, SamePlace(t, g, f, u, i, time, time2)
        PROVE  time2[u][i] < now /\ time2[u][i] = time[u][i] /\ i \in DOMAIN g[u]
    BY <1>3 DEF SamePlace
  <1>4. \A u \in Id : DOMAIN f[u] \subseteq Nat /\ DOMAIN g[u] = 1 .. Len(g[u])
                      /\ Len(g[u]) \in Nat
    <2>1. f \in Pasts
      BY AddedEvent
    <2>2. \A h \in Seq(Observation) : Len(h) \in Nat /\ DOMAIN h = 1 .. Len(h)
                                       /\ DOMAIN h \subseteq Nat
      BY HistoryPositions
    <2> QED
      BY <2>1, <2>2 DEF Pasts
  <1>5. ASSUME NEW u \in Id, NEW k, NEW c \in Chan
        PROVE  /\ \A i \in Recvs(g[u], c, k) : Before(Recvs(g[u], c, k), i) \in Nat
               /\ \A j \in Sends(g[u], c) : Before(Sends(g[u], c), j) \in Nat
               /\ Sent(g[u], c) \in Nat /\ Got(g[u], c, k) \in Nat
    <2>1. g[u] \in Seq(Observation) /\ DOMAIN g[u] \subseteq Nat
      BY <1>4 DEF Pasts
    <2>2. Sent(g[u], c) \in Nat /\ Got(g[u], c, k) \in Nat
      BY <2>1, CountsTyped
    <2>3. /\ \A i \in Recvs(g[u], c, k) : i \in Nat
          /\ \A j \in Sends(g[u], c) : j \in Nat
      BY <2>1 DEF Recvs, Sends
    <2> QED
      BY <2>2, <2>3, BeforeType
  <1>6. Rising(time2, f)
    <2> SUFFICES ASSUME NEW u \in Id, NEW i \in DOMAIN f[u], NEW j \in DOMAIN f[u], i < j
                 PROVE  time2[u][i] < time2[u][j]
      BY DEF Rising
    <2>1. CASE SamePlace(t, g, f, u, i, time, time2) /\ SamePlace(t, g, f, u, j, time, time2)
      BY <1>3, <2>1 DEF IsTimed, Rising
    <2>2. CASE SamePlace(t, g, f, u, i, time, time2) /\ u = t /\ j = r
      BY <1>1, <1>3, <2>2
    <2>3. CASE SamePlace(t, g, f, u, j, time, time2) /\ u = t /\ i = r
      <3>1. j \in 1 .. Len(g[t]) /\ Len(g[t]) \in Nat
        BY <1>3, <1>4, <2>3
      <3> QED
        BY <2>3, <3>1
    <2>4. CASE i = r /\ j = r
      BY <1>1, <2>4
    <2> QED
      BY <1>2, <2>1, <2>2, <2>3, <2>4
  <1>7. ASSUME NEW c \in Chan, NEW s \in Id PROVE Crossing(time2, f, L, c, s)
    <2> DEFINE q == Owner[c]
    <2>0. q \in Id
      BY OwnerTyped
    <2> SUFFICES ASSUME NEW i \in Recvs(f[q], c, s), i \in L[q], NEW j \in Sends(f[s], c)
                 PROVE  LET n == Before(Recvs(f[q], c, s), i)
                            m == Before(Sends(f[s], c), j)
                        IN /\ m = n => time2[s][j] < time2[q][i]
                           /\ c \in Bounded /\ n + Cap[c] <= m => time2[q][i] < time2[s][j]
      BY DEF Crossing
    <2>1. i \in DOMAIN f[q] /\ j \in DOMAIN f[s] /\ f[q][i].op \in RecvKind /\ f[s][j].op = "send"
      BY DEF Recvs, Sends
    <2>2. CASE SamePlace(t, g, f, q, i, time, time2) /\ SamePlace(t, g, f, s, j, time, time2)
      <3>1. /\ i \in Recvs(g[q], c, s) /\ Before(Recvs(g[q], c, s), i) = Before(Recvs(f[q], c, s), i)
            /\ j \in Sends(g[s], c) /\ Before(Sends(g[s], c), j) = Before(Sends(f[s], c), j)
            /\ time2[q][i] = time[q][i] /\ time2[s][j] = time[s][j]
        BY <2>2 DEF SamePlace
      <3>2. i \in K[q]
        BY <1>3, <2>0, <2>2
      <3>3. Crossing(time, g, K, c, s)
        BY DEF IsTimed
      <3> QED
        BY <3>1, <3>2, <3>3 DEF Crossing
    <2>3. CASE q = t /\ i = r /\ SamePlace(t, g, f, s, j, time, time2)
      <3>1. /\ j \in Sends(g[s], c) /\ Before(Sends(g[s], c), j) = Before(Sends(f[s], c), j)
        BY <2>3 DEF SamePlace
      <3>2. time2[s][j] < time2[q][i]
        BY <1>1, <1>3, <2>3
      <3>3. Before(Recvs(f[q], c, s), i) = Got(g[t], c, s)
        BY <1>1, <2>3
      <3>4. c \in Bounded => Before(Sends(g[s], c), j) < Got(g[t], c, s) + Cap[c]
        BY <2>3, <3>1
      <3>5. /\ Before(Sends(g[s], c), j) \in Nat /\ Got(g[t], c, s) \in Nat
            /\ c \in Bounded => Cap[c] \in Nat
        BY <1>5, <3>1, ProgramAssumption
      <3>6. ASSUME c \in Bounded, Got(g[t], c, s) + Cap[c] <= Before(Sends(g[s], c), j)
            PROVE  FALSE
        <4> DEFINE x == Got(g[t], c, s)
                   y == Before(Sends(g[s], c), j)
                   z == Cap[c]
        <4>1. x \in Nat /\ y \in Nat /\ z \in Nat /\ y < x + z /\ x + z <= y
          <5>1. y < x + z
            BY <3>4, <3>6
          <5>2. x \in Nat /\ y \in Nat /\ z \in Nat
            BY <3>5, <3>6
          <5> QED
            BY <3>6, <5>1, <5>2
        <4> HIDE DEF x, y, z
        <4> QED
          BY <4>1
      <3> QED
        BY <3>1, <3>2, <3>3, <3>6, Zenon
    <2>4. CASE s = t /\ j = r /\ SamePlace(t, g, f, q, i, time, time2)
      <3>1. /\ i \in Recvs(g[q], c, s) /\ Before(Recvs(g[q], c, s), i) = Before(Recvs(f[q], c, s), i)
        BY <2>4 DEF SamePlace
      <3>2. time2[q][i] < time2[s][j]
        BY <1>1, <1>3, <2>0, <2>4
      <3>3. Before(Sends(f[s], c), j) = Sent(g[t], c)
        BY <1>1, <2>4
      <3>4. i \in K[q]
        BY <1>3, <2>0, <2>4
      <3>5. Before(Recvs(g[q], c, s), i) < Sent(g[t], c)
        BY <2>4, <3>1, <3>4
      <3>6. Before(Recvs(g[q], c, s), i) \in Nat /\ Sent(g[t], c) \in Nat
        BY <1>5, <2>0, <3>1
      <3> QED
        BY <3>1, <3>2, <3>3, <3>5, <3>6
    <2>5. CASE q = t /\ i = r /\ s = t /\ j = r
      BY <2>1, <2>5 DEF RecvKind
    <2> QED
      BY <1>2, <2>0, <2>1, <2>2, <2>3, <2>4, <2>5
  <1>8. Joining(p, time2, f)
    <2> SUFFICES ASSUME NEW v \in Id, NEW u \in Id, NEW i \in DOMAIN f[v], JoinsAt(p, v, f[v], i, u),
                        NEW k \in DOMAIN f[u]
                 PROVE  time2[u][k] < time2[v][i]
      BY DEF Joining
    <2>1. u # t /\ SamePlace(t, g, f, u, k, time, time2)
      BY <1>2
    <2>2. CASE v = t /\ i = r
      BY <1>1, <1>3, <2>1, <2>2
    <2>3. CASE SamePlace(t, g, f, v, i, time, time2)
      <3>1. JoinsAt(p, v, g[v], i, u) /\ i \in DOMAIN g[v] /\ time2[v][i] = time[v][i]
        BY <2>3 DEF SamePlace
      <3>2. k \in DOMAIN g[u] /\ time2[u][k] = time[u][k]
        BY <1>3, <2>1
      <3> QED
        BY <3>1, <3>2 DEF IsTimed, Joining
    <2> QED
      BY <1>2, <2>2, <2>3
  <1> QED
    BY <1>6, <1>7, <1>8 DEF IsTimed

\* What the threads have done in the recording.
Ops == IF mode = "Record" THEN [t \in Id |-> H(t)] ELSE recorded

\* The operations that are in the log, or may still get there.
Counted == [t \in Id |-> {i \in Nat : \/ mode = "Record" /\ t \notin saved
                                      \/ LogNo(Ops[t], i) <= Len(log[t])}]

Timed == \E time \in Times, now \in Nat :
    /\ IsTimed(Program, time, Ops, Counted)
    /\ mode = "Record" => \A t \in Id : \A i \in DOMAIN Ops[t] : time[t][i] < now

JoinedDead == mode = "Record" =>
    \A t, u \in Id : \A i \in DOMAIN H(t) : JoinsAt(Program, t, H(t), i, u) => Dead(u)

WireFits == \A c \in Bounded : Len(wire[c]) <= Cap[c]

LEMMA OpsTyped ==
    ASSUME TypeOK
    PROVE  Ops \in Pasts /\ DOMAIN Ops = Id
  <1>1. \A t \in Id : H(t) \in Seq(Observation)
    BY HTyped
  <1>2. recorded \in Pasts
    BY DEF TypeOK, Pasts
  <1>3. [t \in Id |-> H(t)] \in Pasts
    BY <1>1 DEF Pasts
  <1> QED
    BY <1>2, <1>3 DEF Ops, Pasts

\* Dead threads take no step, and stay dead.
LEMMA StepAlive ==
    ASSUME NEW t \in Id, ThreadStep(t)
    PROVE  ~Dead(t)
  BY DEF ThreadStep, RecordOp, RecordEvent, RecordEventFails, OpenLog, FallAsleep,
         ReplayMismatch, ReplaySend, Deliver, ReplayRecv, ReceiveExpected, ReceiveTimesOut,
         WakeUp, SendDesynced, ReceiveAny, Join, ExecutionDone, Exit, AsksLog, Calls, At, Dead

LEMMA StaysDead ==
    ASSUME NEW t \in Id, ThreadStep(t), Frame(t), NEW u \in Id, Dead(u)
    PROVE  Dead(u)'
  <1>1. u # t
    BY StepAlive
  <1> QED
    BY <1>1 DEF Frame, Dead

\* A thread that calls join does nothing else.
LEMMA StepJoins ==
    ASSUME IInv, NEW t \in Id, ThreadStep(t), Op(t).kind = "join"
    PROVE  Dead(Op(t).thread)
  <1>1. Inside(t)
    BY DEF IInv, InsideOp
  <1>2. status[t] = "running" => at[t] = "idle"
    <2>1. at[t] # "log"
      <3>1. \A q \in Loggable : q.op # "join"
        BY DEF Loggable, SendResult, RecvResult, RecvKind
      <3> QED
        BY <1>1, <3>1 DEF Inside
    <2>2. at[t] \in {"idle", "log", "deliver", "receive", "desync", "flush"}
      BY DEF IInv, TypeOK
    <2> QED
      BY <1>1, <2>1, <2>2 DEF Inside, RecvKind
  <1>3. status[t] # "asleep"
    BY <1>1 DEF Inside, RecvKind
  <1> QED
    BY <1>2, <1>3
    DEF ThreadStep, RecordOp, RecordEvent, RecordEventFails, OpenLog, FallAsleep,
        ReplayMismatch, ReplaySend, Deliver, ReplayRecv, ReceiveExpected, ReceiveTimesOut,
        WakeUp, SendDesynced, ReceiveAny, Join, ExecutionDone, Exit, AsksLog, Calls, At, RecvKind

\* The last of the results.
LEMMA NewEvent ==
    ASSUME NEW h \in Seq(Observation), NEW o \in Observation, NEW p, NEW t, NEW u
    PROVE  JoinsAt(p, t, Append(h, o), Len(h) + 1, u) <=> o.op = "join" /\ Code(p, t, h).thread = u
  <1> DEFINE g == Append(h, o)
             r == Len(h) + 1
  <1>1. /\ Len(h) \in Nat /\ g \in Seq(Observation) /\ g[r] = o /\ Agree(h, g, Len(h))
    BY AppendAgrees
  <1>2. r - 1 = Len(h)
    BY <1>1
  <1> HIDE DEF g, r
  <1>3. SubSeq(g, 1, Len(h)) = h
    BY <1>1, AgreeSame, WholeHistory
  <1>4. JoinsAt(p, t, g, r, u) <=> o.op = "join" /\ Code(p, t, h).thread = u
    BY <1>1, <1>2, <1>3 DEF JoinsAt
  <1> QED
    BY <1>4 DEF g, r

LEMMA MessageIsSent ==
    ASSUME NEW h \in Seq(Observation), NEW p, NEW s, NEW c, NEW n, NEW v, IsMessage(p, s, h, c, n, v)
    PROVE  n < Sent(h, c)
  <1>1. PICK j \in Sends(h, c) : Before(Sends(h, c), j) = n
    BY DEF IsMessage
  <1>2. Len(h) \in Nat /\ j \in 1 .. Len(h) /\ Len(h) + 1 \in Nat /\ j < Len(h) + 1
    BY HistoryPositions DEF Sends
  <1> QED
    BY <1>1, <1>2, BeforeIncreases DEF Sent

LEMMA SendIsSent ==
    ASSUME NEW h \in Seq(Observation), NEW c, NEW j \in Sends(h, c)
    PROVE  Before(Sends(h, c), j) < Sent(h, c)
  <1>1. Len(h) \in Nat /\ j \in 1 .. Len(h) /\ Len(h) + 1 \in Nat /\ j < Len(h) + 1
    BY HistoryPositions DEF Sends
  <1> QED
    BY <1>1, BeforeIncreases DEF Sent

LEMMA WaitingFits ==
    ASSUME NEW w \in Seq(Message), NEW s
    PROVE  Waiting(w, s) <= Len(w)
  <1>1. Len(w) \in Nat /\ Len(w) + 1 - 1 = Len(w)
    OBVIOUS
  <1>2. IsFiniteSet(1 .. Len(w)) /\ Cardinality(1 .. Len(w)) = Len(w)
    BY <1>1, FS_Interval
  <1>3. {j \in 1 .. Len(w) + 1 - 1 : j \in OnWire(w, s)} \in SUBSET (1 .. Len(w))
    BY <1>1
  <1> QED
    BY <1>2, <1>3, FS_Subset DEF Waiting, Before

\* In a recording, a receive that counts is of a message that has been sent.
LEMMA CountedIsSent ==
    ASSUME FInv, mode = "Record", NEW c \in Chan, NEW s \in Id,
           NEW i \in Recvs(H(Owner[c]), c, s), i \in Counted[Owner[c]]
    PROVE  Before(Recvs(H(Owner[c]), c, s), i) < Sent(H(s), c)
  <1> DEFINE o == Owner[c]
             k == H(o)
             h == hist[o]
             ks == H(s)
             p == Program
             n == Before(Recvs(k, c, s), i)
  <1>1. TypeOK /\ o \in Id
    BY OwnerTyped DEF FInv, IInv
  <1>2. k \in Seq(Observation) /\ h \in Seq(Observation) /\ pending[o] \in Observation
        /\ ks \in Seq(Observation)
    BY <1>1, HTyped
  <1>3. k = h \/ k = Append(h, pending[o])
    BY <1>1, HIsHistory
  <1>4. o \notin saved \/ LogNo(k, i) <= Len(log[o])
    BY <1>1 DEF Counted, Ops
  <1>5. CASE o \notin saved
    <2>1. Flow(c, s)
      BY <1>5 DEF FInv, Messages, Live
    <2>2. \E v : IsMessage(p, s, ks, c, n, v)
      BY <2>1 DEF Flow, InOrder
    <2> HIDE DEF p, ks, n, k
    <2> QED
      BY <1>2, <2>2, MessageIsSent DEF ks, n, k
  <1>6. CASE LogNo(k, i) <= Len(log[o])
    <2>1. IsLogOf(h, log[o]) /\ log[o] \in Seq(Entry)
      BY <1>1 DEF FInv, Lists, Past, TypeOK, LogTypeOK
    <2>2. Len(log[o]) <= Logs(h) /\ Len(log[o]) \in Nat /\ Logs(h) \in Nat
      BY <1>2, <2>1, OneMoreLogged DEF IsLogOf
    <2>3. LogIsSent(p, c, s, h, ks, log[o])
      BY DEF FInv, LoggedReceives
    <2> HIDE DEF h, k, p, ks
    <2>4. Len(h) \in Nat /\ DOMAIN h = 1 .. Len(h) /\ i \in DOMAIN k
      BY <1>2, HistoryPositions DEF Recvs, k, o
    <2>5. i \in 1 .. Len(h)
      <3>1. CASE k = h
        BY <2>4, <3>1
      <3>2. CASE k = Append(h, pending[o])
        <4>1. DOMAIN k = 1 .. Len(h) + 1
          BY <1>2, <3>2, AppendAgrees
        <4>2. LogNo(k, Len(h) + 1) = Logs(h) + 1
          BY <1>2, <3>2, OneMoreLogged
        <4>3. i # Len(h) + 1
          BY <1>6, <2>2, <4>2
        <4> QED
          BY <2>4, <4>1, <4>3
      <3> QED
        BY <1>3, <3>1, <3>2
    <2>6. Agree(h, k, Len(h))
      BY <1>2, <1>3, <2>4, AppendAgrees DEF Agree
    <2>7. /\ i \in Recvs(h, c, s) /\ Before(Recvs(h, c, s), i) = n
          /\ LogNo(h, i) = LogNo(k, i)
      <3>1. i \in Recvs(k, c, s)
        BY DEF k, o
      <3> QED
        BY <1>2, <2>4, <2>5, <2>6, <3>1, SameEvent
    <2>8. IsMessage(p, s, ks, c, n, h[i].val)
      BY <1>6, <2>3, <2>7 DEF LogIsSent
    <2>9. n < Sent(ks, c)
      <3> HIDE DEF n
      <3> QED
        BY <1>2, <2>8, MessageIsSent
    <2> QED
      BY <2>9 DEF ks, k
  <1> QED
    BY <1>4, <1>5, <1>6

\* The messages that a receive may get do not fill the channel further.
LEMMA CapacityHolds ==
    ASSUME FInv, WireFits, mode = "Record", NEW c \in Bounded, NEW s \in Id, Owner[c] \notin saved,
           NEW j \in Sends(H(s), c)
    PROVE  Before(Sends(H(s), c), j) < Got(H(Owner[c]), c, s) + Cap[c]
  <1>1. c \in Chan /\ Cap[c] \in Nat /\ TypeOK /\ Owner[c] \in Id
    BY ProgramAssumption, OwnerTyped DEF FInv, IInv
  <1>2. Flow(c, s) /\ buffer[c][s] = <<>>
    BY <1>1 DEF FInv, Messages, Live, Places, NothingBuffered
  <1>3. /\ H(s) \in Seq(Observation) /\ H(Owner[c]) \in Seq(Observation)
        /\ wire[c] \in Seq(Message)
    BY <1>1, HTyped DEF TypeOK
  <1>4. Sent(H(s), c) = Got(H(Owner[c]), c, s) + Len(buffer[c][s]) + Waiting(wire[c], s)
    BY <1>2 DEF Flow, InOrder
  <1>5. Waiting(wire[c], s) <= Len(wire[c]) /\ Len(wire[c]) <= Cap[c]
    BY <1>3, WaitingFits DEF WireFits
  <1>6. Before(Sends(H(s), c), j) < Sent(H(s), c)
    BY <1>3, SendIsSent
  <1>7. /\ Sent(H(s), c) \in Nat /\ Got(H(Owner[c]), c, s) \in Nat /\ Waiting(wire[c], s) \in Nat
        /\ Len(wire[c]) \in Nat /\ Before(Sends(H(s), c), j) \in Nat
    <2>1. j \in Nat
      BY <1>3, HistoryPositions DEF Sends
    <2>2. Before(Sends(H(s), c), j) \in Nat
      BY <2>1, BeforeType
    <2>3. Sent(H(s), c) \in Nat /\ Got(H(Owner[c]), c, s) \in Nat
      BY <1>3, CountsTyped
    <2>4. Waiting(wire[c], s) \in Nat /\ Len(wire[c]) \in Nat
      BY <1>3, WaitingTyped
    <2> QED
      BY <2>2, <2>3, <2>4
  <1> DEFINE x == Sent(H(s), c)
             g == Got(H(Owner[c]), c, s)
             w == Waiting(wire[c], s)
             l == Len(wire[c])
             b == Before(Sends(H(s), c), j)
             z == Cap[c]
  <1>8. x = g + 0 + w
    BY <1>2, <1>4
  <1>9. x \in Nat /\ g \in Nat /\ w \in Nat /\ l \in Nat /\ b \in Nat /\ z \in Nat
        /\ w <= l /\ l <= z /\ b < x
    BY <1>1, <1>5, <1>6, <1>7
  <1>10. b < g + z
    <2> HIDE DEF x, g, w, l, b, z
    <2> QED
      BY <1>8, <1>9
  <1> QED
    BY <1>10

\* What was in the log, or could get there, still does.
LEMMA CountedStays ==
    ASSUME TypeOK, TypeOK', UNCHANGED <<mode, saved, log>>, NEW u \in Id,
           NEW k \in Nat, Agree(Ops[u], Ops'[u], k), NEW i \in 1 .. k, i \in Counted'[u]
    PROVE  i \in Counted[u]
  <1> DEFINE h == Ops[u]
             g == Ops'[u]
  <1>1. h \in Seq(Observation) /\ g \in Seq(Observation)
    <2>1. Ops \in Pasts
      BY OpsTyped
    <2>2. (TypeOK => Ops \in Pasts)'
      BY OpsTyped, PTL
    <2> QED
      BY <2>1, <2>2 DEF Pasts
  <1> HIDE DEF h, g
  <1>2. LogNo(h, i) = LogNo(g, i)
    <2>1. Agree(h, g, k)
      BY DEF h, g
    <2> QED
      BY <1>1, <2>1, SameEvent
  <1>3. i \in Nat /\ ((mode = "Record" /\ u \notin saved) \/ LogNo(g, i) <= Len(log[u]))
    BY DEF Counted, g
  <1> QED
    BY <1>2, <1>3 DEF Counted, h

\* Nothing is added.
LEMMA TimedStays ==
    ASSUME Timed, TypeOK, TypeOK', setup' = setup, mode' = "Record" => mode = "Record",
           \A u \in Id : Agree(Ops[u], Ops'[u], Len(Ops'[u])),
           \A u \in Id : \A i \in DOMAIN Ops'[u] : i \in Counted'[u] => i \in Counted[u]
    PROVE  Timed'
  <1>1. PICK time \in Times, now \in Nat :
          /\ IsTimed(Program, time, Ops, Counted)
          /\ mode = "Record" => \A t \in Id : \A i \in DOMAIN Ops[t] : time[t][i] < now
    BY DEF Timed
  <1>2. Ops \in Pasts /\ Ops' \in Pasts
    <2>1. Ops \in Pasts
      BY OpsTyped
    <2>2. (TypeOK => Ops \in Pasts)'
      BY OpsTyped, PTL
    <2> QED
      BY <2>1, <2>2
  <1>3. Program' = Program
    BY DEF Program
  <1>4. IsTimed(Program', time, Ops', Counted')
    <2> DEFINE f == Ops'
               L == Counted'
               p == Program'
    <2>1. p = Program /\ f \in Pasts
      BY <1>2, <1>3
    <2>2. /\ \A u \in Id : Agree(Ops[u], f[u], Len(f[u]))
          /\ \A u \in Id : \A i \in DOMAIN f[u] : i \in L[u] => i \in Counted[u]
      OBVIOUS
    <2> HIDE DEF f, L, p
    <2>3. IsTimed(p, time, f, L)
      BY <1>1, <1>2, <2>1, <2>2, TimedPrefix
    <2> QED
      BY <2>3 DEF f, L, p
  <1>5. mode' = "Record" => \A t \in Id : \A i \in DOMAIN Ops'[t] : time[t][i] < now
    <2> SUFFICES ASSUME mode' = "Record", NEW t \in Id, NEW i \in DOMAIN Ops'[t]
                 PROVE  time[t][i] < now
      OBVIOUS
    <2> DEFINE h == Ops[t]
               g == Ops'[t]
    <2>1. h \in Seq(Observation) /\ g \in Seq(Observation) /\ Agree(h, g, Len(g)) /\ i \in DOMAIN g
      BY <1>2 DEF Pasts
    <2> HIDE DEF h, g
    <2>2. Len(g) \in Nat /\ i \in 1 .. Len(g)
      BY <2>1, HistoryPositions
    <2>3. i \in DOMAIN h
      BY <2>1, <2>2, SameResult
    <2> QED
      BY <1>1, <2>3 DEF h
  <1> QED
    BY <1>4, <1>5 DEF Timed

LEMMA AgreeSelf ==
    ASSUME NEW h \in Seq(Observation)
    PROVE  Agree(h, h, Len(h))
  BY HistoryPositions DEF Agree

\* One result is added.
LEMMA TimedAppends ==
    ASSUME FInv, TypeOK', WireFits, JoinedDead, Timed, mode = "Record",
           NEW t \in Id, ThreadStep(t), Frame(t), NEW o, Appends(t, o)
    PROVE  Timed'
  <1> DEFINE f == Ops'
             g == Ops
             p == Program
             h == H(t)
             r == Len(h) + 1
             L == Counted'
             K == Counted
  <1>0. TypeOK
    BY DEF FInv, IInv
  <1>1. PICK time \in Times, now \in Nat :
          /\ IsTimed(p, time, g, K)
          /\ \A u \in Id : \A i \in DOMAIN g[u] : time[u][i] < now
    BY DEF Timed
  <1>2. g = [u \in Id |-> H(u)] /\ f = [u \in Id |-> H(u)']
    BY DEF Ops, Frame
  <1>3. /\ o \in Observation /\ g \in Pasts
        /\ f = [g EXCEPT ![t] = Append(g[t], o)] /\ g[t] = h
    <2>1. \A u \in Id \ {t} : H(u)' = H(u)
      BY FrameH
    <2>2. o \in Observation /\ H(t)' = Append(H(t), o)
      BY DEF Appends
    <2>3. g \in Pasts
      BY <1>0, OpsTyped
    <2> HIDE DEF g, f
    <2>4. f = [g EXCEPT ![t] = Append(g[t], o)]
      BY <1>2, <2>1, <2>2
    <2> QED
      BY <1>2, <2>2, <2>3, <2>4
  <1> DEFINE time2 == [time EXCEPT ![t] = [time[t] EXCEPT ![Len(g[t]) + 1] = now]]
  <1>4. Adds(t, time, now, g, o, time2, f)
    BY <1>3 DEF Adds
  <1>5. \A u \in Id : \A i \in DOMAIN g[u] : i \in L[u] => i \in K[u]
    <2> SUFFICES ASSUME NEW u \in Id, NEW i \in DOMAIN g[u], i \in L[u] PROVE i \in K[u]
      OBVIOUS
    <2>1. g[u] \in Seq(Observation) /\ UNCHANGED <<mode, saved, log>>
      BY <1>3 DEF Pasts, Frame
    <2>2. Len(g[u]) \in Nat /\ i \in 1 .. Len(g[u])
      BY <2>1, HistoryPositions
    <2>3. Agree(g[u], f[u], Len(g[u]))
      <3> HIDE DEF f, g
      <3>1. CASE u = t
        BY <1>3, <2>1, <3>1, AppendAgrees DEF Pasts
      <3>2. CASE u # t
        BY <1>3, <2>1, <3>2, AgreeSelf DEF Pasts
      <3> QED
        BY <3>1, <3>2
    <2> QED
      BY <1>0, <2>1, <2>2, <2>3, CountedStays
  <1>6. \A c \in Chan : Len(g[t]) + 1 \in Sends(f[t], c) =>
          \A i \in Recvs(g[Owner[c]], c, t) : i \in K[Owner[c]] =>
              Before(Recvs(g[Owner[c]], c, t), i) < Sent(g[t], c)
    <2> SUFFICES ASSUME NEW c \in Chan, NEW i \in Recvs(g[Owner[c]], c, t), i \in K[Owner[c]]
                 PROVE  Before(Recvs(g[Owner[c]], c, t), i) < Sent(g[t], c)
      OBVIOUS
    <2>1. g[Owner[c]] = H(Owner[c]) /\ g[t] = H(t)
      BY <1>2, OwnerTyped
    <2>2. i \in Recvs(H(Owner[c]), c, t)
      BY <2>1
    <2>3. Before(Recvs(H(Owner[c]), c, t), i) < Sent(H(t), c)
      BY <2>2, CountedIsSent
    <2> QED
      BY <2>1, <2>3
  <1>7. \A c \in Bounded, s \in Id :
          Owner[c] = t /\ Len(g[t]) + 1 \in Recvs(f[t], c, s) /\ Len(g[t]) + 1 \in L[t] =>
              \A j \in Sends(g[s], c) : Before(Sends(g[s], c), j) < Got(g[t], c, s) + Cap[c]
    <2> SUFFICES ASSUME NEW c \in Bounded, NEW s \in Id, Owner[c] = t, Len(g[t]) + 1 \in L[t],
                        NEW j \in Sends(g[s], c)
                 PROVE  Before(Sends(g[s], c), j) < Got(g[t], c, s) + Cap[c]
      OBVIOUS
    <2>1. g[t] = H(t) /\ g[s] = H(s) /\ H(t) = hist[t] /\ H(t) \in Seq(Observation)
      BY <1>0, <1>2, HTyped DEF Appends
    <2>2. t \notin saved
      <3> SUFFICES ASSUME t \in saved PROVE FALSE
        OBVIOUS
      <3>1. LogNo(f[t], Len(h) + 1) <= Len(log[t])
        BY <2>1 DEF Counted, Frame
      <3>2. f[t] = Append(h, o)
        BY <1>3 DEF Pasts
      <3>3. LogNo(f[t], Len(h) + 1) = Logs(h) + 1 /\ Logs(h) \in Nat
        BY <1>3, <2>1, <3>2, OneMoreLogged
      <3>4. Len(log[t]) <= Logs(h) /\ Len(log[t]) \in Nat
        <4>1. IsLogOf(hist[t], log[t]) /\ log[t] \in Seq(Entry)
          BY DEF FInv, Lists, Past, IInv, TypeOK, LogTypeOK
        <4> QED
          BY <2>1, <4>1 DEF IsLogOf
      <3> HIDE DEF h
      <3> QED
        BY <3>1, <3>3, <3>4
    <2>3. Before(Sends(H(s), c), j) < Got(H(Owner[c]), c, s) + Cap[c]
      BY <2>1, <2>2, CapacityHolds
    <2> QED
      BY <2>1, <2>3
  <1>8. \A u \in Id : \A i \in DOMAIN f[u] : ~JoinsAt(p, u, f[u], i, t)
    <2> SUFFICES ASSUME NEW u \in Id, NEW i \in DOMAIN f[u], JoinsAt(p, u, f[u], i, t)
                 PROVE  FALSE
      OBVIOUS
    <2>1. ~Dead(t)
      BY StepAlive
    <2>2. g[u] \in Seq(Observation) /\ f[u] \in Seq(Observation) /\ g[u] = H(u)
          /\ h \in Seq(Observation) /\ f[t] = Append(h, o) /\ o \in Observation
      <3>1. f \in Pasts
        BY <1>3, <1>4, AddedEvent
      <3> QED
        BY <1>2, <1>3, <3>1 DEF Pasts
    <2>3. CASE u = t /\ i = r
      <3>1. JoinsAt(p, t, Append(h, o), Len(h) + 1, t)
        BY <2>2, <2>3
      <3>2. o.op = "join" /\ Code(p, t, h).thread = t
        <4> HIDE DEF h, p
        <4> QED
          BY <2>2, <3>1, NewEvent
      <3>3. ResultOf(Op(t), o) /\ H(t) = hist[t]
        BY DEF Appends
      <3>4. Op(t).kind = "join" /\ Op(t).thread = t
        BY <3>2, <3>3 DEF ResultOf, Op, Program, LoggedKind, RecvKind
      <3>5. Dead(t)
        BY <3>4, StepJoins DEF FInv
      <3> QED
        BY <2>1, <3>5
    <2>4. CASE ~(u = t /\ i = r)
      <3>1. SamePlace(t, g, f, u, i, time, time2)
        <4>1. (u = t /\ i = Len(g[t]) + 1) \/ SamePlace(t, g, f, u, i, time, time2)
          <5> HIDE DEF time2, g, f
          <5> QED
            BY <1>3, <1>4, AddedEvent
        <4> QED
          BY <1>3, <2>4, <4>1
      <3>2. JoinsAt(p, u, g[u], i, t) /\ i \in DOMAIN g[u]
        <4> HIDE DEF time2, g, f, p
        <4> QED
          BY <3>1 DEF SamePlace
      <3>3. JoinsAt(p, u, H(u), i, t) /\ i \in DOMAIN H(u)
        BY <2>2, <3>2
      <3>4. Dead(t)
        BY <3>3 DEF JoinedDead
      <3> QED
        BY <2>1, <3>4
    <2> QED
      BY <2>3, <2>4
  <1>9. IsTimed(p, time2, f, L)
    <2> HIDE DEF time2, g, f, p, K, L, h, r
    <2> QED
      BY <1>1, <1>3, <1>4, <1>5, <1>6, <1>7, <1>8, TimedAdd
  <1>10. time2 \in Times /\ \A u \in Id : \A i \in DOMAIN f[u] : time2[u][i] < now + 1
    <2> HIDE DEF time2, g, f, p, K, L, h, r
    <2>1. /\ time2 \in Times
          /\ time2[t][Len(g[t]) + 1] = now
          /\ \A u \in Id : \A i \in DOMAIN f[u] :
                \/ u = t /\ i = Len(g[t]) + 1
                \/ SamePlace(t, g, f, u, i, time, time2)
      BY <1>3, <1>4, AddedEvent
    <2> SUFFICES ASSUME NEW u \in Id, NEW i \in DOMAIN f[u] PROVE time2[u][i] < now + 1
      BY <2>1
    <2>2. CASE u = t /\ i = Len(g[t]) + 1
      BY <2>1, <2>2
    <2>3. CASE SamePlace(t, g, f, u, i, time, time2)
      <3>1. time2[u][i] = time[u][i] /\ i \in DOMAIN g[u]
        BY <2>3 DEF SamePlace
      <3>2. time[u][i] < now /\ time[u][i] \in Nat
        <4>1. g[u] \in Seq(Observation)
          BY <1>3 DEF Pasts
        <4>2. i \in Nat
          BY <3>1, <4>1, HistoryPositions
        <4> QED
          BY <1>1, <3>1, <4>2 DEF Times
      <3> QED
        BY <3>1, <3>2
    <2> QED
      BY <2>1, <2>2, <2>3
  <1>11. Program' = Program
    BY DEF Program, Frame
  <1>12. now + 1 \in Nat
    OBVIOUS
  <1> HIDE DEF time2
  <1>13. IsTimed(Program', time2, Ops', Counted')
    BY <1>9, <1>11
  <1> QED
    BY <1>10, <1>12, <1>13 DEF Timed

LEMMA StepTimed ==
    ASSUME FInv, TypeOK', WireFits, JoinedDead, Timed,
           NEW t \in Id, ThreadStep(t), Frame(t), Effect(t)
    PROVE  Timed'
  <1>0. TypeOK /\ UNCHANGED <<setup, mode, recorded, saved, log>>
    BY DEF FInv, IInv, Frame
  <1>1. Ops \in Pasts /\ Ops' \in Pasts
    <2>1. Ops \in Pasts
      BY <1>0, OpsTyped
    <2>2. (TypeOK => Ops \in Pasts)'
      BY OpsTyped, PTL
    <2> QED
      BY <2>1, <2>2
  <1>2. ASSUME \A u \in Id : Agree(Ops[u], Ops'[u], Len(Ops'[u]))
        PROVE  Timed'
    <2>1. \A u \in Id : \A i \in DOMAIN Ops'[u] : i \in Counted'[u] => i \in Counted[u]
      <3> SUFFICES ASSUME NEW u \in Id, NEW i \in DOMAIN Ops'[u], i \in Counted'[u]
                   PROVE  i \in Counted[u]
        OBVIOUS
      <3>1. Ops'[u] \in Seq(Observation)
        BY <1>1 DEF Pasts
      <3>2. Len(Ops'[u]) \in Nat /\ i \in 1 .. Len(Ops'[u])
        BY <3>1, HistoryPositions
      <3> QED
        BY <1>0, <1>2, <3>2, CountedStays
    <2> QED
      BY <1>0, <1>2, <2>1, TimedStays
  <1>3. CASE mode = "Replay"
    <2>1. Ops = recorded /\ Ops' = recorded
      BY <1>0, <1>3 DEF Ops
    <2>2. \A u \in Id : Agree(Ops[u], Ops'[u], Len(Ops'[u]))
      BY <1>1, <2>1, AgreeSelf DEF Pasts
    <2> QED
      BY <1>2, <2>2
  <1>4. CASE mode = "Record"
    <2>1. Ops = [u \in Id |-> H(u)] /\ Ops' = [u \in Id |-> H(u)']
      BY <1>0, <1>4 DEF Ops
    <2>2. \A u \in Id \ {t} : H(u)' = H(u)
      BY FrameH
    <2>3. CASE H(t)' = H(t)
      <3>1. \A u \in Id : Ops'[u] = Ops[u]
        BY <2>1, <2>2, <2>3
      <3>2. \A u \in Id : Agree(Ops[u], Ops'[u], Len(Ops'[u]))
        BY <1>1, <3>1, AgreeSelf DEF Pasts
      <3> QED
        BY <1>2, <3>2
    <2>4. CASE \E o : Appends(t, o)
      BY <1>4, <2>4, TimedAppends
    <2>5. CASE H(t)' = hist[t] /\ H(t) = Append(hist[t], pending[t])
      <3>1. hist[t] \in Seq(Observation) /\ pending[t] \in Observation
        BY <1>0, HTyped
      <3>2. Agree(Append(hist[t], pending[t]), hist[t], Len(hist[t]))
        BY <3>1, AppendAgrees
      <3>3. Ops[t] = Append(hist[t], pending[t]) /\ Ops'[t] = hist[t]
        BY <2>1, <2>5
      <3>4. \A u \in Id \ {t} : Ops'[u] = Ops[u]
        BY <2>1, <2>2
      <3>5. \A u \in Id : Agree(Ops[u], Ops'[u], Len(Ops'[u]))
        <4> SUFFICES ASSUME NEW u \in Id PROVE Agree(Ops[u], Ops'[u], Len(Ops'[u]))
          OBVIOUS
        <4>1. CASE u = t
          BY <3>2, <3>3, <4>1
        <4>2. CASE u # t
          BY <1>1, <3>4, <4>2, AgreeSelf DEF Pasts
        <4> QED
          BY <4>1, <4>2
      <3> QED
        BY <1>2, <3>5
    <2> QED
      BY <2>3, <2>4, <2>5, EffectOnH
  <1> QED
    BY <1>0, <1>3, <1>4 DEF TypeOK, LogTypeOK

\* Who is joined is dead, and stays dead.
LEMMA StepJoinedDead ==
    ASSUME FInv, TypeOK', JoinedDead, NEW t \in Id, ThreadStep(t), Frame(t), Effect(t)
    PROVE  JoinedDead'
  <1> SUFFICES ASSUME mode' = "Record", NEW u \in Id, NEW v \in Id, NEW i \in DOMAIN H(u)',
                      JoinsAt(Program', u, H(u)', i, v)
               PROVE  Dead(v)'
    BY DEF JoinedDead
  <1>0. TypeOK /\ mode = "Record" /\ Program' = Program
    BY DEF FInv, IInv, Frame, Program
  <1> SUFFICES Dead(v)
    BY StaysDead
  <1>1. ASSUME i \in DOMAIN H(u), JoinsAt(Program, u, H(u), i, v) PROVE Dead(v)
    BY <1>0, <1>1 DEF JoinedDead
  <1>2. CASE H(u)' = H(u)
    BY <1>0, <1>1, <1>2
  <1>3. CASE u # t
    BY <1>2, <1>3, FrameH
  <1>4. ASSUME u = t, NEW o, Appends(t, o) PROVE Dead(v)
    <2> DEFINE h == H(t)
               g == H(t)'
               p == Program
    <2>1. /\ h \in Seq(Observation) /\ o \in Observation /\ g = Append(h, o) /\ h = hist[t]
          /\ ResultOf(Op(t), o)
      BY <1>0, <1>4, HTyped DEF Appends
    <2>2. i \in DOMAIN g /\ JoinsAt(p, t, g, i, v)
      BY <1>0, <1>4
    <2>3. ASSUME o.op = "join", Code(p, t, h).thread = v PROVE Dead(v)
      <3>1. Op(t).kind = "join" /\ Op(t).thread = v
        BY <2>1, <2>3 DEF ResultOf, Op, Program, LoggedKind, RecvKind
      <3> QED
        BY <3>1, StepJoins DEF FInv
    <2>4. h \in Seq(Observation) /\ (i \in DOMAIN h /\ JoinsAt(p, t, h, i, v) => Dead(v))
      BY <1>1, <1>4, <2>1
    <2> HIDE DEF h, g, p
    <2>5. /\ Len(h) \in Nat /\ DOMAIN g = 1 .. Len(h) + 1 /\ Agree(h, g, Len(h))
          /\ DOMAIN h = 1 .. Len(h) /\ g \in Seq(Observation)
      BY <2>1, AppendAgrees
    <2>6. CASE i = Len(h) + 1
      <3>1. JoinsAt(p, t, Append(h, o), Len(h) + 1, v)
        BY <2>1, <2>2, <2>6
      <3> QED
        BY <2>1, <2>3, <3>1, NewEvent
    <2>7. CASE i \in 1 .. Len(h)
      <3>1. JoinsAt(p, t, h, i, v)
        BY <2>1, <2>2, <2>5, <2>7, SameEvent
      <3> QED
        BY <2>4, <2>5, <2>7, <3>1
    <2> QED
      BY <2>2, <2>5, <2>6, <2>7
  <1>5. CASE u = t /\ H(t)' = hist[t] /\ H(t) = Append(hist[t], pending[t])
    <2> DEFINE h == hist[t]
               k == Append(hist[t], pending[t])
               p == Program
    <2>1. h \in Seq(Observation) /\ pending[t] \in Observation
      BY <1>0, HTyped
    <2>2. i \in DOMAIN h /\ JoinsAt(p, t, h, i, v)
      BY <1>0, <1>5
    <2>3. /\ k \in Seq(Observation) /\ Agree(h, k, Len(h)) /\ Len(h) \in Nat
          /\ DOMAIN h = 1 .. Len(h) /\ DOMAIN k = 1 .. Len(h) + 1
      BY <2>1, AppendAgrees
    <2>4. i \in DOMAIN k /\ JoinsAt(p, t, k, i, v)
      <3> HIDE DEF h, k, p
      <3> QED
        BY <2>1, <2>2, <2>3, SameEvent
    <2> QED
      BY <1>1, <1>5, <2>4
  <1> QED
    BY <1>2, <1>3, <1>4, <1>5, EffectOnH

\* What a step does to the queues.
WireStep(t) ==
    \/ wire' = wire
    \/ \E op, obs : Send(t, op, obs)
    \/ \E c : wire[c] # <<>> /\ wire' = [wire EXCEPT ![c] = Tail(@)]

LEMMA RecvTakesHead ==
    ASSUME TypeOK, NEW t \in Id, NEW op, NEW obs, Recv(op, obs)
    PROVE  WireStep(t)
  <1>1. CASE wire[op.chan] = <<>>
    BY <1>1 DEF Recv, RecvOutcomes, Failure, Result, WireStep
  <1>2. CASE wire[op.chan] # <<>>
    BY <1>2 DEF Recv, WireStep
  <1> QED
    BY <1>1, <1>2

LEMMA StepWire ==
    ASSUME TypeOK, NEW t \in Id, ThreadStep(t)
    PROVE  WireStep(t)
  <1>1. CASE RecordOp(t)
    <2>1. PICK obs : Send(t, Op(t), obs) \/ Recv(Op(t), obs)
      BY <1>1 DEF RecordOp
    <2>2. CASE Send(t, Op(t), obs)
      BY <2>2 DEF WireStep
    <2>3. CASE Recv(Op(t), obs)
      BY <2>3, RecvTakesHead
    <2> QED
      BY <2>1, <2>2, <2>3
  <1>2. CASE Deliver(t)
    BY <1>2 DEF Deliver, WireStep
  <1>3. CASE ReceiveExpected(t)
    BY <1>3, Zenon DEF ReceiveExpected, WireStep
  <1>4. CASE ReceiveAny(t)
    <2>1. wire' = wire \/ \E obs : Recv(Op(t), obs)
      BY <1>4 DEF ReceiveAny
    <2>2. CASE wire' = wire
      BY <2>2 DEF WireStep
    <2>3. CASE \E obs : Recv(Op(t), obs)
      BY <2>3, RecvTakesHead
    <2> QED
      BY <2>1, <2>2, <2>3
  <1>5. CASE ReplayRecv(t)
    BY <1>5 DEF ReplayRecv, chanVars, WireStep
  <1>6. CASE \/ RecordEvent(t) \/ RecordEventFails(t) \/ OpenLog(t) \/ FallAsleep(t)
             \/ ReplayMismatch(t) \/ ReplaySend(t) \/ ReceiveTimesOut(t) \/ WakeUp(t)
             \/ SendDesynced(t) \/ Join(t) \/ ExecutionDone(t) \/ Exit(t)
    <2>1. UNCHANGED chanVars
      BY <1>6 DEF RecordEvent, RecordEventFails, OpenLog, FallAsleep, ReplayMismatch, ReplaySend,
                  ReceiveTimesOut, WakeUp, SendDesynced, Join, ExecutionDone, Exit
    <2> QED
      BY <2>1 DEF chanVars, WireStep
  <1> QED
    BY <1>1, <1>2, <1>3, <1>4, <1>5, <1>6 DEF ThreadStep

LEMMA StepWireFits ==
    ASSUME TypeOK, WireFits, NEW t \in Id, ThreadStep(t)
    PROVE  WireFits'
  <1> SUFFICES ASSUME NEW c \in Bounded PROVE Len(wire'[c]) <= Cap[c]
    BY DEF WireFits
  <1>1. c \in Chan /\ Cap[c] \in Nat /\ wire[c] \in Seq(Message) /\ DOMAIN wire = Chan
        /\ Len(wire[c]) <= Cap[c]
    BY ProgramAssumption DEF TypeOK, WireFits
  <1>2. CASE wire' = wire
    BY <1>1, <1>2
  <1>3. ASSUME NEW op, NEW obs, Send(t, op, obs) PROVE Len(wire'[c]) <= Cap[c]
    <2>1. CASE wire' = wire
      BY <1>1, <2>1
    <2>2. CASE wire' # wire
      <3> DEFINE m == [from |-> t, val |-> op.val]
                 w == wire[c]
      <3>1. obs \in SendOutcomes(op) /\ obs.error # "SendError"
            /\ wire' = [wire EXCEPT ![op.chan] = Append(@, m)]
        BY <1>3, <2>2 DEF Send
      <3>2. ~ReceiverGone(op.chan)
        BY <3>1 DEF SendOutcomes, Failure, Result
      <3>3. op.chan = c => Len(wire[c]) < Cap[c]
        BY <3>1, <3>2 DEF SendOutcomes
      <3>4. w \in Seq(Message) /\ Len(w) \in Nat
        BY <1>1
      <3>5. Len(Append(w, m)) = Len(w) + 1
        <4> HIDE DEF m, w
        <4> QED
          BY <3>4
      <3>6. CASE op.chan = c
        <4>1. wire'[c] = Append(w, m)
          BY <1>1, <3>1, <3>6
        <4>2. Len(w) < Cap[c]
          BY <3>3, <3>6
        <4> HIDE DEF m, w
        <4> QED
          BY <1>1, <3>4, <3>5, <4>1, <4>2
      <3>7. CASE op.chan # c
        BY <1>1, <3>1, <3>7
      <3> QED
        BY <3>6, <3>7
    <2> QED
      BY <2>1, <2>2
  <1>4. ASSUME NEW d, wire[d] # <<>>, wire' = [wire EXCEPT ![d] = Tail(@)]
        PROVE  Len(wire'[c]) <= Cap[c]
    <2>1. CASE d = c
      <3> DEFINE w == wire[c]
      <3>1. w \in Seq(Message) /\ w # <<>> /\ wire'[c] = Tail(w) /\ Len(w) <= Cap[c]
        BY <1>1, <1>4, <2>1
      <3>2. Len(Tail(w)) = Len(w) - 1 /\ Len(w) \in Nat
        <4> HIDE DEF w
        <4> QED
          BY <3>1
      <3> HIDE DEF w
      <3> QED
        BY <1>1, <3>1, <3>2
    <2>2. CASE d # c
      BY <1>1, <1>4, <2>2
    <2> QED
      BY <2>1, <2>2
  <1> QED
    BY <1>2, <1>3, <1>4, StepWire DEF WireStep

\* A replay of a log with a list for each thread never finds the lock of the
\* lists poisoned.
ReplayReady ==
    /\ mode = "Record" => ~poisoned
    /\ mode = "Replay" => saved \subseteq replayer \cup reading
    /\ mode = "Replay" /\ saved = Id => ~poisoned

LEMMA LogStepReady ==
    ASSUME LogTypeOK, DrainedOnce, ReplayReady, LogStep \/ UNCHANGED logVars
    PROVE  ReplayReady'
  <1> USE DEF ReplayReady
  <1>1. CASE UNCHANGED logVars
    BY <1>1 DEF logVars, recordVars, replayVars
  <1>2. ASSUME NEW id \in Id, InitEventSender(id) PROVE ReplayReady'
    BY <1>2 DEF InitEventSender, replayVars
  <1>3. ASSUME NEW id \in Id, NEW entry \in Entry, WriteEvent(id, entry) PROVE ReplayReady'
    BY <1>3 DEF WriteEvent, replayVars
  <1>4. ASSUME NEW id \in Id, InitEventReceiver(id) \/ EventReceiverPanics(id) \/ GetLogEntry(id)
        PROVE  ReplayReady'
    BY <1>4 DEF InitEventReceiver, EventReceiverPanics, GetLogEntry, recordVars
  <1>5. CASE TakeRecorder
    BY <1>5 DEF TakeRecorder, replayVars
  <1>6. CASE Flush
    <2>1. mode = "Record" /\ mode' = mode /\ UNCHANGED poisoned
      BY <1>6, NoIdAssumption DEF Flush, CollectEntry, CollectEntries, DropReceiver, WriteFile,
                                  replayVars, DrainedOnce, LogTypeOK
    <2> QED
      BY <2>1
  <1>7. CASE StartReplay
    BY <1>7 DEF StartReplay
  <1> QED
    BY <1>1, <1>2, <1>3, <1>4, <1>5, <1>6, <1>7 DEF LogStep, ThreadLogStep

\* A thread exits at its end, and falls asleep at the end of its list.
Resting(t) ==
    /\ status[t] = "exited" => Op(t).kind = "halt"
    /\ status[t] = "asleep" => next[t] = Len(log[t])

AllResting == \A t \in Id : Resting(t)

LEMMA StepResting ==
    ASSUME TypeOK, AllResting, NEW t \in Id, ThreadStep(t), Frame(t)
    PROVE  AllResting'
  <1> SUFFICES ASSUME NEW u \in Id PROVE Resting(u)'
    BY DEF AllResting
  <1>0. Resting(u)
    BY DEF AllResting
  <1>1. CASE u # t
    <2>1. Op(u)' = Op(u)
      BY <1>1 DEF Frame, Op
    <2> QED
      BY <1>0, <1>1, <2>1 DEF Frame, Resting
  <1>2. CASE u = t
    <2>1. CASE status'[t] \notin {"exited", "asleep"}
      BY <1>2, <2>1 DEF Resting
    <2>2. CASE Exit(t)
      <3>1. status'[t] = "exited" /\ Op(t)' = Op(t) /\ Op(t).kind = "halt"
        BY <2>2 DEF Exit, Calls, TypeOK, Op, ThreadStep
      <3> QED
        BY <1>2, <3>1 DEF Resting
    <2>3. CASE FallAsleep(t)
      <3>1. /\ status'[t] = "asleep" /\ UNCHANGED <<next, log>> /\ next[t] = Len(log[t])
        BY <2>3 DEF FallAsleep, NoEntryInLog, TypeOK, logVars, recordVars, replayVars
      <3> QED
        BY <1>2, <3>1 DEF Resting
    <2>4. CASE Exit(t) \/ FallAsleep(t) \/ status'[t] \notin {"exited", "asleep"}
      BY <2>1, <2>2, <2>3, <2>4
    <2>5. ASSUME NEW obs, Return(t, obs), status[t] = "running"
          PROVE  status'[t] \notin {"exited", "asleep"}
      BY <2>5 DEF Return
    <2>6. ASSUME HandleDesync(t) \/ Panic(t) PROVE status'[t] \notin {"exited", "asleep"}
      BY <2>6 DEF HandleDesync, Panic, TypeOK
    <2>7. ASSUME status[t] = "running", status' = status
          PROVE  status'[t] \notin {"exited", "asleep"}
      BY <2>7
    <2>8. CASE RecordOp(t) \/ RecordEvent(t) \/ RecordEventFails(t)
      BY <2>4, <2>5, <2>6, <2>7, <2>8
      DEF RecordOp, RecordEvent, RecordEventFails, Calls, At, threadVars
    <2>9. CASE OpenLog(t) \/ ReplayMismatch(t) \/ ReplaySend(t) \/ Deliver(t)
      <3>1. CASE OpenLog(t)
        <4>1. status[t] = "running" /\ (status' = status \/ status' = [status EXCEPT ![t] = "panicked"])
          BY <3>1 DEF OpenLog, AsksLog, Calls, At
        <4> QED
          BY <2>4, <4>1 DEF TypeOK
      <3>2. CASE ReplayMismatch(t)
        BY <2>4, <2>6, <3>2 DEF ReplayMismatch
      <3>3. CASE ReplaySend(t)
        BY <2>4, <2>7, <3>3 DEF ReplaySend, AsksLog, Calls, At
      <3>4. CASE Deliver(t)
        BY <2>4, <2>5, <3>4 DEF Deliver, At
      <3> QED
        BY <2>9, <3>1, <3>2, <3>3, <3>4
    <2>10. CASE ReplayRecv(t) \/ ReceiveExpected(t)
      <3>1. status[t] = "running" /\ (status' = status \/ \E obs : Return(t, obs))
        <4>1. CASE ReplayRecv(t)
          BY <4>1 DEF ReplayRecv, AsksLog, Calls, At
        <4>2. CASE ReceiveExpected(t)
          <5>1. status[t] = "running"
            BY <4>2 DEF ReceiveExpected, At
          <5>2. (\E obs : Return(t, obs)) \/ UNCHANGED threadVars
            BY <4>2, Zenon DEF ReceiveExpected
          <5> QED
            BY <5>1, <5>2 DEF threadVars
        <4> QED
          BY <2>10, <4>1, <4>2
      <3> QED
        BY <2>4, <2>5, <2>7, <3>1
    <2>11. CASE ReceiveTimesOut(t) \/ WakeUp(t) \/ SendDesynced(t)
      BY <2>4, <2>6, <2>11 DEF ReceiveTimesOut, WakeUp, SendDesynced
    <2>12. CASE ReceiveAny(t) \/ Join(t) \/ ExecutionDone(t)
      <3>1. status[t] = "running" /\ (status' = status \/ \E obs : Return(t, obs))
        BY <2>12 DEF ReceiveAny, Join, ExecutionDone, Calls, At
      <3> QED
        BY <2>4, <2>5, <2>7, <3>1
    <2> QED
      BY <2>4, <2>8, <2>9, <2>10, <2>11, <2>12 DEF ThreadStep
  <1> QED
    BY <1>1, <1>2

-----------------------------------------------------------------------------
(* The invariant of the order of events *)

Order == Timed /\ JoinedDead /\ WireFits /\ ReplayReady /\ AllResting

LEMMA OrderInit == Init => Order
  <1> SUFFICES ASSUME Init PROVE Order
    OBVIOUS
  <1>1. /\ mode = "Record" /\ ~poisoned /\ TypeOK
        /\ \A t \in Id : H(t) = <<>> /\ status[t] = "running"
        /\ \A c \in Chan : wire[c] = <<>>
    <2>1. TypeOK
      BY InvInit DEF IInv
    <2> QED
      BY <2>1 DEF Init, LogInit, ProgramStart, H
  <1>2. WireFits
    BY <1>1, ProgramAssumption DEF WireFits
  <1>3. \A t \in Id : DOMAIN Ops[t] = {}
    <2>1. DOMAIN <<>> = {}
      OBVIOUS
    <2>2. \A t \in Id : Ops[t] = <<>>
      BY <1>1, Zenon DEF Ops
    <2> QED
      BY <2>1, <2>2
  <1>4. JoinedDead
    BY <1>1 DEF JoinedDead
  <1>5. Timed
    <2> DEFINE time == [t \in Id |-> [i \in Nat |-> 0]]
    <2>1. time \in Times
      BY DEF Times
    <2>2. \A t \in Id : \A c, s : Recvs(Ops[t], c, s) = {} /\ Sends(Ops[t], c) = {}
      BY <1>3 DEF Recvs, Sends
    <2> HIDE DEF time
    <2>3. Rising(time, Ops) /\ Joining(Program, time, Ops)
      BY <1>3 DEF Rising, Joining
    <2>4. \A c \in Chan, s \in Id : Crossing(time, Ops, Counted, c, s)
      BY <2>2, OwnerTyped DEF Crossing
    <2>5. IsTimed(Program, time, Ops, Counted)
      BY <2>3, <2>4 DEF IsTimed
    <2>6. \A t \in Id : \A i \in DOMAIN Ops[t] : time[t][i] < 0
      BY <1>3
    <2>7. 0 \in Nat
      OBVIOUS
    <2> QED
      BY <2>1, <2>5, <2>6, <2>7 DEF Timed
  <1> QED
    BY <1>1, <1>2, <1>4, <1>5 DEF Order, ReplayReady, AllResting, Resting

\* Nothing moves, or the process ends.
LEMMA TimedEnds ==
    ASSUME TypeOK, TypeOK', Timed, setup' = setup,
           \A u \in Id : Agree(Ops[u], Ops'[u], Len(Ops'[u])),
           \A u \in Id : log'[u] = log[u] \/ (mode = "Record" /\ u \notin saved),
           saved \subseteq saved', mode' = "Record" => mode = "Record"
    PROVE  Timed'
  <1>1. ASSUME NEW u \in Id, NEW i \in DOMAIN Ops'[u], i \in Counted'[u] PROVE i \in Counted[u]
    <2> DEFINE h == Ops[u]
               g == Ops'[u]
    <2>1. h \in Seq(Observation) /\ g \in Seq(Observation)
      <3>1. Ops \in Pasts
        BY OpsTyped
      <3>2. (TypeOK => Ops \in Pasts)'
        BY OpsTyped, PTL
      <3> QED
        BY <3>1, <3>2 DEF Pasts
    <2>2. Agree(h, g, Len(g)) /\ i \in DOMAIN g
      BY <1>1
    <2>3. i \in Nat /\ ((mode' = "Record" /\ u \notin saved') \/ LogNo(g, i) <= Len(log'[u]))
      BY <1>1 DEF Counted
    <2> HIDE DEF h, g
    <2>4. Len(g) \in Nat /\ i \in 1 .. Len(g)
      BY <2>1, <2>2, HistoryPositions
    <2>5. LogNo(h, i) = LogNo(g, i) /\ LogNo(g, i) \in Nat
      <3>1. LogNo(h, i) = LogNo(g, i)
        BY <2>1, <2>2, <2>4, SameEvent
      <3>2. Before(LogPos(g), i) \in Nat
        BY <2>3, BeforeType
      <3> QED
        BY <3>1, <3>2 DEF LogNo
    <2>6. (mode = "Record" /\ u \notin saved) \/ LogNo(h, i) <= Len(log[u])
      <3>1. CASE mode' = "Record" /\ u \notin saved'
        BY <3>1
      <3>2. CASE LogNo(g, i) <= Len(log'[u])
        <4>1. log'[u] = log[u] \/ (mode = "Record" /\ u \notin saved)
          OBVIOUS
        <4> QED
          BY <2>5, <3>2, <4>1
      <3> QED
        BY <2>3, <3>1, <3>2
    <2> QED
      BY <2>3, <2>6 DEF Counted, h
  <1> QED
    BY <1>1, TimedStays

LEMMA FlushOrder ==
    ASSUME FInv, DrainedOnce, Order, TypeOK', FlushLog
    PROVE  Timed' /\ JoinedDead' /\ WireFits' /\ AllResting'
  <1>0. /\ TypeOK /\ LogTypeOK /\ UNCHANGED <<setup, chanVars, threadVars, recorded, desynced>>
        /\ \A u \in Id : H(u)' = H(u) /\ Op(u)' = Op(u)
        /\ Program' = Program
    BY DEF FInv, IInv, TypeOK, FlushLog, threadVars, H, Program, Op
  <1>1. mode = "Record" /\ mode' = "Record" /\ next' = next
    BY <1>0, NoIdAssumption
    DEF LogTypeOK, DrainedOnce, FlushLog, Flush, CollectEntry, CollectEntries, DropReceiver,
        WriteFile, replayVars
  <1>2. /\ saved \subseteq saved'
        /\ \A u \in Id : log'[u] = log[u] \/ u \notin saved
    BY <1>0, NoIdAssumption
    DEF FlushLog, Flush, CollectEntry, CollectEntries, DropReceiver, WriteFile, DrainedOnce, LogTypeOK
  <1>3. Ops' = Ops
    BY <1>0, <1>1 DEF Ops
  <1>4. \A u \in Id : Agree(Ops[u], Ops'[u], Len(Ops'[u]))
    BY <1>0, <1>3, OpsTyped, AgreeSelf DEF Pasts
  <1>5. \A u \in Id : log'[u] = log[u] \/ (mode = "Record" /\ u \notin saved)
    BY <1>1, <1>2
  <1>6. Timed'
    BY <1>0, <1>1, <1>2, <1>4, <1>5, TimedEnds DEF Order
  <1>7. JoinedDead'
    BY <1>0, <1>1 DEF Order, JoinedDead, Dead, threadVars
  <1>8. WireFits'
    BY <1>0 DEF Order, WireFits, chanVars
  <1>9. AllResting'
    <2>1. \A u \in Id : status[u] # "asleep"
      BY <1>1 DEF FInv, Places, InRecord
    <2> QED
      BY <1>0, <2>1 DEF Order, AllResting, Resting, threadVars
  <1> QED
    BY <1>6, <1>7, <1>8, <1>9

LEMMA RestartOrder ==
    ASSUME FInv, Order, TypeOK', Restart
    PROVE  Timed' /\ JoinedDead' /\ WireFits' /\ AllResting'
  <1>0. /\ mode = "Record" /\ mode' = "Replay" /\ UNCHANGED <<setup, saved, log>>
        /\ recorded' = hist /\ TypeOK
        /\ \A t \in Id : status'[t] = "running"
        /\ \A c \in Chan : wire'[c] = <<>>
    BY DEF Restart, StartReplay, FInv, IInv
  <1>1. ASSUME NEW u \in Id PROVE Agree(Ops[u], Ops'[u], Len(Ops'[u]))
    <2> DEFINE h == hist[u]
               k == H(u)
    <2>1. Ops[u] = k /\ Ops'[u] = h
      BY <1>0 DEF Ops
    <2>2. h \in Seq(Observation) /\ pending[u] \in Observation
      BY <1>0, HTyped
    <2>3. k = h \/ k = Append(h, pending[u])
      BY HIsHistory
    <2> HIDE DEF h, k
    <2>4. Agree(h, h, Len(h)) /\ Agree(Append(h, pending[u]), h, Len(h))
      BY <2>2, AppendAgrees, AgreeSelf
    <2> QED
      BY <2>1, <2>3, <2>4
  <1>2. Timed'
    <2>1. \A u \in Id : log'[u] = log[u] \/ (mode = "Record" /\ u \notin saved)
      BY <1>0
    <2> QED
      BY <1>0, <1>1, <2>1, TimedEnds DEF Order
  <1>3. WireFits'
    BY <1>0, ProgramAssumption DEF WireFits
  <1> QED
    BY <1>0, <1>2, <1>3 DEF JoinedDead, AllResting, Resting

LEMMA UnchangedOrder ==
    ASSUME FInv, Order, TypeOK', UNCHANGED vars
    PROVE  Timed' /\ JoinedDead' /\ WireFits' /\ AllResting'
  <1>0. /\ UNCHANGED <<setup, mode, log, saved, next>> /\ TypeOK
        /\ UNCHANGED <<wire, buffer, status, at, pending, expected, hist, recorded, desynced>>
    BY DEF vars, logVars, recordVars, replayVars, chanVars, threadVars, FInv, IInv
  <1>1. /\ \A t \in Id : H(t)' = H(t) /\ Op(t)' = Op(t)
        /\ Program' = Program
    BY <1>0 DEF H, Op, Program
  <1>2. Ops' = Ops
    BY <1>0, <1>1 DEF Ops
  <1>3. \A u \in Id : Agree(Ops[u], Ops'[u], Len(Ops'[u]))
    BY <1>0, <1>2, OpsTyped, AgreeSelf DEF Pasts
  <1>4. \A u \in Id : log'[u] = log[u] \/ (mode = "Record" /\ u \notin saved)
    BY <1>0
  <1>5. Timed'
    BY <1>0, <1>3, <1>4, TimedEnds DEF Order
  <1> QED
    BY <1>0, <1>1, <1>5 DEF Order, JoinedDead, Dead, WireFits, AllResting, Resting

OrderInv == FaithfulInv /\ Order

LEMMA OrderStep ==
    ASSUME WellFormedProgram, OwnReceivers PROVE OrderInv /\ [Next]_vars => OrderInv'
  <1> SUFFICES ASSUME OrderInv, [Next]_vars PROVE OrderInv'
    OBVIOUS
  <1>0. /\ FaithfulInv /\ FInv /\ DrainedOnce /\ IInv /\ TypeOK /\ LogTypeOK
        /\ Order /\ Timed /\ JoinedDead /\ WireFits /\ ReplayReady /\ AllResting
    BY DEF OrderInv, Order, FaithfulInv, FInv, IInv, TypeOK
  <1>1. FaithfulInv' /\ TypeOK'
    BY <1>0, FaithStep DEF FaithfulInv, FInv, IInv
  <1>2. ReplayReady'
    <2>1. LogStep \/ UNCHANGED logVars
      BY <1>0, StepLogStep DEF Next, FlushLog, Restart, LogStep, vars
    <2> QED
      BY <1>0, <2>1, LogStepReady
  <1>3. ASSUME NEW t \in Id, ThreadStep(t)
        PROVE  Timed' /\ JoinedDead' /\ WireFits' /\ AllResting'
    <2>1. Frame(t)
      BY <1>0, <1>3, StepFrame
    <2>2. Effect(t)
      BY <1>0, <1>3, StepEffect DEF FInv
    <2>3. Timed'
      BY <1>0, <1>1, <1>3, <2>1, <2>2, StepTimed
    <2>4. JoinedDead'
      BY <1>0, <1>1, <1>3, <2>1, <2>2, StepJoinedDead
    <2>5. WireFits'
      BY <1>0, <1>3, StepWireFits
    <2>6. AllResting'
      BY <1>0, <1>3, <2>1, StepResting
    <2> QED
      BY <2>3, <2>4, <2>5, <2>6
  <1>4. Timed' /\ JoinedDead' /\ WireFits' /\ AllResting'
    BY <1>0, <1>1, <1>3, FlushOrder, RestartOrder, UnchangedOrder DEF Next
  <1> QED
    BY <1>1, <1>2, <1>4 DEF OrderInv, Order

-----------------------------------------------------------------------------
(* What a consistent cut keeps *)

LEMMA NumberIs ==
    ASSUME NEW t \in Id, recorded[t] \in Seq(Observation), NEW i \in DOMAIN recorded[t]
    PROVE  /\ Number(t, i) = Before(LogPos(recorded[t]), i + 1)
           /\ i \in LogPos(recorded[t]) => Number(t, i) = LogNo(recorded[t], i)
  <1> DEFINE g == recorded[t]
             P == LogPos(g)
  <1>1. Len(g) \in Nat /\ DOMAIN g = 1 .. Len(g) /\ i \in Nat \ {0}
    BY HistoryPositions
  <1>2. (i + 1) - 1 = i /\ 1 .. i \subseteq DOMAIN g
    BY <1>1
  <1>3. {j \in 1 .. i : recorded[t][j].op \in LoggedKind} = {j \in 1 .. (i + 1) - 1 : j \in P}
    BY <1>2 DEF LogPos
  <1>4. Number(t, i) = Before(P, i + 1)
    BY <1>3, Zenon DEF Number, Before
  <1>5. Before(P, i + 1) = Before(P, i) + (IF i \in P THEN 1 ELSE 0) /\ Before(P, i) \in Nat
    <2> HIDE DEF P
    <2> QED
      BY <1>1, BeforeNext, BeforeType
  <1> HIDE DEF P, g
  <1>6. i \in P => Number(t, i) = 1 + Before(P, i)
    BY <1>4, <1>5
  <1> QED
    BY <1>4, <1>6 DEF LogNo, P, g

LEMMA CountDown ==
    ASSUME NEW n \in Nat, NEW P, P \subseteq 1 .. n, NEW Q, Q \subseteq P,
           \A i \in Q, j \in P : j < i => j \in Q
    PROVE  /\ \A i \in Q : Before(P, i) < Cardinality(Q)
           /\ \A k \in Nat : k < Cardinality(Q) => \E j \in Q : Before(P, j) = k
  <1>1. Q \subseteq 1 .. n /\ n + 1 \in Nat
    OBVIOUS
  <1>2. Cardinality(Q) = Before(Q, n + 1) /\ Before(Q, n + 1) \in Nat
    BY <1>1, BeforeIsCount, BeforeType
  <1>3. ASSUME NEW i \in Q PROVE Before(P, i) = Before(Q, i) /\ i \in Nat \ {0} /\ i < n + 1
    <2>1. i \in 1 .. n
      BY <1>1
    <2>2. \A j \in 1 .. i - 1 : j \in P <=> j \in Q
      BY <2>1
    <2> QED
      BY <2>1, <2>2, BeforeAgrees
  <1>4. ASSUME NEW i \in Q PROVE Before(P, i) < Cardinality(Q)
    BY <1>1, <1>2, <1>3, BeforeIncreases
  <1>5. ASSUME NEW k \in Nat, k < Cardinality(Q) PROVE \E j \in Q : Before(P, j) = k
    <2>1. k + 1 \in 1 .. Before(Q, n + 1)
      BY <1>2, <1>5
    <2>2. \A m \in 1 .. Before(Q, n + 1) : \E j \in Q : Before(Q, j) = m - 1
      BY BeforeReaches
    <2>3. PICK j \in Q : Before(Q, j) = k + 1 - 1
      BY <2>1, <2>2
    <2>4. k + 1 - 1 = k
      OBVIOUS
    <2> QED
      BY <1>3, <2>3, <2>4
  <1> QED
    BY <1>4, <1>5

\* Some logged results of a history, and those of them that the list has.
LEMMA KeptOf ==
    ASSUME NEW g \in Seq(Observation), NEW P, P \subseteq LogPos(g), NEW n \in Nat,
           NEW Q, \A i : i \in Q <=> i \in P /\ LogNo(g, i) <= n
    PROVE  /\ \A i \in P : LogNo(g, i) <= n => Before(P, i) < Cardinality(Q)
           /\ \A k \in Nat : k < Cardinality(Q) =>
                  \E j \in P : Before(P, j) = k /\ LogNo(g, j) <= n
  <1>1. Len(g) \in Nat /\ P \subseteq 1 .. Len(g)
    BY HistoryPositions DEF LogPos
  <1>2. ASSUME NEW i \in Q, NEW j \in P, j < i PROVE j \in Q
    <2>0. i \in P /\ j \in P
      OBVIOUS
    <2>1. i \in Nat /\ j \in Nat /\ j <= i
      BY <1>1, <1>2, <2>0
    <2>2. /\ Before(LogPos(g), j) <= Before(LogPos(g), i)
          /\ Before(LogPos(g), j) \in Nat /\ Before(LogPos(g), i) \in Nat
      BY <1>2, <2>1, BeforeMonotone, BeforeType
    <2>3. LogNo(g, i) <= n
      OBVIOUS
    <2> DEFINE x == Before(LogPos(g), j)
               y == Before(LogPos(g), i)
    <2>4. x \in Nat /\ y \in Nat /\ x <= y /\ 1 + y <= n
      BY <2>2, <2>3 DEF LogNo
    <2>5. 1 + x <= n
      <3> HIDE DEF x, y
      <3> QED
        BY <2>4
    <2> QED
      BY <2>5 DEF LogNo
  <1>3. Q \subseteq P
    OBVIOUS
  <1>4. /\ \A i \in Q : Before(P, i) < Cardinality(Q)
        /\ \A k \in Nat : k < Cardinality(Q) => \E j \in Q : Before(P, j) = k
    BY <1>1, <1>2, <1>3, CountDown
  <1> QED
    BY <1>4

LEMMA SendsAreKept ==
    ASSUME TypeOK, NEW t \in Id, ~SendFailed(recorded[t]), NEW c \in Chan
    PROVE  /\ \A i \in Sends(recorded[t], c) : LogNo(recorded[t], i) <= Len(log[t]) =>
                  Before(Sends(recorded[t], c), i) < Cardinality(SendsKept(t, c))
           /\ \A k \in Nat : k < Cardinality(SendsKept(t, c)) =>
                  \E j \in Sends(recorded[t], c) : /\ Before(Sends(recorded[t], c), j) = k
                                                   /\ LogNo(recorded[t], j) <= Len(log[t])
  <1> DEFINE g == recorded[t]
             P == Sends(g, c)
             n == Len(log[t])
             Q == SendsKept(t, c)
  <1>1. g \in Seq(Observation) /\ n \in Nat
    BY ListTyped DEF TypeOK, LogTypeOK
  <1>2. P \subseteq LogPos(g)
    BY DEF Sends, LogPos, LoggedKind
  <1>3. ASSUME NEW i PROVE i \in Q <=> i \in P /\ LogNo(g, i) <= n
    <2>1. i \in LogPos(g) => i \in DOMAIN g /\ Number(t, i) = LogNo(g, i)
      BY <1>1, NumberIs DEF LogPos
    <2>2. ASSUME i \in DOMAIN g, g[i].op = "send" PROVE g[i].error = "none"
      <3>1. g[i] \in Observation /\ g[i].error # "SendError"
        BY <1>1, <2>2 DEF SendFailed
      <3> QED
        BY <2>2, <3>1 DEF Observation, SendResult, RecvResult, RecvKind, NoResult, Done
    <2>3. i \in Q <=> i \in LogPos(g) /\ Number(t, i) <= n /\ g[i].op = "send" /\ g[i].chan = c
      BY DEF SendsKept, Kept, LogPos
    <2>4. i \in P <=> i \in LogPos(g) /\ g[i].op = "send" /\ g[i].chan = c
      BY <2>2 DEF Sends, LogPos, LoggedKind
    <2> QED
      BY <2>1, <2>3, <2>4
  <1> HIDE DEF g, P, n, Q
  <1>4. /\ \A i \in P : LogNo(g, i) <= n => Before(P, i) < Cardinality(Q)
        /\ \A k \in Nat : k < Cardinality(Q) => \E j \in P : Before(P, j) = k /\ LogNo(g, j) <= n
    BY <1>1, <1>2, <1>3, KeptOf
  <1> QED
    BY <1>4 DEF g, P, n, Q

LEMMA RecvsAreKept ==
    ASSUME TypeOK, NEW c \in Chan, NEW s \in Id, NEW o, o = Owner[c]
    PROVE  /\ \A i \in Recvs(recorded[o], c, s) : LogNo(recorded[o], i) <= Len(log[o]) =>
                  Before(Recvs(recorded[o], c, s), i) < Cardinality(RecvsKept(c, s))
           /\ \A k \in Nat : k < Cardinality(RecvsKept(c, s)) =>
                  \E j \in Recvs(recorded[o], c, s) : /\ Before(Recvs(recorded[o], c, s), j) = k
                                                      /\ LogNo(recorded[o], j) <= Len(log[o])
  <1> DEFINE g == recorded[o]
             P == Recvs(g, c, s)
             n == Len(log[o])
             Q == RecvsKept(c, s)
  <1>1. o \in Id /\ g \in Seq(Observation) /\ n \in Nat
    BY OwnerTyped, ListTyped DEF TypeOK, LogTypeOK
  <1>2. P \subseteq LogPos(g)
    BY DEF Recvs, LogPos, LoggedKind
  <1>3. ASSUME NEW i PROVE i \in Q <=> i \in P /\ LogNo(g, i) <= n
    <2>1. i \in LogPos(g) => i \in DOMAIN g /\ Number(o, i) = LogNo(g, i)
      BY <1>1, NumberIs DEF LogPos
    <2>2. i \in Q <=> /\ i \in LogPos(g) /\ Number(o, i) <= n
                      /\ g[i].op \in RecvKind /\ g[i].chan = c /\ g[i].from = s
      BY DEF RecvsKept, Kept, LogPos
    <2>3. i \in P <=> i \in LogPos(g) /\ g[i].op \in RecvKind /\ g[i].chan = c /\ g[i].from = s
      BY DEF Recvs, LogPos, LoggedKind
    <2> QED
      BY <2>1, <2>2, <2>3
  <1> HIDE DEF g, P, n, Q
  <1>4. /\ \A i \in P : LogNo(g, i) <= n => Before(P, i) < Cardinality(Q)
        /\ \A k \in Nat : k < Cardinality(Q) => \E j \in P : Before(P, j) = k /\ LogNo(g, j) <= n
    BY <1>1, <1>2, <1>3, KeptOf
  <1> QED
    BY <1>4 DEF g, P, n, Q

\* The first message of a recording that a replay has not come to yet.
LEMMA SendIsAhead ==
    ASSUME NEW h \in Seq(Observation), NEW g \in Seq(Observation), IsFaithful(h, g),
           NEW c, NEW j \in Sends(g, c), Before(Sends(g, c), j) = Sent(h, c)
    PROVE  Len(h) < j
  <1>1. /\ Len(h) \in Nat /\ Len(g) \in Nat /\ DOMAIN g = 1 .. Len(g) /\ j \in 1 .. Len(g)
        /\ j \in Nat
    BY HistoryPositions DEF Sends
  <1> SUFFICES ASSUME j <= Len(h) PROVE FALSE
    BY <1>1
  <1>2. Agree(h, g, j) /\ j \in 1 .. j /\ j \in 1 .. j + 1
    BY <1>1, WithinRecording
  <1>3. j \in Sends(h, c)
    BY <1>1, <1>2, SameSend
  <1>4. Before(Sends(h, c), j) = Before(Sends(g, c), j)
    BY <1>1, <1>2, SameSendNo
  <1>5. Before(Sends(h, c), j) < Sent(h, c)
    BY <1>3, SendIsSent
  <1>6. Sent(h, c) \in Nat
    BY CountsTyped
  <1> QED
    BY <1>4, <1>5, <1>6

LEMMA RecvIsAhead ==
    ASSUME NEW h \in Seq(Observation), NEW g \in Seq(Observation), IsFaithful(h, g),
           NEW c, NEW s, NEW j \in Recvs(g, c, s), Before(Recvs(g, c, s), j) = Got(h, c, s)
    PROVE  Len(h) < j
  <1>1. /\ Len(h) \in Nat /\ Len(g) \in Nat /\ DOMAIN g = 1 .. Len(g) /\ j \in 1 .. Len(g)
        /\ j \in Nat
    BY HistoryPositions DEF Recvs
  <1> SUFFICES ASSUME j <= Len(h) PROVE FALSE
    BY <1>1
  <1>2. Agree(h, g, j) /\ j \in 1 .. j /\ j \in 1 .. j + 1
    BY <1>1, WithinRecording
  <1>3. j \in Recvs(h, c, s)
    BY <1>1, <1>2, SameRecv
  <1>4. Before(Recvs(h, c, s), j) = Before(Recvs(g, c, s), j)
    BY <1>1, <1>2, SameRecvNo
  <1>5. Before(Recvs(h, c, s), j) < Got(h, c, s)
    <2>1. j \in Nat \ {0} /\ Len(h) + 1 \in Nat /\ j < Len(h) + 1
      BY <1>1
    <2> QED
      BY <1>3, <2>1, BeforeIncreases DEF Got
  <1>6. Got(h, c, s) \in Nat
    BY CountsTyped
  <1> QED
    BY <1>4, <1>5, <1>6

\* A replay that has not come to a result in the list has a next result there.
LEMMA ListGoesOn ==
    ASSUME NEW h \in Seq(Observation), NEW g \in Seq(Observation), IsFaithful(h, g),
           NEW n \in Nat, NEW j \in LogPos(g), Len(h) < j, LogNo(g, j) <= n
    PROVE  Len(h) + 1 \in DOMAIN g /\ Logs(h) < n
  <1>1. /\ Len(h) \in Nat /\ Len(g) \in Nat /\ DOMAIN g = 1 .. Len(g) /\ j \in 1 .. Len(g)
        /\ j \in Nat /\ Len(h) + 1 \in Nat /\ Len(h) + 1 <= j
    BY HistoryPositions DEF LogPos
  <1>2. Agree(h, g, Len(h)) /\ Len(h) + 1 \in 1 .. Len(h) + 1
    BY <1>1, WithinRecording
  <1>3. Before(LogPos(h), Len(h) + 1) = Before(LogPos(g), Len(h) + 1)
    BY <1>1, <1>2, SameLogNo
  <1>4. Before(LogPos(g), Len(h) + 1) <= Before(LogPos(g), j)
    BY <1>1, BeforeMonotone
  <1>5. Before(LogPos(g), Len(h) + 1) \in Nat /\ Before(LogPos(g), j) \in Nat
    BY <1>1, BeforeType
  <1> DEFINE x == Before(LogPos(g), Len(h) + 1)
             y == Before(LogPos(g), j)
  <1>6. Logs(h) = x /\ LogNo(g, j) = 1 + y
    BY <1>3 DEF Logs, LogNo
  <1>7. x < n
    <2>1. x \in Nat /\ y \in Nat /\ x <= y /\ 1 + y <= n
      BY <1>4, <1>5, <1>6
    <2> HIDE DEF x, y
    <2> QED
      BY <2>1
  <1> QED
    BY <1>1, <1>6, <1>7

-----------------------------------------------------------------------------
(* Who waits in a replay, and for whom *)

\* A replay that has no reason to desync.
Calm ==
    /\ FInv /\ AllResting /\ Playing /\ ConsistentCut
    /\ \A t \in Id : status[t] # "panicked"

\* Threads recorded to their end, and all that they join.
Closed(E) ==
    /\ E \subseteq {t \in Id : RecordedToEnd(t)}
    /\ \A t \in Id : \A i \in DOMAIN recorded[t] :
           /\ recorded[t][i].op = "join"
           /\ t \in E \/ Number(t, i) < Len(log[t])
           => Code(Program, t, SubSeq(recorded[t], 1, i - 1)).thread \in E

\* A thread that has something left to do in the replay, and when it did that.
Behind(E, u) ==
    /\ Len(hist[u]) + 1 \in DOMAIN recorded[u]
    /\ Logs(hist[u]) < Len(log[u]) \/ u \in E

Due(time, u) == time[u][Len(hist[u]) + 1]

\* v has not come to j yet, which its list has and which it did before what u
\* has to do.
Owes(time, u, v, j) ==
    /\ v \in Id /\ j \in LogPos(recorded[v]) /\ Len(hist[v]) < j
    /\ LogNo(recorded[v], j) <= Len(log[v])
    /\ time[v][j] < Due(time, u)

OrderOf(time) == time \in Times /\ IsTimed(Program, time, recorded, Counted)

LEMMA ListEnds ==
    ASSUME NEW h \in Seq(Observation), NEW g \in Seq(Observation), Agree(h, g, Len(h)),
           Len(h) + 1 \in LogPos(g)
    PROVE  Logs(h) < Before(LogPos(g), Len(g) + 1)
  <1>1. /\ Len(h) \in Nat /\ Len(g) \in Nat /\ Len(h) + 1 \in 1 .. Len(g)
        /\ Len(h) + 1 \in Nat \ {0} /\ Len(g) + 1 \in Nat /\ Len(h) + 1 < Len(g) + 1
        /\ Len(h) + 1 \in 1 .. Len(h) + 1
    BY HistoryPositions DEF LogPos
  <1>2. Before(LogPos(h), Len(h) + 1) = Before(LogPos(g), Len(h) + 1)
    BY <1>1, SameLogNo
  <1>3. Before(LogPos(g), Len(h) + 1) < Before(LogPos(g), Len(g) + 1)
    BY <1>1, BeforeIncreases
  <1> QED
    BY <1>2, <1>3 DEF Logs

LEMMA BehindActs ==
    ASSUME Calm, NEW E, Closed(E), NEW u \in Id, Behind(E, u)
    PROVE  /\ status[u] = "running"
           /\ at[u] \in {"idle", "deliver", "receive"}
           /\ Agree(hist[u], recorded[u], Len(hist[u]))
           /\ ResultOf(Op(u), Then(u)) /\ Then(u) \in Observation
  <1> DEFINE h == hist[u]
             g == recorded[u]
             p == Program
             r == Len(h) + 1
  <1>0. FInv /\ Playing /\ TypeOK /\ Inside(u) /\ InReplay(u) /\ InEither(u) /\ Resting(u)
        /\ ~desynced /\ status[u] # "panicked"
    BY DEF Calm, FInv, IInv, InsideOp, Playing, Places, AllResting
  <1>1. /\ h \in Seq(Observation) /\ g \in Seq(Observation)
        /\ Follows(p, u, g) /\ IsFaithful(h, g) /\ Op(u) = Code(p, u, h) /\ Cursor(u)
        /\ Len(h) + 1 \in DOMAIN g
    BY <1>0, Replaying DEF Behind
  <1>2. Then(u) = g[Len(h) + 1] /\ Then(u) \in Observation
    BY <1>1 DEF Then
  <1>3. Agree(h, g, Len(h)) /\ ResultOf(Op(u), Then(u))
    <2> HIDE DEF h, g, p
    <2> QED
      BY <1>1, <1>2, NextRecorded
  <1>4. Op(u).kind # "halt"
    BY <1>3 DEF ResultOf, LoggedKind, RecvKind, NoResult, Done
  <1>5. Op(u).kind \in LoggedKind => Logs(h) < Len(log[u])
    <2> SUFFICES ASSUME Op(u).kind \in LoggedKind, u \in E PROVE Logs(h) < Len(log[u])
      BY DEF Behind
    <2>1. Number(u, Len(g)) = Len(log[u])
      BY DEF Closed, RecordedToEnd
    <2>2. Len(h) + 1 \in LogPos(g)
      BY <1>1, <1>2, <1>3 DEF ResultOf, LogPos
    <2>3. Logs(h) < Before(LogPos(g), Len(g) + 1)
      <3> HIDE DEF h, g
      <3> QED
        BY <1>1, <1>3, <2>2, ListEnds
    <2>4. Len(g) \in DOMAIN g
      BY <1>1, HistoryPositions
    <2>5. Number(u, Len(g)) = Before(LogPos(g), Len(g) + 1)
      BY <1>1, <2>4, NumberIs
    <2> QED
      BY <2>1, <2>3, <2>5
  <1>6. status[u] # "exited"
    BY <1>0, <1>4 DEF Resting
  <1>7. status[u] # "asleep"
    <2> SUFFICES ASSUME status[u] = "asleep" PROVE FALSE
      OBVIOUS
    <2>1. next[u] = Len(log[u]) /\ at[u] = "idle" /\ Op(u).kind \in LoggedKind
      BY <1>0 DEF Resting, InEither, Inside, LoggedKind
    <2>2. next[u] = Logs(h) + 0
      BY <1>1, <2>1 DEF Cursor, Reading
    <2>3. Logs(h) < Len(log[u])
      BY <1>5, <2>1
    <2>4. Logs(h) \in Nat
      BY <1>1, OneMoreLogged, NoResultTyped
    <2> QED
      BY <2>1, <2>2, <2>3, <2>4
  <1>8. status[u] = "running"
    BY <1>0, <1>6, <1>7 DEF TypeOK
  <1>9. at[u] \in {"idle", "deliver", "receive"}
    BY <1>0 DEF TypeOK, InReplay, InEither
  <1> QED
    BY <1>2, <1>3, <1>8, <1>9

LEMMA OweIsBehind ==
    ASSUME Calm, NEW E, NEW time, OrderOf(time), NEW u \in Id, NEW v, NEW j, Owes(time, u, v, j),
           Due(time, u) \in Nat
    PROVE  Behind(E, v) /\ Due(time, v) < Due(time, u)
  <1> DEFINE h == hist[v]
             g == recorded[v]
             n == Len(log[v])
             r == Len(h) + 1
  <1>0. FInv /\ Playing /\ TypeOK /\ v \in Id /\ time \in Times /\ Rising(time, recorded)
    BY DEF Calm, FInv, IInv, Owes, OrderOf, IsTimed
  <1>1. /\ h \in Seq(Observation) /\ g \in Seq(Observation) /\ IsFaithful(h, g) /\ n \in Nat
        /\ j \in LogPos(g) /\ Len(h) < j /\ LogNo(g, j) <= n /\ time[v][j] < Due(time, u)
    BY <1>0, Replaying, ListTyped DEF Owes
  <1>2. Len(h) + 1 \in DOMAIN g /\ Logs(h) < n
    <2> HIDE DEF h, g, n
    <2> QED
      BY <1>1, ListGoesOn
  <1>3. /\ Len(h) \in Nat /\ j \in DOMAIN g /\ j \in Nat /\ r \in Nat /\ r \in DOMAIN g
        /\ (r < j \/ r = j)
    BY <1>1, <1>2, HistoryPositions DEF LogPos
  <1>4. time[v][r] \in Nat /\ time[v][j] \in Nat
    BY <1>0, <1>3 DEF Times
  <1>5. r < j => time[v][r] < time[v][j]
    BY <1>0, <1>3 DEF Rising
  <1>6. Due(time, v) = time[v][r]
    BY DEF Due
  <1> HIDE DEF r
  <1>7. Due(time, v) < Due(time, u)
    BY <1>1, <1>3, <1>4, <1>5, <1>6
  <1> QED
    BY <1>2, <1>7 DEF Behind

\* What a thread in an operation has to do has a number in its list.
LEMMA DueIsCounted ==
    ASSUME Calm, NEW u \in Id, FindsEntry(u), Op(u).kind \in LoggedKind
    PROVE  /\ Len(hist[u]) + 1 \in Counted[u]
           /\ LogNo(recorded[u], Len(hist[u]) + 1) <= Len(log[u])
           /\ Len(hist[u]) + 1 \in Nat \ {0}
  <1>0. FInv /\ Playing /\ mode = "Replay"
    BY DEF Calm, Playing
  <1>1. LogNo(recorded[u], Len(hist[u]) + 1) = Logs(hist[u]) + 1
    BY <1>0, ThenTyped
  <1>2. Logs(hist[u]) + 1 \in DOMAIN log[u] /\ log[u] \in Seq(Entry) /\ hist[u] \in Seq(Observation)
    BY <1>0, Replaying DEF FindsEntry
  <1>3. Logs(hist[u]) + 1 <= Len(log[u])
    BY <1>2, ListTyped
  <1>4. Len(hist[u]) + 1 \in Nat \ {0}
    BY <1>2, HistoryPositions
  <1> QED
    BY <1>0, <1>1, <1>3, <1>4 DEF Counted, Ops

\* A receive waits for a message that the recording sent before.
LEMMA ReceiveWaits ==
    ASSUME WellFormedProgram, OwnReceivers, Calm, NEW time, OrderOf(time), NEW u \in Id,
           status[u] = "running", at[u] = "receive", wire[Op(u).chan] = <<>>
    PROVE  \E s \in Id : \E j \in Sends(recorded[s], Op(u).chan) : Owes(time, u, s, j)
  <1> DEFINE c == Op(u).chan
             s == expected[u]
             r == Len(hist[u]) + 1
             n == Got(hist[u], c, s)
  <1>0. FInv /\ Playing /\ TypeOK /\ Inside(u) /\ InEither(u) /\ ConsistentCut /\ SendsSucceed
    BY DEF Calm, FInv, IInv, InsideOp, Playing, Places
  <1>1. Op(u).kind \in RecvKind /\ Op(u).kind \in LoggedKind /\ s \in Id
    BY <1>0 DEF Inside, LoggedKind
  <1>2. c \in Chan /\ Owner[c] = u
    BY <1>0, <1>1, OpTyped, OpShape, RecvAtHome
  <1>3. FindsEntry(u) /\ Then(u).error = "none" /\ Then(u).from = s
    BY <1>0, HasTakenEntry
  <1>4. /\ Then(u).op \in RecvKind /\ Then(u).chan = c
        /\ Agree(hist[u], recorded[u], Len(hist[u]))
    BY <1>0, <1>1, <1>3, ThenTyped
  <1>5. r \in Counted[u] /\ LogNo(recorded[u], r) <= Len(log[u]) /\ r \in Nat \ {0}
    BY <1>1, <1>3, DueIsCounted
  <1>6. r \in Recvs(recorded[u], c, s)
    BY <1>3, <1>4 DEF Recvs, FindsEntry, Then
  <1>7. hist[u] \in Seq(Observation) /\ recorded[u] \in Seq(Observation) /\ Len(hist[u]) \in Nat
    BY <1>0, Replaying, HistoryPositions
  <1>8. Before(Recvs(recorded[u], c, s), r) = n
    <2>1. r \in 1 .. Len(hist[u]) + 1
      BY <1>7
    <2> QED
      BY <1>4, <1>7, <2>1, SameRecvNo DEF Got
  <1>9. Sent(hist[s], c) = n /\ n \in Nat
    <2>1. Sent(hist[s], c) = n + Len(buffer[c][s]) + Waiting(wire[c], s)
      BY <1>0, <1>1, <1>2, ReplayFlow DEF InOrder
    <2>2. buffer[c][s] = <<>>
      BY <1>0 DEF InEither
    <2>3. Waiting(wire[c], s) = 0
      BY EmptyHistory
    <2>4. n \in Nat
      BY <1>7, CountsTyped
    <2>5. Len(buffer[c][s]) = 0
      BY <2>2
    <2> HIDE DEF n
    <2> QED
      BY <2>1, <2>3, <2>4, <2>5
  <1>10. n < Cardinality(RecvsKept(c, s))
    <2> HIDE DEF c, s, n, r
    <2>1. \A i \in Recvs(recorded[u], c, s) : LogNo(recorded[u], i) <= Len(log[u]) =>
              Before(Recvs(recorded[u], c, s), i) < Cardinality(RecvsKept(c, s))
      BY <1>0, <1>1, <1>2, RecvsAreKept
    <2> QED
      BY <1>5, <1>6, <1>8, <2>1
  <1>11. Cardinality(RecvsKept(c, s)) <= Cardinality(SendsKept(s, c))
    BY <1>0, <1>1, <1>2 DEF ConsistentCut
  <1>12. Cardinality(RecvsKept(c, s)) \in Nat /\ Cardinality(SendsKept(s, c)) \in Nat
    <2>1. IsFiniteSet(1 .. Len(recorded[u])) /\ IsFiniteSet(1 .. Len(recorded[s]))
      BY <1>0, <1>1, HistoryPositions, FS_Interval DEF TypeOK
    <2>2. DOMAIN recorded[u] = 1 .. Len(recorded[u]) /\ DOMAIN recorded[s] = 1 .. Len(recorded[s])
      BY <1>0, <1>1, HistoryPositions DEF TypeOK
    <2>3. RecvsKept(c, s) \subseteq DOMAIN recorded[u] /\ SendsKept(s, c) \subseteq DOMAIN recorded[s]
      BY <1>2 DEF RecvsKept, SendsKept, Kept
    <2> QED
      BY <2>1, <2>2, <2>3, FS_Subset, FS_CardinalityType
  <1>13. n < Cardinality(SendsKept(s, c))
    <2> HIDE DEF n
    <2> QED
      BY <1>9, <1>10, <1>11, <1>12
  <1>14. PICK j \in Sends(recorded[s], c) : /\ Before(Sends(recorded[s], c), j) = n
                                            /\ LogNo(recorded[s], j) <= Len(log[s])
    <2>1. ~SendFailed(recorded[s])
      BY <1>0, <1>1 DEF SendsSucceed
    <2> QED
      BY <1>0, <1>1, <1>2, <1>9, <1>13, <2>1, SendsAreKept
  <1>15. Len(hist[s]) < j
    <2>1. hist[s] \in Seq(Observation) /\ recorded[s] \in Seq(Observation)
          /\ IsFaithful(hist[s], recorded[s])
      BY <1>0, <1>1, Replaying
    <2> QED
      BY <1>9, <1>14, <2>1, SendIsAhead
  <1>16. time[s][j] < time[u][r]
    <2>1. Crossing(time, recorded, Counted, c, s)
      BY <1>1, <1>2 DEF OrderOf, IsTimed
    <2> QED
      BY <1>2, <1>5, <1>6, <1>8, <1>14, <2>1 DEF Crossing
  <1>17. j \in LogPos(recorded[s])
    BY DEF Sends, LogPos, LoggedKind
  <1> QED
    BY <1>1, <1>14, <1>15, <1>16, <1>17 DEF Owes, Due

\* All that is in a queue is from one sender.
LEMMA WaitsAlone ==
    ASSUME NEW w \in Seq(Message), NEW s, \A i \in DOMAIN w : w[i].from = s
    PROVE  Waiting(w, s) = Len(w)
  <1>1. Len(w) \in Nat /\ DOMAIN w = 1 .. Len(w) /\ (Len(w) + 1) - 1 = Len(w)
    OBVIOUS
  <1>2. OnWire(w, s) = 1 .. Len(w)
    BY <1>1 DEF OnWire
  <1>3. {j \in 1 .. (Len(w) + 1) - 1 : j \in OnWire(w, s)} = 1 .. Len(w)
    BY <1>1, <1>2
  <1>4. \A n \in Nat : Cardinality(1 .. n) = n
    BY FS_Interval
  <1>5. Waiting(w, s) = Cardinality({j \in 1 .. (Len(w) + 1) - 1 : j \in OnWire(w, s)})
    BY DEF Waiting, Before
  <1>6. Waiting(w, s) = Cardinality(1 .. Len(w))
    BY <1>3, <1>5
  <1> QED
    BY <1>1, <1>4, <1>6

\* Who sends on a channel holds a Sender of it.
HoldsSenders ==
    \A s \in Setups : \A t \in Id : \A h \in Seq(Observation) :
        LET op == Code(s.program, t, h) IN
        op.kind = "send" => t \in Senders[op.chan]

\* A bounded channel has one Sender: the Clone of crossbeam_channel.rs panics
\* for it, and that of mpsc.rs warns that its blocking is not preserved.
OneProducer == \A c \in Bounded : \A s, r \in Senders[c] : s = r

LEMMA SentBySender ==
    ASSUME HoldsSenders, TypeOK, NEW t \in Id, NEW h \in Seq(Observation), Follows(Program, t, h),
           NEW c \in Chan, NEW j \in Sends(h, c)
    PROVE  t \in Senders[c]
  <1> DEFINE k == SubSeq(h, 1, j - 1)
             op == Code(Program, t, k)
  <1>1. /\ Len(h) \in Nat /\ j \in 1 .. Len(h) /\ j \in DOMAIN h
        /\ h[j].op = "send" /\ h[j].chan = c
    BY HistoryPositions DEF Sends
  <1>2. k \in Seq(Observation)
    BY <1>1
  <1>3. ResultOf(op, h[j])
    BY <1>1 DEF Follows
  <1>4. op.kind = "send" /\ op.chan = c
    <2>1. op.kind \in LoggedKind
      BY <1>1, <1>3 DEF ResultOf, NoResult, Done
    <2> QED
      BY <1>1, <1>3, <2>1 DEF ResultOf
  <1> HIDE DEF k
  <1>5. setup \in Setups
    BY DEF TypeOK
  <1>6. op.kind = "send" => t \in Senders[op.chan]
    BY <1>2, <1>5 DEF HoldsSenders, Program
  <1> QED
    BY <1>4, <1>6

\* A send waits for a receive that the recording did before.
LEMMA SendWaits ==
    ASSUME WellFormedProgram, HoldsSenders, OneProducer, Calm, NEW time, OrderOf(time), NEW u \in Id,
           status[u] = "running", at[u] = "deliver", Outcomes(Op(u)) = {}
    PROVE  \E o, j : Owes(time, u, o, j)
  <1> DEFINE c == Op(u).chan
             o == Owner[c]
             r == Len(hist[u]) + 1
             m == Sent(hist[u], c)
             n == Got(hist[o], c, u)
             z == Cap[c]
  <1>0. FInv /\ Playing /\ TypeOK /\ Inside(u) /\ ConsistentCut /\ SendsSucceed
    BY DEF Calm, FInv, IInv, InsideOp, Playing
  <1>1. Op(u).kind = "send" /\ Op(u).kind \in LoggedKind
    BY <1>0 DEF Inside, LoggedKind
  <1>2. c \in Bounded /\ c \in Chan /\ o \in Id /\ z \in Nat /\ ~(Len(wire[c]) < z)
    <2>1. c \in Chan
      BY <1>0, <1>1, OpTyped, OpShape
    <2>2. SendOutcomes(Op(u)) = {}
      BY <1>1 DEF Outcomes
    <2>3. c \in Bounded /\ ~(Len(wire[c]) < Cap[c])
      BY <2>2 DEF SendOutcomes
    <2> QED
      BY <2>1, <2>3, ProgramAssumption, OwnerTyped
  <1>3. FindsEntry(u)
    BY <1>0, HasTakenEntry
  <1>4. /\ Then(u).op = "send" /\ Then(u).chan = c /\ Then(u) \in SendResult
        /\ Agree(hist[u], recorded[u], Len(hist[u]))
    BY <1>0, <1>1, <1>3, ThenTyped
  <1>5. LogNo(recorded[u], r) <= Len(log[u]) /\ r \in Nat \ {0}
    BY <1>1, <1>3, DueIsCounted
  <1>6. r \in Sends(recorded[u], c)
    <2>1. Then(u).error = "none"
      BY <1>0, <1>3, <1>4 DEF SendResult, SendsSucceed, SendFailed, FindsEntry, Then
    <2> QED
      BY <1>3, <1>4, <2>1 DEF Sends, FindsEntry, Then
  <1>7. /\ hist[u] \in Seq(Observation) /\ recorded[u] \in Seq(Observation) /\ Len(hist[u]) \in Nat
        /\ hist[o] \in Seq(Observation) /\ recorded[o] \in Seq(Observation)
        /\ IsFaithful(hist[o], recorded[o]) /\ wire[c] \in Seq(Message)
    BY <1>0, <1>2, Replaying, HistoryPositions DEF TypeOK
  <1>8. Before(Sends(recorded[u], c), r) = m
    <2>1. r \in 1 .. Len(hist[u]) + 1
      BY <1>7
    <2> QED
      BY <1>4, <1>7, <2>1, SameSendNo DEF Sent
  <1>9. Waiting(wire[c], u) = Len(wire[c])
    <2>1. ASSUME NEW i \in DOMAIN wire[c] PROVE wire[c][i].from = u
      <3> DEFINE s == wire[c][i].from
      <3>1. s \in Id /\ i \in OnWire(wire[c], s)
        <4>1. wire[c][i] \in Message
          BY <1>7, <2>1
        <4>2. s \in Id
          BY <4>1 DEF Message
        <4> QED
          BY <2>1, <4>2 DEF OnWire
      <3>2. InOrder(Program, c, s, hist[Owner[c]], hist[s], buffer[c][s], wire[c])
        BY <1>0, <1>2, <3>1, ReplayFlow
      <3>3. PICK j : j \in Sends(hist[s], c)
        BY <3>1, <3>2 DEF InOrder, IsMessage
      <3>4. Follows(Program, s, hist[s]) /\ hist[s] \in Seq(Observation)
        <4>1. H(s) = hist[s] /\ hist[s] \in Seq(Observation)
          BY <1>0, <3>1, Replaying
        <4>2. Follows(Program, s, H(s))
          BY <1>0, <3>1 DEF FInv, Histories
        <4> QED
          BY <4>1, <4>2
      <3>5. s \in Senders[c]
        BY <1>0, <1>2, <3>1, <3>3, <3>4, SentBySender
      <3>6. u \in Senders[c]
        <4>1. Op(u) = Code(Program, u, hist[u]) /\ setup \in Setups
          BY <1>0, Replaying DEF TypeOK
        <4> QED
          BY <1>1, <1>7, <4>1 DEF HoldsSenders, Program
      <3> QED
        BY <1>2, <3>5, <3>6 DEF OneProducer
    <2> QED
      BY <1>7, <2>1, WaitsAlone
  <1>10. m \in Nat /\ n \in Nat /\ n + z <= m
    <2> DEFINE b == Len(buffer[c][u])
               w == Waiting(wire[c], u)
    <2>1. m = n + b + w
      BY <1>0, <1>2, ReplayFlow DEF InOrder
    <2>2. m \in Nat /\ n \in Nat /\ w \in Nat /\ b \in Nat
      <3>1. buffer[c][u] \in Seq(Val)
        BY <1>0, <1>2 DEF TypeOK
      <3>2. b \in Nat
        BY <3>1
      <3>3. w \in Nat
        BY <1>7, WaitingTyped
      <3>4. m \in Nat
        BY <1>7, CountsTyped
      <3>5. n \in Nat
        BY <1>7, CountsTyped
      <3> QED
        BY <3>2, <3>3, <3>4, <3>5
    <2>3. ~(w < z)
      BY <1>2, <1>9
    <2> HIDE DEF m, n, b, w, z
    <2> QED
      BY <1>2, <2>1, <2>2, <2>3
  <1>11. m < Cardinality(SendsKept(u, c))
    <2>1. ~SendFailed(recorded[u])
      BY <1>0 DEF SendsSucceed
    <2> HIDE DEF c, m, r
    <2>2. \A i \in Sends(recorded[u], c) : LogNo(recorded[u], i) <= Len(log[u]) =>
              Before(Sends(recorded[u], c), i) < Cardinality(SendsKept(u, c))
      BY <1>0, <1>2, <2>1, SendsAreKept
    <2> QED
      BY <1>5, <1>6, <1>8, <2>2
  <1>12. Cardinality(SendsKept(u, c)) <= Cardinality(RecvsKept(c, u)) + z
    <2>1. u \in Senders[c]
      <3>1. Follows(Program, u, recorded[u])
        BY <1>0, Replaying
      <3> QED
        BY <1>0, <1>2, <1>6, <1>7, <3>1, SentBySender
    <2> QED
      BY <1>0, <1>2, <2>1 DEF ConsistentCut
  <1>13. Cardinality(RecvsKept(c, u)) \in Nat /\ Cardinality(SendsKept(u, c)) \in Nat
    <2>0. Len(recorded[u]) \in Nat /\ Len(recorded[o]) \in Nat
      BY <1>7, HistoryPositions
    <2>1. IsFiniteSet(1 .. Len(recorded[u])) /\ IsFiniteSet(1 .. Len(recorded[o]))
      <3>1. \A k \in Nat : IsFiniteSet(1 .. k)
        BY FS_Interval
      <3> QED
        BY <2>0, <3>1
    <2>2. DOMAIN recorded[u] = 1 .. Len(recorded[u]) /\ DOMAIN recorded[o] = 1 .. Len(recorded[o])
      BY <1>7, HistoryPositions
    <2>3. RecvsKept(c, u) \subseteq DOMAIN recorded[o] /\ SendsKept(u, c) \subseteq DOMAIN recorded[u]
      BY DEF RecvsKept, SendsKept, Kept
    <2> QED
      BY <2>1, <2>2, <2>3, FS_Subset, FS_CardinalityType
  <1>14. n < Cardinality(RecvsKept(c, u))
    <2> DEFINE x == Cardinality(RecvsKept(c, u))
               y == Cardinality(SendsKept(u, c))
    <2>1. x \in Nat /\ y \in Nat /\ m < y /\ y <= x + z /\ z \in Nat /\ m \in Nat /\ n \in Nat
          /\ n + z <= m
      BY <1>2, <1>10, <1>11, <1>12, <1>13
    <2> HIDE DEF x, y, z, m, n
    <2>2. n < x
      BY <2>1
    <2> QED
      BY <2>2 DEF x
  <1>15. PICK j \in Recvs(recorded[o], c, u) : /\ Before(Recvs(recorded[o], c, u), j) = n
                                               /\ LogNo(recorded[o], j) <= Len(log[o])
    <2> HIDE DEF c, n
    <2>1. \A k \in Nat : k < Cardinality(RecvsKept(c, u)) =>
              \E j \in Recvs(recorded[o], c, u) : /\ Before(Recvs(recorded[o], c, u), j) = k
                                                  /\ LogNo(recorded[o], j) <= Len(log[o])
      BY <1>0, <1>2, RecvsAreKept
    <2> QED
      BY <1>10, <1>14, <2>1
  <1>16. Len(hist[o]) < j
    BY <1>7, <1>15, RecvIsAhead
  <1>17. time[o][j] < time[u][r]
    <2>1. Crossing(time, recorded, Counted, c, u)
      BY <1>2 DEF OrderOf, IsTimed
    <2>2. j \in Counted[o]
      <3>1. mode = "Replay" /\ j \in Nat
        BY <1>0, <1>7, HistoryPositions DEF Playing, Recvs
      <3> QED
        BY <1>2, <1>15, <3>1 DEF Counted, Ops
    <2>3. \A i \in Recvs(recorded[o], c, u) : i \in Counted[o] => \A k \in Sends(recorded[u], c) :
              Before(Recvs(recorded[o], c, u), i) + z <= Before(Sends(recorded[u], c), k)
                  => time[o][i] < time[u][k]
      BY <1>2, <2>1 DEF Crossing
    <2>4. Before(Recvs(recorded[o], c, u), j) + z <= Before(Sends(recorded[u], c), r)
      BY <1>8, <1>10, <1>15
    <2> HIDE DEF c, o, r, z
    <2> QED
      BY <1>6, <1>15, <2>2, <2>3, <2>4
  <1>18. j \in LogPos(recorded[o])
    BY DEF Recvs, LogPos, LoggedKind
  <1>19. Owes(time, u, o, j)
    BY <1>2, <1>15, <1>16, <1>17, <1>18 DEF Owes, Due
  <1> QED
    BY <1>19

\* A history that has all of the recording of a thread that came to its end is
\* that recording.
LEMMA AllDone ==
    ASSUME NEW h \in Seq(Observation), NEW g \in Seq(Observation), IsFaithful(h, g),
           NEW p, NEW t, Follows(p, t, h), Code(p, t, g).kind = "halt",
           Len(h) + 1 \notin DOMAIN g
    PROVE  h = g
  <1> DEFINE n == Len(g)
  <1>1. Len(h) \in Nat /\ n \in Nat /\ DOMAIN g = 1 .. n /\ DOMAIN h = 1 .. Len(h)
    BY HistoryPositions
  <1>2. n <= Len(h)
    BY <1>1
  <1>3. Agree(h, g, n)
    BY <1>1, <1>2, WithinRecording
  <1>4. SubSeq(h, 1, n) = g
    <2>1. SubSeq(h, 1, n) = SubSeq(g, 1, n)
      BY <1>1, <1>3, AgreeSame
    <2> QED
      BY <2>1, WholeHistory
  <1>5. Len(h) = n
    <2>1. ASSUME n < Len(h) PROVE FALSE
      <3>1. n + 1 \in DOMAIN h /\ (n + 1) - 1 = n
        BY <1>1, <2>1
      <3>2. ResultOf(Code(p, t, SubSeq(h, 1, (n + 1) - 1)), h[n + 1])
        BY <3>1 DEF Follows
      <3>3. ResultOf(Code(p, t, g), h[n + 1])
        BY <1>4, <3>1, <3>2
      <3> QED
        BY <3>3 DEF ResultOf, LoggedKind, RecvKind, NoResult, Done
    <2> DEFINE m == Len(h)
    <2>2. m \in Nat /\ n \in Nat /\ n <= m /\ ~(n < m)
      BY <1>1, <1>2, <2>1
    <2> HIDE DEF m, n
    <2>3. m = n
      BY <2>2
    <2> QED
      BY <2>3 DEF m
  <1>6. SubSeq(h, 1, Len(h)) = h
    BY WholeHistory
  <1> QED
    BY <1>4, <1>5, <1>6

\* A join waits for a thread that goes on, and that did in the recording all
\* that it still has to do before it was joined.
LEMMA JoinWaits ==
    ASSUME Calm, NEW E, Closed(E), NEW time, OrderOf(time), NEW u \in Id, Behind(E, u),
           at[u] = "idle", Op(u).kind = "join", NEW v, v = Op(u).thread
    PROVE  /\ v \in Id
           /\ \/ Dead(v)
              \/ CanStep(v)
              \/ Behind(E, v) /\ Due(time, v) < Due(time, u)
  <1> DEFINE h == hist[u]
             g == recorded[u]
             p == Program
             r == Len(h) + 1
             P == LogPos(g)
  <1>0. FInv /\ Playing /\ TypeOK /\ E \subseteq Id
    BY DEF Calm, FInv, IInv, Closed
  <1>1. /\ h \in Seq(Observation) /\ g \in Seq(Observation) /\ Len(h) \in Nat
        /\ Op(u) = Code(p, u, h) /\ r \in DOMAIN g /\ r \in Nat \ {0} /\ r - 1 = Len(h)
        /\ r \in 1 .. Len(h) + 1
    BY <1>0, Replaying, HistoryPositions DEF Behind
  <1>2. Agree(h, g, Len(h)) /\ g[r].op = "join"
    <2>1. ResultOf(Op(u), Then(u)) /\ Agree(h, g, Len(h))
      BY BehindActs
    <2> QED
      BY <2>1 DEF ResultOf, LoggedKind, RecvKind, Then
  <1>3. Code(p, u, SubSeq(g, 1, r - 1)) = Op(u)
    <2> HIDE DEF h, g, p, r
    <2>1. SubSeq(h, 1, Len(h)) = SubSeq(g, 1, Len(h))
      BY <1>1, <1>2, AgreeSame
    <2> QED
      BY <1>1, <2>1, WholeHistory
  <1>4. Number(u, r) = Logs(h)
    <2>1. r \notin P
      BY <1>2 DEF LogPos, LoggedKind, RecvKind
    <2>2. Number(u, r) = Before(P, r + 1)
      BY <1>1, NumberIs
    <2>3. Before(P, r + 1) = Before(P, r) + (IF r \in P THEN 1 ELSE 0) /\ Before(P, r) \in Nat
      <3> HIDE DEF P, r
      <3> QED
        BY <1>1, BeforeNext, BeforeType
    <2>4. Before(P, r) = Before(LogPos(h), r)
      <3> HIDE DEF h, g
      <3> QED
        BY <1>1, <1>2, SameLogNo
    <2> HIDE DEF P, h, g
    <2>5. Before(P, r + 1) = Before(P, r)
      BY <2>1, <2>3
    <2> QED
      BY <2>2, <2>4, <2>5 DEF Logs
  <1>5. v \in E
    <2>1. u \in E \/ Number(u, r) < Len(log[u])
      BY <1>4 DEF Behind
    <2> QED
      BY <1>1, <1>2, <1>3, <2>1 DEF Closed
  <1>6. v \in Id
    BY <1>0, <1>5
  <1>7. CASE Len(hist[v]) + 1 \in DOMAIN recorded[v]
    <2>1. Behind(E, v)
      BY <1>5, <1>7 DEF Behind
    <2>2. JoinsAt(p, u, g, r, v)
      BY <1>2, <1>3 DEF JoinsAt
    <2>3. Joining(p, time, recorded)
      BY DEF OrderOf, IsTimed
    <2>4. time[v][Len(hist[v]) + 1] < time[u][r]
      BY <1>1, <1>6, <1>7, <2>2, <2>3 DEF Joining
    <2> QED
      BY <1>6, <2>1, <2>4 DEF Due
  <1>8. CASE Len(hist[v]) + 1 \notin DOMAIN recorded[v]
    <2>1. Code(p, v, recorded[v]).kind = "halt"
      BY <1>5 DEF Closed, RecordedToEnd, Program
    <2>2. /\ hist[v] \in Seq(Observation) /\ recorded[v] \in Seq(Observation)
          /\ IsFaithful(hist[v], recorded[v]) /\ Op(v) = Code(p, v, hist[v])
      BY <1>0, <1>6, Replaying
    <2>3. Follows(p, v, hist[v])
      <3>1. H(v) = hist[v] /\ Follows(p, v, H(v))
        BY <1>0, <1>6, Replaying DEF FInv, Histories
      <3> QED
        BY <3>1
    <2>4. hist[v] = recorded[v]
      <3> HIDE DEF p
      <3> QED
        BY <1>8, <2>1, <2>2, <2>3, AllDone
    <2>5. Op(v).kind = "halt"
      BY <2>1, <2>2, <2>4
    <2>6. Inside(v) /\ InReplay(v) /\ InEither(v) /\ ~desynced /\ status[v] # "panicked"
      BY <1>0, <1>6 DEF Calm, FInv, IInv, InsideOp, Places, Playing
    <2>7. status[v] # "asleep"
      BY <2>5, <2>6 DEF Inside, RecvKind
    <2>8. at[v] = "idle" \/ status[v] # "running"
      BY <1>0, <1>6, <2>5, <2>6 DEF TypeOK, Inside, InReplay, InEither, RecvKind
    <2>9. status[v] \in {"running", "exited"}
      BY <1>0, <1>6, <2>6, <2>7 DEF TypeOK
    <2> QED
      BY <1>6, <2>5, <2>8, <2>9 DEF Dead, CanStep
  <1> QED
    BY <1>6, <1>7, <1>8

\* When nobody can move, a thread with something left to do waits for one that
\* had to do something before that.
LEMMA EarlierBehind ==
    ASSUME WellFormedProgram, OwnReceivers, HoldsSenders, OneProducer, Calm,
           NEW E, Closed(E), NEW time, OrderOf(time), NEW u \in Id, Behind(E, u),
           \A v \in Id : ~CanStep(v)
    PROVE  /\ Due(time, u) \in Nat
           /\ \E v \in Id : Behind(E, v) /\ Due(time, v) < Due(time, u)
  <1>1. status[u] = "running" /\ at[u] \in {"idle", "deliver", "receive"} /\ ~CanStep(u)
    BY BehindActs
  <1>2. Due(time, u) \in Nat
    <2>1. hist[u] \in Seq(Observation)
      BY DEF Calm, FInv, IInv, TypeOK
    <2>2. Len(hist[u]) + 1 \in Nat
      BY <2>1
    <2> QED
      BY <2>2 DEF Due, OrderOf, Times
  <1>3. ASSUME NEW v, NEW j, Owes(time, u, v, j)
        PROVE  \E w \in Id : Behind(E, w) /\ Due(time, w) < Due(time, u)
    <2>1. v \in Id
      BY <1>3 DEF Owes
    <2>2. Behind(E, v) /\ Due(time, v) < Due(time, u)
      BY <1>2, <1>3, OweIsBehind
    <2> QED
      BY <2>1, <2>2
  <1>4. CASE at[u] = "receive"
    <2>1. wire[Op(u).chan] = <<>>
      BY <1>1, <1>4 DEF CanStep
    <2>2. \E s \in Id : \E j \in Sends(recorded[s], Op(u).chan) : Owes(time, u, s, j)
      BY <1>1, <1>4, <2>1, ReceiveWaits
    <2> QED
      BY <1>2, <1>3, <2>2
  <1>5. CASE at[u] = "deliver"
    <2>1. Outcomes(Op(u)) = {}
      BY <1>1, <1>5 DEF CanStep
    <2>2. \E o, j : Owes(time, u, o, j)
      BY <1>1, <1>5, <2>1, SendWaits
    <2> QED
      BY <1>2, <1>3, <2>2
  <1>6. CASE at[u] = "idle"
    <2>1. Op(u).kind = "join" /\ ~Dead(Op(u).thread)
      BY <1>1, <1>6 DEF CanStep
    <2>2. PICK v \in Id : /\ v = Op(u).thread
                          /\ Dead(v) \/ CanStep(v) \/ (Behind(E, v) /\ Due(time, v) < Due(time, u))
      BY <1>6, <2>1, JoinWaits
    <2> QED
      BY <1>2, <2>1, <2>2
  <1> QED
    BY <1>1, <1>4, <1>5, <1>6

\* A replay that has not come to the end of its log can go on.
LEMMA SomeoneMoves ==
    ASSUME WellFormedProgram, OwnReceivers, HoldsSenders, OneProducer, Calm,
           NEW E, Closed(E), NEW time, OrderOf(time), NEW u \in Id, Behind(E, u)
    PROVE  \E v \in Id : CanStep(v)
  <1> SUFFICES ASSUME \A v \in Id : ~CanStep(v) PROVE FALSE
    OBVIOUS
  <1> DEFINE B == {v \in Id : Behind(E, v)}
             S == {Due(time, v) : v \in B}
  <1>1. ASSUME NEW v \in B
        PROVE  Due(time, v) \in Nat /\ \E w \in B : Due(time, w) < Due(time, v)
    <2>1. v \in Id /\ Behind(E, v)
      OBVIOUS
    <2>2. /\ Due(time, v) \in Nat
          /\ \E w \in Id : Behind(E, w) /\ Due(time, w) < Due(time, v)
      BY <2>1, EarlierBehind
    <2> QED
      BY <2>2
  <1>2. u \in B
    OBVIOUS
  <1> HIDE DEF B
  <1>3. S \subseteq Nat /\ S # {}
    BY <1>1, <1>2
  <1>4. PICK m \in S : \A n \in S : m <= n
    <2> HIDE DEF S
    <2> QED
      BY <1>3, WellOrder
  <1>5. PICK v \in B : m = Due(time, v)
    BY <1>4
  <1>6. PICK w \in B : Due(time, w) < Due(time, v)
    BY <1>1, <1>5
  <1>7. Due(time, w) \in S /\ Due(time, w) \in Nat /\ m \in Nat
    BY <1>1, <1>3, <1>4, <1>6
  <1> QED
    BY <1>4, <1>5, <1>6, <1>7

LEMMA HasOrder ==
    ASSUME Timed, mode = "Replay"
    PROVE  \E time : OrderOf(time)
  BY DEF Timed, OrderOf, Ops

LEMMA HasClosed ==
    ASSUME ConsistentCut
    PROVE  \E E : Closed(E)
  BY DEF ConsistentCut, Closed, Program

\* No wait for a message ends in a replay that has no other reason to desync:
\* while it waits somebody can move, and a sender of the channel is alive.
LEMMA NoTimeOut ==
    ASSUME WellFormedProgram, OwnReceivers, HoldsSenders, OneProducer, Calm, Timed, Prompt,
           NEW t \in Id, ReceiveTimesOut(t)
    PROVE  FALSE
  <1> DEFINE c == Op(t).chan
  <1>0. /\ FInv /\ Playing /\ mode = "Replay" /\ ConsistentCut /\ TypeOK
        /\ \A u \in Id : status[u] # "panicked"
    BY DEF Calm, Playing, FInv, IInv
  <1>1. /\ status[t] = "running" /\ at[t] = "receive" /\ wire[c] = <<>>
        /\ SendersGone(c) \/ \A u \in Id : ~CanStep(u)
    BY DEF ReceiveTimesOut, At
  <1>2. PICK time : OrderOf(time)
    BY <1>0, HasOrder
  <1>3. PICK E : Closed(E)
    BY <1>0, HasClosed
  <1>4. Behind(E, t)
    <2>1. FindsEntry(t) /\ log[t] \in Seq(Entry) /\ hist[t] \in Seq(Observation)
      BY <1>0, <1>1, HasTakenEntry, Replaying
    <2>2. Logs(hist[t]) \in Nat
      BY <2>1, OneMoreLogged, NoResultTyped
    <2>3. Logs(hist[t]) + 1 <= Len(log[t]) /\ Len(log[t]) \in Nat
      BY <2>1, ListTyped DEF FindsEntry
    <2>4. Logs(hist[t]) < Len(log[t])
      BY <2>2, <2>3
    <2> QED
      BY <2>1, <2>4 DEF Behind, FindsEntry
  <1>5. ~ \A u \in Id : ~CanStep(u)
    BY <1>2, <1>3, <1>4, SomeoneMoves
  <1>6. PICK s \in Id : \E j \in Sends(recorded[s], c) : Owes(time, t, s, j)
    BY <1>1, <1>2, ReceiveWaits
  <1>7. PICK j \in Sends(recorded[s], c) : Owes(time, t, s, j)
    BY <1>6
  <1>8. s \in Senders[c]
    <2>1. c \in Chan
      <3>1. Op(t).kind \in RecvKind
        BY <1>0, <1>1 DEF FInv, IInv, InsideOp, Inside
      <3> QED
        BY <1>0, <3>1, OpTyped, OpShape
    <2>2. Follows(Program, s, recorded[s]) /\ recorded[s] \in Seq(Observation)
      BY <1>0, Replaying
    <2> QED
      BY <1>0, <1>7, <2>1, <2>2, SentBySender
  <1>9. Due(time, t) \in Nat
    <2>1. hist[t] \in Seq(Observation)
      BY <1>0, Replaying
    <2>2. Len(hist[t]) + 1 \in Nat
      BY <2>1
    <2> QED
      BY <1>2, <2>2 DEF Due, OrderOf, Times
  <1>10. status[s] = "running"
    <2>1. Behind(E, s)
      BY <1>2, <1>7, <1>9, OweIsBehind
    <2> QED
      BY <1>3, <2>1, BehindActs
  <1> QED
    BY <1>1, <1>5, <1>8, <1>10 DEF SendersGone, Dead

\* A list that is what its thread did first has no other event.
LEMMA NoMismatch ==
    ASSUME Calm, NEW t \in Id, ReplayMismatch(t)
    PROVE  FALSE
  <1> DEFINE h == hist[t]
             g == recorded[t]
             p == Program
             r == Len(h) + 1
             list == log[t]
  <1>0. FInv /\ Playing /\ ConsistentCut /\ TypeOK
    BY DEF Calm, FInv, IInv
  <1>1. /\ h \in Seq(Observation) /\ g \in Seq(Observation) /\ list \in Seq(Entry)
        /\ IsLogOf(g, list) /\ Follows(p, t, g) /\ IsFaithful(h, g)
        /\ Op(t) = Code(p, t, h) /\ next[t] \in Nat /\ Cursor(t) /\ Len(h) \in Nat
    BY <1>0, Replaying, HistoryPositions
  <1>2. /\ at[t] = "idle" /\ status[t] = "running" /\ Op(t).kind \in LoggedKind
        /\ next[t] < Len(list) /\ NextEntry(t) = list[next[t] + 1]
        /\ Mismatch(Op(t), NextEntry(t))
    BY DEF ReplayMismatch, AsksLog, Calls, At, LoggedKind, GetLogEntry, HasEntry, NextEntry
  <1>3. next[t] = Logs(h) /\ Logs(h) \in Nat
    <2>1. Reading(t) = 0 /\ next[t] = Logs(h) + Reading(t)
      BY <1>1, <1>2 DEF Cursor, Reading
    <2>2. Logs(h) \in Nat
      BY <1>1, OneMoreLogged, NoResultTyped
    <2> QED
      BY <2>1, <2>2
  <1>4. Len(h) + 1 \in DOMAIN g
    <2> HIDE DEF h, g, list
    <2>1. Len(list) <= Logs(g) /\ Logs(h) < Len(list)
      BY <1>1, <1>2, <1>3 DEF IsLogOf
    <2> QED
      BY <1>1, <2>1, EntryWithinRecording
  <1>5. Agree(h, g, Len(h)) /\ ResultOf(Op(t), g[r])
    <2> HIDE DEF h, g, p
    <2> QED
      BY <1>1, <1>4, NextRecorded
  <1>6. g[r].op = Op(t).kind /\ g[r].chan = Op(t).chan /\ r \in LogPos(g)
    BY <1>2, <1>4, <1>5 DEF ResultOf, LogPos
  <1>7. Number(t, r) = Logs(h) + 1
    <2>1. Number(t, r) = LogNo(g, r)
      BY <1>1, <1>4, <1>6, NumberIs
    <2>2. LogNo(g, r) = LogNo(h, r)
      <3> HIDE DEF h, g
      <3>1. r \in 1 .. Len(h) + 1
        BY <1>1
      <3> QED
        BY <1>1, <1>5, <3>1, SameLogNo
    <2>3. LogNo(h, r) = 1 + Logs(h)
      BY DEF LogNo, Logs
    <2> HIDE DEF h, g, r
    <2> QED
      BY <1>3, <2>1, <2>2, <2>3
  <1>8. r \in Kept(t)
    <2>1. Len(list) \in Nat
      BY <1>1, ListTyped
    <2>2. Number(t, r) <= Len(list)
      <3> HIDE DEF h, list, r
      <3> QED
        BY <1>2, <1>3, <1>7, <2>1
    <2> QED
      BY <1>2, <1>4, <1>6, <2>2 DEF Kept
  <1>9. list[Number(t, r)] = EntryFor(g[r])
    BY <1>0, <1>8 DEF ConsistentCut
  <1>10. NextEntry(t) = EntryFor(g[r])
    BY <1>2, <1>3, <1>7, <1>9
  <1> QED
    BY <1>2, <1>6, <1>10 DEF Mismatch, EntryFor

\* A replay that has no reason to desync goes on without one.
LEMMA StaysCalm ==
    ASSUME WellFormedProgram, OwnReceivers, HoldsSenders, OneProducer, Calm, Timed, ReplayReady,
           Prompt, saved = Id, NEW t \in Id, ThreadStep(t), Frame(t)
    PROVE  ~desynced' /\ \A u \in Id : status'[u] # "panicked"
  <1>0. /\ mode = "Replay" /\ ~desynced /\ TypeOK /\ InReplay(t) /\ InEither(t)
        /\ \A u \in Id : status[u] # "panicked"
    BY DEF Calm, Playing, FInv, IInv, Places
  <1> SUFFICES ~desynced' /\ status'[t] # "panicked"
    BY <1>0 DEF Frame
  <1>1. ASSUME NEW obs, Return(t, obs), UNCHANGED desynced
        PROVE  ~desynced' /\ status'[t] # "panicked"
    BY <1>0, <1>1 DEF Return
  <1>2. ASSUME status' = status, UNCHANGED desynced
        PROVE  ~desynced' /\ status'[t] # "panicked"
    BY <1>0, <1>2
  <1>3. ASSUME NEW s, status' = [status EXCEPT ![t] = s], s # "panicked", UNCHANGED desynced
        PROVE  ~desynced' /\ status'[t] # "panicked"
    BY <1>0, <1>3 DEF TypeOK
  <1>4. ~RecordOp(t) /\ ~RecordEvent(t) /\ ~RecordEventFails(t)
    BY <1>0 DEF RecordOp, RecordEvent, RecordEventFails, At, InReplay
  <1>5. ~WakeUp(t) /\ ~SendDesynced(t) /\ ~ReceiveAny(t)
    BY <1>0 DEF WakeUp, SendDesynced, ReceiveAny, At, InEither
  <1>6. ~ReplayMismatch(t) /\ ~ReceiveTimesOut(t)
    BY NoMismatch, NoTimeOut
  <1>7. CASE OpenLog(t)
    <2>1. ~EventReceiverPanics(t)
      BY <1>0 DEF ReplayReady, EventReceiverPanics
    <2> QED
      BY <1>2, <1>7, <2>1 DEF OpenLog
  <1>8. CASE FallAsleep(t)
    BY <1>3, <1>8 DEF FallAsleep
  <1>9. CASE ReplaySend(t)
    BY <1>2, <1>9 DEF ReplaySend
  <1>10. CASE Deliver(t)
    BY <1>1, <1>10 DEF Deliver
  <1>11. CASE ReplayRecv(t)
    <2>1. UNCHANGED desynced /\ (status' = status \/ \E obs : Return(t, obs))
      BY <1>11 DEF ReplayRecv
    <2> QED
      BY <1>1, <1>2, <2>1
  <1>12. CASE ReceiveExpected(t)
    <2>1. UNCHANGED desynced
      BY <1>12, Zenon DEF ReceiveExpected
    <2>2. (\E obs : Return(t, obs)) \/ UNCHANGED threadVars
      BY <1>12, Zenon DEF ReceiveExpected
    <2> QED
      BY <1>1, <1>2, <2>1, <2>2 DEF threadVars
  <1>13. CASE Join(t) \/ ExecutionDone(t)
    <2>1. UNCHANGED desynced /\ (status' = status \/ \E obs : Return(t, obs))
      BY <1>13 DEF Join, ExecutionDone
    <2> QED
      BY <1>1, <1>2, <2>1
  <1>14. CASE Exit(t)
    BY <1>3, <1>14 DEF Exit
  <1> QED
    BY <1>4, <1>5, <1>6, <1>7, <1>8, <1>9, <1>10, <1>11, <1>12, <1>13, <1>14 DEF ThreadStep

\* What NoFalseDesync supposes does not change in a replay.
LEMMA SameCut ==
    ASSUME UNCHANGED <<setup, log, recorded>>
    PROVE  ConsistentCut' <=> ConsistentCut
  <1>1. /\ \A t, i : Number(t, i)' = Number(t, i)
        /\ \A t : Kept(t)' = Kept(t)
    BY DEF Number, Kept
  <1>2. /\ \A t, c : SendsKept(t, c)' = SendsKept(t, c)
        /\ \A t, c : RecvsKept(c, t)' = RecvsKept(c, t)
        /\ \A t : RecordedToEnd(t)' <=> RecordedToEnd(t)
    BY <1>1 DEF SendsKept, RecvsKept, RecordedToEnd
  <1> QED
    BY <1>1, <1>2 DEF ConsistentCut

LEMMA DesyncInit == Init => NoFalseDesync
  BY DEF Init, LogInit, NoFalseDesync

LEMMA DesyncStep ==
    ASSUME WellFormedProgram, OwnReceivers, HoldsSenders, OneProducer
    PROVE  OrderInv /\ NoFalseDesync /\ [Next]_vars => NoFalseDesync'
  <1> SUFFICES ASSUME OrderInv, NoFalseDesync, [Next]_vars,
                      mode' = "Replay", Prompt', saved' = Id, ConsistentCut', SendsSucceed'
               PROVE  ~desynced' /\ \A u \in Id : status'[u] # "panicked"
    BY DEF NoFalseDesync
  <1>0. /\ FInv /\ DrainedOnce /\ IInv /\ TypeOK /\ LogTypeOK
        /\ Order /\ Timed /\ ReplayReady /\ AllResting
    BY DEF OrderInv, Order, FaithfulInv, FInv, IInv, TypeOK
  <1>1. ASSUME NEW t \in Id, ThreadStep(t)
        PROVE  ~desynced' /\ \A u \in Id : status'[u] # "panicked"
    <2>1. Frame(t)
      BY <1>0, <1>1, StepFrame
    <2>2. Effect(t)
      BY <1>0, <1>1, StepEffect DEF FInv
    <2>3. Places'
      BY <1>0, FaithStep DEF OrderInv, FaithfulInv, FInv
    <2>4. mode = "Replay" /\ Prompt /\ saved = Id /\ ConsistentCut
      BY <2>1, SameCut DEF Frame, Prompt
    <2>5. SendsSucceed
      BY <1>0, <2>1, <2>2, <2>3, <2>4, SendsSucceeded
    <2>6. Calm
      BY <1>0, <2>4, <2>5 DEF NoFalseDesync, Calm, Playing
    <2> QED
      BY <1>0, <1>1, <2>1, <2>4, <2>6, StaysCalm
  <1>2. CASE FlushLog
    <2>1. mode' = mode /\ mode = "Record"
      BY <1>0, <1>2, NoIdAssumption
      DEF LogTypeOK, DrainedOnce, FlushLog, Flush, CollectEntry, CollectEntries, DropReceiver,
          WriteFile, replayVars
    <2> QED
      BY <2>1
  <1>3. CASE Restart
    BY <1>3 DEF Restart
  <1>4. CASE UNCHANGED vars
    <2>1. UNCHANGED <<setup, mode, saved, log, recorded, hist, desynced, status>>
      BY <1>4 DEF vars, logVars, recordVars, replayVars, threadVars
    <2>2. ConsistentCut /\ Prompt /\ SendsSucceed
      BY <2>1, SameCut DEF Prompt, SendsSucceed
    <2> QED
      BY <2>1, <2>2 DEF NoFalseDesync
  <1> QED
    BY <1>1, <1>2, <1>3, <1>4 DEF Next

\* A replay of a log that is a consistent cut, with a list for each thread,
\* neither desyncs nor panics.
THEOREM NoFalseDesyncCorrect ==
    ASSUME WellFormedProgram, OwnReceivers, HoldsSenders, OneProducer
    PROVE  Spec => []NoFalseDesync
  <1>1. Init => OrderInv /\ NoFalseDesync
    BY FaithInit, OrderInit, DesyncInit DEF OrderInv
  <1>2. OrderInv /\ NoFalseDesync /\ [Next]_vars => (OrderInv /\ NoFalseDesync)'
    BY OrderStep, DesyncStep
  <1> QED
    BY <1>1, <1>2, PTL DEF Spec
=============================================================================
