--------------------------- MODULE DetThread_proofs ---------------------------
(***************************************************************************)
(* Proofs about DetThread, for every program and every schedule of its     *)
(* threads: types; no two threads and no two channels have the same id;    *)
(* and ids and log entries are the same in both executions.                *)
(***************************************************************************)
EXTENDS DetThread, RecordLog_proofs

-----------------------------------------------------------------------------
(* Paths *)

\* The limits are numbers.
LEMMA Limits == MAX_SIZE \in Nat /\ MaxChildren \in Nat
  BY DetThreadAssumption

LEMMA IdsArePaths == Id = UNION {[1 .. n -> 1 .. MaxChildren] : n \in 0 .. MAX_SIZE}
  BY DetThreadAssumption

\* A path has at most MAX_SIZE elements, and the root's path is empty.
LEMMA PathsInId ==
    /\ <<>> \in Id
    /\ \A id \in Id : id \in Seq(1 .. MaxChildren) /\ Len(id) <= MAX_SIZE
  <1>1. <<>> \in [1 .. 0 -> 1 .. MaxChildren]
    OBVIOUS
  <1>2. <<>> \in Id
    BY <1>1, Limits, IdsArePaths
  <1>3. ASSUME NEW id \in Id PROVE id \in Seq(1 .. MaxChildren) /\ Len(id) <= MAX_SIZE
    <2>1. PICK n \in 0 .. MAX_SIZE : id \in [1 .. n -> 1 .. MaxChildren]
      BY IdsArePaths
    <2> QED
      BY <2>1, Limits
  <1> QED
    BY <1>2, <1>3

\* extend_path: a path below the limit extends to a path.
LEMMA ExtendPath ==
    ASSUME NEW id \in Id, Len(id) # MAX_SIZE, NEW k \in 1 .. MaxChildren
    PROVE  Append(id, k) \in Id
  <1>1. PICK n \in 0 .. MAX_SIZE : id \in [1 .. n -> 1 .. MaxChildren]
    BY IdsArePaths
  <1>2. Len(id) = n /\ id \in Seq(1 .. MaxChildren)
    BY <1>1, Limits
  <1>3. n + 1 \in 0 .. MAX_SIZE
    BY <1>2, PathsInId, Limits
  <1>4. Append(id, k) \in [1 .. n + 1 -> 1 .. MaxChildren]
    <2>1. Append(id, k) \in Seq(1 .. MaxChildren) /\ Len(Append(id, k)) = n + 1
      BY <1>2
    <2> QED
      BY <2>1, LenProperties
  <1> QED
    BY <1>3, <1>4, IdsArePaths

\* A path determines its parent's path and the last counter.
LEMMA LastStep ==
    ASSUME NEW x \in Seq(1 .. MaxChildren), NEW y \in Seq(1 .. MaxChildren),
           NEW i \in 1 .. MaxChildren, NEW j \in 1 .. MaxChildren,
           Append(x, i) = Append(y, j)
    PROVE  x = y /\ i = j
  <1> DEFINE S == 1 .. MaxChildren
  <1>1. x \in Seq(S) /\ y \in Seq(S) /\ i \in S /\ j \in S
    OBVIOUS
  <1> HIDE DEF S
  <1>2. Append(x, i) = Append(y, j) <=> x = y /\ i = j
    BY <1>1, AppendInjective
  <1> QED
    BY <1>2

-----------------------------------------------------------------------------
(* Types *)

LEMMA InitTyped == Init => TypeOK
  <1> SUFFICES ASSUME Init PROVE TypeOK
    OBVIOUS
  <1>1. LogTypeOK
    BY LogInitTyped DEF Init
  <1>2. <<>> \in Id /\ 1 \in 1 .. MaxChildren + 1
    BY PathsInId, Limits
  <1>3. det_id \in [Thread -> Id \cup {NoId}] /\ channels \in [Thread -> Seq(ChannelIds)]
    BY <1>2 DEF Init, ProgramStart
  <1>4. recorded \in [det_id : [Thread -> Id \cup {NoId}],
                     channels : [Thread -> Seq(ChannelIds)]]
    BY DEF Init, NothingRecorded
  <1> QED
    BY <1>1, <1>2, <1>3, <1>4 DEF Init, ProgramStart, TypeOK

\* What a thread creates is well formed, and so is its log entry.
LEMMA CreationTyped ==
    ASSUME TypeOK, NEW t \in Thread, Create(t) \/ (Calls(t, {"foreign"}) /\ HandId(t)),
           det_id[t] \in Id, recorded' = recorded, LogTypeOK'
    PROVE  TypeOK'
  <1> USE DEF TypeOK
  <1>1. CASE HandId(t) /\ Child(t) \in Thread
    <2>1. child_index[t] \in 1 .. MaxChildren
      BY <1>1, Limits DEF HandId
    <2>2. new_child_det_id(t) \in Id
      BY <1>1, <2>1, ExtendPath DEF HandId, TooDeep, new_child_det_id
    <2>3. status' \in [Thread -> {"unborn", "given", "running", "flushing", "done", "panicked"}]
      BY <1>1 DEF HandId, Become
    <2>4. det_id' \in [Thread -> Id \cup {NoId}]
      BY <1>1, <2>2 DEF HandId
    <2>5. child_index' \in [Thread -> 1 .. MaxChildren + 1]
      BY <1>1, <2>1, Limits DEF HandId
    <2>6. pos' \in [Thread -> Nat \ {0}]
      BY <1>1 DEF HandId, Advance
    <2> QED
      BY <1>1, <2>3, <2>4, <2>5, <2>6 DEF HandId
  <1>2. CASE MakeChannel(t)
    <2>1. channel_id[t] \in 1 .. MaxChildren
      BY <1>2, Limits DEF MakeChannel
    <2>2. new_channel_id(t) \in ChannelIds
      BY <2>1 DEF new_channel_id, ChannelIds
    <2>3. channels' \in [Thread -> Seq(ChannelIds)]
      BY <1>2, <2>2 DEF MakeChannel
    <2>4. channel_id' \in [Thread -> 1 .. MaxChildren + 1]
      BY <1>2, <2>1, Limits DEF MakeChannel
    <2>5. pos' \in [Thread -> Nat \ {0}]
      BY <1>2 DEF MakeChannel, Advance
    <2> QED
      BY <1>2, <2>3, <2>4, <2>5 DEF MakeChannel
  <1>3. Calls(t, {"spawn", "foreign"}) => Child(t) \in Thread
    <2>1. SUFFICES ASSUME Calls(t, {"spawn", "foreign"}) PROVE Child(t) \in Thread
      OBVIOUS
    <2>2. Prog[t][pos[t]] \in Creation
      <3>1. Prog[t] \in Seq(Creation) /\ pos[t] \in Nat \ {0}
        BY DetThreadAssumption
      <3> QED
        BY <2>1, <3>1 DEF Calls
    <2> QED
      BY <2>1, <2>2 DEF Calls, Child, Creation
  <1> QED
    BY <1>1, <1>2, <1>3 DEF Create, Calls

-----------------------------------------------------------------------------
(* The inductive invariant *)

HasId(t) == det_id[t] # NoId

\* A thread has an id once its creator has handed it one.
IdWhenBorn == \A t \in Thread : HasId(t) <=> status[t] # "unborn"

\* An id that is not the root's extends the id of another thread.
ParentHasId == \A t \in Thread : HasId(t) /\ det_id[t] # <<>> =>
    \E p \in Thread, k \in 1 .. MaxChildren : HasId(p) /\ det_id[t] = Append(det_id[p], k)

\* A thread's counter is above every number it has handed out.
BelowCounter == \A t, p \in Thread, k \in 1 .. MaxChildren :
    HasId(t) /\ HasId(p) /\ det_id[t] = Append(det_id[p], k) => k < child_index[p]

IInv ==
    /\ TypeOK
    /\ IdWhenBorn
    /\ ParentHasId
    /\ BelowCounter
    /\ UniqueThreadIds

\* An execution starts with the root alone, holding the empty path.
RootAlone ==
    /\ status = [t \in Thread |-> IF t = Root THEN "running" ELSE "unborn"]
    /\ det_id = [t \in Thread |-> IF t = Root THEN <<>> ELSE NoId]

LEMMA StartInv == TypeOK /\ RootAlone => IInv
  <1> SUFFICES ASSUME TypeOK, RootAlone PROVE IInv
    OBVIOUS
  <1> USE DEF RootAlone
  <1>1. <<>> \in Id /\ NoId # <<>>
    BY PathsInId, NoIdAssumption
  <1>2. IdWhenBorn
    BY <1>1 DEF IdWhenBorn, HasId
  <1>3. ParentHasId
    BY DEF ParentHasId, HasId
  <1>4. BelowCounter
    <2> SUFFICES ASSUME NEW t \in Thread, NEW p \in Thread, NEW k \in 1 .. MaxChildren,
                        HasId(t), HasId(p), det_id[t] = Append(det_id[p], k)
                 PROVE  FALSE
      BY DEF BelowCounter
    <2>1. det_id[t] = <<>> /\ det_id[p] = <<>>
      BY DEF HasId
    <2>2. Append(<<>>, k) # <<>>
      BY EmptySeq, AppendProperties
    <2> QED
      BY <2>1, <2>2
  <1>5. UniqueThreadIds
    BY <1>1 DEF UniqueThreadIds
  <1> QED
    BY <1>2, <1>3, <1>4, <1>5 DEF IInv

\* Handing out an id: it is new, because the counter is above all that it has
\* handed out; and it is nobody's parent, because a parent has an id.
LEMMA HandIdInv ==
    ASSUME IInv, NEW t \in Thread, Calls(t, {"spawn", "foreign"}), HandId(t), TypeOK'
    PROVE  IInv'
  <1> DEFINE c == Child(t)
             k == child_index[t]
             id == Append(det_id[t], k)
  <1>1. c \in Thread /\ status[t] = "running" /\ status[c] = "unborn" /\ c # t
    <2>1. Prog[t][pos[t]] \in Creation
      <3>1. Prog[t] \in Seq(Creation) /\ pos[t] \in Nat \ {0}
        BY DetThreadAssumption DEF IInv, TypeOK
      <3> QED
        BY <3>1 DEF Calls
    <2>2. c \in Thread
      BY <2>1 DEF Calls, Child, Creation
    <2> QED
      BY <2>2 DEF Calls, HandId
  <1>2. HasId(t) /\ ~HasId(c) /\ det_id[t] \in Id
    BY <1>1 DEF IInv, IdWhenBorn, HasId, TypeOK
  <1>3. k \in 1 .. MaxChildren /\ child_index' = [child_index EXCEPT ![t] = k + 1]
    BY Limits DEF IInv, TypeOK, HandId
  <1>4. id \in Id /\ id # NoId /\ id # <<>>
    <2>1. id \in Id
      BY <1>2, <1>3, ExtendPath DEF HandId, TooDeep
    <2>2. id # <<>>
      BY <1>2, <1>3, PathsInId, AppendProperties
    <2> QED
      BY <2>1, <2>2, NoIdAssumption
  <1>5. det_id' = [det_id EXCEPT ![c] = id] /\ status' = [status EXCEPT ![c] = "given"]
    BY DEF HandId, Become, new_child_det_id
  <1>6. \A u \in Thread : det_id'[u] = IF u = c THEN id ELSE det_id[u]
    BY <1>5 DEF IInv, TypeOK
  <1>7. \A u \in Thread : child_index'[u] = IF u = t THEN k + 1 ELSE child_index[u]
    BY <1>3 DEF IInv, TypeOK
  <1>8. \A u \in Thread : HasId(u) => det_id[u] \in Id /\ det_id[u] \in Seq(1 .. MaxChildren)
    BY PathsInId DEF IInv, TypeOK, HasId
  <1>9. \A u \in Thread : HasId(u) => det_id[u] # id
    <2> SUFFICES ASSUME NEW u \in Thread, HasId(u), det_id[u] = id PROVE FALSE
      OBVIOUS
    <2>1. k < child_index[t]
      BY <1>2, <1>3 DEF IInv, BelowCounter
    <2> QED
      BY <2>1, <1>3, Limits
  <1>10. \A u \in Thread, n \in 1 .. MaxChildren : HasId(u) => det_id[u] # Append(id, n)
    <2> SUFFICES ASSUME NEW u \in Thread, NEW n \in 1 .. MaxChildren, HasId(u),
                        det_id[u] = Append(id, n)
                 PROVE  FALSE
      OBVIOUS
    <2>1. id \in Seq(1 .. MaxChildren) /\ det_id[u] # <<>>
      <3>1. id \in Seq(1 .. MaxChildren)
        BY <1>4, PathsInId
      <3> QED
        BY <3>1, AppendProperties
    <2>2. PICK p \in Thread, m \in 1 .. MaxChildren :
              HasId(p) /\ det_id[u] = Append(det_id[p], m)
      BY <2>1 DEF IInv, ParentHasId
    <2>3. det_id[p] = id
      <3>1. det_id[p] \in Seq(1 .. MaxChildren) /\ Append(det_id[p], m) = Append(id, n)
        BY <2>2, <1>8
      <3> HIDE DEF id
      <3> QED
        BY <3>1, <2>1, LastStep
    <2> QED
      BY <2>2, <2>3, <1>9
  <1>11. IdWhenBorn'
    BY <1>1, <1>4, <1>5, <1>6 DEF IInv, TypeOK, IdWhenBorn, HasId
  <1>12. ParentHasId'
    <2> SUFFICES ASSUME NEW u \in Thread, HasId(u)', det_id'[u] # <<>>
                 PROVE  \E p \in Thread, n \in 1 .. MaxChildren :
                            HasId(p)' /\ det_id'[u] = Append(det_id'[p], n)
      BY DEF ParentHasId
    <2>1. CASE u = c
      <3>1. HasId(t)' /\ det_id'[u] = Append(det_id'[t], k)
        BY <2>1, <1>1, <1>2, <1>6 DEF HasId
      <3> QED
        BY <3>1, <1>3
    <2>2. CASE u # c
      <3>1. PICK p \in Thread, n \in 1 .. MaxChildren :
                HasId(p) /\ det_id[u] = Append(det_id[p], n)
        BY <2>2, <1>6 DEF IInv, ParentHasId, HasId
      <3>2. p # c /\ det_id'[p] = det_id[p] /\ det_id'[u] = det_id[u]
        BY <3>1, <2>2, <1>2, <1>6
      <3> QED
        BY <3>1, <3>2 DEF HasId
    <2> QED
      BY <2>1, <2>2
  <1>13. BelowCounter'
    <2> SUFFICES ASSUME NEW u \in Thread, NEW p \in Thread, NEW n \in 1 .. MaxChildren,
                        HasId(u)', HasId(p)', det_id'[u] = Append(det_id'[p], n)
                 PROVE  n < child_index'[p]
      BY DEF BelowCounter
    <2>1. CASE u = c /\ p = c
      <3>1. id = Append(id, n) /\ id \in Seq(1 .. MaxChildren)
        BY <2>1, <1>4, <1>6, PathsInId
      <3>2. Len(Append(id, n)) = Len(id) + 1 /\ Len(id) \in Nat
        BY <3>1, AppendProperties, LenProperties
      <3> QED
        BY <3>1, <3>2
    <2>2. CASE u = c /\ p # c
      <3>1. HasId(p) /\ det_id'[p] = det_id[p] /\ det_id'[u] = id
        BY <2>2, <1>6 DEF HasId
      <3>2. det_id[p] = det_id[t] /\ n = k
        <4> DEFINE x == det_id[p]
                   y == det_id[t]
        <4>1. x \in Seq(1 .. MaxChildren) /\ y \in Seq(1 .. MaxChildren)
          BY <3>1, <1>2, <1>8
        <4>2. Append(x, n) = Append(y, k)
          BY <3>1
        <4>3. k \in 1 .. MaxChildren
          BY <1>3
        <4> HIDE DEF x, y, k
        <4>4. x = y /\ n = k
          BY <4>1, <4>2, <4>3, LastStep
        <4> QED
          BY <4>4 DEF x, y
      <3>3. p = t
        BY <3>1, <3>2, <1>2 DEF IInv, UniqueThreadIds, HasId
      <3> QED
        BY <3>2, <3>3, <1>3, <1>7
    <2>3. CASE u # c /\ p = c
      BY <2>3, <1>6, <1>10 DEF HasId
    <2>4. CASE u # c /\ p # c
      <3>1. n < child_index[p]
        BY <2>4, <1>6 DEF IInv, BelowCounter, HasId
      <3> QED
        BY <3>1, <1>3, <1>7 DEF IInv, TypeOK
    <2> QED
      BY <2>1, <2>2, <2>3, <2>4
  <1>14. UniqueThreadIds'
    BY <1>2, <1>4, <1>6, <1>9 DEF IInv, UniqueThreadIds, HasId
  <1> QED
    BY <1>11, <1>12, <1>13, <1>14 DEF IInv
-----------------------------------------------------------------------------
(* Steps *)

\* A running thread has an id, and what it logs is an entry.
LEMMA RunningHasId ==
    ASSUME TypeOK, IdWhenBorn, NEW t \in Thread, status[t] = "running"
    PROVE  det_id[t] \in Id
  BY DEF TypeOK, IdWhenBorn, HasId

LEMMA EventIsEntry ==
    ASSUME TypeOK, NEW t \in Thread, det_id[t] \in Id, Create(t)
    PROVE  Event(t) \in Entry
  <1>1. CASE Calls(t, {"spawn"}) /\ HandId(t)
    <2>1. child_index[t] \in 1 .. MaxChildren
      BY <1>1, Limits DEF TypeOK, HandId
    <2>2. new_child_det_id(t) \in Id
      BY <1>1, <2>1, ExtendPath DEF HandId, TooDeep, new_child_det_id
    <2>3. ThreadInitialized(new_child_det_id(t)) \in CreationEntry
      BY <2>2 DEF ThreadInitialized, CreationEntry
    <2> QED
      BY <1>1, <2>3, DetThreadAssumption DEF Event
  <1>2. CASE Calls(t, {"channel"}) /\ MakeChannel(t)
    <2>1. channel_id[t] \in 1 .. MaxChildren
      BY <1>2, Limits DEF TypeOK, MakeChannel
    <2>2. ChannelCreation(new_channel_id(t)) \in CreationEntry
      BY <2>1 DEF ChannelCreation, CreationEntry, new_channel_id, ChannelIds
    <2>3. ~Calls(t, {"spawn"})
      BY <1>2 DEF Calls
    <2> QED
      BY <2>2, <2>3, DetThreadAssumption DEF Event
  <1> QED
    BY <1>1, <1>2 DEF Create

\* Steps that leave every id and counter alone, and change the log and the
\* status of threads that are born already.
QuietStep ==
    /\ LogStep \/ UNCHANGED logVars
    /\ \/ UNCHANGED status
       \/ \E t \in Thread, s \in {"running", "flushing", "done", "panicked"} :
              status[t] # "unborn" /\ Become(t, s)
    /\ UNCHANGED <<det_id, child_index, channel_id, pos, channels, recorded>>

LEMMA QuietStepInv ==
    ASSUME IInv, QuietStep
    PROVE  IInv'
  <1>1. LogTypeOK'
    BY LogStepTyped DEF IInv, TypeOK, QuietStep
  <1>2. /\ status' \in [Thread -> {"unborn", "given", "running", "flushing", "done", "panicked"}]
        /\ \A u \in Thread : status'[u] = "unborn" <=> status[u] = "unborn"
    <2>1. CASE UNCHANGED status
      BY <2>1 DEF IInv, TypeOK
    <2>2. ASSUME NEW t \in Thread, NEW s \in {"running", "flushing", "done", "panicked"},
                 status[t] # "unborn", Become(t, s)
          PROVE  /\ status' \in [Thread -> {"unborn", "given", "running", "flushing", "done", "panicked"}]
                 /\ \A u \in Thread : status'[u] = "unborn" <=> status[u] = "unborn"
      BY <2>2 DEF IInv, TypeOK, Become
    <2> QED
      BY <2>1, <2>2 DEF QuietStep
  <1>3. TypeOK'
    BY <1>1, <1>2 DEF IInv, TypeOK, QuietStep
  <1>4. IdWhenBorn'
    BY <1>2 DEF IInv, IdWhenBorn, HasId, QuietStep
  <1>5. ParentHasId' /\ BelowCounter' /\ UniqueThreadIds'
    BY DEF IInv, ParentHasId, BelowCounter, UniqueThreadIds, HasId, QuietStep
  <1> QED
    BY <1>3, <1>4, <1>5 DEF IInv

\* Creating a thread or a channel, whichever event of the log comes with it.
LEMMA CreateInv ==
    ASSUME IInv, NEW t \in Thread, det_id[t] \in Id,
           Create(t) \/ (Calls(t, {"foreign"}) /\ HandId(t)),
           recorded' = recorded, LogTypeOK'
    PROVE  IInv'
  <1>1. TypeOK'
    BY CreationTyped DEF IInv
  <1>2. CASE Calls(t, {"spawn", "foreign"}) /\ HandId(t)
    BY <1>1, <1>2, HandIdInv
  <1>3. CASE MakeChannel(t)
    <2>1. UNCHANGED <<status, det_id, child_index>>
      BY <1>3 DEF MakeChannel
    <2> QED
      BY <2>1, <1>1
      DEF IInv, IdWhenBorn, ParentHasId, BelowCounter, UniqueThreadIds, HasId
  <1> QED
    BY <1>2, <1>3 DEF Create, Calls

LEMMA ThreadStepInv ==
    ASSUME IInv, NEW t \in Thread, ThreadStep(t)
    PROVE  IInv'
  <1>1. status[t] = "running" => det_id[t] \in Id
    BY RunningHasId DEF IInv
  <1>2. CASE RecordCreation(t)
    <2>1. status[t] = "running" /\ det_id[t] \in Id
      BY <1>1, <1>2 DEF RecordCreation, LogsNext, Calls
    <2>2. CASE InitEventSender(det_id[t]) /\ UNCHANGED threadVars
      BY <1>2, <2>1, <2>2, QuietStepInv
      DEF QuietStep, LogStep, ThreadLogStep, RecordCreation, threadVars
    <2>3. CASE WriteEvent(det_id[t], Event(t)) /\ Create(t)
      <3>1. LogTypeOK'
        BY <2>1, <2>3, EventIsEntry, LogStepTyped DEF IInv, TypeOK, LogStep, ThreadLogStep
      <3> QED
        BY <1>2, <2>1, <2>3, <3>1, CreateInv DEF RecordCreation
    <2>4. CASE /\ Become(t, "panicked")
               /\ UNCHANGED <<logVars, det_id, child_index, channel_id, pos, channels>>
      BY <1>2, <2>1, <2>4, QuietStepInv DEF QuietStep, RecordCreation
    <2> QED
      BY <1>2, <2>2, <2>3, <2>4 DEF RecordCreation
  <1>3. CASE ReplayCreation(t)
    <2>1. status[t] = "running" /\ det_id[t] \in Id
      BY <1>1, <1>3 DEF ReplayCreation, LogsNext, Calls
    <2>2. CASE InitEventReceiver(det_id[t]) /\ UNCHANGED threadVars
      BY <1>3, <2>1, <2>2, QuietStepInv
      DEF QuietStep, LogStep, ThreadLogStep, ReplayCreation, threadVars
    <2>3. CASE GetLogEntry(det_id[t]) /\ Create(t)
      <3>1. LogTypeOK'
        BY <2>1, <2>3, LogStepTyped DEF IInv, TypeOK, LogStep, ThreadLogStep
      <3> QED
        BY <1>3, <2>1, <2>3, <3>1, CreateInv DEF ReplayCreation
    <2>4. CASE /\ LogStep \/ UNCHANGED logVars
               /\ Become(t, "panicked")
               /\ UNCHANGED <<det_id, child_index, channel_id, pos, channels>>
      BY <1>3, <2>1, <2>4, QuietStepInv DEF QuietStep, ReplayCreation
    <2> QED
      BY <1>3, <2>1, <2>2, <2>3, <2>4 DEF ReplayCreation, LogStep, ThreadLogStep
  <1>4. CASE HandIdToForeign(t)
    <2>1. LogTypeOK'
      BY <1>4, LogStepTyped DEF HandIdToForeign, IInv, TypeOK
    <2> QED
      BY <1>1, <1>4, <2>1, CreateInv DEF HandIdToForeign, Calls
  <1>5. CASE PanicTooDeep(t)
    BY <1>5, QuietStepInv DEF QuietStep, PanicTooDeep, Calls
  <1>6. CASE InitializeNewThread(t)
    BY <1>6, QuietStepInv DEF QuietStep, InitializeNewThread
  <1>7. CASE ExecutionDone(t)
    BY <1>7, QuietStepInv DEF QuietStep, ExecutionDone, Calls, LogStep
  <1>8. CASE Finish(t)
    BY <1>8, QuietStepInv DEF QuietStep, Finish, Calls
  <1> QED
    BY <1>2, <1>3, <1>4, <1>5, <1>6, <1>7, <1>8 DEF ThreadStep

\* A new process starts over, with the root alone.
LEMMA RestartInv ==
    ASSUME IInv, Restart
    PROVE  IInv'
  <1>1. LogTypeOK'
    BY LogStepTyped DEF IInv, TypeOK, Restart, LogStep
  <1>2. <<>> \in Id /\ 1 \in 1 .. MaxChildren + 1
    BY PathsInId, Limits
  <1>3. det_id' \in [Thread -> Id \cup {NoId}] /\ channels' \in [Thread -> Seq(ChannelIds)]
    BY <1>2 DEF Restart
  <1>4. recorded' \in [det_id : [Thread -> Id \cup {NoId}],
                       channels : [Thread -> Seq(ChannelIds)]]
    BY DEF IInv, TypeOK, Restart
  <1>5. TypeOK'
    BY <1>1, <1>2, <1>3, <1>4 DEF Restart, TypeOK
  <1>6. RootAlone'
    BY DEF Restart, RootAlone
  <1> QED
    BY <1>5, <1>6, StartInv, PTL

LEMMA InvInit == Init => IInv
  BY InitTyped, StartInv DEF Init, ProgramStart, RootAlone

LEMMA InvStep == IInv /\ [Next]_vars => IInv'
  <1> SUFFICES ASSUME IInv, [Next]_vars PROVE IInv'
    OBVIOUS
  <1>1. CASE \E t \in Thread : ThreadStep(t)
    BY <1>1, ThreadStepInv
  <1>2. CASE FlushLog
    BY <1>2, QuietStepInv DEF QuietStep, FlushLog, LogStep, threadVars
  <1>3. CASE Restart
    BY <1>3, RestartInv
  <1>4. CASE UNCHANGED vars
    BY <1>4, QuietStepInv DEF QuietStep, vars, threadVars
  <1> QED
    BY <1>1, <1>2, <1>3, <1>4 DEF Next

LEMMA InvHolds == Spec => []IInv
  BY InvInit, InvStep, PTL DEF Spec

-----------------------------------------------------------------------------
(* The second invariant: what a thread has created and logged follows from *)
(* its position in the program                                             *)

MakesChannel(t) == Positions(t, {"channel"})
Logs(t) == Positions(t, {"spawn", "channel"})

\* The id that thread t hands out at position i, if its own is id ...
ChildAt(id, t, i) == Append(id, 1 + Before(Spawns(t), i))

\* ... the channel that it creates there, and what it logs.
ChannelAt(id, t, i) == [det_thread_id |-> id, channel_id |-> 1 + Before(MakesChannel(t), i)]
EventAt(id, t, i) == IF Prog[t][i].kind = "spawn" THEN ThreadInitialized(ChildAt(id, t, i))
                     ELSE ChannelCreation(ChannelAt(id, t, i))

\* The counters of a thread count what it has created.
CountersCount == \A t \in Thread :
    /\ pos[t] <= Len(Prog[t]) + 1
    /\ child_index[t] = 1 + Before(Spawns(t), pos[t])
    /\ channel_id[t] = 1 + Before(MakesChannel(t), pos[t])
    /\ ~HasId(t) => pos[t] = 1

\* ids are those of one execution: the root has the empty path, and every other
\* thread the one its creator hands out at the place that creates the thread.
FromRoot(ids) ==
    /\ ids[Root] \in {NoId, <<>>}
    /\ \A t \in Thread \ {Root} : ids[t] # NoId =>
           \E p \in Thread : \E i \in Spawns(p) :
               /\ ids[p] # NoId
               /\ t = Prog[p][i].child
               /\ ids[t] = ChildAt(ids[p], p, i)

Numbered(ids, chans) == \A t \in Thread : \A n \in DOMAIN chans[t] :
    chans[t][n] = [det_thread_id |-> ids[t], channel_id |-> n]

Paths ==
    /\ det_id[Root] = <<>>
    /\ FromRoot(det_id)
    /\ FromRoot(recorded.det_id)
    /\ Numbered(det_id, channels)
    /\ Numbered(recorded.det_id, recorded.channels)
    /\ \A t \in Thread : Len(channels[t]) = channel_id[t] - 1

\* An id stands for the same thread in both executions.
SameThreads == mode = "Replay" =>
    \A t, u \in Thread : HasId(t) /\ recorded.det_id[u] # NoId =>
        (det_id[t] = recorded.det_id[u] <=> t = u)

\* The list under an id is the beginning of what the thread with that id logs.
IsLogOf(list, id, ids) == \A n \in DOMAIN list :
    \E t \in Thread : \E i \in Logs(t) :
        /\ ids[t] = id
        /\ Before(Logs(t), i) = n - 1
        /\ list[n] = EventAt(id, t, i)

Lists ==
    /\ \A id \in Id : IsLogOf(log[id], id, IF mode = "Record" THEN det_id ELSE recorded.det_id)
    /\ mode = "Record" => \A id \in Id \ saved : IsLogOf(Carried(id), id, det_id)
    /\ mode = "Record" => \A t \in Thread :
           HasId(t) /\ det_id[t] \notin saved =>
               Len(Carried(det_id[t])) = Before(Logs(t), pos[t])

\* A replayed thread has read one entry for each event that it has repeated.
Cursors ==
    /\ mode = "Record" => \A id \in Id : next[id] = 0
    /\ \A id \in Id : next[id] # 0 => \E t \in Thread : det_id[t] = id
    /\ mode = "Replay" => \A t \in Thread :
           HasId(t) /\ status[t] # "panicked" => next[det_id[t]] = Before(Logs(t), pos[t])

DetInv == CountersCount /\ Paths /\ SameThreads /\ Lists /\ Cursors

-----------------------------------------------------------------------------
(* Positions *)

LEMMA PositionsTyped ==
    ASSUME NEW t \in Thread, NEW kinds
    PROVE  /\ Positions(t, kinds) \subseteq Nat \ {0}
           /\ \A i \in Positions(t, kinds) : i <= Len(Prog[t]) /\ Prog[t][i].kind \in kinds
  <1>1. Prog[t] \in Seq(Creation)
    BY DetThreadAssumption
  <1>2. DOMAIN Prog[t] = 1 .. Len(Prog[t]) /\ Len(Prog[t]) \in Nat
    BY <1>1
  <1> QED
    BY <1>2 DEF Positions

\* A call is at a position of its kind, and the next position is one past it.
LEMMA AtPosition ==
    ASSUME TypeOK, NEW t \in Thread, NEW kinds, Calls(t, kinds)
    PROVE  pos[t] \in Nat \ {0} /\ pos[t] \in Positions(t, kinds) /\ pos[t] <= Len(Prog[t])
  <1>1. Prog[t] \in Seq(Creation) /\ pos[t] \in Nat \ {0}
    BY DetThreadAssumption DEF TypeOK
  <1> QED
    BY <1>1 DEF Calls, Positions

LEMMA CalledChild ==
    ASSUME TypeOK, NEW t \in Thread, Calls(t, {"spawn", "foreign"})
    PROVE  Child(t) \in Thread
  <1>1. Prog[t][pos[t]] \in Creation
    <2>1. Prog[t] \in Seq(Creation) /\ pos[t] \in Nat \ {0}
      BY DetThreadAssumption DEF TypeOK
    <2> QED
      BY <2>1 DEF Calls
  <1> QED
    BY <1>1 DEF Calls, Child, Creation

\* Each thread is created at one place.
LEMMA OnePlace ==
    ASSUME NEW t \in Thread, NEW u \in Thread, NEW i \in Spawns(t), NEW j \in Spawns(u),
           Prog[t][i].child = Prog[u][j].child
    PROVE  t = u /\ i = j
  BY DetThreadAssumption

\* As LastStep, whatever the limits.
LEMMA LastStepNat ==
    ASSUME NEW x \in Id, NEW y \in Id, NEW i \in Nat, NEW j \in Nat,
           Append(x, i) = Append(y, j)
    PROVE  x = y /\ i = j
  <1>1. x \in Seq(Nat) /\ y \in Seq(Nat)
    BY PathsInId, Limits
  <1>2. Append(x, i) = Append(y, j) <=> x = y /\ i = j
    BY <1>1, AppendInjective
  <1> QED
    BY <1>2

LEMMA AppendNotEmpty ==
    ASSUME NEW x \in Id, NEW i \in Nat
    PROVE  Append(x, i) # <<>>
  <1>1. x \in Seq(Nat)
    BY PathsInId, Limits
  <1>2. Append(x, i)[Len(x) + 1] = i /\ Len(Append(x, i)) = Len(x) + 1 /\ Len(x) \in Nat
    BY <1>1
  <1>3. Len(<<>>) = 0
    OBVIOUS
  <1> QED
    BY <1>2, <1>3

\* A child's path determines its creator's, and the place of its creation.
LEMMA ChildAtInjective ==
    ASSUME NEW x \in Id, NEW y \in Id, NEW t \in Thread, NEW i \in Spawns(t), NEW j \in Nat,
           ChildAt(x, t, i) = Append(y, 1 + j)
    PROVE  x = y /\ Before(Spawns(t), i) = j
  <1>1. i \in Nat
    BY PositionsTyped DEF Spawns
  <1>2. Before(Spawns(t), i) \in Nat
    BY <1>1, BeforeType
  <1>3. Append(x, 1 + Before(Spawns(t), i)) = Append(y, 1 + j)
    BY DEF ChildAt
  <1>4. x = y /\ 1 + Before(Spawns(t), i) = 1 + j
    BY <1>2, <1>3, LastStepNat
  <1> QED
    BY <1>2, <1>4

-----------------------------------------------------------------------------
(* What creations do *)

\* Handing out an id or making a channel: t moves on, the others stay, and at
\* most one thread gets an id, which nobody has.
Moves(t) ==
    /\ \A u \in Thread : pos'[u] = IF u = t THEN pos[t] + 1 ELSE pos[u]
    /\ \A u \in Thread : HasId(u) => det_id'[u] = det_id[u] /\ status'[u] = status[u]
    /\ \A u \in Thread : HasId(u)' /\ ~HasId(u) =>
           /\ det_id'[u] \in Id
           /\ pos[u] = 1
           /\ u # t
           /\ \A v \in Thread : HasId(v) => det_id[v] # det_id'[u]

LEMMA CreationMoves ==
    ASSUME IInv, IInv', CountersCount, NEW t \in Thread, det_id[t] \in Id,
           (HandId(t) /\ Child(t) \in Thread) \/ MakeChannel(t)
    PROVE  Moves(t)
  <1>1. \A u \in Thread : pos'[u] = IF u = t THEN pos[t] + 1 ELSE pos[u]
    BY DEF HandId, MakeChannel, Advance, IInv, TypeOK
  <1>2. \A u \in Thread : HasId(u) => det_id'[u] = det_id[u] /\ status'[u] = status[u]
    <2>1. CASE HandId(t) /\ Child(t) \in Thread
      <3>1. ~HasId(Child(t))
        BY <2>1 DEF HandId, IInv, IdWhenBorn
      <3> QED
        BY <2>1, <3>1 DEF HandId, Become, IInv, TypeOK
    <2>2. CASE MakeChannel(t)
      BY <2>2 DEF MakeChannel
    <2> QED
      BY <2>1, <2>2
  <1>3. HasId(t)
    BY NoIdAssumption DEF HasId
  <1>4. ASSUME NEW u \in Thread, HasId(u)', ~HasId(u)
        PROVE  det_id'[u] \in Id /\ pos[u] = 1 /\ u # t
    BY <1>3, <1>4 DEF HasId, IInv, TypeOK, CountersCount
  <1>5. ASSUME NEW u \in Thread, HasId(u)', ~HasId(u), NEW v \in Thread, HasId(v)
        PROVE  det_id[v] # det_id'[u]
    <2>1. det_id'[v] = det_id[v] /\ v # u
      BY <1>2, <1>5
    <2> QED
      BY <1>5, <2>1 DEF IInv, UniqueThreadIds, HasId
  <1> QED
    BY <1>1, <1>2, <1>4, <1>5 DEF Moves

\* The event of a creation is the one that belongs to its position.
LEMMA EventAtPosition ==
    ASSUME TypeOK, CountersCount, NEW t \in Thread, LogsNext(t)
    PROVE  /\ pos[t] \in Logs(t)
           /\ Event(t) = EventAt(det_id[t], t, pos[t])
  <1>1. CASE Calls(t, {"spawn"})
    <2>1. Prog[t][pos[t]].kind = "spawn" /\ pos[t] \in Logs(t)
      BY <1>1, AtPosition DEF Calls, Logs, Positions
    <2>2. new_child_det_id(t) = ChildAt(det_id[t], t, pos[t])
      BY DEF CountersCount, new_child_det_id, ChildAt
    <2> QED
      BY <1>1, <2>1, <2>2 DEF Event, EventAt
  <1>2. CASE Calls(t, {"channel"})
    <2>1. Prog[t][pos[t]].kind = "channel" /\ pos[t] \in Logs(t) /\ ~Calls(t, {"spawn"})
      BY <1>2, AtPosition DEF Calls, Logs, Positions
    <2>2. new_channel_id(t) = ChannelAt(det_id[t], t, pos[t])
      BY DEF CountersCount, new_channel_id, ChannelAt
    <2> QED
      BY <1>2, <2>1, <2>2 DEF Event, EventAt
  <1> QED
    BY <1>1, <1>2 DEF LogsNext

-----------------------------------------------------------------------------
(* Paths and counters *)

\* The counts of the next position.
LEMMA NextPosition ==
    ASSUME NEW t \in Thread, NEW kinds, NEW i \in Nat \ {0}
    PROVE  /\ Before(Positions(t, kinds), i) \in Nat
           /\ Before(Positions(t, kinds), i + 1) =
                  Before(Positions(t, kinds), i) + (IF i \in Positions(t, kinds) THEN 1 ELSE 0)
  BY BeforeType, BeforeNext

LEMMA StartCounters ==
    ASSUME NEW t \in Thread
    PROVE  /\ Before(Spawns(t), 1) = 0 /\ Before(MakesChannel(t), 1) = 0
           /\ Before(Logs(t), 1) = 0 /\ 1 <= Len(Prog[t]) + 1
  <1>1. Len(Prog[t]) \in Nat
    BY DetThreadAssumption
  <1> QED
    BY <1>1, BeforeFirst

\* The new thread's id is its creator's, extended; the same place of the
\* recorded execution extended the same id.
LEMMA HandIdPaths ==
    ASSUME IInv, CountersCount, Paths, SameThreads, NEW t \in Thread,
           Calls(t, {"spawn", "foreign"}), HandId(t), recorded' = recorded, mode' = mode
    PROVE  CountersCount' /\ Paths' /\ SameThreads'
  <1> DEFINE c == Child(t)
             i == pos[t]
             id == ChildAt(det_id[t], t, i)
  <1>1. /\ i \in Nat \ {0} /\ i \in Spawns(t) /\ i <= Len(Prog[t])
        /\ i \notin MakesChannel(t)
        /\ c = Prog[t][i].child /\ c \in Thread
    <2>1. i \in Nat \ {0} /\ i \in Spawns(t) /\ i <= Len(Prog[t])
      BY AtPosition DEF IInv, Spawns
    <2>2. i \notin MakesChannel(t)
      BY DEF MakesChannel, Positions, Calls
    <2>3. Prog[t][i] \in Creation
      BY <2>1, DetThreadAssumption
    <2>4. c \in Thread
      BY <2>3 DEF Calls, Child, Creation
    <2> QED
      BY <2>1, <2>2, <2>4 DEF Child
  <1>2. HasId(t) /\ ~HasId(c) /\ c # t /\ det_id[t] \in Id
    BY <1>1 DEF IInv, TypeOK, IdWhenBorn, HasId, HandId, Calls
  <1>3. Before(Spawns(t), i) \in Nat /\ Before(MakesChannel(t), i) \in Nat
    BY <1>1, NextPosition DEF Spawns, MakesChannel
  <1>4. id = new_child_det_id(t) /\ id # NoId
    <2>1. id = new_child_det_id(t)
      BY DEF CountersCount, new_child_det_id, ChildAt
    <2>2. child_index[t] \in 1 .. MaxChildren
      BY Limits DEF HandId, IInv, TypeOK
    <2>3. new_child_det_id(t) \in Id
      BY <1>2, <2>2, ExtendPath DEF HandId, TooDeep, new_child_det_id
    <2> QED
      BY <2>1, <2>3, NoIdAssumption
  <1>5. /\ \A u \in Thread : det_id'[u] = IF u = c THEN id ELSE det_id[u]
        /\ \A u \in Thread : pos'[u] = IF u = t THEN i + 1 ELSE pos[u]
        /\ \A u \in Thread : child_index'[u] = IF u = t THEN child_index[t] + 1
                                               ELSE child_index[u]
        /\ UNCHANGED <<channel_id, channels>>
    BY <1>4 DEF HandId, Advance, IInv, TypeOK
  <1>6. c # Root /\ det_id'[Root] = <<>>
    BY <1>2, <1>5, PathsInId, NoIdAssumption, DetThreadAssumption DEF Paths, HasId
  <1> HIDE DEF c, i, id
  <1>7. CountersCount'
    <2> SUFFICES ASSUME NEW u \in Thread
                 PROVE  /\ pos'[u] <= Len(Prog[u]) + 1
                        /\ child_index'[u] = 1 + Before(Spawns(u), pos'[u])
                        /\ channel_id'[u] = 1 + Before(MakesChannel(u), pos'[u])
                        /\ ~HasId(u)' => pos'[u] = 1
      BY DEF CountersCount
    <2>1. CASE u = t
      <3>1. /\ Before(Spawns(t), i + 1) = Before(Spawns(t), i) + 1
            /\ Before(MakesChannel(t), i + 1) = Before(MakesChannel(t), i)
        BY <1>1, <1>3, NextPosition DEF Spawns, MakesChannel
      <3>2. /\ child_index[t] = 1 + Before(Spawns(t), i)
            /\ channel_id[t] = 1 + Before(MakesChannel(t), i)
        BY DEF CountersCount, i
      <3>3. Len(Prog[t]) \in Nat
        BY DetThreadAssumption
      <3>4. i + 1 <= Len(Prog[t]) + 1
        BY <1>1, <3>3
      <3>5. HasId(t)'
        BY <1>2, <1>5 DEF HasId
      <3>6. pos'[t] = i + 1 /\ child_index'[t] = child_index[t] + 1 /\ channel_id'[t] = channel_id[t]
        BY <1>5
      <3> QED
        BY <2>1, <1>3, <3>1, <3>2, <3>4, <3>5, <3>6
    <2>2. CASE u # t
      BY <2>2, <1>2, <1>5 DEF CountersCount, HasId
    <2> QED
      BY <2>1, <2>2
  <1>8. FromRoot(det_id)'
    <2> SUFFICES ASSUME NEW u \in Thread \ {Root}, det_id'[u] # NoId
                 PROVE  \E p \in Thread : \E j \in Spawns(p) :
                            /\ det_id'[p] # NoId
                            /\ u = Prog[p][j].child
                            /\ det_id'[u] = ChildAt(det_id'[p], p, j)
      BY <1>6 DEF FromRoot
    <2>1. CASE u = c
      <3>1. det_id'[t] = det_id[t] /\ det_id'[t] # NoId /\ det_id'[u] = id
        BY <2>1, <1>2, <1>5 DEF HasId
      <3> QED
        BY <2>1, <3>1, <1>1 DEF id
    <2>2. CASE u # c
      <3>1. det_id'[u] = det_id[u] /\ det_id[u] # NoId
        BY <2>2, <1>5
      <3>2. PICK p \in Thread : \E j \in Spawns(p) :
                     /\ det_id[p] # NoId
                     /\ u = Prog[p][j].child
                     /\ det_id[u] = ChildAt(det_id[p], p, j)
        BY <3>1 DEF Paths, FromRoot
      <3>3. det_id'[p] = det_id[p]
        BY <3>2, <1>2, <1>5 DEF HasId
      <3> QED
        BY <3>1, <3>2, <3>3
    <2> QED
      BY <2>1, <2>2
  <1>9. Numbered(det_id, channels)'
    <2> SUFFICES ASSUME NEW u \in Thread, NEW n \in DOMAIN channels'[u]
                 PROVE  channels'[u][n] = [det_thread_id |-> det_id'[u], channel_id |-> n]
      BY DEF Numbered
    <2>1. u # c
      <3>1. SUFFICES ASSUME u = c PROVE FALSE
        OBVIOUS
      <3>2. pos[c] = 1 /\ channel_id[c] = 1
        BY <1>1, <1>2, StartCounters DEF CountersCount
      <3>3. Len(channels[c]) = 0 /\ channels[c] \in Seq(ChannelIds)
        BY <1>1, <3>2 DEF Paths, IInv, TypeOK
      <3> QED
        BY <3>1, <3>3, <1>5
    <2> QED
      BY <2>1, <1>5 DEF Paths, Numbered
  <1>10. Paths'
    BY <1>5, <1>6, <1>8, <1>9 DEF Paths
  <1>11. SameThreads'
    <2> SUFFICES ASSUME mode = "Replay", NEW u \in Thread, NEW v \in Thread,
                        HasId(u)', recorded.det_id[v] # NoId
                 PROVE  det_id'[u] = recorded.det_id[v] <=> u = v
      BY DEF SameThreads
    <2>1. CASE u # c
      BY <2>1, <1>5 DEF SameThreads, HasId
    <2>2. CASE u = c
      <3>1. \A w \in Thread : recorded.det_id[w] # NoId => recorded.det_id[w] \in Id
        BY DEF IInv, TypeOK
      <3>2. ASSUME v # Root, NEW p \in Thread, NEW j \in Spawns(p),
                   recorded.det_id[p] # NoId, v = Prog[p][j].child,
                   recorded.det_id[v] = ChildAt(recorded.det_id[p], p, j)
            PROVE  det_id'[u] = recorded.det_id[v] <=> u = v
        <4>1. ASSUME u = v PROVE det_id'[u] = recorded.det_id[v]
          <5>1. p = t /\ j = i
            <6>1. Prog[p][j].child = Prog[t][i].child /\ i \in Spawns(t) /\ j \in Spawns(p)
              BY <4>1, <2>2, <3>2, <1>1
            <6> QED
              BY <3>2, <6>1, OnePlace
          <5>2. det_id[t] = recorded.det_id[t]
            BY <5>1, <3>2, <1>2 DEF SameThreads
          <5> QED
            BY <5>1, <5>2, <3>2, <2>2, <1>5 DEF id
        <4>2. ASSUME det_id'[u] = recorded.det_id[v] PROVE u = v
          <5>1. ChildAt(recorded.det_id[p], p, j) = Append(det_id[t], 1 + Before(Spawns(t), i))
            BY <4>2, <3>2, <2>2, <1>5 DEF id, ChildAt
          <5>2. recorded.det_id[p] = det_id[t] /\ Before(Spawns(p), j) = Before(Spawns(t), i)
            <6>1. recorded.det_id[p] \in Id /\ det_id[t] \in Id
              BY <1>2, <3>1, <3>2
            <6> QED
              <7> DEFINE n == Before(Spawns(t), i)
                         x == recorded.det_id[p]
                         y == det_id[t]
              <7>1. n \in Nat /\ ChildAt(x, p, j) = Append(y, 1 + n) /\ x \in Id /\ y \in Id
                BY <5>1, <6>1, <1>3
              <7> HIDE DEF n, x, y
              <7>2. x = y /\ Before(Spawns(p), j) = n
                BY <7>1, <3>2, ChildAtInjective
              <7> QED
                BY <7>2 DEF n, x, y
          <5>3. p = t
            BY <5>2, <1>2, <3>2 DEF SameThreads
          <5>4. j \in Nat \ {0}
            BY PositionsTyped DEF Spawns
          <5>5. j = i
            BY <5>2, <5>3, <5>4, <1>1, BeforeInjective
          <5> QED
            BY <5>3, <5>5, <1>1, <2>2, <3>2
        <4> QED
          BY <4>1, <4>2
      <3>3. CASE v = Root
        <4>1. recorded.det_id[v] = <<>>
          BY <3>3 DEF Paths, FromRoot
        <4>2. det_id'[u] # <<>>
          <5>1. det_id'[u] = Append(det_id[t], 1 + Before(Spawns(t), i))
            BY <2>2, <1>5 DEF id, ChildAt
          <5>2. 1 + Before(Spawns(t), i) \in Nat
            BY <1>3
          <5> HIDE DEF ChildAt
          <5> QED
            BY <5>1, <5>2, <1>2, AppendNotEmpty
        <4> QED
          BY <3>3, <4>1, <4>2, <2>2, <1>6
      <3>4. CASE v # Root
        <4>1. PICK p \in Thread : \E j \in Spawns(p) :
                       /\ recorded.det_id[p] # NoId
                       /\ v = Prog[p][j].child
                       /\ recorded.det_id[v] = ChildAt(recorded.det_id[p], p, j)
          BY <3>4 DEF Paths, FromRoot
        <4> QED
          BY <3>2, <3>4, <4>1
      <3> QED
        BY <3>3, <3>4
    <2> QED
      BY <2>1, <2>2
  <1> QED
    BY <1>7, <1>10, <1>11

\* A new channel takes the next number of its creator.
LEMMA MakeChannelPaths ==
    ASSUME IInv, CountersCount, Paths, SameThreads, NEW t \in Thread,
           Calls(t, {"channel"}), MakeChannel(t), recorded' = recorded, mode' = mode
    PROVE  CountersCount' /\ Paths' /\ SameThreads'
  <1> DEFINE i == pos[t]
  <1>1. i \in Nat \ {0} /\ i \in MakesChannel(t) /\ i <= Len(Prog[t]) /\ i \notin Spawns(t)
    <2>1. i \in Nat \ {0} /\ i \in MakesChannel(t) /\ i <= Len(Prog[t])
      BY AtPosition DEF IInv, MakesChannel
    <2>2. i \notin Spawns(t)
      BY DEF Spawns, Positions, Calls
    <2> QED
      BY <2>1, <2>2
  <1>2. HasId(t) /\ det_id[t] \in Id
    BY DEF IInv, TypeOK, IdWhenBorn, HasId, Calls
  <1>3. /\ \A u \in Thread : pos'[u] = IF u = t THEN i + 1 ELSE pos[u]
        /\ \A u \in Thread : channel_id'[u] = IF u = t THEN channel_id[t] + 1 ELSE channel_id[u]
        /\ \A u \in Thread : channels'[u] = IF u = t THEN Append(channels[t], new_channel_id(t))
                                            ELSE channels[u]
        /\ UNCHANGED <<status, det_id, child_index>>
    BY DEF MakeChannel, Advance, IInv, TypeOK
  <1> HIDE DEF i
  <1>4. CountersCount'
    <2> SUFFICES ASSUME NEW u \in Thread
                 PROVE  /\ pos'[u] <= Len(Prog[u]) + 1
                        /\ child_index'[u] = 1 + Before(Spawns(u), pos'[u])
                        /\ channel_id'[u] = 1 + Before(MakesChannel(u), pos'[u])
                        /\ ~HasId(u)' => pos'[u] = 1
      BY DEF CountersCount
    <2>1. CASE u = t
      <3>1. /\ Before(Spawns(t), i + 1) = Before(Spawns(t), i)
            /\ Before(MakesChannel(t), i + 1) = Before(MakesChannel(t), i) + 1
            /\ Before(Spawns(t), i) \in Nat /\ Before(MakesChannel(t), i) \in Nat
        BY <1>1, NextPosition DEF Spawns, MakesChannel
      <3>2. /\ child_index[t] = 1 + Before(Spawns(t), i)
            /\ channel_id[t] = 1 + Before(MakesChannel(t), i)
        BY DEF CountersCount, i
      <3>3. Len(Prog[t]) \in Nat
        BY DetThreadAssumption
      <3>4. i + 1 <= Len(Prog[t]) + 1
        BY <1>1, <3>3
      <3>5. HasId(t)'
        BY <1>2, <1>3 DEF HasId
      <3>6. pos'[t] = i + 1 /\ child_index'[t] = child_index[t] /\ channel_id'[t] = channel_id[t] + 1
        BY <1>3
      <3> QED
        BY <2>1, <3>1, <3>2, <3>4, <3>5, <3>6
    <2>2. CASE u # t
      BY <2>2, <1>2, <1>3 DEF CountersCount, HasId
    <2> QED
      BY <2>1, <2>2
  <1>5. /\ Numbered(det_id, channels)'
        /\ \A u \in Thread : Len(channels'[u]) = channel_id'[u] - 1
    <2>1. /\ Len(channels[t]) = channel_id[t] - 1
          /\ channel_id[t] \in Nat \ {0}
          /\ channels[t] \in Seq(ChannelIds) /\ new_channel_id(t) \in ChannelIds
      <3>1. channel_id[t] \in 1 .. MaxChildren
        BY Limits DEF MakeChannel, IInv, TypeOK
      <3>2. new_channel_id(t) \in ChannelIds
        BY <1>2, <3>1 DEF new_channel_id, ChannelIds
      <3> QED
        BY <3>1, <3>2, Limits DEF Paths, IInv, TypeOK
    <2>2. /\ channels'[t] = Append(channels[t], new_channel_id(t))
          /\ Len(channels'[t]) = channel_id[t]
          /\ DOMAIN channels'[t] = 1 .. channel_id[t]
          /\ channels'[t][channel_id[t]] = new_channel_id(t)
          /\ \A n \in 1 .. channel_id[t] - 1 : channels'[t][n] = channels[t][n]
          /\ DOMAIN channels[t] = 1 .. channel_id[t] - 1
      <3> DEFINE q == channels[t]
                 x == new_channel_id(t)
                 m == channel_id[t]
      <3>1. channels'[t] = Append(q, x)
        BY <1>3
      <3>2. q \in Seq(ChannelIds) /\ x \in ChannelIds /\ Len(q) = m - 1 /\ m \in Nat \ {0}
        BY <2>1
      <3> HIDE DEF q, x, m
      <3>3. /\ Len(Append(q, x)) = m /\ DOMAIN Append(q, x) = 1 .. m
            /\ Append(q, x)[m] = x
            /\ \A n \in 1 .. m - 1 : Append(q, x)[n] = q[n]
            /\ DOMAIN q = 1 .. m - 1
        BY <3>2
      <3> QED
        BY <3>1, <3>3 DEF q, x, m
    <2>3. \A n \in DOMAIN channels'[t] :
              channels'[t][n] = [det_thread_id |-> det_id'[t], channel_id |-> n]
      <3> SUFFICES ASSUME NEW n \in DOMAIN channels'[t]
                   PROVE  channels'[t][n] = [det_thread_id |-> det_id[t], channel_id |-> n]
        BY <1>3
      <3>1. CASE n = channel_id[t]
        BY <2>2, <3>1 DEF new_channel_id
      <3>2. CASE n # channel_id[t]
        <4>1. n \in 1 .. channel_id[t] - 1
          BY <2>1, <2>2, <3>2
        <4> QED
          BY <2>2, <4>1 DEF Paths, Numbered
      <3> QED
        BY <3>1, <3>2
    <2>4. Numbered(det_id, channels)'
      BY <1>3, <2>3 DEF Paths, Numbered
    <2>5. \A u \in Thread : Len(channels'[u]) = channel_id'[u] - 1
      BY <1>3, <2>1, <2>2 DEF Paths
    <2> QED
      BY <2>4, <2>5
  <1>6. Paths'
    BY <1>3, <1>5 DEF Paths, FromRoot
  <1>7. SameThreads'
    BY <1>3 DEF SameThreads, HasId
  <1> QED
    BY <1>4, <1>6, <1>7

\* A new process starts from the root, and remembers the ids of the first.
LEMMA RestartPaths ==
    ASSUME IInv, CountersCount, Paths, Restart
    PROVE  CountersCount' /\ Paths' /\ SameThreads'
  <1>1. /\ det_id' = [t \in Thread |-> IF t = Root THEN <<>> ELSE NoId]
        /\ pos' = [t \in Thread |-> 1]
        /\ child_index' = [t \in Thread |-> 1]
        /\ channel_id' = [t \in Thread |-> 1]
        /\ channels' = [t \in Thread |-> <<>>]
        /\ recorded'.det_id = det_id /\ recorded'.channels = channels
    BY DEF Restart
  <1>2. CountersCount'
    BY <1>1, StartCounters DEF CountersCount
  <1>3. FromRoot(det_id)'
    BY <1>1, DetThreadAssumption DEF FromRoot
  <1>4. Root \in Thread /\ det_id'[Root] = <<>>
    BY <1>1, DetThreadAssumption
  <1>5. Numbered(det_id, channels)'
    BY <1>1 DEF Numbered
  <1>6. FromRoot(recorded.det_id)' /\ Numbered(recorded.det_id, recorded.channels)'
    BY <1>1 DEF Paths, FromRoot, Numbered
  <1>7. Paths'
    BY <1>1, <1>3, <1>4, <1>5, <1>6 DEF Paths
  <1>8. SameThreads'
    <2> SUFFICES ASSUME NEW t \in Thread, NEW u \in Thread, HasId(t)', det_id[u] # NoId
                 PROVE  det_id'[t] = det_id[u] <=> t = u
      BY <1>1 DEF SameThreads
    <2>1. t = Root /\ det_id'[t] = <<>> /\ det_id[Root] = <<>>
      BY <1>1 DEF HasId, Paths
    <2>2. CASE u = Root
      BY <2>1, <2>2
    <2>3. CASE u # Root
      <3>1. PICK p \in Thread : \E i \in Spawns(p) :
                     det_id[p] # NoId /\ det_id[u] = ChildAt(det_id[p], p, i)
        BY <2>3 DEF Paths, FromRoot
      <3>2. PICK i \in Spawns(p) : det_id[u] = ChildAt(det_id[p], p, i)
        BY <3>1
      <3>3. det_id[p] \in Id /\ 1 + Before(Spawns(p), i) \in Nat
        <4>1. i \in Nat
          BY PositionsTyped DEF Spawns
        <4> QED
          <5>1. det_id[p] \in Id
            BY <3>1 DEF IInv, TypeOK
          <5>2. Before(Spawns(p), i) \in Nat
            BY <4>1, BeforeType
          <5> QED
            BY <5>1, <5>2
      <3>4. det_id[u] # <<>>
        BY <3>2, <3>3, AppendNotEmpty DEF ChildAt
      <3> QED
        BY <2>1, <2>3, <3>4
    <2> QED
      BY <2>2, <2>3
  <1> QED
    BY <1>2, <1>7, <1>8

LEMMA QuietPaths ==
    ASSUME CountersCount, Paths, SameThreads, mode' = mode,
           UNCHANGED <<det_id, child_index, channel_id, pos, channels, recorded>>
    PROVE  CountersCount' /\ Paths' /\ SameThreads'
  BY DEF CountersCount, Paths, FromRoot, Numbered, SameThreads, HasId

-----------------------------------------------------------------------------
(* Lists *)

LEMMA IsLogOfMore ==
    ASSUME NEW list, NEW id, NEW ids, NEW moreIds, IsLogOf(list, id, ids),
           \A t \in Thread : ids[t] = id => moreIds[t] = id
    PROVE  IsLogOf(list, id, moreIds)
  BY DEF IsLogOf

LEMMA IsLogOfEmpty ==
    ASSUME NEW id, NEW ids
    PROVE  IsLogOf(<<>>, id, ids)
  BY DEF IsLogOf

LEMMA IsLogOfPrefix ==
    ASSUME NEW list \in Seq(Entry), NEW more \in Seq(Entry), NEW id, NEW ids,
           IsLogOf(more, id, ids), Len(list) <= Len(more),
           \A n \in 1 .. Len(list) : more[n] = list[n]
    PROVE  IsLogOf(list, id, ids)
  <1>1. \A n \in DOMAIN list : n \in DOMAIN more /\ more[n] = list[n]
    OBVIOUS
  <1> QED
    BY <1>1 DEF IsLogOf

\* The list grows by the next event of the thread with this id.
LEMMA IsLogOfAppend ==
    ASSUME NEW list \in Seq(Entry), NEW entry \in Entry, NEW id, NEW ids,
           IsLogOf(list, id, ids), NEW t \in Thread, NEW i \in Logs(t),
           ids[t] = id, Before(Logs(t), i) = Len(list), entry = EventAt(id, t, i)
    PROVE  IsLogOf(Append(list, entry), id, ids)
  <1> DEFINE more == Append(list, entry)
             m == Len(list) + 1
  <1>1. /\ Len(list) \in Nat /\ DOMAIN more = 1 .. m /\ more[m] = entry
        /\ DOMAIN list = 1 .. m - 1
        /\ \A n \in 1 .. m - 1 : more[n] = list[n]
    OBVIOUS
  <1> SUFFICES ASSUME NEW n \in DOMAIN more
               PROVE  \E u \in Thread : \E j \in Logs(u) :
                          /\ ids[u] = id
                          /\ Before(Logs(u), j) = n - 1
                          /\ more[n] = EventAt(id, u, j)
    BY DEF IsLogOf
  <1>2. CASE n = m
    BY <1>1, <1>2
  <1>3. CASE n # m
    <2>1. n \in DOMAIN list /\ more[n] = list[n]
      BY <1>1, <1>3
    <2> QED
      BY <2>1 DEF IsLogOf
  <1> QED
    BY <1>2, <1>3

\* Steps that leave the ids, the positions and the lists alone.
LEMMA QuietLists ==
    ASSUME Lists, UNCHANGED <<mode, log, channel, saved, det_id, pos, recorded>>
    PROVE  Lists'
  <1>1. \A id \in Id : IsLogOf(log[id], id, IF mode = "Record" THEN det_id ELSE recorded.det_id)'
    BY DEF Lists, IsLogOf
  <1>2. ASSUME mode = "Record", NEW id \in Id \ saved
        PROVE  Carried(id)' = Carried(id) /\ IsLogOf(Carried(id), id, det_id')
    BY <1>2 DEF Lists, IsLogOf, Carried
  <1>3. ASSUME mode = "Record", NEW t \in Thread, HasId(t), det_id[t] \notin saved
        PROVE  Len(log[det_id[t]] \o channel[det_id[t]]) = Before(Logs(t), pos[t])
    BY <1>3 DEF Lists, Carried
  <1>4. mode' = "Record" => \A id \in Id \ saved' : IsLogOf(Carried(id), id, det_id)'
    BY <1>2
  <1>5. mode' = "Record" => \A t \in Thread :
            HasId(t)' /\ det_id'[t] \notin saved' =>
                Len(log'[det_id'[t]] \o channel'[det_id'[t]]) = Before(Logs(t), pos'[t])
    BY <1>3 DEF HasId
  <1> QED
    BY <1>1, <1>4, <1>5 DEF Lists, Carried

\* get_all_entries moves entries of a list that it has not saved before, and
\* drops only what was written after that.
LEMMA FlushLists ==
    ASSUME TypeOK, DrainedOnce, Lists, Flush, UNCHANGED <<det_id, pos, recorded>>
    PROVE  Lists'
  <1>1. LogTypeOK /\ mode = "Record" /\ mode' = "Record"
    BY NoIdAssumption
    DEF Flush, CollectEntry, CollectEntries, DropReceiver, WriteFile, DrainedOnce, TypeOK, LogTypeOK
  <1>2. ASSUME NEW c \in Id, CollectEntry(c) PROVE Lists'
    <2>1. c \notin saved /\ saved' = saved /\ \A id \in Id : id # c => log'[id] = log[id]
      BY <1>1, <1>2 DEF CollectEntry, LogTypeOK
    <2>2. \A id \in Id : Carried(id)' = Carried(id)
      BY <1>1, <1>2, CarriedCollect
    <2>3. IsLogOf(log'[c], c, det_id)
      <3>1. IsLogOf(Carried(c), c, det_id)
        BY <1>1, <2>1 DEF Lists
      <3>3. /\ log'[c] \in Seq(Entry) /\ Carried(c) \in Seq(Entry)
            /\ Len(log'[c]) <= Len(Carried(c))
            /\ \A n \in 1 .. Len(log'[c]) : Carried(c)[n] = log'[c][n]
        BY <1>1, <1>2, CarriedTyped, CarriedCollect
      <3> QED
        BY <3>1, <3>3, IsLogOfPrefix
    <2>4. \A id \in Id : IsLogOf(log'[id], id, det_id)
      BY <1>1, <2>1, <2>3 DEF Lists
    <2>5. \A id \in Id \ saved' : IsLogOf(Carried(id)', id, det_id)
      BY <1>1, <2>1, <2>2 DEF Lists
    <2> QED
      BY <1>1, <2>1, <2>2, <2>4, <2>5 DEF Lists, HasId, TypeOK
  <1>3. ASSUME NEW c \in Id, CollectEntries(c) PROVE Lists'
    <2>1. saved' = saved \cup {c} /\ log' = log /\ \A id \in Id : Carried(id)' = Carried(id)
      BY <1>3 DEF CollectEntries, Carried
    <2> QED
      BY <1>1, <2>1 DEF Lists, HasId, TypeOK
  <1>4. CASE DropReceiver
    <2>1. /\ log' = log /\ saved' = saved /\ draining \in saved
          /\ \A id \in Id : id # draining => Carried(id)' = Carried(id)
      BY <1>1, <1>4 DEF DropReceiver, Carried, LogTypeOK
    <2> QED
      BY <1>1, <2>1 DEF Lists, HasId, TypeOK
  <1>5. CASE WriteFile
    BY <1>5, QuietLists DEF WriteFile
  <1> QED
    BY <1>2, <1>3, <1>4, <1>5 DEF Flush

\* A creation writes its event, or is none that is written.
LEMMA CreationLists ==
    ASSUME TypeOK, Lists, NEW t \in Thread, Moves(t), det_id[t] \in Id,
           pos[t] \in Nat \ {0}, UNCHANGED <<mode, log, saved, recorded>>,
           \/ channel' = channel /\ (mode = "Record" => pos[t] \notin Logs(t))
           \/ \E entry \in Entry :
                  /\ channel' = [channel EXCEPT ![det_id[t]] = Append(@, entry)]
                  /\ entry = EventAt(det_id[t], t, pos[t])
                  /\ pos[t] \in Logs(t),
           UniqueThreadIds
    PROVE  Lists'
  <1>1. HasId(t)
    BY NoIdAssumption DEF HasId
  <1>2. \A id \in Id : \A u \in Thread : det_id[u] = id => det_id'[u] = id
    BY NoIdAssumption DEF Moves, HasId
  <1>3. \A id \in Id : IsLogOf(log[id], id, IF mode = "Record" THEN det_id ELSE recorded.det_id)'
    <2> SUFFICES ASSUME NEW id \in Id
                 PROVE  IsLogOf(log[id], id,
                                IF mode = "Record" THEN det_id' ELSE recorded.det_id)
      OBVIOUS
    <2>1. CASE mode = "Record"
      <3>1. IsLogOf(log[id], id, det_id)
        BY <2>1 DEF Lists
      <3>2. IsLogOf(log[id], id, det_id')
        BY <1>2, <3>1, IsLogOfMore
      <3> QED
        BY <2>1, <3>2
    <2>2. CASE mode # "Record"
      BY <2>2 DEF Lists
    <2> QED
      BY <2>1, <2>2
  <1>4. CASE mode # "Record"
    BY <1>3, <1>4 DEF Lists
  <1>5. CASE mode = "Record"
    <2>0. PICK me \in Id : me = det_id[t]
      OBVIOUS
    <2>1. /\ Before(Logs(t), pos[t]) \in Nat
          /\ Before(Logs(t), pos[t] + 1) =
                 Before(Logs(t), pos[t]) + (IF pos[t] \in Logs(t) THEN 1 ELSE 0)
      BY NextPosition DEF Logs
    <2>2. \A id \in Id \ saved : IsLogOf(Carried(id), id, det_id')
      <3> TAKE id \in Id \ saved
      <3>1. IsLogOf(Carried(id), id, det_id)
        BY <1>5 DEF Lists
      <3> QED
        BY <1>2, <3>1, IsLogOfMore
    <2>3. \A id \in Id : id # me => Carried(id)' = Carried(id)
      BY <2>0 DEF TypeOK, LogTypeOK, Carried
    <2>4. me \notin saved => /\ IsLogOf(Carried(me)', me, det_id')
                             /\ Len(Carried(me)') = Before(Logs(t), pos[t] + 1)
      <3> SUFFICES ASSUME me \notin saved
                   PROVE  /\ IsLogOf(Carried(me)', me, det_id')
                          /\ Len(Carried(me)') = Before(Logs(t), pos[t] + 1)
        OBVIOUS
      <3>1. IsLogOf(Carried(me), me, det_id') /\ Len(Carried(me)) = Before(Logs(t), pos[t])
        BY <1>1, <1>5, <2>0, <2>2 DEF Lists
      <3>2. CASE channel' = channel /\ pos[t] \notin Logs(t)
        <4>1. Carried(me)' = Carried(me)
          BY <3>2 DEF Carried
        <4> QED
          BY <2>1, <3>1, <3>2, <4>1
      <3>3. ASSUME NEW entry \in Entry,
                   channel' = [channel EXCEPT ![me] = Append(@, entry)],
                   entry = EventAt(me, t, pos[t]), pos[t] \in Logs(t)
            PROVE  /\ IsLogOf(Carried(me)', me, det_id')
                   /\ Len(Carried(me)') = Before(Logs(t), pos[t] + 1)
        <4>1. Carried(me) \in Seq(Entry) /\ Carried(me)' = Append(Carried(me), entry)
          <5>1. LogTypeOK /\ channel'[me] = Append(channel[me], entry)
            BY <2>0, <3>3 DEF TypeOK, LogTypeOK
          <5> QED
            BY <5>1, CarriedTyped, CarriedWrite
        <4>2. det_id'[t] = me
          BY <1>1, <2>0 DEF Moves
        <4>3. Len(Append(Carried(me), entry)) = Len(Carried(me)) + 1
          BY <4>1
        <4>4. IsLogOf(Append(Carried(me), entry), me, det_id')
          <5> DEFINE ids == det_id'
                     i == pos[t]
                     list == Carried(me)
          <5>1. /\ list \in Seq(Entry) /\ IsLogOf(list, me, ids) /\ ids[t] = me
                /\ i \in Logs(t) /\ Before(Logs(t), i) = Len(list) /\ entry = EventAt(me, t, i)
            BY <3>1, <3>3, <4>1, <4>2
          <5> HIDE DEF ids, i, list
          <5>2. IsLogOf(Append(list, entry), me, ids)
            BY <5>1, IsLogOfAppend
          <5> QED
            BY <5>2 DEF ids, list
        <4> QED
          BY <4>1, <4>3, <4>4, <3>1, <3>3, <2>1
      <3> QED
        BY <2>0, <3>2, <3>3, <1>5
    <2>5. \A id \in Id \ saved : IsLogOf(Carried(id)', id, det_id')
      BY <2>2, <2>3, <2>4
    <2>6. ASSUME NEW u \in Thread, HasId(u)', NEW id \in Id \ saved, id = det_id'[u]
          PROVE  Len(Carried(id)') = Before(Logs(u), pos'[u])
      <3>1. CASE u = t
        BY <1>1, <2>0, <2>4, <2>6, <3>1 DEF Moves
      <3>2. CASE u # t /\ HasId(u)
        <4>1. id = det_id[u] /\ pos'[u] = pos[u] /\ id # me
          BY <2>0, <2>6, <3>2, <1>1 DEF Moves, UniqueThreadIds, HasId, TypeOK
        <4>2. Len(Carried(id)) = Before(Logs(u), pos[u])
          BY <4>1, <3>2, <2>6, <1>5 DEF Lists
        <4> QED
          BY <4>1, <4>2, <2>3, <2>6
      <3>3. CASE ~HasId(u)
        <4>1. id # me /\ pos'[u] = 1 /\ \A v \in Thread : HasId(v) => det_id[v] # id
          BY <1>1, <2>0, <2>6, <3>3 DEF Moves
        <4>2. Carried(id)' = Carried(id) /\ IsLogOf(Carried(id), id, det_id)
          BY <1>5, <2>3, <2>6, <4>1 DEF Lists
        <4>3. DOMAIN Carried(id) = {}
          BY <4>1, <4>2, NoIdAssumption DEF IsLogOf, HasId
        <4>4. Len(Carried(id)) = 0
          <5>1. Carried(id) \in Seq(Entry)
            BY CarriedTyped DEF TypeOK
          <5> DEFINE q == Carried(id)
          <5>2. q \in Seq(Entry) /\ DOMAIN q = {}
            BY <4>3, <5>1
          <5> HIDE DEF q
          <5>3. q = <<>>
            BY <5>2, EmptySeq
          <5>4. Len(q) = 0
            BY <5>3
          <5> QED
            BY <5>4 DEF q
        <4> QED
          BY <4>1, <4>2, <4>4, StartCounters
      <3> QED
        BY <3>1, <3>2, <3>3
    <2>7. ASSUME NEW u \in Thread, HasId(u)', det_id'[u] \notin saved
          PROVE  det_id'[u] \in Id \ saved
      BY <2>7, <1>1 DEF Moves, HasId, TypeOK
    <2> QED
      BY <1>3, <1>5, <2>5, <2>6, <2>7 DEF Lists, Carried
  <1> QED
    BY <1>4, <1>5

-----------------------------------------------------------------------------
(* Cursors *)

\* Panicked threads stay so.
QuietStatus == \A t \in Thread : status[t] = "panicked" => status'[t] = "panicked"

LEMMA QuietCursors ==
    ASSUME Cursors, QuietStatus, UNCHANGED <<mode, next, det_id, pos>>
    PROVE  Cursors'
  BY DEF Cursors, QuietStatus, HasId

\* A creation reads its entry, or is none that is read.
LEMMA CreationCursors ==
    ASSUME TypeOK, Cursors, NEW t \in Thread, Moves(t), det_id[t] \in Id,
           pos[t] \in Nat \ {0}, status[t] = "running", mode' = mode, UniqueThreadIds,
           \/ next' = next /\ (mode = "Replay" => pos[t] \notin Logs(t))
           \/ GetLogEntry(det_id[t]) /\ pos[t] \in Logs(t)
    PROVE  Cursors'
  <1> DEFINE me == det_id[t]
  <1>1. HasId(t) /\ det_id'[t] = me
    BY NoIdAssumption DEF HasId, Moves
  <1>2. \A id \in Id : id # me => next'[id] = next[id]
    BY DEF GetLogEntry, TypeOK, LogTypeOK
  <1>3. mode = "Record" => \A id \in Id : next'[id] = 0
    BY DEF GetLogEntry, HasEntry, Cursors
  <1>4. \A id \in Id : next'[id] # 0 => \E u \in Thread : det_id'[u] = id
    <2> SUFFICES ASSUME NEW id \in Id, next'[id] # 0
                 PROVE  \E u \in Thread : det_id'[u] = id
      OBVIOUS
    <2>1. CASE id = me
      BY <1>1, <2>1
    <2>2. CASE id # me
      <3>1. PICK u \in Thread : det_id[u] = id
        BY <1>2, <2>2 DEF Cursors
      <3> QED
        BY <3>1, NoIdAssumption DEF Moves, HasId
    <2> QED
      BY <2>1, <2>2
  <1>5. ASSUME mode = "Replay", NEW u \in Thread, HasId(u)', status'[u] # "panicked"
        PROVE  next'[det_id'[u]] = Before(Logs(u), pos'[u])
    <2>1. CASE u = t
      <3>1. /\ Before(Logs(t), pos[t]) \in Nat
            /\ Before(Logs(t), pos[t] + 1) =
                   Before(Logs(t), pos[t]) + (IF pos[t] \in Logs(t) THEN 1 ELSE 0)
        BY NextPosition DEF Logs
      <3>2. next[me] = Before(Logs(t), pos[t])
        BY <1>1, <1>5 DEF Cursors
      <3>3. next'[me] = next[me] + (IF pos[t] \in Logs(t) THEN 1 ELSE 0)
        <4>1. CASE GetLogEntry(me) /\ pos[t] \in Logs(t)
          BY <4>1 DEF GetLogEntry, TypeOK, LogTypeOK
        <4>2. CASE next' = next /\ pos[t] \notin Logs(t)
          BY <4>2 DEF TypeOK, LogTypeOK
        <4> QED
          BY <1>5, <4>1, <4>2
      <3>4. pos'[t] = pos[t] + 1
        BY DEF Moves
      <3> QED
        BY <2>1, <1>1, <3>1, <3>2, <3>3, <3>4
    <2>2. CASE u # t /\ HasId(u)
      <3>1. /\ det_id'[u] = det_id[u] /\ pos'[u] = pos[u] /\ status'[u] = status[u]
            /\ det_id[u] # me /\ det_id[u] \in Id
        BY <2>2, <1>1 DEF Moves, UniqueThreadIds, HasId, TypeOK
      <3> QED
        BY <2>2, <3>1, <1>2, <1>5 DEF Cursors
    <2>3. CASE ~HasId(u)
      <3> DEFINE id == det_id'[u]
      <3>1. id \in Id /\ u # t /\ pos'[u] = 1 /\ \A v \in Thread : HasId(v) => det_id[v] # id
        BY <1>5, <2>3 DEF Moves
      <3>2. next'[id] = next[id] /\ next[id] = 0
        BY <1>1, <1>2, <3>1, NoIdAssumption DEF Cursors, HasId
      <3> QED
        BY <3>1, <3>2, StartCounters
    <2> QED
      BY <2>1, <2>2, <2>3
  <1> QED
    BY <1>3, <1>4, <1>5 DEF Cursors, HasId, TypeOK, LogTypeOK

\* A thread that reads an entry it does not expect panics.
LEMMA PanicCursors ==
    ASSUME TypeOK, Cursors, UniqueThreadIds, NEW t \in Thread, det_id[t] \in Id,
           GetLogEntry(det_id[t]), Become(t, "panicked"), UNCHANGED <<det_id, pos>>
    PROVE  Cursors'
  <1>1. /\ mode = "Replay" /\ mode' = mode
        /\ \A id \in Id : id # det_id[t] => next'[id] = next[id]
    BY DEF GetLogEntry, HasEntry, TypeOK, LogTypeOK
  <1>2. \A u \in Thread : status'[u] = IF u = t THEN "panicked" ELSE status[u]
    BY DEF Become, TypeOK
  <1>3. \A id \in Id : next'[id] # 0 => \E u \in Thread : det_id'[u] = id
    BY <1>1 DEF Cursors
  <1>4. ASSUME NEW u \in Thread, HasId(u), u # t, status[u] # "panicked"
        PROVE  next'[det_id[u]] = Before(Logs(u), pos[u])
    <2>1. det_id[u] \in Id /\ det_id[u] # det_id[t]
      BY <1>4 DEF HasId, TypeOK, UniqueThreadIds
    <2> QED
      BY <1>1, <1>4, <2>1 DEF Cursors
  <1> QED
    BY <1>1, <1>2, <1>3, <1>4 DEF Cursors, HasId

-----------------------------------------------------------------------------
(* Steps, for the second invariant *)

LEMMA RecordCreationDet ==
    ASSUME IInv, IInv', DrainedOnce, DetInv, NEW t \in Thread, RecordCreation(t)
    PROVE  DetInv'
  <1>1. status[t] = "running" /\ det_id[t] \in Id /\ recorded' = recorded /\ LogsNext(t)
    BY RunningHasId DEF RecordCreation, LogsNext, Calls, IInv
  <1>2. CASE InitEventSender(det_id[t]) /\ UNCHANGED threadVars
    <2>1. UNCHANGED <<mode, channel, saved, log, next>> /\ UNCHANGED threadVars
      BY <1>2 DEF InitEventSender, replayVars
    <2>2. QuietStatus
      BY <2>1 DEF threadVars, QuietStatus
    <2> QED
      BY <1>1, <2>1, <2>2, QuietPaths, QuietLists, QuietCursors DEF threadVars, DetInv
  <1>3. CASE WriteEvent(det_id[t], Event(t)) /\ Create(t)
    <2>1. /\ mode = "Record" /\ UNCHANGED <<mode, saved, log, next>>
          /\ channel' = [channel EXCEPT ![det_id[t]] = Append(@, Event(t))]
      BY <1>3 DEF WriteEvent, replayVars
    <2>2. CountersCount' /\ Paths' /\ SameThreads'
      BY <1>1, <1>3, <2>1, HandIdPaths, MakeChannelPaths DEF Create, DetInv, Calls
    <2>3. Moves(t) /\ pos[t] \in Nat \ {0}
      <3>1. Calls(t, {"spawn"}) => Child(t) \in Thread
        BY CalledChild DEF IInv, Calls
      <3> QED
        BY <1>1, <1>3, <3>1, CreationMoves DEF Create, DetInv, IInv, TypeOK
    <2>4. Event(t) \in Entry /\ Event(t) = EventAt(det_id[t], t, pos[t]) /\ pos[t] \in Logs(t)
      BY <1>1, <1>3, EventIsEntry, EventAtPosition DEF IInv, DetInv
    <2>5. Lists'
      BY <1>1, <2>1, <2>3, <2>4, CreationLists DEF IInv, DetInv
    <2>6. Cursors'
      BY <1>1, <2>1, <2>3, CreationCursors DEF IInv, DetInv
    <2> QED
      BY <2>2, <2>5, <2>6 DEF DetInv
  <1>4. CASE /\ Become(t, "panicked")
             /\ UNCHANGED <<logVars, det_id, child_index, channel_id, pos, channels>>
    <2>1. QuietStatus
      BY <1>4 DEF Become, QuietStatus, IInv, TypeOK
    <2>2. UNCHANGED <<mode, channel, saved, log, next>>
      BY <1>4 DEF logVars, recordVars, replayVars
    <2> QED
      BY <1>1, <1>4, <2>1, <2>2, QuietPaths, QuietLists, QuietCursors DEF DetInv
  <1> QED
    BY <1>2, <1>3, <1>4 DEF RecordCreation

LEMMA ReplayCreationDet ==
    ASSUME IInv, IInv', DrainedOnce, DetInv, NEW t \in Thread, ReplayCreation(t)
    PROVE  DetInv'
  <1>1. status[t] = "running" /\ det_id[t] \in Id /\ recorded' = recorded /\ LogsNext(t)
    BY RunningHasId DEF ReplayCreation, LogsNext, Calls, IInv
  <1>2. CASE InitEventReceiver(det_id[t]) /\ UNCHANGED threadVars
    <2>1. UNCHANGED <<mode, channel, saved, log, next>> /\ UNCHANGED threadVars
      BY <1>2 DEF InitEventReceiver, recordVars
    <2>2. QuietStatus
      BY <2>1 DEF threadVars, QuietStatus
    <2> QED
      BY <1>1, <2>1, <2>2, QuietPaths, QuietLists, QuietCursors DEF threadVars, DetInv
  <1>3. CASE GetLogEntry(det_id[t]) /\ Create(t)
    <2>1. mode = "Replay" /\ UNCHANGED <<mode, saved, log, channel>>
      BY <1>3 DEF GetLogEntry, HasEntry, recordVars
    <2>2. CountersCount' /\ Paths' /\ SameThreads'
      BY <1>1, <1>3, <2>1, HandIdPaths, MakeChannelPaths DEF Create, DetInv, Calls
    <2>3. Moves(t) /\ pos[t] \in Nat \ {0} /\ pos[t] \in Logs(t)
      <3>1. Calls(t, {"spawn"}) => Child(t) \in Thread
        BY CalledChild DEF IInv, Calls
      <3>2. pos[t] \in Logs(t)
        BY <1>1, EventAtPosition DEF IInv, DetInv
      <3> QED
        BY <1>1, <1>3, <3>1, <3>2, CreationMoves DEF Create, DetInv, IInv, TypeOK
    <2>4. Lists'
      BY <1>1, <2>1, <2>3, CreationLists DEF IInv, DetInv
    <2>5. Cursors'
      BY <1>1, <1>3, <2>1, <2>3, CreationCursors DEF IInv, DetInv
    <2> QED
      BY <2>2, <2>4, <2>5 DEF DetInv
  <1>4. CASE /\ Become(t, "panicked")
             /\ UNCHANGED <<det_id, child_index, channel_id, pos, channels>>
             /\ \/ EventReceiverPanics(det_id[t])
                \/ GetLogEntry(det_id[t])
                \/ UNCHANGED logVars
    <2>1. QuietStatus
      BY <1>4 DEF Become, QuietStatus, IInv, TypeOK
    <2>2. UNCHANGED <<mode, channel, saved, log>>
      BY <1>4 DEF EventReceiverPanics, GetLogEntry, logVars, recordVars
    <2>3. Cursors'
      <3>1. CASE GetLogEntry(det_id[t])
        BY <1>1, <1>4, <3>1, PanicCursors DEF IInv, DetInv
      <3>2. CASE EventReceiverPanics(det_id[t]) \/ UNCHANGED logVars
        <4>1. UNCHANGED next
          BY <3>2 DEF EventReceiverPanics, logVars, replayVars
        <4> QED
          BY <1>4, <2>1, <2>2, <4>1, QuietCursors DEF DetInv
      <3> QED
        BY <1>4, <3>1, <3>2
    <2> QED
      BY <1>1, <1>4, <2>2, <2>3, QuietPaths, QuietLists DEF DetInv
  <1> QED
    BY <1>2, <1>3, <1>4 DEF ReplayCreation

LEMMA ForeignDet ==
    ASSUME IInv, IInv', DrainedOnce, DetInv, NEW t \in Thread, HandIdToForeign(t)
    PROVE  DetInv'
  <1>1. /\ status[t] = "running" /\ det_id[t] \in Id
        /\ UNCHANGED <<mode, channel, saved, log, next, recorded>>
    BY RunningHasId
    DEF HandIdToForeign, Calls, IInv, logVars, recordVars, replayVars
  <1>2. CountersCount' /\ Paths' /\ SameThreads'
    BY <1>1, HandIdPaths DEF HandIdToForeign, DetInv, Calls
  <1>3. Moves(t) /\ pos[t] \in Nat \ {0} /\ pos[t] \notin Logs(t)
    <2>1. Child(t) \in Thread
      BY CalledChild DEF HandIdToForeign, IInv, Calls
    <2>2. pos[t] \notin Logs(t)
      BY DEF HandIdToForeign, Calls, Logs, Positions
    <2> QED
      BY <1>1, <2>1, <2>2, CreationMoves DEF HandIdToForeign, DetInv, IInv, TypeOK
  <1>4. Lists'
    BY <1>1, <1>3, CreationLists DEF IInv, DetInv
  <1>5. Cursors'
    BY <1>1, <1>3, CreationCursors DEF IInv, DetInv
  <1> QED
    BY <1>2, <1>4, <1>5 DEF DetInv

LEMMA RestartDet ==
    ASSUME IInv, DetInv, Restart
    PROVE  DetInv'
  <1>1. CountersCount' /\ Paths' /\ SameThreads'
    BY RestartPaths DEF DetInv
  <1>2. /\ mode = "Record" /\ mode' = "Replay" /\ UNCHANGED <<log, next>>
        /\ recorded'.det_id = det_id
        /\ pos' = [t \in Thread |-> 1]
    BY DEF Restart, StartReplay
  <1>3. Lists'
    <2>1. \A id \in Id : IsLogOf(log[id], id, det_id)
      BY <1>2 DEF DetInv, Lists
    <2> QED
      BY <1>2, <2>1 DEF Lists
  <1>4. Cursors'
    <2>1. \A id \in Id : next'[id] = 0
      BY <1>2 DEF DetInv, Cursors
    <2>2. \A t \in Thread : det_id'[t] # NoId => det_id'[t] \in Id
      BY PathsInId DEF Restart
    <2>3. \A t \in Thread : Before(Logs(t), pos'[t]) = 0
      BY <1>2, StartCounters
    <2> QED
      BY <1>2, <2>1, <2>2, <2>3 DEF Cursors, HasId
  <1> QED
    BY <1>1, <1>3, <1>4 DEF DetInv

LEMMA DetInit == Init => DetInv
  <1> SUFFICES ASSUME Init PROVE DetInv
    OBVIOUS
  <1> USE DEF Init, ProgramStart, LogInit, NothingRecorded
  <1>1. CountersCount
    BY StartCounters DEF CountersCount
  <1>2. Root \in Thread
    BY DetThreadAssumption
  <1>3. Paths /\ SameThreads
    BY <1>2 DEF Paths, FromRoot, Numbered, SameThreads
  <1>4. Lists
    <2>1. \A id \in Id : log[id] = <<>> /\ Carried(id) = <<>>
      BY LogInitTyped, NothingCarried DEF NoEntries
    <2>2. \A t \in Thread : HasId(t) => det_id[t] \in Id /\ pos[t] = 1
      BY PathsInId DEF HasId
    <2>3. \A t \in Thread : Before(Logs(t), 1) = 0
      BY StartCounters
    <2> QED
      BY <2>1, <2>2, <2>3, IsLogOfEmpty DEF Lists
  <1>5. Cursors
    BY DEF Cursors
  <1> QED
    BY <1>1, <1>3, <1>4, <1>5 DEF DetInv

LEMMA DetStep == IInv /\ IInv' /\ DrainedOnce /\ DetInv /\ [Next]_vars => DetInv'
  <1> SUFFICES ASSUME IInv, IInv', DrainedOnce, DetInv, [Next]_vars PROVE DetInv'
    OBVIOUS
  <1>1. ASSUME NEW t \in Thread, ThreadStep(t) PROVE DetInv'
    <2>1. CASE RecordCreation(t) \/ ReplayCreation(t) \/ HandIdToForeign(t)
      BY <2>1, RecordCreationDet, ReplayCreationDet, ForeignDet
    <2>2. CASE PanicTooDeep(t) \/ InitializeNewThread(t) \/ Finish(t)
      <3>1. /\ UNCHANGED <<logVars, det_id, child_index, channel_id, pos, channels, recorded>>
            /\ status[t] # "panicked"
            /\ \E s \in {"running", "done", "panicked"} : Become(t, s)
        BY <2>2 DEF PanicTooDeep, InitializeNewThread, Finish, Calls
      <3>2. QuietStatus
        BY <3>1 DEF Become, QuietStatus, IInv, TypeOK
      <3> QED
        BY <3>1, <3>2, QuietPaths, QuietLists, QuietCursors
        DEF DetInv, logVars, recordVars, replayVars
    <2>3. CASE ExecutionDone(t)
      <3>1. UNCHANGED <<mode, channel, saved, log, next, det_id, child_index, channel_id,
                        pos, channels, recorded>>
        BY <2>3 DEF ExecutionDone, TakeRecorder, replayVars
      <3>2. QuietStatus
        BY <2>3 DEF ExecutionDone, Calls, Become, QuietStatus, IInv, TypeOK
      <3> QED
        BY <3>1, <3>2, QuietPaths, QuietLists, QuietCursors DEF DetInv
    <2> QED
      BY <1>1, <2>1, <2>2, <2>3 DEF ThreadStep
  <1>2. CASE FlushLog
    <2>1. /\ Flush /\ UNCHANGED <<mode, next>>
          /\ UNCHANGED <<status, det_id, child_index, channel_id, pos, channels, recorded>>
      BY <1>2 DEF FlushLog, Flush, CollectEntry, CollectEntries, DropReceiver, WriteFile, threadVars,
             replayVars
    <2>2. QuietStatus
      BY <2>1 DEF QuietStatus
    <2> QED
      BY <2>1, <2>2, QuietPaths, FlushLists, QuietCursors DEF DetInv, IInv
  <1>3. CASE Restart
    BY <1>3, RestartDet
  <1>4. CASE UNCHANGED vars
    <2>1. QuietStatus
      BY <1>4 DEF QuietStatus, vars, threadVars
    <2> QED
      BY <1>4, <2>1, QuietPaths, QuietLists, QuietCursors
      DEF DetInv, vars, threadVars, logVars, recordVars, replayVars
  <1> QED
    BY <1>1, <1>2, <1>3, <1>4 DEF Next

LEMMA DrainedStep == IInv /\ DrainedOnce /\ [Next]_vars => DrainedOnce'
  <1> SUFFICES ASSUME IInv, DrainedOnce, [Next]_vars PROVE DrainedOnce'
    OBVIOUS
  <1>1. ASSUME NEW t \in Thread, ThreadStep(t) PROVE LogStep \/ UNCHANGED logVars
    <2>1. status[t] = "running" => det_id[t] \in Id
      BY RunningHasId DEF IInv
    <2>2. CASE RecordCreation(t)
      <3>1. det_id[t] \in Id
        BY <2>1, <2>2 DEF RecordCreation, LogsNext, Calls
      <3>2. Create(t) => Event(t) \in Entry
        BY <3>1, EventIsEntry DEF IInv
      <3> QED
        BY <2>2, <3>1, <3>2 DEF RecordCreation, LogStep, ThreadLogStep
    <2>3. CASE ReplayCreation(t)
      <3>1. det_id[t] \in Id
        BY <2>1, <2>3 DEF ReplayCreation, LogsNext, Calls
      <3> QED
        BY <2>3, <3>1 DEF ReplayCreation, LogStep, ThreadLogStep
    <2> QED
      BY <1>1, <2>2, <2>3
      DEF ThreadStep, HandIdToForeign, PanicTooDeep, InitializeNewThread, ExecutionDone, Finish,
          LogStep
  <1>2. LogStep \/ UNCHANGED logVars
    BY <1>1 DEF Next, FlushLog, Restart, LogStep, vars
  <1> QED
    BY <1>2, LogStepDrained DEF IInv, TypeOK

LEMMA DetHolds == Spec => [](IInv /\ DetInv)
  <1>1. Init => DrainedOnce
    BY LogInitDrained DEF Init
  <1> QED
    BY <1>1, InvHolds, DetInit, DetStep, DrainedStep, PTL DEF Spec

-----------------------------------------------------------------------------
(* Theorems *)

\* For every program, however its threads are scheduled, through the flush and
\* the restart of the process: ids are paths within the limit.
THEOREM TypeCorrect == Spec => []TypeOK
  <1>1. IInv => TypeOK
    BY DEF IInv
  <1> QED
    BY InvHolds, <1>1, PTL

\* No two threads of an execution ever have the same id.
THEOREM UniqueThreadIdsCorrect == Spec => []UniqueThreadIds
  <1>1. IInv => UniqueThreadIds
    BY DEF IInv
  <1> QED
    BY InvHolds, <1>1, PTL

LEMMA ChannelIdParts ==
    ASSUME NEW a, NEW b, NEW i, NEW j,
           [det_thread_id |-> a, channel_id |-> i] = [det_thread_id |-> b, channel_id |-> j]
    PROVE  a = b /\ i = j
  <1> DEFINE x == [det_thread_id |-> a, channel_id |-> i]
             y == [det_thread_id |-> b, channel_id |-> j]
  <1>1. x.det_thread_id = a /\ x.channel_id = i /\ y.det_thread_id = b /\ y.channel_id = j
    OBVIOUS
  <1>2. x = y
    OBVIOUS
  <1> HIDE DEF x, y
  <1> QED
    BY <1>1, <1>2

\* No two channels of an execution ever have the same id.
THEOREM UniqueChannelIdsCorrect == Spec => []UniqueChannelIds
  <1>1. IInv /\ DetInv => UniqueChannelIds
    <2> SUFFICES ASSUME IInv, DetInv, NEW t \in Thread, NEW u \in Thread,
                        NEW i \in DOMAIN channels[t], NEW j \in DOMAIN channels[u],
                        channels[t][i] = channels[u][j]
                 PROVE  t = u /\ i = j
      BY DEF UniqueChannelIds
    <2>1. /\ channels[t][i] = [det_thread_id |-> det_id[t], channel_id |-> i]
          /\ channels[u][j] = [det_thread_id |-> det_id[u], channel_id |-> j]
      BY DEF DetInv, Paths, Numbered
    <2>2. det_id[t] = det_id[u] /\ i = j
      <3> DEFINE a == det_id[t]
                 b == det_id[u]
      <3>1. [det_thread_id |-> a, channel_id |-> i] = [det_thread_id |-> b, channel_id |-> j]
        BY <2>1
      <3> HIDE DEF a, b
      <3>2. a = b /\ i = j
        BY <3>1, ChannelIdParts
      <3> QED
        BY <3>2 DEF a, b
    <2>3. det_id[t] # NoId
      <3>1. channels[t] \in Seq(ChannelIds)
        BY DEF IInv, TypeOK
      <3>2. channels[t][i] \in ChannelIds
        BY <3>1
      <3> QED
        BY <2>1, <3>2, NoIdAssumption DEF ChannelIds
    <2> QED
      BY <2>2, <2>3 DEF IInv, UniqueThreadIds
  <1> QED
    BY DetHolds, <1>1, PTL

\* Two executions of a program give their threads and channels the same ids,
\* however differently they are scheduled.
THEOREM IdsAreDeterministicCorrect == Spec => []IdsAreDeterministic
  <1>1. IInv /\ DetInv => IdsAreDeterministic
    <2> SUFFICES ASSUME IInv, DetInv, mode = "Replay", NEW t \in Thread
                 PROVE  /\ det_id[t] # NoId /\ recorded.det_id[t] # NoId =>
                               det_id[t] = recorded.det_id[t]
                        /\ Agree(channels[t], recorded.channels[t])
      BY DEF IdsAreDeterministic
    <2>1. det_id[t] # NoId /\ recorded.det_id[t] # NoId => det_id[t] = recorded.det_id[t]
      BY DEF DetInv, SameThreads, HasId
    <2> DEFINE s == channels[t]
               r == recorded.channels[t]
    <2>2. s \in Seq(ChannelIds) /\ r \in Seq(ChannelIds)
      BY DEF IInv, TypeOK
    <2>3. /\ \A n \in 1 .. Len(s) : s[n] = [det_thread_id |-> det_id[t], channel_id |-> n]
          /\ \A n \in 1 .. Len(r) : r[n] = [det_thread_id |-> recorded.det_id[t], channel_id |-> n]
      BY <2>2 DEF DetInv, Paths, Numbered
    <2>4. /\ Len(s) > 0 => det_id[t] # NoId
          /\ Len(r) > 0 => recorded.det_id[t] # NoId
      <3>1. ASSUME Len(s) > 0 PROVE det_id[t] # NoId
        <4>1. s[1] \in ChannelIds /\ s[1] = [det_thread_id |-> det_id[t], channel_id |-> 1]
          BY <2>2, <2>3, <3>1
        <4> QED
          BY <4>1, NoIdAssumption DEF ChannelIds
      <3>2. ASSUME Len(r) > 0 PROVE recorded.det_id[t] # NoId
        <4>1. r[1] \in ChannelIds /\ r[1] = [det_thread_id |-> recorded.det_id[t], channel_id |-> 1]
          BY <2>2, <2>3, <3>2
        <4> QED
          BY <4>1, NoIdAssumption DEF ChannelIds
      <3> QED
        BY <3>1, <3>2
    <2>5. \A n \in 1 .. Len(s) : n <= Len(r) => s[n] = r[n]
      <3> SUFFICES ASSUME NEW n \in 1 .. Len(s), n <= Len(r) PROVE s[n] = r[n]
        OBVIOUS
      <3>1. Len(s) > 0 /\ Len(r) > 0 /\ n \in 1 .. Len(r)
        BY <2>2
      <3> QED
        <4>1. /\ s[n] = [det_thread_id |-> det_id[t], channel_id |-> n]
              /\ r[n] = [det_thread_id |-> recorded.det_id[t], channel_id |-> n]
          BY <2>3, <3>1
        <4>2. det_id[t] = recorded.det_id[t]
          BY <2>1, <2>4, <3>1
        <4> QED
          BY <4>1, <4>2
    <2> HIDE DEF s, r
    <2>6. Agree(s, r)
      <3>1. Len(s) \in Nat /\ Len(r) \in Nat
        BY <2>2
      <3>2. CASE Len(s) <= Len(r)
        <4>1. \A n \in 1 .. Len(s) : s[n] = r[n]
          BY <2>5, <3>1, <3>2
        <4> QED
          BY <2>2, <3>2, <4>1, PrefixPointwise DEF Agree
      <3>3. CASE Len(r) <= Len(s)
        <4>1. \A n \in 1 .. Len(r) : r[n] = s[n]
          BY <2>5, <3>1, <3>3
        <4> QED
          BY <2>2, <3>3, <4>1, PrefixPointwise DEF Agree
      <3> QED
        BY <3>1, <3>2, <3>3
    <2> QED
      BY <2>1, <2>6 DEF s, r
  <1> QED
    BY DetHolds, <1>1, PTL

\* Builder::spawn and the channel constructors never find another event in the
\* log than the one they are about to repeat.
THEOREM CreationsMatchLogCorrect == Spec => []CreationsMatchLog
  <1>1. IInv /\ DetInv => CreationsMatchLog
    <2> SUFFICES ASSUME IInv, DetInv, NEW t \in Thread, LogsNext(t), HasEntry(det_id[t])
                 PROVE  NextEntry(det_id[t]) = Event(t)
      BY DEF CreationsMatchLog
    <2> DEFINE id == det_id[t]
               n == next[id] + 1
    <2>1. /\ mode = "Replay" /\ status[t] = "running" /\ id \in Id /\ HasId(t)
          /\ pos[t] \in Nat \ {0}
      BY RunningHasId, NoIdAssumption
      DEF HasEntry, LogsNext, Calls, IInv, HasId, TypeOK
    <2>2. next[id] = Before(Logs(t), pos[t])
      BY <2>1 DEF DetInv, Cursors
    <2>3. n \in DOMAIN log[id] /\ n - 1 = next[id]
      BY <2>1 DEF HasEntry, IInv, TypeOK, LogTypeOK
    <2>4. PICK u \in Thread : \E i \in Logs(u) :
                   /\ recorded.det_id[u] = id
                   /\ Before(Logs(u), i) = n - 1
                   /\ log[id][n] = EventAt(id, u, i)
      BY <2>1, <2>3 DEF DetInv, Lists, IsLogOf
    <2>5. u = t
      BY <2>1, <2>4, NoIdAssumption DEF DetInv, SameThreads
    <2>6. PICK i \in Logs(t) : Before(Logs(t), i) = n - 1 /\ log[id][n] = EventAt(id, t, i)
      BY <2>4, <2>5
    <2>7. pos[t] \in Logs(t) /\ Event(t) = EventAt(id, t, pos[t])
      BY EventAtPosition DEF IInv, DetInv
    <2>8. i \in Nat \ {0}
      BY PositionsTyped DEF Logs
    <2>9. Before(Logs(t), i) = Before(Logs(t), pos[t])
      BY <2>2, <2>3, <2>6
    <2>10. i = pos[t]
      BY <2>1, <2>7, <2>8, <2>9, BeforeInjective
    <2> QED
      BY <2>6, <2>7, <2>10 DEF NextEntry
  <1> QED
    BY DetHolds, <1>1, PTL
=============================================================================
