------------------------- MODULE CrossbeamSelect_proofs -------------------------
(***************************************************************************)
(* Proofs about CrossbeamSelect: types; a selected message is there; no    *)
(* message is lost, doubled or reordered; and the replay repeats what was  *)
(* recorded.                                                               *)
(***************************************************************************)
EXTENDS CrossbeamSelect, SequenceTheorems, TLAPS

Operation ==
    [kind : {"new", "ready", "halt"}]
    \cup [kind : RecvKind \cup {"add"}, chan : Chan]
    \cup [kind : {"select"}, recvs : Seq(Chan)]

\* What a program does next is an operation, whatever the thread has seen so far.
WellFormedProgram ==
    \A s \in Setups : \A w \in s.worlds, h \in Seq(ResultType) :
        Code(s.program, w, h) \in Operation

Program == setup.program

-----------------------------------------------------------------------------
(* The inductive invariant. *)

\* Where the thread is inside an operation, and what it has found out by then.
Inside ==
    /\ At("receive") =>
          Op.kind \in RecvKind /\ want.chan \in Chan /\ want.from \in Sender /\ want.chan = Op.chan
    /\ At("poll") \/ At("selected") =>
          /\ Op.kind = "select"
          /\ chosen.how \in {"Record", "Desync", "DesyncBufferEntry", "Replay"}
          /\ chosen.how = "Replay" => chosen.entry.op = "select" /\ chosen.index = chosen.entry.index
          /\ (chosen.how = "Replay" => chosen.entry.error = "none") => chosen.index \in DOMAIN added
    /\ At("poll") =>
          /\ chosen.how = "Replay"
          /\ chosen.entry.error = "none"
          /\ want = [chan |-> added[chosen.index], from |-> chosen.entry.from]

\* What the modes rule out.  A recording knows no buffers, and desyncs only once
\* the log is closed.
Modes ==
    /\ At("desync") => desynced
    /\ At("selected") /\ chosen.how \in {"Desync", "DesyncBufferEntry"} => desynced
    /\ mode = "Record" =>
          /\ ~At("poll") /\ ~At("receive")
          /\ At("selected") => chosen.how # "Replay"
          /\ \A c \in Chan, s \in Sender : buffer[c][s] = <<>>
          /\ desynced => ~open
    /\ mode = "Replay" =>
          /\ At("selected") => chosen.how # "Record"
          /\ ~open

\* What crossbeam has selected has nothing in its buffer.
SelectedFromWire ==
    At("selected") /\ chosen.how \in {"Record", "Desync"} =>
        \A s \in Sender : buffer[added[chosen.index]][s] = <<>>

-----------------------------------------------------------------------------
(* The messages of one sender on one channel: q is the sender's script and n how far
   it has come, h the thread's history, b the buffer and w the wire. *)

IsReceipt(h, i, c, s) == h[i].chan = c /\ h[i].from = s

IsSent(q, n, c, m) == m \in 1 .. n /\ q[m] = c

OnlySent(q, n, c, s, h, b, w) ==
    /\ \A i \in DOMAIN h : IsReceipt(h, i, c, s) => IsSent(q, n, c, h[i].val)
    /\ \A i \in DOMAIN b : IsSent(q, n, c, b[i])
    /\ \A i \in DOMAIN w : w[i].from = s => IsSent(q, n, c, w[i].val)

NoneMissing(q, n, c, s, h, b, w) ==
    \A m \in 1 .. n : IsSent(q, n, c, m) =>
        \/ \E i \in DOMAIN h : IsReceipt(h, i, c, s) /\ h[i].val = m
        \/ \E i \in DOMAIN b : b[i] = m
        \/ \E i \in DOMAIN w : w[i].from = s /\ w[i].val = m

Ordered(c, s, h, b, w) ==
    /\ \A i, j \in DOMAIN h : i < j /\ IsReceipt(h, i, c, s) /\ IsReceipt(h, j, c, s) => h[i].val < h[j].val
    /\ \A i, j \in DOMAIN b : i < j => b[i] < b[j]
    /\ \A i, j \in DOMAIN w : i < j /\ w[i].from = s /\ w[j].from = s => w[i].val < w[j].val
    /\ \A i \in DOMAIN h, j \in DOMAIN b : IsReceipt(h, i, c, s) => h[i].val < b[j]
    /\ \A i \in DOMAIN h, j \in DOMAIN w : IsReceipt(h, i, c, s) /\ w[j].from = s => h[i].val < w[j].val
    /\ \A i \in DOMAIN b, j \in DOMAIN w : w[j].from = s => b[i] < w[j].val

\* Nothing is lost before the log is closed, and in a replay.
Lossless == mode = "Replay" \/ open

FlowOn(c, s) ==
    /\ OnlySent(Sends[s], sent[s], c, s, hist, buffer[c][s], wire[c])
    /\ Ordered(c, s, hist, buffer[c][s], wire[c])
    /\ Lossless => NoneMissing(Sends[s], sent[s], c, s, hist, buffer[c][s], wire[c])

Flow == \A c \in Chan, s \in Sender : FlowOn(c, s)

-----------------------------------------------------------------------------
(* Histories and the log. *)

\* The thread did what its program says.
Follows(p, w, h) == \A i \in DOMAIN h : h[i].op = Code(p, w, SubSeq(h, 1, i - 1)).kind

WellFormed(obs) ==
    /\ obs.from = NoSender => obs.val = NoVal
    /\ obs.from # NoSender => obs.val \in Nat /\ obs.from \in Sender
    /\ obs.op \in RecvKind => obs.index = 0
    /\ obs.op = "new" => obs = Failure("new", 0, NoChan, "none")

\* The i-th result of h is the first message of its sender that was not received before.
InTurn(sends, h, i) ==
    LET c == h[i].chan
        s == h[i].from
    IN  s # NoSender =>
            /\ IsSent(sends[s], h[i].val, c, h[i].val)
            /\ \A m \in 1 .. h[i].val - 1 : IsSent(sends[s], m, c, m) =>
                  \E j \in 1 .. i - 1 : IsReceipt(h, j, c, s) /\ h[j].val = m
            /\ \A j \in 1 .. i - 1 : IsReceipt(h, j, c, s) => h[j].val < h[i].val

\* The k-th entry of list is for the result at pos[k] of h.
IsLogOf(sends, list, h, pos) ==
    /\ pos \in [DOMAIN list -> DOMAIN h]
    /\ \A k \in DOMAIN list :
          h[pos[k]].op # "new" /\ list[k] = EntryFor(h[pos[k]]) /\ InTurn(sends, h, pos[k])
    /\ \A k, l \in DOMAIN list : k < l => pos[k] < pos[l]
    /\ \A k \in DOMAIN list, i \in DOMAIN h :
          i < pos[k] /\ h[i].op # "new" => \E l \in DOMAIN list : pos[l] = i

IsFullLogOf(list, h, pos) ==
    \A i \in DOMAIN h : h[i].op # "new" => \E l \in DOMAIN list : pos[l] = i

Written == mode = "Record" =>
    \E pos \in [DOMAIN log -> DOMAIN hist] :
        IsLogOf(Sends, log, hist, pos) /\ (open => IsFullLogOf(log, hist, pos))

\* In the middle of an operation the thread has taken an entry for it.
Reading == IF At("poll") \/ At("selected") \/ At("receive") THEN 1 ELSE 0

Taken ==
    /\ mode = "Record" => next = 0
    /\ next \in 0 .. Len(log)
    /\ At("receive") =>
          /\ next > 0
          /\ log[next].op \in RecvKind
          /\ log[next].error = "none"
          /\ log[next].chan = want.chan
          /\ log[next].from = want.from
    /\ (At("poll") \/ At("selected")) /\ chosen.how = "Replay" => next > 0 /\ log[next] = chosen.entry

\* The entries that were taken are those of the results that were repeated.
Cursor(h, pos) == \A k \in DOMAIN log : pos[k] <= Len(h) <=> k <= next - Reading

Replayed == mode = "Replay" =>
    \E pos \in [DOMAIN log -> DOMAIN recorded] :
        /\ IsLogOf(Sends, log, recorded, pos)
        /\ ~desynced /\ Deterministic =>
              Repeats(hist, recorded) /\ (status # "panicked" => Cursor(hist, pos))

Histories ==
    /\ Follows(Program, world, hist)
    /\ Deterministic => Follows(Program, world, recorded)
    /\ \A i \in DOMAIN hist : WellFormed(hist[i])
    /\ \A i \in DOMAIN recorded : WellFormed(recorded[i])

Place == Modes /\ SelectedFromWire /\ PolledMessageIsThere /\ Taken

SelectInv ==
    /\ TypeOK /\ Inside /\ Place
    /\ Flow /\ Histories /\ Written /\ Replayed

-----------------------------------------------------------------------------
(* Types of operations, results and entries. *)

LEMMA SetupTyped ==
    ASSUME TypeOK
    PROVE  Sends \in [Sender -> Seq(Chan)] /\ KeepGoing \in BOOLEAN
  BY ReaderAssumption DEF TypeOK, ReaderTypeOK, Sends, KeepGoing

LEMMA OpTyped ==
    ASSUME WellFormedProgram, TypeOK
    PROVE  Op \in Operation
  BY DEF WellFormedProgram, TypeOK, ReaderTypeOK, World, Op

LEMMA OpShape ==
    ASSUME WellFormedProgram, TypeOK
    PROVE  /\ Op.kind \in RecvKind \cup {"add"} => Op.chan \in Chan
           /\ Op.kind = "select" => Op.recvs \in Seq(Chan)
  BY OpTyped DEF Operation, RecvKind

\* A result without a message.
LEMMA FailureTyped ==
    ASSUME NEW op \in Kinds \cup {"new"}, NEW index \in Nat, NEW c \in Chan \cup {NoChan},
           NEW error \in {"none", "Disconnected", "Empty"},
           op \in RecvKind => index = 0,
           op = "new" => index = 0 /\ c = NoChan /\ error = "none"
    PROVE  /\ Failure(op, index, c, error) \in ResultType
           /\ WellFormed(Failure(op, index, c, error))
           /\ Failure(op, index, c, error).op = op
           /\ Failure(op, index, c, error).from = NoSender
           /\ Failure(op, index, c, error).error = error
           /\ EntryFor(Failure(op, index, c, error)) =
                  [op |-> op, index |-> index, chan |-> c, from |-> NoSender, error |-> error]
  BY DEF Failure, Result, ResultType, WellFormed, EntryFor

\* A result with a message.
LEMMA MessageTyped ==
    ASSUME NEW op \in RecvKind \cup {"select"}, NEW index \in Nat, NEW c \in Chan,
           NEW s \in Sender, NEW val \in Nat, op \in RecvKind <=> index = 0
    PROVE  LET obs == Result(op, index, c, s, val, "none") IN
           /\ obs \in ResultType
           /\ WellFormed(obs)
           /\ obs.op = op /\ obs.chan = c /\ obs.from = s /\ obs.val = val /\ obs.error = "none"
           /\ EntryFor(obs) = [op |-> op, index |-> index, chan |-> c, from |-> s, error |-> "none"]
           /\ EntryFor(obs) \in Entry
  BY ReaderAssumption DEF Result, ResultType, WellFormed, EntryFor, Entry, RecvEntry, SelectEntry,
                          ReceiptOf, Index, Kinds, RecvKind

\* What a receive on the wire finds: the first message, or no message at all.
LEMMA OutcomeTyped ==
    ASSUME wire \in [Chan -> Seq(Message)],
           NEW op \in RecvKind \cup {"select"}, NEW index \in Nat, NEW c \in Chan,
           op \in RecvKind <=> index = 0,
           NEW obs \in Outcomes(op, index, c)
    PROVE  /\ obs \in ResultType
           /\ WellFormed(obs)
           /\ obs.op = op /\ obs.chan = c
           /\ EntryFor(obs) \in Entry
           /\ \/ /\ obs.error = "none"
                 /\ wire[c] # <<>>
                 /\ obs.from = Head(wire[c]).from
                 /\ obs.val = Head(wire[c]).val
              \/ obs.error # "none" /\ obs.from = NoSender
  <1>1. CASE wire[c] # <<>>
    <2> DEFINE s == Head(wire[c]).from
               val == Head(wire[c]).val
    <2>1. Head(wire[c]) \in Message
      BY <1>1
    <2>2. s \in Sender /\ val \in Nat
      BY <2>1 DEF Message
    <2>3. obs = Result(op, index, c, s, val, "none")
      BY <1>1 DEF Outcomes
    <2> HIDE DEF s, val
    <2>4. /\ obs \in ResultType /\ WellFormed(obs)
          /\ obs.op = op /\ obs.chan = c /\ obs.from = s /\ obs.val = val /\ obs.error = "none"
          /\ EntryFor(obs) \in Entry
      BY <2>2, <2>3, MessageTyped
    <2> QED
      BY <1>1, <2>4 DEF s, val
  <1>2. CASE wire[c] = <<>>
    <2>1. PICK error \in {"Disconnected", "Empty"} : obs = Failure(op, index, c, error)
      BY <1>2 DEF Outcomes
    <2>2. op \in Kinds \cup {"new"} /\ op # "new"
      BY DEF Kinds, RecvKind
    <2>3. /\ obs \in ResultType /\ WellFormed(obs)
          /\ obs.op = op /\ obs.from = NoSender /\ obs.error = error
          /\ EntryFor(obs) = [op |-> op, index |-> index, chan |-> c, from |-> NoSender, error |-> error]
      BY <2>1, <2>2, FailureTyped
    <2>4. obs.chan = c
      BY <2>1 DEF Failure, Result
    <2>5. EntryFor(obs) \in Entry
      BY <2>3 DEF Entry, RecvEntry, SelectEntry, ReceiptOf, Index, RecvKind
    <2> QED
      BY <2>3, <2>4, <2>5
  <1> QED
    BY <1>1, <1>2

LEMMA BufferedTyped ==
    ASSUME buffer \in [Chan -> [Sender -> Seq(Nat)]],
           NEW op \in RecvKind \cup {"select"}, NEW index \in Nat, NEW c \in Chan, NEW s \in Sender,
           op \in RecvKind <=> index = 0,
           buffer[c][s] # <<>>
    PROVE  LET obs == Buffered(op, index, c, s) IN
           /\ obs \in ResultType
           /\ WellFormed(obs)
           /\ obs.op = op /\ obs.chan = c /\ obs.from = s /\ obs.val = Head(buffer[c][s])
           /\ EntryFor(obs) = [op |-> op, index |-> index, chan |-> c, from |-> s, error |-> "none"]
  <1>1. Head(buffer[c][s]) \in Nat
    OBVIOUS
  <1> QED
    BY <1>1, MessageTyped DEF Buffered

\* An entry tells what it is for.
LEMMA EntryShape ==
    ASSUME NEW entry \in Entry
    PROVE  /\ entry.op = "ready" => entry \in ReadyEntry
           /\ entry.op \in RecvKind => entry \in RecvEntry
           /\ entry.op = "select" => entry \in SelectEntry
           /\ entry.op \in {"select", "ready"} => entry.index \in Index
           /\ entry.error = "none" /\ entry.op \in RecvKind \cup {"select"} => entry.from \in Sender
           /\ entry.error # "none" => entry.from = NoSender /\ entry.error \in {"Disconnected", "Empty"}
  BY DEF Entry, ReadyEntry, AddEntry, RecvEntry, SelectEntry, ReceiptOf, RecvKind

LEMMA NextEntryTyped ==
    ASSUME TypeOK, HasEntry
    PROVE  /\ NextEntry \in Entry
           /\ next + 1 \in DOMAIN log
  BY DEF TypeOK, ReaderTypeOK, HasEntry, NextEntry

-----------------------------------------------------------------------------
(* Types are preserved.  The variables come in five groups. *)

LogTyped ==
    mode \in {"Record", "Replay"} /\ open \in BOOLEAN /\ next \in Nat /\ log \in Seq(Entry)
ChanTyped ==
    /\ wire \in [Chan -> Seq(Message)]
    /\ buffer \in [Chan -> [Sender -> Seq(Nat)]]
    /\ sent \in [Sender -> Nat]
    /\ gone \subseteq Sender
ThreadTyped ==
    /\ status \in {"running", "asleep", "panicked"}
    /\ at \in {"idle", "receive", "poll", "selected", "desync"}
    /\ want \in Want
    /\ hist \in Seq(ResultType)
    /\ desynced \in BOOLEAN
SelectTyped == added \in Seq(Chan) /\ chosen \in Choice
RunTyped == setup \in Setups /\ world \in World /\ recorded \in Seq(ResultType)

LEMMA TypeParts ==
    /\ TypeOK <=> LogTyped /\ ChanTyped /\ ThreadTyped /\ SelectTyped /\ RunTyped
    /\ TypeOK' <=> LogTyped' /\ ChanTyped' /\ ThreadTyped' /\ SelectTyped' /\ RunTyped'
  BY DEF TypeOK, ReaderTypeOK, LogTyped, ChanTyped, ThreadTyped, SelectTyped, RunTyped

LEMMA RunKept ==
    ASSUME RunTyped, UNCHANGED runVars
    PROVE  RunTyped'
  BY DEF RunTyped, runVars, World

LEMMA LogKept ==
    ASSUME LogTyped, UNCHANGED logVars
    PROVE  LogTyped'
  BY DEF LogTyped, logVars

LEMMA ChanKept ==
    ASSUME ChanTyped, UNCHANGED chanVars
    PROVE  ChanTyped'
  BY DEF ChanTyped, chanVars

LEMMA ThreadKept ==
    ASSUME ThreadTyped, UNCHANGED threadVars, desynced' \in BOOLEAN
    PROVE  ThreadTyped'
  BY DEF ThreadTyped, threadVars

LEMMA SelectKept ==
    ASSUME SelectTyped, UNCHANGED <<added, chosen>>
    PROVE  SelectTyped'
  BY DEF SelectTyped

LEMMA WriteTyped ==
    ASSUME LogTyped, NEW entry \in Entry, WriteEntry(entry)
    PROVE  LogTyped'
  BY DEF LogTyped, WriteEntry

LEMMA TakeTyped ==
    ASSUME LogTyped, TakeEntry
    PROVE  LogTyped'
  BY DEF LogTyped, TakeEntry

LEMMA WireTyped ==
    ASSUME ChanTyped, NEW c \in Chan, NEW obs, obs.chan = c,
           obs.error = "none" => wire[c] # <<>>, TakeFromWire(obs)
    PROVE  ChanTyped'
  <1>1. wire' \in [Chan -> Seq(Message)]
    <2>1. CASE obs.error = "none"
      <3>1. Tail(wire[c]) \in Seq(Message)
        BY <2>1 DEF ChanTyped
      <3> QED
        BY <2>1, <3>1 DEF ChanTyped, TakeFromWire
    <2>2. CASE obs.error # "none"
      BY <2>2 DEF ChanTyped, TakeFromWire
    <2> QED
      BY <2>1, <2>2
  <1> QED
    BY <1>1 DEF ChanTyped, TakeFromWire

LEMMA UnbufferTyped ==
    ASSUME ChanTyped, NEW c \in Chan, NEW s \in Sender, TakeFromBuffer(c, s)
    PROVE  ChanTyped'
  <1>1. Tail(buffer[c][s]) \in Seq(Nat)
    BY DEF ChanTyped, TakeFromBuffer
  <1> QED
    BY <1>1 DEF ChanTyped, TakeFromBuffer

\* The first message on the wire.
LEMMA FirstTyped ==
    ASSUME ChanTyped, NEW c \in Chan, wire[c] # <<>>
    PROVE  Head(wire[c]).from \in Sender /\ Head(wire[c]).val \in Nat
  <1>1. Head(wire[c]) \in Message
    BY DEF ChanTyped
  <1> QED
    BY <1>1 DEF Message

LEMMA FetchTyped ==
    ASSUME ChanTyped, NEW c \in Chan, Fetch(c)
    PROVE  ChanTyped'
  <1>1. wire[c] # <<>>
    BY DEF Fetch
  <1> DEFINE s == Head(wire[c]).from
             val == Head(wire[c]).val
  <1>2. s \in Sender /\ val \in Nat
    BY <1>1, FirstTyped
  <1>3. Tail(wire[c]) \in Seq(Message)
    BY <1>1 DEF ChanTyped
  <1>4. /\ wire' = [wire EXCEPT ![c] = Tail(@)]
        /\ buffer' = [buffer EXCEPT ![c][s] = Append(@, val)]
        /\ UNCHANGED <<sent, gone>>
    BY DEF Fetch
  <1> HIDE DEF s, val
  <1>5. Append(buffer[c][s], val) \in Seq(Nat)
    BY <1>2 DEF ChanTyped
  <1> QED
    BY <1>2, <1>3, <1>4, <1>5 DEF ChanTyped

LEMMA ReturnTyped ==
    ASSUME ThreadTyped, NEW obs \in ResultType, Return(obs), UNCHANGED desynced
    PROVE  ThreadTyped' /\ at' = "idle"
  BY DEF ThreadTyped, Return, Want

LEMMA PanicTyped ==
    ASSUME ThreadTyped, Panic, UNCHANGED desynced
    PROVE  ThreadTyped' /\ status' = "panicked"
  BY DEF ThreadTyped, Panic

LEMMA DesyncTyped ==
    ASSUME ThreadTyped, HandleDesync
    PROVE  ThreadTyped' /\ hist' = hist /\ (status' = "panicked" \/ (at' = "desync" /\ desynced'))
  BY DEF ThreadTyped, HandleDesync, Panic, Want

LEMMA ChooseTyped ==
    ASSUME ThreadTyped, SelectTyped, UNCHANGED added, NEW choice \in Choice, Choose(choice)
    PROVE  ThreadTyped' /\ SelectTyped'
  BY DEF ThreadTyped, SelectTyped, Choose, Want

-----------------------------------------------------------------------------
(* The thread's place in an operation, and the types, step by step. *)

TypeInv == TypeOK /\ Inside

\* Back from an operation, or panicked, or desynced: there is nothing to remember.
LEMMA OutsideInside ==
    ASSUME at' \in {"idle", "desync"} \/ status' # "running"
    PROVE  Inside'
  BY DEF Inside, At

\* Still in the middle of it.
LEMMA StillInside ==
    ASSUME Inside, UNCHANGED <<status, at, want, hist, setup, world, added, chosen>>
    PROVE  Inside'
  BY DEF Inside, At, Op

LEMMA NewTyped ==
    ASSUME TypeInv, New
    PROVE  TypeInv'
  <1> DEFINE obs == Failure("new", 0, NoChan, "none")
  <1>1. obs \in ResultType
    BY FailureTyped DEF RecvKind
  <1>2. ThreadTyped' /\ at' = "idle"
    BY <1>1, ReturnTyped, TypeParts DEF New, TypeInv
  <1>3. SelectTyped'
    BY TypeParts DEF New, TypeInv, SelectTyped
  <1> QED
    BY <1>2, <1>3, TypeParts, RunKept, LogKept, ChanKept, OutsideInside DEF New, TypeInv

LEMMA AddTyped ==
    ASSUME WellFormedProgram, TypeInv, Add
    PROVE  TypeInv'
  <1>1. Op.chan \in Chan
    BY OpShape DEF Add, Calls, TypeInv
  <1>2. Len(added) + 1 \in Nat
    BY TypeParts DEF TypeInv, SelectTyped
  <1>3. /\ Added \in ResultType
        /\ EntryFor(Added) = [op |-> "add", index |-> Len(added) + 1, chan |-> Op.chan,
                              from |-> NoSender, error |-> "none"]
    BY <1>1, <1>2, FailureTyped DEF Added, Kinds, RecvKind
  <1>4. EntryFor(Added) \in Entry
    BY <1>1, <1>2, <1>3 DEF Entry, AddEntry, Index
  <1>5. SelectTyped'
    BY <1>1, TypeParts DEF Add, TypeInv, SelectTyped
  <1>6. LogTyped'
    BY <1>4, TypeParts, WriteTyped, TakeTyped, LogKept DEF Add, TypeInv
  <1>7. ThreadTyped' /\ (at' = "idle" \/ status' = "panicked")
    BY <1>3, TypeParts, ReturnTyped, PanicTyped DEF Add, TypeInv
  <1> QED
    BY <1>5, <1>6, <1>7, TypeParts, RunKept, ChanKept, OutsideInside DEF Add, TypeInv

LEMMA DesyncStepTyped ==
    ASSUME TypeInv, HandleDesync, LogTyped', UNCHANGED <<chanVars, runVars>>, SelectTyped'
    PROVE  TypeInv'
  <1>1. ThreadTyped' /\ (status' = "panicked" \/ at' = "desync")
    BY TypeParts, DesyncTyped DEF TypeInv
  <1> QED
    BY <1>1, TypeParts, RunKept, ChanKept, OutsideInside DEF TypeInv

LEMMA SleepTyped ==
    ASSUME TypeInv, UNCHANGED <<added, chosen>>, NEW kinds, FallAsleep(kinds)
    PROVE  TypeInv'
  <1>1. ThreadTyped' /\ status' # "running"
    BY TypeParts DEF TypeInv, FallAsleep, ThreadTyped
  <1> QED
    BY <1>1, TypeParts, RunKept, LogKept, ChanKept, SelectKept, OutsideInside DEF TypeInv, FallAsleep

LEMMA SelectDesyncedTyped ==
    ASSUME TypeInv, SelectDesynced
    PROVE  TypeInv'
  BY TypeParts, LogKept, SelectKept, DesyncStepTyped DEF TypeInv, SelectDesynced

\* An operation is selected by its index.
LEMMA IndexChosen ==
    ASSUME TypeInv, Op.kind = "select",
           NEW how \in {"Record", "Desync", "DesyncBufferEntry"}, NEW i \in DOMAIN added,
           Choose([how |-> how, index |-> i]), UNCHANGED <<logVars, chanVars, runVars, added>>
    PROVE  TypeInv'
  <1> DEFINE choice == [how |-> how, index |-> i]
  <1>1. i \in Index
    BY TypeParts DEF TypeInv, SelectTyped, Index
  <1>2. choice \in Choice
    BY <1>1 DEF Choice
  <1>3. ThreadTyped' /\ SelectTyped'
    BY <1>2, TypeParts, ChooseTyped DEF TypeInv
  <1>4. Inside'
    BY DEF Inside, At, Op, Choose, runVars
  <1> QED
    BY <1>3, <1>4, TypeParts, RunKept, LogKept, ChanKept DEF TypeInv

LEMMA RecordSelectTyped ==
    ASSUME TypeInv, RecordSelect
    PROVE  TypeInv'
  <1>1. PICK i \in ReadyIndices : Choose([how |-> "Record", index |-> i])
    BY DEF RecordSelect
  <1>2. i \in DOMAIN added
    BY DEF ReadyIndices
  <1>3. Op.kind = "select" /\ UNCHANGED <<logVars, chanVars, runVars, added>>
    BY DEF RecordSelect, Calls
  <1> QED
    BY <1>1, <1>2, <1>3, IndexChosen

LEMMA ReplaySelectTyped ==
    ASSUME TypeInv, ReplaySelect
    PROVE  TypeInv'
  <1>1. /\ Op.kind = "select" /\ TakeEntry
        /\ UNCHANGED <<chanVars, runVars, added>>
    BY DEF ReplaySelect, Calls
  <1>2. /\ NextEntry \in Entry
        /\ LogTyped'
    BY <1>1, TypeParts, TakeTyped, NextEntryTyped DEF TypeInv, TakeEntry
  <1> DEFINE entry == NextEntry
             choice == [how |-> "Replay", index |-> entry.index, entry |-> entry]
  <1>3. CASE HandleDesync /\ UNCHANGED chosen
    BY <1>1, <1>2, <1>3, TypeParts, SelectKept, DesyncStepTyped DEF TypeInv
  <1>4. ASSUME entry.op = "select"
        PROVE  entry.index \in Index /\ choice \in Choice /\ (entry.error = "none" => entry.from \in Sender)
    BY <1>2, <1>4, EntryShape DEF Choice
  <1>5. CASE entry.op = "select" /\ entry.error # "none" /\ Choose(choice)
    <2>1. ThreadTyped' /\ SelectTyped'
      BY <1>1, <1>4, <1>5, TypeParts, ChooseTyped DEF TypeInv
    <2>2. Inside'
      BY <1>1, <1>5 DEF Inside, At, Op, Choose, runVars
    <2> QED
      BY <1>1, <1>2, <2>1, <2>2, TypeParts, RunKept, ChanKept DEF TypeInv
  <1>6. CASE /\ entry.op = "select" /\ entry.error = "none" /\ entry.index <= Len(added)
             /\ want' = [chan |-> added[entry.index], from |-> entry.from]
             /\ chosen' = choice
             /\ at' = "poll"
             /\ UNCHANGED <<status, hist, desynced>>
    <2>1. entry.index \in DOMAIN added /\ added \in Seq(Chan)
      BY <1>4, <1>6, TypeParts DEF TypeInv, SelectTyped, Index
    <2>2. added[entry.index] \in Chan /\ entry.from \in Sender
      BY <1>4, <1>6, <2>1
    <2>3. ThreadTyped' /\ SelectTyped'
      BY <1>1, <1>4, <1>6, <2>1, <2>2, TypeParts DEF TypeInv, ThreadTyped, SelectTyped, Want
    <2>4. Inside'
      BY <1>1, <1>6, <2>1 DEF Inside, At, Op, runVars
    <2> QED
      BY <1>1, <1>2, <2>3, <2>4, TypeParts, RunKept, ChanKept DEF TypeInv
  <1> QED
    BY <1>3, <1>5, <1>6 DEF ReplaySelect

\* While it polls, want is a place in a buffer.
LEMMA PollShape ==
    ASSUME TypeInv, At("poll")
    PROVE  /\ want.chan \in Chan /\ want.from \in Sender
           /\ want.chan = added[chosen.index] /\ want.from = chosen.entry.from
           /\ chosen \in Choice /\ chosen.how = "Replay" /\ chosen.entry.error = "none"
           /\ chosen.index \in DOMAIN added
           /\ Op.kind = "select" /\ chosen.entry.op = "select" /\ chosen.index = chosen.entry.index
  <1>1. /\ chosen \in Choice /\ chosen.how = "Replay" /\ chosen.entry.error = "none"
        /\ chosen.index \in DOMAIN added /\ added \in Seq(Chan)
        /\ want = [chan |-> added[chosen.index], from |-> chosen.entry.from]
        /\ Op.kind = "select" /\ chosen.entry.op = "select" /\ chosen.index = chosen.entry.index
    BY TypeParts DEF TypeInv, SelectTyped, Inside
  <1>2. chosen.entry \in SelectEntry
    BY <1>1 DEF Choice, NoChoice
  <1>3. chosen.entry.from \in Sender
    BY <1>1, <1>2 DEF SelectEntry, ReceiptOf
  <1>4. added[chosen.index] \in Chan
    BY <1>1
  <1> QED
    BY <1>1, <1>3, <1>4

LEMMA PollNextTyped ==
    ASSUME TypeInv, PollNext
    PROVE  TypeInv'
  <1>1. ChanTyped'
    BY PollShape, TypeParts, FetchTyped DEF TypeInv, PollNext
  <1>2. Inside'
    BY StillInside DEF TypeInv, PollNext, threadVars, runVars
  <1>3. desynced' \in BOOLEAN
    BY TypeParts DEF TypeInv, ThreadTyped, PollNext
  <1> QED
    BY <1>1, <1>2, <1>3, TypeParts, RunKept, LogKept, ThreadKept, SelectKept DEF TypeInv, PollNext

LEMMA PollTyped ==
    ASSUME TypeInv, Poll
    PROVE  TypeInv'
  <1>1. ThreadTyped' /\ SelectTyped'
    BY PollShape, TypeParts, ChooseTyped DEF TypeInv, Poll
  <1>2. Inside'
    BY PollShape DEF Poll, Inside, At, Op, Choose, runVars
  <1> QED
    BY <1>1, <1>2, TypeParts, RunKept, LogKept, ChanKept DEF TypeInv, Poll

LEMMA PollFailsTyped ==
    ASSUME TypeInv, PollFails
    PROVE  TypeInv'
  <1>1. SelectTyped'
    BY TypeParts DEF TypeInv, PollFails, SelectTyped, Choice
  <1> QED
    BY <1>1, TypeParts, LogKept, DesyncStepTyped DEF TypeInv, PollFails

\* A step that panics and leaves everything else alone.
LEMMA PanicStepTyped ==
    ASSUME TypeInv, Panic, UNCHANGED <<logVars, chanVars, runVars, desynced, added, chosen>>
    PROVE  TypeInv'
  <1>1. ThreadTyped' /\ status' # "running"
    BY TypeParts, PanicTyped DEF TypeInv
  <1> QED
    BY <1>1, TypeParts, RunKept, LogKept, ChanKept, SelectKept, OutsideInside DEF TypeInv

LEMMA DesyncSelectTyped ==
    ASSUME TypeInv, DesyncSelect
    PROVE  TypeInv'
  <1>1. PICK how \in {"Desync", "DesyncBufferEntry"}, i \in DOMAIN added :
            Choose([how |-> how, index |-> i])
    BY DEF DesyncSelect, ReadyIndices
  <1> QED
    BY <1>1, IndexChosen DEF DesyncSelect

\* A selected operation that the program's case accepts.
LEMMA SelectedShape ==
    ASSUME WellFormedProgram, TypeInv, At("selected"), Accepted
    PROVE  /\ Passed \in Chan
           /\ chosen \in Choice /\ chosen.index \in Index
           /\ Op.kind = "select"
           /\ chosen.how = "Replay" =>
                 /\ chosen.entry \in SelectEntry /\ chosen.index = chosen.entry.index
                 /\ Passed = chosen.entry.chan
  <1>1. /\ chosen \in Choice /\ chosen.how \in {"Record", "Desync", "DesyncBufferEntry", "Replay"}
        /\ Op.kind = "select"
        /\ chosen.how = "Replay" => chosen.index = chosen.entry.index
    BY TypeParts DEF TypeInv, SelectTyped, Inside
  <1>2. chosen.index \in Index /\ (chosen.how = "Replay" => chosen.entry \in SelectEntry)
    BY <1>1 DEF Choice, NoChoice
  <1>3. Op.recvs \in Seq(Chan)
    BY <1>1, OpShape DEF TypeInv
  <1>4. Passed \in Chan
    BY <1>3 DEF Accepted, Passed
  <1> QED
    BY <1>1, <1>2, <1>4 DEF Accepted

\* An operation that is completed.
LEMMA CompleteTyped ==
    ASSUME TypeInv, NEW obs \in ResultType, Complete(obs), UNCHANGED <<runVars, desynced, added>>,
           LogTyped', ChanTyped'
    PROVE  TypeInv'
  <1>1. ThreadTyped' /\ at' = "idle"
    BY TypeParts, ReturnTyped DEF TypeInv, Complete
  <1>2. SelectTyped'
    BY TypeParts DEF TypeInv, Complete, SelectTyped, Choice
  <1> QED
    BY <1>1, <1>2, TypeParts, RunKept, OutsideInside DEF TypeInv

\* What completes a selected operation is a select, with an index.
LEMMA SelectOutcome ==
    ASSUME WellFormedProgram, TypeInv, At("selected"), Accepted,
           NEW obs \in Outcomes("select", chosen.index, Passed)
    PROVE  /\ obs \in ResultType
           /\ WellFormed(obs)
           /\ obs.op = "select" /\ obs.chan = Passed
           /\ EntryFor(obs) \in Entry
           /\ \/ /\ obs.error = "none"
                 /\ wire[Passed] # <<>>
                 /\ obs.from = Head(wire[Passed]).from
                 /\ obs.val = Head(wire[Passed]).val
              \/ obs.error # "none" /\ obs.from = NoSender
  <1>1. chosen.index \in Nat /\ chosen.index # 0 /\ Passed \in Chan /\ "select" \notin RecvKind
    BY SelectedShape DEF Index, RecvKind
  <1>2. wire \in [Chan -> Seq(Message)]
    BY TypeParts DEF TypeInv, ChanTyped
  <1> QED
    BY <1>1, <1>2, OutcomeTyped

LEMMA RecordCompleteTyped ==
    ASSUME WellFormedProgram, TypeInv, RecordComplete
    PROVE  TypeInv'
  <1>1. PICK obs \in Outcomes("select", chosen.index, Passed) :
            /\ TakeFromWire(obs)
            /\ \/ WriteEntry(EntryFor(obs)) /\ Complete(obs)
               \/ CannotWrite /\ Panic /\ UNCHANGED <<logVars, chosen>>
    BY DEF RecordComplete
  <1>2. /\ Passed \in Chan /\ obs \in ResultType /\ obs.chan = Passed /\ EntryFor(obs) \in Entry
        /\ obs.error = "none" => wire[Passed] # <<>>
        /\ UNCHANGED <<runVars, desynced, added>>
    BY SelectedShape, SelectOutcome DEF RecordComplete, Completes
  <1>3. ChanTyped'
    BY <1>1, <1>2, TypeParts, WireTyped DEF TypeInv
  <1>4. CASE WriteEntry(EntryFor(obs)) /\ Complete(obs)
    BY <1>2, <1>3, <1>4, TypeParts, WriteTyped, CompleteTyped DEF TypeInv
  <1>5. CASE CannotWrite /\ Panic /\ UNCHANGED <<logVars, chosen>>
    <2>1. ThreadTyped' /\ status' # "running"
      BY <1>2, <1>5, TypeParts, PanicTyped DEF TypeInv
    <2> QED
      BY <1>2, <1>3, <1>5, <2>1, TypeParts, RunKept, LogKept, SelectKept, OutsideInside DEF TypeInv
  <1> QED
    BY <1>1, <1>4, <1>5

LEMMA DesyncCompleteTyped ==
    ASSUME WellFormedProgram, TypeInv, DesyncComplete
    PROVE  TypeInv'
  <1>1. PICK obs \in Outcomes("select", chosen.index, Passed) : TakeFromWire(obs) /\ Complete(obs)
    BY DEF DesyncComplete
  <1>2. /\ Passed \in Chan /\ obs \in ResultType /\ obs.chan = Passed
        /\ obs.error = "none" => wire[Passed] # <<>>
        /\ UNCHANGED <<logVars, runVars, desynced, added>>
    BY SelectedShape, SelectOutcome DEF DesyncComplete, Completes
  <1>3. ChanTyped'
    BY <1>1, <1>2, TypeParts, WireTyped DEF TypeInv
  <1> QED
    BY <1>1, <1>2, <1>3, TypeParts, LogKept, CompleteTyped DEF TypeInv

\* The value of a selected operation that comes from a buffer.
LEMMA SelectBuffered ==
    ASSUME WellFormedProgram, TypeInv, At("selected"), Accepted, NEW s \in Sender,
           buffer[Passed][s] # <<>>
    PROVE  LET obs == Buffered("select", chosen.index, Passed, s) IN
           /\ obs \in ResultType
           /\ WellFormed(obs)
           /\ obs.op = "select" /\ obs.chan = Passed /\ obs.from = s /\ obs.val = Head(buffer[Passed][s])
           /\ EntryFor(obs) = [op |-> "select", index |-> chosen.index, chan |-> Passed,
                               from |-> s, error |-> "none"]
  <1>1. chosen.index \in Nat /\ chosen.index # 0 /\ Passed \in Chan /\ "select" \notin RecvKind
    BY SelectedShape DEF Index, RecvKind
  <1>2. buffer \in [Chan -> [Sender -> Seq(Nat)]]
    BY TypeParts DEF TypeInv, ChanTyped
  <1> QED
    BY <1>1, <1>2, BufferedTyped

LEMMA TakeBufferedTyped ==
    ASSUME WellFormedProgram, TypeInv, At("selected"), Accepted, NEW s \in Sender, TakeBuffered(s),
           UNCHANGED <<logVars, runVars, desynced, added>>
    PROVE  TypeInv'
  <1>1. Passed \in Chan
    BY SelectedShape
  <1>2. /\ TakeFromBuffer(Passed, s)
        /\ Complete(Buffered("select", chosen.index, Passed, s))
    BY DEF TakeBuffered
  <1>3. Buffered("select", chosen.index, Passed, s) \in ResultType
    BY <1>2, SelectBuffered DEF TakeFromBuffer
  <1>4. ChanTyped'
    BY <1>1, <1>2, TypeParts, UnbufferTyped DEF TypeInv
  <1> QED
    BY <1>2, <1>3, <1>4, TypeParts, LogKept, CompleteTyped DEF TypeInv

LEMMA BufferCompleteTyped ==
    ASSUME WellFormedProgram, TypeInv, BufferComplete
    PROVE  TypeInv'
  BY TakeBufferedTyped DEF BufferComplete, Completes

\* The error of an entry is believed.
LEMMA SelectError ==
    ASSUME WellFormedProgram, TypeInv, At("selected"), Accepted, chosen.how = "Replay",
           chosen.entry.error # "none"
    PROVE  LET obs == Failure("select", chosen.index, Passed, chosen.entry.error) IN
           /\ obs \in ResultType
           /\ WellFormed(obs)
           /\ obs.op = "select" /\ obs.from = NoSender
           /\ EntryFor(obs) = chosen.entry
  <1> DEFINE error == chosen.entry.error
             index == chosen.index
             obs == Failure("select", index, Passed, error)
  <1>1. /\ Passed \in Chan /\ chosen.index \in Nat /\ "select" \notin RecvKind
        /\ chosen.entry \in SelectEntry /\ chosen.index = chosen.entry.index /\ Passed = chosen.entry.chan
    BY SelectedShape DEF Index, RecvKind
  <1>2. /\ chosen.entry = [op |-> "select", index |-> chosen.index, chan |-> Passed,
                           from |-> NoSender, error |-> chosen.entry.error]
        /\ chosen.entry.error \in {"Disconnected", "Empty"}
    BY <1>1 DEF SelectEntry, ReceiptOf
  <1>3. /\ obs \in ResultType /\ WellFormed(obs) /\ obs.op = "select" /\ obs.from = NoSender
        /\ EntryFor(obs) = [op |-> "select", index |-> index, chan |-> Passed,
                            from |-> NoSender, error |-> error]
    BY <1>1, <1>2, FailureTyped DEF Kinds
  <1> QED
    BY <1>2, <1>3

LEMMA ReplayCompleteTyped ==
    ASSUME WellFormedProgram, TypeInv, ReplayComplete
    PROVE  TypeInv'
  <1>1. /\ At("selected") /\ Accepted /\ chosen.how = "Replay"
        /\ UNCHANGED <<logVars, runVars, desynced, added>>
    BY DEF ReplayComplete, Completes
  <1>2. CASE /\ chosen.entry.error # "none"
             /\ Complete(Failure("select", chosen.index, Passed, chosen.entry.error))
             /\ UNCHANGED chanVars
    BY <1>1, <1>2, SelectError, TypeParts, LogKept, ChanKept, CompleteTyped DEF TypeInv
  <1>3. CASE chosen.entry.error = "none" /\ TakeBuffered(chosen.entry.from)
    <2>1. chosen.entry \in SelectEntry
      BY <1>1, SelectedShape
    <2>2. chosen.entry.from \in Sender
      BY <1>3, <2>1 DEF SelectEntry, ReceiptOf
    <2> QED
      BY <1>1, <1>3, <2>2, TakeBufferedTyped
  <1> QED
    BY <1>2, <1>3 DEF ReplayComplete

LEMMA ReadyTyped ==
    ASSUME NEW i \in Index
    PROVE  /\ IsReady(i) \in ResultType
           /\ WellFormed(IsReady(i))
           /\ IsReady(i).op = "ready" /\ IsReady(i).from = NoSender
           /\ EntryFor(IsReady(i)) = [op |-> "ready", index |-> i, chan |-> NoChan,
                                      from |-> NoSender, error |-> "none"]
           /\ EntryFor(IsReady(i)) \in Entry
  <1>1. /\ IsReady(i) \in ResultType
        /\ WellFormed(IsReady(i))
        /\ IsReady(i).op = "ready" /\ IsReady(i).from = NoSender
        /\ EntryFor(IsReady(i)) = [op |-> "ready", index |-> i, chan |-> NoChan,
                                   from |-> NoSender, error |-> "none"]
    BY FailureTyped DEF IsReady, Index, Kinds, RecvKind
  <1> QED
    BY <1>1 DEF Entry, ReadyEntry

LEMMA ReadyIndexTyped ==
    ASSUME TypeInv, NEW i \in ReadyIndices
    PROVE  i \in Index /\ i \in DOMAIN added
  BY TypeParts DEF TypeInv, SelectTyped, ReadyIndices, Index

\* A step that returns, and leaves the channels and the Select alone.
LEMMA ReturnStepTyped ==
    ASSUME TypeInv, NEW obs \in ResultType, Return(obs), LogTyped', ChanTyped',
           UNCHANGED <<runVars, desynced, added, chosen>>
    PROVE  TypeInv'
  <1>1. ThreadTyped' /\ at' = "idle"
    BY TypeParts, ReturnTyped DEF TypeInv
  <1> QED
    BY <1>1, TypeParts, RunKept, SelectKept, OutsideInside DEF TypeInv

LEMMA RecordReadyTyped ==
    ASSUME TypeInv, RecordReady
    PROVE  TypeInv'
  <1>1. PICK i \in ReadyIndices :
          \/ WriteEntry(EntryFor(IsReady(i))) /\ Return(IsReady(i)) /\ UNCHANGED desynced
          \/ CannotWrite /\ HandleDesync /\ UNCHANGED logVars
    BY DEF RecordReady
  <1>2. IsReady(i) \in ResultType /\ EntryFor(IsReady(i)) \in Entry
    BY ReadyIndexTyped, ReadyTyped
  <1>3. UNCHANGED <<chanVars, runVars, added, chosen>>
    BY DEF RecordReady
  <1>4. CASE WriteEntry(EntryFor(IsReady(i))) /\ Return(IsReady(i)) /\ UNCHANGED desynced
    BY <1>2, <1>3, <1>4, TypeParts, WriteTyped, ChanKept, ReturnStepTyped DEF TypeInv
  <1>5. CASE CannotWrite /\ HandleDesync /\ UNCHANGED logVars
    BY <1>3, <1>5, TypeParts, LogKept, SelectKept, DesyncStepTyped DEF TypeInv
  <1> QED
    BY <1>1, <1>4, <1>5

LEMMA ReplayReadyTyped ==
    ASSUME TypeInv, ReplayReady
    PROVE  TypeInv'
  <1>1. UNCHANGED <<chanVars, runVars, added, chosen>>
    BY DEF ReplayReady
  <1>2. CASE TakeEntry /\ NextEntry.op = "ready" /\ Return(IsReady(NextEntry.index)) /\ UNCHANGED desynced
    <2>1. NextEntry.index \in Index
      BY <1>2, NextEntryTyped, EntryShape DEF TypeInv, TakeEntry
    <2>2. IsReady(NextEntry.index) \in ResultType
      BY <2>1, ReadyTyped
    <2> QED
      BY <1>1, <1>2, <2>2, TypeParts, TakeTyped, ChanKept, ReturnStepTyped DEF TypeInv
  <1>3. CASE HandleDesync /\ (TakeEntry \/ UNCHANGED logVars)
    BY <1>1, <1>3, TypeParts, LogKept, TakeTyped, SelectKept, DesyncStepTyped DEF TypeInv
  <1> QED
    BY <1>2, <1>3 DEF ReplayReady

LEMMA DesyncReadyTyped ==
    ASSUME TypeInv, DesyncReady
    PROVE  TypeInv'
  <1>1. PICK i \in ReadyIndices : Return(IsReady(i))
    BY DEF DesyncReady
  <1>2. IsReady(i) \in ResultType
    BY ReadyIndexTyped, ReadyTyped
  <1> QED
    BY <1>1, <1>2, TypeParts, LogKept, ChanKept, ReturnStepTyped DEF TypeInv, DesyncReady

-----------------------------------------------------------------------------
(* Types: receives, the others, and the restart. *)

\* What a receive finds on the wire.
LEMMA RecvOutcome ==
    ASSUME WellFormedProgram, TypeInv, Op.kind \in RecvKind, NEW obs \in Outcomes(Op.kind, 0, Op.chan)
    PROVE  /\ Op.chan \in Chan
           /\ obs \in ResultType
           /\ WellFormed(obs)
           /\ obs.op = Op.kind /\ obs.chan = Op.chan
           /\ EntryFor(obs) \in Entry
           /\ \/ /\ obs.error = "none"
                 /\ wire[Op.chan] # <<>>
                 /\ obs.from = Head(wire[Op.chan]).from
                 /\ obs.val = Head(wire[Op.chan]).val
              \/ obs.error # "none" /\ obs.from = NoSender
  <1> DEFINE op == Op.kind
             c == Op.chan
  <1>1. c \in Chan /\ op \in RecvKind /\ 0 \in Nat
    BY OpShape DEF TypeInv
  <1>2. wire \in [Chan -> Seq(Message)]
    BY TypeParts DEF TypeInv, ChanTyped
  <1> HIDE DEF op, c
  <1>3. obs \in Outcomes(op, 0, c)
    BY DEF op, c
  <1>4. /\ obs \in ResultType /\ WellFormed(obs) /\ obs.op = op /\ obs.chan = c
        /\ EntryFor(obs) \in Entry
        /\ \/ /\ obs.error = "none"
              /\ wire[c] # <<>>
              /\ obs.from = Head(wire[c]).from
              /\ obs.val = Head(wire[c]).val
           \/ obs.error # "none" /\ obs.from = NoSender
    BY <1>1, <1>2, <1>3, OutcomeTyped
  <1> QED
    BY <1>1, <1>4 DEF op, c

LEMMA RecordRecvTyped ==
    ASSUME WellFormedProgram, TypeInv, RecordRecv, UNCHANGED <<added, chosen>>
    PROVE  TypeInv'
  <1>1. PICK obs \in Outcomes(Op.kind, 0, Op.chan) :
          /\ TakeFromWire(obs)
          /\ \/ WriteEntry(EntryFor(obs)) /\ Return(obs) /\ UNCHANGED desynced
             \/ CannotWrite /\ HandleDesync /\ UNCHANGED logVars
    BY DEF RecordRecv
  <1>2. /\ Op.chan \in Chan /\ obs \in ResultType /\ obs.chan = Op.chan /\ EntryFor(obs) \in Entry
        /\ obs.error = "none" => wire[Op.chan] # <<>>
        /\ UNCHANGED runVars
    BY RecvOutcome DEF RecordRecv, Calls
  <1>3. ChanTyped'
    BY <1>1, <1>2, TypeParts, WireTyped DEF TypeInv
  <1>4. CASE WriteEntry(EntryFor(obs)) /\ Return(obs) /\ UNCHANGED desynced
    BY <1>2, <1>3, <1>4, TypeParts, WriteTyped, ReturnStepTyped DEF TypeInv
  <1>5. CASE CannotWrite /\ HandleDesync /\ UNCHANGED logVars
    <2>1. ThreadTyped' /\ (status' = "panicked" \/ at' = "desync")
      BY <1>5, TypeParts, DesyncTyped DEF TypeInv
    <2> QED
      BY <1>2, <1>3, <1>5, <2>1, TypeParts, RunKept, LogKept, SelectKept, OutsideInside DEF TypeInv
  <1> QED
    BY <1>1, <1>4, <1>5

LEMMA WakeUpTyped ==
    ASSUME TypeInv, WakeUp, UNCHANGED <<added, chosen>>
    PROVE  TypeInv'
  BY TypeParts, LogKept, SelectKept, DesyncStepTyped DEF TypeInv, WakeUp

\* The error that is in the entry.
LEMMA RecvError ==
    ASSUME WellFormedProgram, TypeInv, Op.kind \in RecvKind, HasEntry, EntryFits, NextEntry.error # "none"
    PROVE  LET obs == Failure(Op.kind, 0, Op.chan, NextEntry.error) IN
           /\ obs \in ResultType
           /\ WellFormed(obs)
           /\ obs.op = Op.kind /\ obs.from = NoSender
           /\ EntryFor(obs) = NextEntry
  <1> DEFINE op == Op.kind
             c == Op.chan
             error == NextEntry.error
             obs == Failure(op, 0, c, error)
  <1>1. c \in Chan /\ op \in RecvKind /\ 0 \in Nat
    BY OpShape DEF TypeInv
  <1>2. NextEntry \in RecvEntry /\ NextEntry.op = op /\ NextEntry.chan = c
    BY NextEntryTyped, EntryShape DEF TypeInv, EntryFits
  <1>3. /\ NextEntry = [op |-> op, index |-> 0, chan |-> c, from |-> NoSender, error |-> error]
        /\ error \in {"Disconnected", "Empty"}
    BY <1>2 DEF RecvEntry, ReceiptOf
  <1>4. op \in Kinds \cup {"new"} /\ op # "new" /\ c \in Chan \cup {NoChan}
        /\ error \in {"none", "Disconnected", "Empty"}
    BY <1>1, <1>3 DEF Kinds, RecvKind
  <1> HIDE DEF op, c, error
  <1>5. /\ obs \in ResultType /\ WellFormed(obs) /\ obs.op = op /\ obs.from = NoSender
        /\ EntryFor(obs) = [op |-> op, index |-> 0, chan |-> c, from |-> NoSender, error |-> error]
    BY <1>1, <1>4, FailureTyped
  <1> QED
    BY <1>3, <1>5 DEF op, c, error

LEMMA ReplayRecvTyped ==
    ASSUME WellFormedProgram, TypeInv, ReplayRecv, UNCHANGED <<added, chosen>>
    PROVE  TypeInv'
  <1>1. /\ Op.kind \in RecvKind /\ TakeEntry /\ HasEntry
        /\ UNCHANGED <<chanVars, runVars>>
    BY DEF ReplayRecv, Calls, TakeEntry
  <1>2. LogTyped' /\ ChanTyped'
    BY <1>1, TypeParts, TakeTyped, ChanKept DEF TypeInv
  <1>3. CASE ~EntryFits /\ HandleDesync
    BY <1>1, <1>2, <1>3, TypeParts, SelectKept, DesyncStepTyped DEF TypeInv
  <1>4. CASE /\ EntryFits /\ NextEntry.error # "none"
             /\ Return(Failure(Op.kind, 0, Op.chan, NextEntry.error))
             /\ UNCHANGED desynced
    BY <1>1, <1>2, <1>4, RecvError, ReturnStepTyped
  <1>5. CASE /\ EntryFits /\ NextEntry.error = "none"
             /\ want' = [chan |-> Op.chan, from |-> NextEntry.from]
             /\ at' = "receive"
             /\ UNCHANGED <<status, hist, desynced>>
    <2>1. Op.chan \in Chan /\ NextEntry.from \in Sender
      BY <1>1, <1>5, OpShape, NextEntryTyped, EntryShape DEF TypeInv, EntryFits
    <2>2. ThreadTyped'
      BY <1>5, <2>1, TypeParts DEF TypeInv, ThreadTyped, Want
    <2>3. Inside'
      BY <1>1, <1>5, <2>1 DEF Inside, At, Op, runVars
    <2> QED
      BY <1>1, <1>2, <2>2, <2>3, TypeParts, RunKept, SelectKept DEF TypeInv
  <1> QED
    BY <1>3, <1>4, <1>5 DEF ReplayRecv

LEMMA ReceiveShape ==
    ASSUME TypeInv, At("receive")
    PROVE  want.chan \in Chan /\ want.from \in Sender /\ want.chan = Op.chan /\ Op.kind \in RecvKind
  BY DEF TypeInv, Inside

LEMMA ReceiveNextTyped ==
    ASSUME TypeInv, ReceiveNext, UNCHANGED <<added, chosen>>
    PROVE  TypeInv'
  <1>1. ChanTyped'
    BY ReceiveShape, TypeParts, FetchTyped DEF TypeInv, ReceiveNext
  <1>2. Inside'
    BY StillInside DEF TypeInv, ReceiveNext, threadVars, runVars
  <1>3. desynced' \in BOOLEAN
    BY TypeParts DEF TypeInv, ThreadTyped, ReceiveNext
  <1> QED
    BY <1>1, <1>2, <1>3, TypeParts, RunKept, LogKept, ThreadKept, SelectKept DEF TypeInv, ReceiveNext

\* A message from the buffer.
LEMMA RecvBuffered ==
    ASSUME TypeInv, Op.kind \in RecvKind, NEW c \in Chan, NEW s \in Sender, buffer[c][s] # <<>>
    PROVE  LET obs == Buffered(Op.kind, 0, c, s) IN
           /\ obs \in ResultType
           /\ WellFormed(obs)
           /\ obs.op = Op.kind /\ obs.chan = c /\ obs.from = s /\ obs.val = Head(buffer[c][s])
           /\ EntryFor(obs) = [op |-> Op.kind, index |-> 0, chan |-> c, from |-> s, error |-> "none"]
  <1> DEFINE op == Op.kind
  <1>1. op \in RecvKind /\ 0 \in Nat
    OBVIOUS
  <1>2. buffer \in [Chan -> [Sender -> Seq(Nat)]]
    BY TypeParts DEF TypeInv, ChanTyped
  <1> HIDE DEF op
  <1>3. LET obs == Buffered(op, 0, c, s) IN
        /\ obs \in ResultType
        /\ WellFormed(obs)
        /\ obs.op = op /\ obs.chan = c /\ obs.from = s /\ obs.val = Head(buffer[c][s])
        /\ EntryFor(obs) = [op |-> op, index |-> 0, chan |-> c, from |-> s, error |-> "none"]
    BY <1>1, <1>2, BufferedTyped
  <1> QED
    BY <1>3 DEF op

LEMMA TakeBufferTyped ==
    ASSUME TypeInv, Op.kind \in RecvKind, NEW c \in Chan, NEW s \in Sender,
           TakeFromBuffer(c, s), Return(Buffered(Op.kind, 0, c, s)),
           UNCHANGED <<logVars, runVars, desynced, added, chosen>>
    PROVE  TypeInv'
  <1>1. Buffered(Op.kind, 0, c, s) \in ResultType
    BY RecvBuffered DEF TakeFromBuffer
  <1>2. LogTyped' /\ ChanTyped'
    BY TypeParts, LogKept, UnbufferTyped DEF TypeInv
  <1> QED
    BY <1>1, <1>2, ReturnStepTyped

LEMMA ReceiveWantedTyped ==
    ASSUME TypeInv, ReceiveWanted, UNCHANGED <<added, chosen>>
    PROVE  TypeInv'
  BY ReceiveShape, TakeBufferTyped DEF ReceiveWanted

LEMMA ReceiveFailsTyped ==
    ASSUME TypeInv, ReceiveFails, UNCHANGED <<added, chosen>>
    PROVE  TypeInv'
  BY TypeParts, LogKept, SelectKept, DesyncStepTyped DEF TypeInv, ReceiveFails

LEMMA ReceiveAnyTyped ==
    ASSUME WellFormedProgram, TypeInv, ReceiveAny, UNCHANGED <<added, chosen>>
    PROVE  TypeInv'
  <1>1. Op.kind \in RecvKind /\ UNCHANGED <<logVars, runVars, desynced>> /\ Op.chan \in Chan
    BY OpShape DEF ReceiveAny, TypeInv
  <1>2. ASSUME NEW s \in Sender,
               TakeFromBuffer(Op.chan, s) /\ Return(Buffered(Op.kind, 0, Op.chan, s))
        PROVE  TypeInv'
    BY <1>1, <1>2, TakeBufferTyped
  <1>3. ASSUME NEW obs \in Outcomes(Op.kind, 0, Op.chan), TakeFromWire(obs) /\ Return(obs)
        PROVE  TypeInv'
    <2>1. /\ obs \in ResultType /\ obs.chan = Op.chan
          /\ obs.error = "none" => wire[Op.chan] # <<>>
      BY <1>1, RecvOutcome
    <2>2. ChanTyped' /\ LogTyped'
      BY <1>1, <1>3, <2>1, TypeParts, WireTyped, LogKept DEF TypeInv
    <2> QED
      BY <1>1, <1>3, <2>1, <2>2, ReturnStepTyped
  <1> QED
    BY <1>2, <1>3 DEF ReceiveAny

LEMMA SendTyped ==
    ASSUME TypeInv, NEW s \in Sender, Send(s), UNCHANGED <<added, chosen>>
    PROVE  TypeInv'
  <1> DEFINE c == Sends[s][sent[s] + 1]
             msg == [from |-> s, val |-> sent[s] + 1]
  <1>1. c \in Chan /\ sent[s] + 1 \in Nat
    BY SetupTyped, TypeParts DEF TypeInv, Send, ChanTyped
  <1>2. msg \in Message
    BY <1>1 DEF Message
  <1>3. sent' = [sent EXCEPT ![s] = sent[s] + 1] /\ wire' = [wire EXCEPT ![c] = Append(@, msg)]
        /\ UNCHANGED <<buffer, gone>>
    BY DEF Send
  <1> HIDE DEF c, msg
  <1>4. ChanTyped'
    BY <1>1, <1>2, <1>3, TypeParts DEF TypeInv, ChanTyped
  <1>5. desynced' \in BOOLEAN /\ Inside'
    BY TypeParts, StillInside DEF TypeInv, ThreadTyped, Send, threadVars, runVars
  <1> QED
    BY <1>4, <1>5, TypeParts, RunKept, LogKept, ThreadKept, SelectKept DEF TypeInv, Send

LEMMA LeaveTyped ==
    ASSUME TypeInv, NEW s \in Sender, Leave(s), UNCHANGED <<added, chosen>>
    PROVE  TypeInv'
  <1>1. ChanTyped'
    BY TypeParts DEF TypeInv, ChanTyped, Leave
  <1>2. desynced' \in BOOLEAN /\ Inside'
    BY TypeParts, StillInside DEF TypeInv, ThreadTyped, Leave, threadVars, runVars
  <1> QED
    BY <1>1, <1>2, TypeParts, RunKept, LogKept, ThreadKept, SelectKept DEF TypeInv, Leave

LEMMA OtherDesyncTyped ==
    ASSUME TypeInv, OtherDesync, UNCHANGED <<added, chosen>>
    PROVE  TypeInv'
  <1>1. desynced' \in BOOLEAN /\ Inside'
    BY StillInside DEF TypeInv, OtherDesync, threadVars, runVars
  <1> QED
    BY <1>1, TypeParts, RunKept, LogKept, ChanKept, ThreadKept, SelectKept DEF TypeInv, OtherDesync

LEMMA FlushTyped ==
    ASSUME TypeInv, Flush, UNCHANGED <<added, chosen>>
    PROVE  TypeInv'
  <1>1. LogTyped'
    BY TypeParts DEF TypeInv, LogTyped, Flush
  <1>2. desynced' \in BOOLEAN /\ Inside'
    BY TypeParts, StillInside DEF TypeInv, ThreadTyped, Flush, threadVars, runVars
  <1> QED
    BY <1>1, <1>2, TypeParts, RunKept, ChanKept, ThreadKept, SelectKept DEF TypeInv, Flush

\* The channels at the start of an execution.
LEMMA EmptyTyped ==
    /\ EmptyWire \in [Chan -> Seq(Message)]
    /\ EmptyBuffer \in [Chan -> [Sender -> Seq(Nat)]]
    /\ [s \in Sender |-> 0] \in [Sender -> Nat]
  BY DEF EmptyWire, EmptyBuffer

LEMMA RestartTyped ==
    ASSUME TypeInv, Restart
    PROVE  TypeInv'
  <1>1. ChanTyped' /\ LogTyped'
    BY EmptyTyped, TypeParts DEF TypeInv, ChanTyped, LogTyped, Restart, NewProcess
  <1>2. ThreadTyped' /\ SelectTyped' /\ at' = "idle"
    <2>1. ThreadTyped' /\ at' = "idle"
      <3>1. <<>> \in Seq(ResultType) /\ NoWant \in Want /\ FALSE \in BOOLEAN
        BY DEF Want
      <3> QED
        BY <3>1 DEF ThreadTyped, Restart, NewProcess
    <2>2. SelectTyped'
      BY DEF SelectTyped, Restart, Choice
    <2> QED
      BY <2>1, <2>2
  <1>3. RunTyped'
    BY TypeParts DEF TypeInv, RunTyped, ThreadTyped, Restart, NewProcess, World
  <1> QED
    BY <1>1, <1>2, <1>3, TypeParts, OutsideInside DEF TypeInv

LEMMA TypeInit == Init => TypeInv
  <1> SUFFICES ASSUME Init PROVE TypeInv
    OBVIOUS
  <1>1. LogTyped /\ ChanTyped
    BY EmptyTyped DEF Init, ReaderInit, LogTyped, ChanTyped
  <1>2. ThreadTyped /\ SelectTyped /\ RunTyped
    <2>1. ThreadTyped
      <3>1. <<>> \in Seq(ResultType) /\ NoWant \in Want /\ FALSE \in BOOLEAN
        BY DEF Want
      <3> QED
        BY <3>1 DEF Init, ReaderInit, ThreadTyped
    <2>2. SelectTyped
      BY DEF Init, SelectTyped, Choice
    <2>3. RunTyped
      BY DEF Init, ReaderInit, RunTyped
    <2> QED
      BY <2>1, <2>2, <2>3
  <1>3. Inside
    BY DEF Init, ReaderInit, Inside, At
  <1> QED
    BY <1>1, <1>2, <1>3, TypeParts DEF TypeInv

LEMMA ReceiveTyped ==
    ASSUME WellFormedProgram, TypeInv, Receive, UNCHANGED <<added, chosen>>
    PROVE  TypeInv'
  BY RecordRecvTyped, SleepTyped, WakeUpTyped, ReplayRecvTyped, ReceiveNextTyped, ReceiveWantedTyped,
     ReceiveFailsTyped, ReceiveAnyTyped
     DEF Receive

LEMMA TypeStep ==
    ASSUME WellFormedProgram, TypeInv, [Next]_vars
    PROVE  TypeInv'
  <1>1. CASE Thread
    <2>1. CASE New \/ Add
      BY <2>1, NewTyped, AddTyped
    <2>2. CASE SelectDesynced \/ RecordSelect \/ SelectSleeps \/ ReplaySelect
      BY <2>2, SelectDesyncedTyped, RecordSelectTyped, SleepTyped, ReplaySelectTyped DEF SelectSleeps
    <2>3. CASE PollNext \/ Poll \/ PollFails \/ PollDisconnected \/ DesyncSelect
      BY <2>3, PollNextTyped, PollTyped, PollFailsTyped, PanicStepTyped, DesyncSelectTyped
         DEF PollDisconnected
    <2>4. CASE CompleteWithWrongReceiver \/ RecordComplete \/ DesyncComplete
      BY <2>4, PanicStepTyped, RecordCompleteTyped, DesyncCompleteTyped DEF CompleteWithWrongReceiver
    <2>5. CASE BufferComplete \/ ReplayComplete
      BY <2>5, BufferCompleteTyped, ReplayCompleteTyped
    <2>6. CASE RecordReady \/ ReplayReady \/ DesyncReady
      BY <2>6, RecordReadyTyped, ReplayReadyTyped, DesyncReadyTyped
    <2>7. CASE Receive /\ UNCHANGED <<added, chosen>>
      BY <2>7, ReceiveTyped
    <2> QED
      BY <1>1, <2>1, <2>2, <2>3, <2>4, <2>5, <2>6, <2>7 DEF Thread
  <1>2. CASE Environment
    BY <1>2, SendTyped, LeaveTyped, OtherDesyncTyped, FlushTyped DEF Environment, Others
  <1>3. CASE Restart
    BY <1>3, RestartTyped
  <1>4. CASE UNCHANGED vars
    <2>1. UNCHANGED <<logVars, chanVars, threadVars, runVars, desynced, added, chosen>>
      BY <1>4 DEF vars, readerVars
    <2>2. desynced' \in BOOLEAN /\ Inside'
      BY <2>1, TypeParts, StillInside DEF TypeInv, ThreadTyped, threadVars, runVars
    <2> QED
      BY <2>1, <2>2, TypeParts, RunKept, LogKept, ChanKept, ThreadKept, SelectKept DEF TypeInv
  <1> QED
    BY <1>1, <1>2, <1>3, <1>4 DEF Next

\* Every entry, every result and every choice is one that the code can make, and the
\* thread is always at a place of its operation that the operation has.
THEOREM TypeCorrect ==
    ASSUME WellFormedProgram
    PROVE  Spec => []TypeOK
  <1>1. Init => TypeInv
    BY TypeInit
  <1>2. TypeInv /\ [Next]_vars => TypeInv'
    BY TypeStep
  <1>3. TypeInv => TypeOK
    BY DEF TypeInv
  <1> QED
    BY <1>1, <1>2, <1>3, PTL DEF Spec

-----------------------------------------------------------------------------
(* What a step does to the messages, the history and the log, and where it leaves
   the thread. *)

PlaceInv == TypeInv /\ Place

Appends(obs) ==
    /\ status = "running"
    /\ obs \in ResultType /\ WellFormed(obs) /\ obs.op = Op.kind
    /\ hist' = Append(hist, obs)

\* No message moves.
Quiet == UNCHANGED <<wire, buffer, sent, hist>>
Notes == UNCHANGED <<wire, buffer, sent>> /\ \E obs : Appends(obs) /\ obs.from = NoSender

TakesFirst(c) ==
    /\ wire[c] # <<>>
    /\ wire' = [wire EXCEPT ![c] = Tail(@)]
    /\ UNCHANGED <<buffer, sent>>

ReceivesFromWire ==
    \E c \in Chan, obs \in ResultType :
        /\ \A s \in Sender : buffer[c][s] = <<>>
        /\ TakesFirst(c)
        /\ Appends(obs)
        /\ obs.chan = c /\ obs.from = Head(wire[c]).from /\ obs.val = Head(wire[c]).val

\* The message is taken, but there is no entry for it and no result.
Loses == ~Lossless /\ UNCHANGED hist /\ \E c \in Chan : TakesFirst(c)

ReceivesFromBuffer ==
    \E c \in Chan, s \in Sender, obs \in ResultType :
        /\ TakeFromBuffer(c, s)
        /\ Appends(obs)
        /\ obs.chan = c /\ obs.from = s /\ obs.val = Head(buffer[c][s])

Fetches == UNCHANGED hist /\ \E c \in Chan : Fetch(c)

SendsOne ==
    \E s \in Sender :
        /\ sent[s] < Len(Sends[s])
        /\ sent' = [sent EXCEPT ![s] = @ + 1]
        /\ wire' = [wire EXCEPT ![Sends[s][sent[s] + 1]] =
                        Append(@, [from |-> s, val |-> sent[s] + 1])]
        /\ UNCHANGED <<buffer, hist>>

Effect ==
    Quiet \/ Notes \/ ReceivesFromWire \/ Loses \/ ReceivesFromBuffer \/ Fetches \/ SendsOne

\* The entry is one for the result, but for the kind of a receive.
Fits(obs, entry) ==
    /\ entry.op # "new"
    /\ obs.index = entry.index
    /\ obs.chan = entry.chan
    /\ obs.from = entry.from
    /\ obs.error = entry.error

\* The number of entries whose results are in the history.
Repeated == next - Reading

RecordEffect ==
    \/ log' = log /\ hist' = hist
    \/ \E obs : Appends(obs) /\ obs.op # "new" /\ open /\ log' = Append(log, EntryFor(obs))
    \/ log' = log /\ \E obs : Appends(obs) /\ (obs.op = "new" \/ ~open)

ReplayEffect ==
    /\ log' = log
    /\ \/ desynced'
       \/ hist' = hist /\ (status' = "panicked" \/ Repeated' = Repeated)
       \/ \E obs : Appends(obs) /\ obs.op = "new" /\ Repeated' = Repeated
       \/ \E obs : /\ Appends(obs) /\ obs.op # "new"
                   /\ Repeated' = Repeated + 1 /\ next' = Repeated + 1
                   /\ Fits(obs, log[next'])

Frame ==
    /\ UNCHANGED <<setup, mode, world, recorded>>
    /\ open' => open
    /\ desynced => desynced'
    /\ status = "panicked" => status' = "panicked"

Facts ==
    /\ Frame
    /\ Effect
    /\ mode = "Record" => RecordEffect
    /\ mode = "Replay" => ReplayEffect
    /\ Place'

\* Outside of an operation there is little to say of the place.
LEMMA OutsidePlace ==
    ASSUME Place, at' \in {"idle", "desync"} \/ status' # "running",
           at' = "desync" /\ status' = "running" => desynced',
           mode' = mode, open' = open,
           mode = "Record" => next' = 0 /\ buffer' = buffer /\ (desynced' => ~open),
           next' \in 0 .. Len(log')
    PROVE  Place'
  <1>1. ~At("receive")' /\ ~At("poll")' /\ ~At("selected")'
    BY DEF At
  <1>2. Modes'
    BY <1>1 DEF Place, Modes, At
  <1>3. SelectedFromWire' /\ PolledMessageIsThere'
    BY <1>1 DEF SelectedFromWire, PolledMessageIsThere
  <1>4. Taken'
    BY <1>1 DEF Place, Taken
  <1> QED
    BY <1>2, <1>3, <1>4 DEF Place

LEMMA DesyncFacts ==
    ASSUME PlaceInv, HandleDesync, UNCHANGED <<chanVars, runVars, mode, log, open>>,
           status # "panicked", mode = "Record" => next' = 0 /\ ~open, next' \in 0 .. Len(log)
    PROVE  Facts
  <1>1. hist' = hist /\ (status' = "panicked" \/ (at' = "desync" /\ desynced'))
    BY TypeParts, DesyncTyped DEF PlaceInv, TypeInv
  <1>2. Frame
    BY DEF Frame, HandleDesync, runVars
  <1>3. Effect /\ RecordEffect /\ ReplayEffect
    BY <1>1 DEF Effect, Quiet, RecordEffect, ReplayEffect, chanVars
  <1>4. Place'
    BY <1>1, OutsidePlace DEF PlaceInv, chanVars
  <1> QED
    BY <1>2, <1>3, <1>4 DEF Facts

LEMMA PanicFacts ==
    ASSUME PlaceInv, Panic, UNCHANGED <<chanVars, runVars, mode, log, open, desynced>>,
           next' \in 0 .. Len(log), mode = "Record" => next' = 0
    PROVE  Facts
  <1>1. hist' = hist /\ status' = "panicked"
    BY DEF Panic
  <1>2. Frame
    BY <1>1 DEF Frame, runVars
  <1>3. Effect /\ RecordEffect /\ ReplayEffect
    BY <1>1 DEF Effect, Quiet, RecordEffect, ReplayEffect, chanVars
  <1>4. mode = "Record" /\ desynced => ~open
    BY DEF PlaceInv, Place, Modes
  <1>5. Place'
    BY <1>1, <1>4, OutsidePlace DEF PlaceInv, chanVars
  <1> QED
    BY <1>2, <1>3, <1>5 DEF Facts

\* Outside of an operation, all entries that were taken are repeated.
LEMMA ReadingNow ==
    /\ ~At("receive") /\ ~At("poll") /\ ~At("selected") => Reading = 0
    /\ At("receive") \/ At("poll") \/ At("selected") => Reading = 1
    /\ at' = "idle" \/ at' = "desync" => Reading' = 0
  BY DEF Reading, At

LEMMA NextTyped ==
    ASSUME PlaceInv
    PROVE  next \in Nat /\ next \in 0 .. Len(log) /\ log \in Seq(Entry) /\ Repeated \in Int
  BY TypeParts DEF PlaceInv, TypeInv, LogTyped, Place, Taken, Repeated, Reading

\* The operation returns: it has an entry, it is not recorded, or the thread is desynced.
LEMMA ReturnFacts ==
    ASSUME PlaceInv, NEW obs, obs \in ResultType, WellFormed(obs), obs.op = Op.kind, Return(obs),
           UNCHANGED <<runVars, mode, open, desynced>>, status = "running",
           Effect,
           mode = "Record" => RecordEffect /\ buffer' = buffer /\ next' = 0,
           mode = "Replay" => ReplayEffect,
           next' \in 0 .. Len(log')
    PROVE  Facts
  <1>1. at' = "idle" /\ status' = "running"
    BY DEF Return
  <1>2. Frame
    BY <1>1 DEF Frame, runVars
  <1>3. mode = "Record" /\ desynced => ~open
    BY DEF PlaceInv, Place, Modes
  <1>4. Place'
    BY <1>1, <1>3, OutsidePlace DEF PlaceInv
  <1> QED
    BY <1>2, <1>4 DEF Facts

LEMMA ReturnAppends ==
    ASSUME NEW obs, obs \in ResultType, WellFormed(obs), obs.op = Op.kind, Return(obs),
           status = "running"
    PROVE  Appends(obs) /\ at' = "idle"
  BY DEF Appends, Return

\* From idle to idle: Repeated counts the entries that were taken.
LEMMA IdleRepeats ==
    ASSUME PlaceInv, At("idle") \/ At("desync"), at' \in {"idle", "desync"}, next' \in Nat
    PROVE  Repeated = next /\ Repeated' = next'
  <1>1. Reading = 0 /\ Reading' = 0
    BY ReadingNow DEF At
  <1>2. next \in Nat
    BY NextTyped
  <1>3. Repeated = next
    BY <1>1, <1>2 DEF Repeated
  <1>4. Repeated' = next'
    <2>1. Repeated' = next' - Reading'
      BY DEF Repeated
    <2>2. next' - 0 = next'
      <3>1. next' \in Nat
        OBVIOUS
      <3>2. \A n \in Nat : n - 0 = n
        OBVIOUS
      <3> QED
        BY <3>1, <3>2
    <2> QED
      BY <1>1, <2>1, <2>2
  <1> QED
    BY <1>3, <1>4

LEMMA NewFacts ==
    ASSUME PlaceInv, New
    PROVE  Facts
  <1> DEFINE obs == Failure("new", 0, NoChan, "none")
  <1>1. obs \in ResultType /\ WellFormed(obs) /\ obs.op = "new" /\ obs.from = NoSender
    BY FailureTyped DEF RecvKind
  <1>2. /\ Return(obs) /\ At("idle") /\ Op.kind = "new"
        /\ UNCHANGED <<logVars, chanVars, runVars, desynced>>
    BY DEF New, Calls
  <1> HIDE DEF obs
  <1>3. Appends(obs) /\ at' = "idle"
    BY <1>1, <1>2, ReturnAppends DEF At
  <1>4. Effect
    BY <1>1, <1>2, <1>3 DEF Effect, Notes, chanVars
  <1>5. RecordEffect
    BY <1>1, <1>2, <1>3 DEF RecordEffect, logVars
  <1>6. Repeated' = Repeated
    BY <1>2, <1>3, NextTyped, IdleRepeats DEF logVars
  <1>7. ReplayEffect
    BY <1>1, <1>2, <1>3, <1>6 DEF ReplayEffect, logVars
  <1>8. next' \in 0 .. Len(log') /\ (mode = "Record" => buffer' = buffer /\ next' = 0)
    BY <1>2 DEF PlaceInv, Place, Taken, logVars, chanVars
  <1> QED
    BY <1>1, <1>2, <1>4, <1>5, <1>7, <1>8, ReturnFacts DEF logVars, At

\* What TakeEntry does.
LEMMA Takes ==
    ASSUME PlaceInv, TakeEntry
    PROVE  /\ mode = "Replay"
           /\ next' = next + 1
           /\ UNCHANGED <<mode, log, open>>
           /\ next' \in 0 .. Len(log)
           /\ next' \in DOMAIN log
           /\ NextEntry = log[next']
           /\ NextEntry \in Entry
  <1>1. mode = "Replay" /\ next' = next + 1 /\ UNCHANGED <<mode, log, open>> /\ HasEntry
    BY DEF TakeEntry, HasEntry
  <1>2. NextEntry \in Entry
    BY <1>1, NextEntryTyped DEF PlaceInv, TypeInv
  <1> QED
    BY <1>1, <1>2, NextTyped DEF HasEntry, NextEntry

\* An entry is written, and the operation returns.
LEMMA WriteFacts ==
    ASSUME PlaceInv, NEW obs, obs \in ResultType, WellFormed(obs), obs.op = Op.kind, obs.op # "new",
           EntryFor(obs) \in Entry, WriteEntry(EntryFor(obs)), Return(obs), status = "running",
           UNCHANGED <<buffer, runVars, desynced>>, Effect
    PROVE  Facts
  <1>1. /\ mode = "Record" /\ open /\ log' = Append(log, EntryFor(obs))
        /\ UNCHANGED <<mode, open, next>>
    BY DEF WriteEntry
  <1>2. Appends(obs)
    BY ReturnAppends
  <1>3. RecordEffect
    BY <1>1, <1>2 DEF RecordEffect
  <1>4. next' \in 0 .. Len(log') /\ next' = 0
    BY <1>1, NextTyped DEF PlaceInv, Place, Taken
  <1> QED
    BY <1>1, <1>3, <1>4, ReturnFacts

\* An entry is taken, and the operation returns what fits it.
LEMMA RepeatFacts ==
    ASSUME PlaceInv, NEW obs, obs \in ResultType, WellFormed(obs), obs.op = Op.kind, obs.op # "new",
           At("idle"), TakeEntry, Fits(obs, NextEntry), Return(obs),
           UNCHANGED <<runVars, desynced>>, Effect
    PROVE  Facts
  <1>1. /\ mode = "Replay" /\ next' = next + 1 /\ UNCHANGED <<mode, log, open>>
        /\ next' \in 0 .. Len(log) /\ NextEntry = log[next']
    BY Takes
  <1>2. Appends(obs) /\ at' = "idle"
    BY ReturnAppends DEF At
  <1>3. Repeated = next /\ Repeated' = next'
    BY <1>1, <1>2, NextTyped, IdleRepeats
  <1>4. ReplayEffect
    BY <1>1, <1>2, <1>3 DEF ReplayEffect
  <1> QED
    BY <1>1, <1>4, ReturnFacts DEF At

LEMMA AddFacts ==
    ASSUME WellFormedProgram, PlaceInv, Add
    PROVE  Facts
  <1>1. /\ At("idle") /\ Op.kind = "add" /\ status = "running"
        /\ UNCHANGED <<chanVars, runVars, desynced>>
    BY DEF Add, Calls, At
  <1>2. Op.chan \in Chan /\ Len(added) + 1 \in Nat
    BY <1>1, OpShape, TypeParts DEF PlaceInv, TypeInv, SelectTyped
  <1>3. /\ Added \in ResultType /\ WellFormed(Added) /\ Added.op = "add" /\ Added.from = NoSender
        /\ EntryFor(Added) = [op |-> "add", index |-> Len(added) + 1, chan |-> Op.chan,
                              from |-> NoSender, error |-> "none"]
    BY <1>2, FailureTyped DEF Added, Kinds, RecvKind
  <1>4. EntryFor(Added) \in Entry
    BY <1>2, <1>3 DEF Entry, AddEntry, Index
  <1>5. ASSUME Return(Added) PROVE Effect
    <2>1. Appends(Added)
      BY <1>1, <1>3, <1>5, ReturnAppends
    <2> QED
      BY <1>1, <1>3, <2>1 DEF Effect, Notes, chanVars
  <1>6. CASE WriteEntry(EntryFor(Added)) /\ Return(Added)
    BY <1>1, <1>3, <1>4, <1>5, <1>6, WriteFacts DEF chanVars
  <1>7. CASE TakeEntry /\ NextEntry = EntryFor(Added) /\ Return(Added)
    <2>1. Fits(Added, NextEntry)
      BY <1>3, <1>7 DEF Fits, EntryFor
    <2> QED
      BY <1>1, <1>3, <1>5, <1>7, <2>1, RepeatFacts
  <1>8. CASE TakeEntry /\ Panic
    BY <1>1, <1>8, Takes, PanicFacts
  <1>9. CASE UNCHANGED logVars /\ Panic
    BY <1>1, <1>9, NextTyped, PanicFacts DEF PlaceInv, Place, Taken, logVars
  <1> QED
    BY <1>6, <1>7, <1>8, <1>9 DEF Add

\* A desync that leaves the log alone.
LEMMA PlainDesyncFacts ==
    ASSUME PlaceInv, HandleDesync, UNCHANGED <<logVars, chanVars, runVars>>,
           status # "panicked", mode = "Record" => ~open
    PROVE  Facts
  BY NextTyped, DesyncFacts DEF PlaceInv, Place, Taken, logVars

\* A desync because of the entry that was taken.
LEMMA EntryDesyncFacts ==
    ASSUME PlaceInv, HandleDesync, TakeEntry, UNCHANGED <<chanVars, runVars>>, status # "panicked"
    PROVE  Facts
  BY Takes, DesyncFacts

LEMMA SelectDesyncedFacts ==
    ASSUME PlaceInv, SelectDesynced
    PROVE  Facts
  BY PlainDesyncFacts DEF SelectDesynced, Calls, At, PlaceInv, Place, Modes

LEMMA SleepFacts ==
    ASSUME PlaceInv, NEW kinds, FallAsleep(kinds)
    PROVE  Facts
  <1>1. /\ mode = "Replay" /\ status' = "asleep" /\ At("idle") /\ at' = at
        /\ UNCHANGED <<logVars, chanVars, hist, runVars, desynced>>
    BY DEF FallAsleep, Calls, NoEntryInLog
  <1>2. Frame
    BY <1>1 DEF Frame, runVars, logVars, At
  <1>3. Effect
    BY <1>1 DEF Effect, Quiet, chanVars
  <1>4. Repeated' = Repeated
    BY <1>1, NextTyped, IdleRepeats DEF At, logVars
  <1>5. ReplayEffect
    BY <1>1, <1>4 DEF ReplayEffect, logVars
  <1>6. Place'
    BY <1>1, NextTyped, OutsidePlace DEF PlaceInv, logVars
  <1> QED
    BY <1>1, <1>2, <1>3, <1>5, <1>6 DEF Facts

-----------------------------------------------------------------------------
(* select: what it does, and where it leaves the thread. *)

LEMMA ChosenFacts ==
    ASSUME PlaceInv, NEW how \in {"Record", "Desync", "DesyncBufferEntry"}, NEW i \in DOMAIN added,
           Choose([how |-> how, index |-> i]), UNCHANGED <<logVars, chanVars, runVars, added>>,
           status = "running",
           IF how = "Record" THEN mode = "Record" ELSE desynced,
           IF how = "DesyncBufferEntry" THEN BufferedValue(i)
                                        ELSE \A s \in Sender : buffer[added[i]][s] = <<>>
    PROVE  Facts
  <1>1. /\ chosen' = [how |-> how, index |-> i]
        /\ at' = "selected" /\ status' = "running"
        /\ UNCHANGED <<mode, log, open, next, wire, buffer, sent, gone, hist, desynced, added>>
    BY DEF Choose, logVars, chanVars
  <1>2. Frame
    BY <1>1 DEF Frame, runVars
  <1>3. Effect
    BY <1>1 DEF Effect, Quiet
  <1>4. mode = "Record" => RecordEffect
    BY <1>1 DEF RecordEffect
  <1>5. mode = "Replay" => ReplayEffect
    BY <1>1 DEF ReplayEffect
  <1>6. chosen'.how = how /\ chosen'.index = i
    BY <1>1
  <1>7. Modes'
    BY <1>1, <1>6 DEF PlaceInv, Place, Modes, At
  <1>8. SelectedFromWire' /\ PolledMessageIsThere'
    BY <1>1, <1>6 DEF SelectedFromWire, PolledMessageIsThere, BufferedValue
  <1>9. Taken'
    BY <1>1, <1>6 DEF PlaceInv, Place, Taken, At
  <1> QED
    BY <1>2, <1>3, <1>4, <1>5, <1>7, <1>8, <1>9 DEF Facts, Place

LEMMA RecordSelectFacts ==
    ASSUME PlaceInv, RecordSelect
    PROVE  Facts
  <1>1. PICK i \in ReadyIndices : Choose([how |-> "Record", index |-> i])
    BY DEF RecordSelect
  <1>2. i \in DOMAIN added /\ added[i] \in Chan
    BY <1>1, ReadyIndexTyped, TypeParts DEF PlaceInv, TypeInv, SelectTyped
  <1>3. mode = "Record" /\ status = "running" /\ UNCHANGED <<logVars, chanVars, runVars, added>>
    BY DEF RecordSelect, Calls, At
  <1>4. \A s \in Sender : buffer[added[i]][s] = <<>>
    BY <1>2, <1>3 DEF PlaceInv, Place, Modes
  <1> QED
    BY <1>1, <1>2, <1>3, <1>4, ChosenFacts

LEMMA DesyncSelectFacts ==
    ASSUME PlaceInv, DesyncSelect
    PROVE  Facts
  <1>1. status = "running" /\ desynced /\ UNCHANGED <<logVars, chanVars, runVars, added>>
    BY DEF DesyncSelect, PlaceInv, Place, Modes, At
  <1>2. ASSUME NEW i \in DOMAIN added, BufferedValue(i),
               Choose([how |-> "DesyncBufferEntry", index |-> i])
        PROVE  Facts
    BY <1>1, <1>2, ChosenFacts
  <1>3. ASSUME NEW i \in ReadyIndices, {j \in DOMAIN added : BufferedValue(j)} = {},
               Choose([how |-> "Desync", index |-> i])
        PROVE  Facts
    <2>1. i \in DOMAIN added
      BY DEF ReadyIndices
    <2>2. \A s \in Sender : buffer[added[i]][s] = <<>>
      BY <1>3, <2>1 DEF BufferedValue
    <2> QED
      BY <1>1, <1>3, <2>1, <2>2, ChosenFacts
  <1> QED
    BY <1>2, <1>3 DEF DesyncSelect

\* The thread goes on with the entry that it has taken.
LEMMA ReadingFacts ==
    ASSUME PlaceInv, At("idle"), TakeEntry, UNCHANGED <<chanVars, runVars, hist, status, desynced, added>>,
           at' \in {"poll", "receive", "selected"},
           at' = "receive" =>
              /\ NextEntry.op \in RecvKind /\ NextEntry.error = "none"
              /\ want' = [chan |-> Op.chan, from |-> NextEntry.from] /\ NextEntry.chan = Op.chan,
           at' # "receive" =>
              /\ chosen'.how = "Replay" /\ chosen'.entry = NextEntry
              /\ at' = "selected" => NextEntry.error # "none"
    PROVE  Facts
  <1>1. /\ mode = "Replay" /\ next' = next + 1 /\ UNCHANGED <<mode, log, open>>
        /\ next' \in 0 .. Len(log) /\ next' \in DOMAIN log /\ NextEntry = log[next']
    BY Takes
  <1>2. Frame
    BY <1>1 DEF Frame, runVars
  <1>3. Effect
    BY DEF Effect, Quiet, chanVars
  <1>4. Repeated' = Repeated
    <2>1. Reading = 0 /\ Reading' = 1
      BY DEF Reading, At
    <2>2. next \in Nat /\ next' = next + 1
      BY <1>1, NextTyped
    <2>3. \A n \in Nat : (n + 1) - 1 = n - 0
      OBVIOUS
    <2>4. Repeated = next - 0 /\ Repeated' = next' - 1
      BY <2>1 DEF Repeated
    <2> QED
      BY <2>2, <2>3, <2>4
  <1>5. ReplayEffect
    BY <1>1, <1>4 DEF ReplayEffect
  <1>6. Modes'
    BY <1>1 DEF PlaceInv, Place, Modes, At
  <1>7. SelectedFromWire' /\ PolledMessageIsThere'
    BY <1>1 DEF SelectedFromWire, PolledMessageIsThere, At
  <1>8. next' > 0
    BY <1>1, NextTyped
  <1>9. Taken'
    BY <1>1, <1>8 DEF Taken, At
  <1> QED
    BY <1>1, <1>2, <1>3, <1>5, <1>6, <1>7, <1>9 DEF Facts, Place

LEMMA ReplaySelectFacts ==
    ASSUME PlaceInv, ReplaySelect
    PROVE  Facts
  <1>1. /\ At("idle") /\ status = "running" /\ TakeEntry
        /\ UNCHANGED <<chanVars, runVars, added>>
    BY DEF ReplaySelect, Calls, At
  <1> DEFINE entry == NextEntry
             choice == [how |-> "Replay", index |-> entry.index, entry |-> entry]
  <1>2. choice.how = "Replay" /\ choice.entry = entry
    OBVIOUS
  <1> HIDE DEF choice
  <1>3. CASE HandleDesync /\ UNCHANGED chosen
    BY <1>1, <1>3, EntryDesyncFacts
  <1>4. CASE entry.op = "select" /\ entry.error # "none" /\ Choose(choice)
    BY <1>1, <1>2, <1>4, ReadingFacts DEF Choose
  <1>5. CASE /\ entry.op = "select" /\ entry.error = "none" /\ entry.index <= Len(added)
             /\ want' = [chan |-> added[entry.index], from |-> entry.from]
             /\ chosen' = choice
             /\ at' = "poll"
             /\ UNCHANGED <<status, hist, desynced>>
    BY <1>1, <1>2, <1>5, ReadingFacts
  <1> QED
    BY <1>3, <1>4, <1>5 DEF ReplaySelect, choice

\* A message moves to its buffer.
LEMMA FetchFacts ==
    ASSUME PlaceInv, At("poll") \/ At("receive"), NEW c \in Chan, Fetch(c),
           UNCHANGED <<logVars, threadVars, runVars, desynced, added, chosen>>
    PROVE  Facts
  <1>1. UNCHANGED <<mode, log, open, next, status, at, want, hist, desynced, added, chosen>>
    BY DEF logVars, threadVars
  <1>2. mode = "Replay" /\ status = "running" /\ ~At("selected") /\ ~At("desync")
    BY TypeParts DEF PlaceInv, Place, Modes, At, TypeInv, LogTyped
  <1>3. Frame
    BY <1>1 DEF Frame, runVars
  <1>4. Effect
    BY <1>1 DEF Effect, Fetches
  <1>5. ReplayEffect
    BY <1>1 DEF ReplayEffect, Repeated, Reading, At
  <1>6. Modes'
    BY <1>1, <1>2 DEF PlaceInv, Place, Modes, At
  <1>7. SelectedFromWire' /\ PolledMessageIsThere'
    BY <1>1, <1>2 DEF SelectedFromWire, PolledMessageIsThere, At
  <1>8. Op' = Op
    BY <1>1 DEF Op, runVars
  <1>9. Taken'
    BY <1>1, <1>2 DEF PlaceInv, Place, Taken, At
  <1> QED
    BY <1>2, <1>3, <1>4, <1>5, <1>6, <1>7, <1>9 DEF Facts, Place

LEMMA PollNextFacts ==
    ASSUME PlaceInv, PollNext
    PROVE  Facts
  BY PollShape, FetchFacts DEF PlaceInv, PollNext

LEMMA PollFacts ==
    ASSUME PlaceInv, Poll
    PROVE  Facts
  <1>1. /\ At("poll") /\ at' = "selected" /\ chosen' = chosen /\ Wanted
        /\ UNCHANGED <<mode, log, open, next, wire, buffer, sent, gone, hist, status, desynced, added>>
    BY DEF Poll, Choose, logVars, chanVars
  <1>2. /\ want.chan = added[chosen.index] /\ want.from = chosen.entry.from
        /\ chosen.how = "Replay" /\ chosen.entry.error = "none"
    BY <1>1, PollShape DEF PlaceInv
  <1>3. mode = "Replay" /\ status = "running"
    BY <1>1, TypeParts DEF PlaceInv, Place, Modes, At, TypeInv, LogTyped
  <1>4. Frame
    BY <1>1 DEF Frame, Poll, runVars
  <1>5. Effect
    BY <1>1 DEF Effect, Quiet
  <1>6. Repeated' = Repeated
    BY <1>1, <1>3 DEF Repeated, Reading, At
  <1>7. ReplayEffect
    BY <1>1, <1>6 DEF ReplayEffect
  <1>8. Modes'
    BY <1>1, <1>2, <1>3 DEF PlaceInv, Place, Modes, At
  <1>9. SelectedFromWire' /\ PolledMessageIsThere'
    BY <1>1, <1>2 DEF SelectedFromWire, PolledMessageIsThere, Wanted
  <1>10. Taken'
    BY <1>1, <1>2, <1>3 DEF PlaceInv, Place, Taken, At
  <1> QED
    BY <1>3, <1>4, <1>5, <1>7, <1>8, <1>9, <1>10 DEF Facts, Place

LEMMA PollFailsFacts ==
    ASSUME PlaceInv, PollFails
    PROVE  Facts
  BY PlainDesyncFacts DEF PollFails, At, PlaceInv, Place, Modes

\* A panic that leaves the log alone.
LEMMA PlainPanicFacts ==
    ASSUME PlaceInv, Panic, UNCHANGED <<logVars, chanVars, runVars, desynced>>
    PROVE  Facts
  BY NextTyped, PanicFacts DEF PlaceInv, Place, Taken, logVars

-----------------------------------------------------------------------------
(* Receives: what they do, and where they leave the thread. *)

\* A receive on the wire takes the first message, or reports that there is none.
LEMMA WireEffect ==
    ASSUME PlaceInv, NEW c \in Chan, NEW obs, obs \in ResultType, WellFormed(obs), obs.op = Op.kind,
           obs.chan = c,
           \/ /\ obs.error = "none" /\ wire[c] # <<>>
              /\ obs.from = Head(wire[c]).from /\ obs.val = Head(wire[c]).val
           \/ obs.error # "none" /\ obs.from = NoSender,
           \A s \in Sender : buffer[c][s] = <<>>,
           TakeFromWire(obs), Return(obs), status = "running"
    PROVE  Effect
  <1>1. Appends(obs)
    BY ReturnAppends
  <1>2. CASE obs.error = "none"
    <2>1. TakesFirst(c)
      BY <1>2 DEF TakesFirst, TakeFromWire
    <2>2. ReceivesFromWire
      BY <1>1, <1>2, <2>1 DEF ReceivesFromWire
    <2> QED
      BY <2>2 DEF Effect
  <1>3. CASE obs.error # "none"
    <2>1. UNCHANGED <<wire, buffer, sent>>
      BY <1>3 DEF TakeFromWire
    <2>2. Notes
      BY <1>1, <1>3, <2>1 DEF Notes
    <2> QED
      BY <2>2 DEF Effect
  <1> QED
    BY <1>2, <1>3

\* A message is taken and the thread panics, or desyncs, without an entry for it.
LEMMA LosesOrNot ==
    ASSUME PlaceInv, NEW c \in Chan, NEW obs, obs.chan = c, TakeFromWire(obs), hist' = hist,
           obs.error = "none" => wire[c] # <<>>, CannotWrite
    PROVE  Effect
  <1>1. ~Lossless
    BY DEF Lossless, CannotWrite
  <1>2. CASE obs.error = "none"
    <2>1. TakesFirst(c)
      BY <1>2 DEF TakesFirst, TakeFromWire
    <2> QED
      BY <1>1, <2>1 DEF Effect, Loses
  <1>3. CASE obs.error # "none"
    BY <1>3 DEF Effect, Quiet, TakeFromWire
  <1> QED
    BY <1>2, <1>3

\* The log is closed: the receive panics or desyncs.
LEMMA UnwrittenFacts ==
    ASSUME PlaceInv, CannotWrite, Effect, UNCHANGED <<logVars, buffer, runVars, hist>>,
           status # "panicked",
           \/ Panic /\ UNCHANGED desynced
           \/ HandleDesync
    PROVE  Facts
  <1>1. mode = "Record" /\ ~open /\ UNCHANGED <<mode, log, open, next>>
    BY DEF CannotWrite, logVars
  <1>2. status' = "panicked" \/ (at' = "desync" /\ desynced')
    BY DEF Panic, HandleDesync
  <1>3. Frame
    BY <1>1 DEF Frame, runVars, HandleDesync
  <1>4. RecordEffect
    BY <1>1 DEF RecordEffect
  <1>5. Place'
    BY <1>1, <1>2, NextTyped, OutsidePlace DEF PlaceInv, Place, Taken
  <1> QED
    BY <1>1, <1>3, <1>4, <1>5 DEF Facts

\* The operation returns without an entry, after a desync.
LEMMA DesyncedFacts ==
    ASSUME PlaceInv, NEW obs, obs \in ResultType, WellFormed(obs), obs.op = Op.kind, Return(obs),
           UNCHANGED <<logVars, runVars, desynced>>, status = "running", desynced, Effect,
           mode = "Record" => buffer' = buffer
    PROVE  Facts
  <1>1. mode = "Record" => ~open
    BY DEF PlaceInv, Place, Modes
  <1>2. Appends(obs)
    BY ReturnAppends
  <1>3. mode = "Record" => RecordEffect
    BY <1>1, <1>2 DEF RecordEffect, logVars
  <1>4. mode = "Replay" => ReplayEffect
    BY DEF ReplayEffect, logVars
  <1>5. next' \in 0 .. Len(log') /\ (mode = "Record" => next' = 0)
    BY NextTyped DEF PlaceInv, Place, Taken, logVars
  <1> QED
    BY <1>3, <1>4, <1>5, ReturnFacts DEF logVars

LEMMA RecordCompleteFacts ==
    ASSUME WellFormedProgram, PlaceInv, RecordComplete
    PROVE  Facts
  <1>1. PICK obs \in Outcomes("select", chosen.index, Passed) :
            /\ TakeFromWire(obs)
            /\ \/ WriteEntry(EntryFor(obs)) /\ Complete(obs)
               \/ CannotWrite /\ Panic /\ UNCHANGED <<logVars, chosen>>
    BY DEF RecordComplete
  <1>2. /\ At("selected") /\ status = "running" /\ Accepted /\ chosen.how = "Record"
        /\ UNCHANGED <<runVars, desynced, added>>
    BY DEF RecordComplete, Completes, At
  <1>3. /\ Passed \in Chan /\ Op.kind = "select" /\ Passed = added[chosen.index]
        /\ obs \in ResultType /\ WellFormed(obs) /\ obs.op = "select" /\ obs.chan = Passed
        /\ EntryFor(obs) \in Entry
        /\ \/ /\ obs.error = "none" /\ wire[Passed] # <<>>
              /\ obs.from = Head(wire[Passed]).from /\ obs.val = Head(wire[Passed]).val
           \/ obs.error # "none" /\ obs.from = NoSender
    BY <1>2, SelectedShape, SelectOutcome DEF PlaceInv, Accepted
  <1>4. (\A s \in Sender : buffer[Passed][s] = <<>>) /\ buffer' = buffer
    BY <1>1, <1>2, <1>3 DEF PlaceInv, Place, SelectedFromWire, TakeFromWire
  <1>5. CASE WriteEntry(EntryFor(obs)) /\ Complete(obs)
    BY <1>1, <1>2, <1>3, <1>4, <1>5, WireEffect, WriteFacts DEF Complete
  <1>6. CASE CannotWrite /\ Panic /\ UNCHANGED <<logVars, chosen>>
    <2>1. hist' = hist
      BY <1>6 DEF Panic
    <2>2. Effect
      BY <1>1, <1>3, <1>6, <2>1, LosesOrNot
    <2> QED
      BY <1>2, <1>4, <1>6, <2>1, <2>2, UnwrittenFacts
  <1> QED
    BY <1>1, <1>5, <1>6

LEMMA DesyncCompleteFacts ==
    ASSUME WellFormedProgram, PlaceInv, DesyncComplete
    PROVE  Facts
  <1>1. PICK obs \in Outcomes("select", chosen.index, Passed) : TakeFromWire(obs) /\ Complete(obs)
    BY DEF DesyncComplete
  <1>2. /\ At("selected") /\ status = "running" /\ Accepted /\ chosen.how = "Desync"
        /\ UNCHANGED <<logVars, runVars, desynced, added>>
    BY DEF DesyncComplete, Completes, At
  <1>3. /\ Passed \in Chan /\ Op.kind = "select" /\ Passed = added[chosen.index]
        /\ obs \in ResultType /\ WellFormed(obs) /\ obs.op = "select" /\ obs.chan = Passed
        /\ \/ /\ obs.error = "none" /\ wire[Passed] # <<>>
              /\ obs.from = Head(wire[Passed]).from /\ obs.val = Head(wire[Passed]).val
           \/ obs.error # "none" /\ obs.from = NoSender
    BY <1>2, SelectedShape, SelectOutcome DEF PlaceInv, Accepted
  <1>4. (\A s \in Sender : buffer[Passed][s] = <<>>) /\ buffer' = buffer /\ desynced
    BY <1>1, <1>2, <1>3 DEF PlaceInv, Place, SelectedFromWire, Modes, TakeFromWire
  <1> QED
    BY <1>1, <1>2, <1>3, <1>4, WireEffect, DesyncedFacts DEF Complete

\* A message is taken from the buffer.
LEMMA BufferEffect ==
    ASSUME PlaceInv, NEW c \in Chan, NEW s \in Sender, NEW obs, obs \in ResultType, WellFormed(obs),
           obs.op = Op.kind, obs.chan = c, obs.from = s, obs.val = Head(buffer[c][s]),
           TakeFromBuffer(c, s), Return(obs), status = "running"
    PROVE  Effect /\ mode = "Replay"
  <1>1. Appends(obs)
    BY ReturnAppends
  <1>2. ReceivesFromBuffer
    BY <1>1 DEF ReceivesFromBuffer
  <1>3. mode = "Replay"
    BY TypeParts DEF TakeFromBuffer, PlaceInv, Place, Modes, TypeInv, LogTyped
  <1> QED
    BY <1>2, <1>3 DEF Effect

\* The entry that was taken earlier is repeated now.
LEMMA ReturnsReadFacts ==
    ASSUME PlaceInv, NEW obs, obs \in ResultType, WellFormed(obs), obs.op = Op.kind, obs.op # "new",
           Return(obs), UNCHANGED <<logVars, runVars, desynced>>,
           At("receive") \/ At("selected"), mode = "Replay", next > 0, Fits(obs, log[next]), Effect
    PROVE  Facts
  <1>1. Appends(obs) /\ at' = "idle"
    BY ReturnAppends DEF At
  <1>2. Repeated = next - 1 /\ Repeated' = next - 0
    BY <1>1, ReadingNow DEF Repeated, logVars
  <1>3. next \in Nat /\ next \in 0 .. Len(log)
    BY NextTyped
  <1>4. Repeated' = Repeated + 1 /\ next' = Repeated + 1
    BY <1>2, <1>3 DEF logVars
  <1>5. ReplayEffect
    BY <1>1, <1>4 DEF ReplayEffect, logVars
  <1> QED
    BY <1>3, <1>5, ReturnFacts DEF logVars, At

LEMMA BufferCompleteFacts ==
    ASSUME WellFormedProgram, PlaceInv, BufferComplete
    PROVE  Facts
  <1>1. PICK s \in Sender : TakeBuffered(s)
    BY DEF BufferComplete
  <1>2. /\ At("selected") /\ status = "running" /\ Accepted /\ desynced
        /\ UNCHANGED <<logVars, runVars, desynced, added>>
    BY DEF BufferComplete, Completes, At, PlaceInv, Place, Modes
  <1> DEFINE obs == Buffered("select", chosen.index, Passed, s)
  <1>3. Passed \in Chan /\ Op.kind = "select" /\ TakeFromBuffer(Passed, s) /\ Return(obs)
    BY <1>1, <1>2, SelectedShape DEF PlaceInv, TakeBuffered, Complete
  <1>4. /\ obs \in ResultType /\ WellFormed(obs) /\ obs.op = "select"
        /\ obs.chan = Passed /\ obs.from = s /\ obs.val = Head(buffer[Passed][s])
    BY <1>2, <1>3, SelectBuffered DEF PlaceInv, TakeFromBuffer
  <1> HIDE DEF obs
  <1>5. Effect /\ mode = "Replay"
    BY <1>2, <1>3, <1>4, BufferEffect
  <1> QED
    BY <1>2, <1>3, <1>4, <1>5, DesyncedFacts

LEMMA ReplayCompleteFacts ==
    ASSUME WellFormedProgram, PlaceInv, ReplayComplete
    PROVE  Facts
  <1>1. /\ At("selected") /\ status = "running" /\ Accepted /\ chosen.how = "Replay"
        /\ UNCHANGED <<logVars, runVars, desynced, added>>
    BY DEF ReplayComplete, Completes, At
  <1>2. /\ mode = "Replay" /\ next > 0 /\ log[next] = chosen.entry
    BY <1>1, TypeParts DEF PlaceInv, Place, Modes, Taken, TypeInv, LogTyped
  <1>3. /\ Passed \in Chan /\ Op.kind = "select" /\ chosen.entry \in SelectEntry
        /\ chosen.index = chosen.entry.index /\ Passed = chosen.entry.chan
    BY <1>1, SelectedShape DEF PlaceInv
  <1>4. chosen.entry.op = "select"
    BY <1>3 DEF SelectEntry, ReceiptOf
  <1>5. CASE /\ chosen.entry.error # "none"
             /\ Complete(Failure("select", chosen.index, Passed, chosen.entry.error))
             /\ UNCHANGED chanVars
    <2> DEFINE obs == Failure("select", chosen.index, Passed, chosen.entry.error)
    <2>1. /\ obs \in ResultType /\ WellFormed(obs) /\ obs.op = "select" /\ obs.from = NoSender
          /\ EntryFor(obs) = chosen.entry
      BY <1>1, <1>5, SelectError DEF PlaceInv
    <2>2. Return(obs)
      BY <1>5 DEF Complete
    <2> HIDE DEF obs
    <2>3. Appends(obs)
      BY <1>1, <1>3, <2>1, <2>2, ReturnAppends
    <2>4. Effect
      BY <1>5, <2>1, <2>3 DEF Effect, Notes, chanVars
    <2>5. Fits(obs, log[next])
      BY <1>2, <1>4, <2>1 DEF Fits, EntryFor
    <2> QED
      BY <1>1, <1>2, <1>3, <2>1, <2>2, <2>4, <2>5, ReturnsReadFacts
  <1>6. CASE chosen.entry.error = "none" /\ TakeBuffered(chosen.entry.from)
    <2> DEFINE s == chosen.entry.from
               obs == Buffered("select", chosen.index, Passed, s)
    <2>1. s \in Sender /\ TakeFromBuffer(Passed, s) /\ Return(obs)
      BY <1>3, <1>6 DEF SelectEntry, ReceiptOf, TakeBuffered, Complete
    <2>2. /\ obs \in ResultType /\ WellFormed(obs) /\ obs.op = "select"
          /\ obs.chan = Passed /\ obs.from = s /\ obs.val = Head(buffer[Passed][s])
          /\ EntryFor(obs) = [op |-> "select", index |-> chosen.index, chan |-> Passed,
                              from |-> s, error |-> "none"]
      BY <1>1, <2>1, SelectBuffered DEF PlaceInv, TakeFromBuffer
    <2> HIDE DEF obs
    <2>3. Effect
      BY <1>1, <1>3, <2>1, <2>2, BufferEffect
    <2>4. Fits(obs, log[next])
      BY <1>2, <1>3, <1>4, <1>6, <2>2 DEF Fits, EntryFor
    <2> QED
      BY <1>1, <1>2, <1>3, <2>1, <2>2, <2>3, <2>4, ReturnsReadFacts
  <1> QED
    BY <1>5, <1>6 DEF ReplayComplete

\* The index of a receiver that is ready.
LEMMA ReadyEffect ==
    ASSUME PlaceInv, NEW i \in Index, Op.kind = "ready", Return(IsReady(i)), UNCHANGED chanVars,
           status = "running"
    PROVE  Effect
  <1>1. Appends(IsReady(i)) /\ IsReady(i).from = NoSender
    BY ReadyTyped, ReturnAppends
  <1> QED
    BY <1>1 DEF Effect, Notes, chanVars

LEMMA RecordReadyFacts ==
    ASSUME PlaceInv, RecordReady
    PROVE  Facts
  <1>1. PICK i \in ReadyIndices :
          \/ WriteEntry(EntryFor(IsReady(i))) /\ Return(IsReady(i)) /\ UNCHANGED desynced
          \/ CannotWrite /\ HandleDesync /\ UNCHANGED logVars
    BY DEF RecordReady
  <1>2. /\ status = "running" /\ Op.kind = "ready" /\ UNCHANGED <<chanVars, runVars, added, chosen>>
    BY DEF RecordReady, Calls, At
  <1>3. /\ i \in Index /\ IsReady(i) \in ResultType /\ WellFormed(IsReady(i))
        /\ IsReady(i).op = "ready" /\ EntryFor(IsReady(i)) \in Entry
    BY ReadyIndexTyped, ReadyTyped DEF PlaceInv
  <1>4. CASE WriteEntry(EntryFor(IsReady(i))) /\ Return(IsReady(i)) /\ UNCHANGED desynced
    BY <1>2, <1>3, <1>4, ReadyEffect, WriteFacts DEF chanVars
  <1>5. CASE CannotWrite /\ HandleDesync /\ UNCHANGED logVars
    BY <1>2, <1>5, PlainDesyncFacts DEF CannotWrite
  <1> QED
    BY <1>1, <1>4, <1>5

LEMMA ReplayReadyFacts ==
    ASSUME PlaceInv, ReplayReady
    PROVE  Facts
  <1>1. /\ At("idle") /\ status = "running" /\ Op.kind = "ready"
        /\ UNCHANGED <<chanVars, runVars, added, chosen>>
    BY DEF ReplayReady, Calls, At
  <1>2. CASE TakeEntry /\ NextEntry.op = "ready" /\ Return(IsReady(NextEntry.index)) /\ UNCHANGED desynced
    <2> DEFINE i == NextEntry.index
    <2>1. i \in Index /\ NextEntry \in ReadyEntry
      BY <1>2, Takes, EntryShape
    <2>2. /\ IsReady(i) \in ResultType /\ WellFormed(IsReady(i)) /\ IsReady(i).op = "ready"
          /\ EntryFor(IsReady(i)) = [op |-> "ready", index |-> i, chan |-> NoChan,
                                     from |-> NoSender, error |-> "none"]
      BY <2>1, ReadyTyped
    <2>3. Effect
      BY <1>1, <1>2, <2>1, ReadyEffect
    <2>4. Fits(IsReady(i), NextEntry)
      BY <2>1, <2>2 DEF Fits, EntryFor, ReadyEntry
    <2> QED
      BY <1>1, <1>2, <2>2, <2>3, <2>4, RepeatFacts
  <1>3. CASE TakeEntry /\ HandleDesync
    BY <1>1, <1>3, EntryDesyncFacts
  <1>4. CASE NoEntryInLog /\ HandleDesync /\ UNCHANGED logVars
    BY <1>1, <1>4, PlainDesyncFacts DEF NoEntryInLog
  <1> QED
    BY <1>2, <1>3, <1>4 DEF ReplayReady

LEMMA DesyncReadyFacts ==
    ASSUME PlaceInv, DesyncReady
    PROVE  Facts
  <1>1. PICK i \in ReadyIndices : Return(IsReady(i))
    BY DEF DesyncReady
  <1>2. /\ status = "running" /\ Op.kind = "ready" /\ desynced
        /\ UNCHANGED <<logVars, chanVars, runVars, desynced, added, chosen>>
    BY DEF DesyncReady, At, PlaceInv, Place, Modes
  <1>3. /\ i \in Index /\ IsReady(i) \in ResultType /\ WellFormed(IsReady(i)) /\ IsReady(i).op = "ready"
    BY ReadyIndexTyped, ReadyTyped DEF PlaceInv
  <1> QED
    BY <1>1, <1>2, <1>3, ReadyEffect, DesyncedFacts DEF chanVars

LEMMA RecordRecvFacts ==
    ASSUME WellFormedProgram, PlaceInv, RecordRecv
    PROVE  Facts
  <1>1. PICK obs \in Outcomes(Op.kind, 0, Op.chan) :
          /\ TakeFromWire(obs)
          /\ \/ WriteEntry(EntryFor(obs)) /\ Return(obs) /\ UNCHANGED desynced
             \/ CannotWrite /\ HandleDesync /\ UNCHANGED logVars
    BY DEF RecordRecv
  <1>2. /\ status = "running" /\ mode = "Record" /\ Op.kind \in RecvKind /\ UNCHANGED runVars
    BY DEF RecordRecv, Calls, At
  <1>3. /\ Op.chan \in Chan
        /\ obs \in ResultType /\ WellFormed(obs) /\ obs.op = Op.kind /\ obs.chan = Op.chan
        /\ EntryFor(obs) \in Entry
        /\ \/ /\ obs.error = "none" /\ wire[Op.chan] # <<>>
              /\ obs.from = Head(wire[Op.chan]).from /\ obs.val = Head(wire[Op.chan]).val
           \/ obs.error # "none" /\ obs.from = NoSender
    BY <1>2, RecvOutcome DEF PlaceInv
  <1>4. (\A s \in Sender : buffer[Op.chan][s] = <<>>) /\ buffer' = buffer
    BY <1>1, <1>2, <1>3 DEF PlaceInv, Place, Modes, TakeFromWire
  <1>5. CASE WriteEntry(EntryFor(obs)) /\ Return(obs) /\ UNCHANGED desynced
    <2>1. obs.op # "new"
      BY <1>2, <1>3 DEF RecvKind
    <2> QED
      BY <1>1, <1>2, <1>3, <1>4, <1>5, <2>1, WireEffect, WriteFacts
  <1>6. CASE CannotWrite /\ HandleDesync /\ UNCHANGED logVars
    <2>1. hist' = hist
      BY <1>6 DEF HandleDesync, Panic
    <2>2. Effect
      BY <1>1, <1>3, <1>6, <2>1, LosesOrNot
    <2> QED
      BY <1>2, <1>4, <1>6, <2>1, <2>2, UnwrittenFacts
  <1> QED
    BY <1>1, <1>5, <1>6

LEMMA WakeUpFacts ==
    ASSUME PlaceInv, WakeUp
    PROVE  Facts
  BY PlainDesyncFacts DEF WakeUp, PlaceInv, Place, Modes

LEMMA ReplayRecvFacts ==
    ASSUME WellFormedProgram, PlaceInv, ReplayRecv, UNCHANGED added
    PROVE  Facts
  <1>1. /\ At("idle") /\ status = "running" /\ Op.kind \in RecvKind /\ TakeEntry /\ HasEntry
        /\ UNCHANGED <<chanVars, runVars>>
    BY DEF ReplayRecv, Calls, At, TakeEntry
  <1>2. CASE ~EntryFits /\ HandleDesync
    BY <1>1, <1>2, EntryDesyncFacts
  <1>3. CASE /\ EntryFits /\ NextEntry.error # "none"
             /\ Return(Failure(Op.kind, 0, Op.chan, NextEntry.error))
             /\ UNCHANGED desynced
    <2> DEFINE obs == Failure(Op.kind, 0, Op.chan, NextEntry.error)
    <2>1. /\ obs \in ResultType /\ WellFormed(obs) /\ obs.op = Op.kind /\ obs.from = NoSender
          /\ EntryFor(obs) = NextEntry
      BY <1>1, <1>3, RecvError DEF PlaceInv
    <2>2. Return(obs)
      BY <1>3
    <2> HIDE DEF obs
    <2>3. Appends(obs)
      BY <1>1, <2>1, <2>2, ReturnAppends
    <2>4. Effect
      BY <1>1, <2>1, <2>3 DEF Effect, Notes, chanVars
    <2>5. obs.op # "new"
      BY <1>1, <2>1 DEF RecvKind
    <2>6. Fits(obs, NextEntry)
      BY <2>1, <2>5 DEF Fits, EntryFor
    <2> QED
      BY <1>1, <1>3, <2>1, <2>2, <2>4, <2>5, <2>6, RepeatFacts
  <1>4. CASE /\ EntryFits /\ NextEntry.error = "none"
             /\ want' = [chan |-> Op.chan, from |-> NextEntry.from]
             /\ at' = "receive"
             /\ UNCHANGED <<status, hist, desynced>>
    BY <1>1, <1>4, ReadingFacts DEF EntryFits
  <1> QED
    BY <1>2, <1>3, <1>4 DEF ReplayRecv

LEMMA ReceiveNextFacts ==
    ASSUME PlaceInv, ReceiveNext, UNCHANGED <<added, chosen>>
    PROVE  Facts
  BY ReceiveShape, FetchFacts DEF PlaceInv, ReceiveNext

LEMMA ReceiveWantedFacts ==
    ASSUME PlaceInv, ReceiveWanted
    PROVE  Facts
  <1> DEFINE c == want.chan
             s == want.from
             obs == Buffered(Op.kind, 0, c, s)
  <1>1. /\ At("receive") /\ TakeFromBuffer(c, s) /\ Return(obs) /\ buffer[c][s] # <<>>
        /\ UNCHANGED <<logVars, runVars, desynced>>
    BY DEF ReceiveWanted, Wanted
  <1>2. c \in Chan /\ s \in Sender /\ Op.kind \in RecvKind
    BY <1>1, ReceiveShape DEF PlaceInv
  <1>3. /\ obs \in ResultType /\ WellFormed(obs) /\ obs.op = Op.kind
        /\ obs.chan = c /\ obs.from = s /\ obs.val = Head(buffer[c][s])
        /\ EntryFor(obs) = [op |-> Op.kind, index |-> 0, chan |-> c, from |-> s, error |-> "none"]
    BY <1>1, <1>2, RecvBuffered DEF PlaceInv
  <1>4. /\ next > 0 /\ log[next].op \in RecvKind /\ log[next].error = "none"
        /\ log[next].chan = c /\ log[next].from = s
    BY <1>1 DEF PlaceInv, Place, Taken
  <1>5. log[next] \in Entry
    BY <1>4, NextTyped
  <1>6. log[next].index = 0
    BY <1>4, <1>5, EntryShape DEF RecvEntry, ReceiptOf
  <1> HIDE DEF obs, c, s
  <1>7. Effect /\ mode = "Replay"
    BY <1>1, <1>2, <1>3, BufferEffect DEF At
  <1>8. Fits(obs, log[next]) /\ obs.op # "new"
    BY <1>2, <1>3, <1>4, <1>6 DEF Fits, EntryFor, RecvKind
  <1> QED
    BY <1>1, <1>2, <1>3, <1>4, <1>7, <1>8, ReturnsReadFacts

LEMMA ReceiveFailsFacts ==
    ASSUME PlaceInv, ReceiveFails
    PROVE  Facts
  BY PlainDesyncFacts DEF ReceiveFails, At, PlaceInv, Place, Modes

LEMMA ReceiveAnyFacts ==
    ASSUME WellFormedProgram, PlaceInv, ReceiveAny
    PROVE  Facts
  <1> DEFINE c == Op.chan
  <1>1. /\ Op.kind \in RecvKind /\ status = "running" /\ desynced /\ c \in Chan
        /\ UNCHANGED <<logVars, runVars, desynced>>
    BY OpShape DEF ReceiveAny, PlaceInv, TypeInv, Place, Modes, At
  <1>2. ASSUME NEW s \in Sender,
               TakeFromBuffer(c, s) /\ Return(Buffered(Op.kind, 0, c, s))
        PROVE  Facts
    <2> DEFINE obs == Buffered(Op.kind, 0, c, s)
    <2>1. buffer[c][s] # <<>>
      BY <1>2 DEF TakeFromBuffer
    <2>2. /\ obs \in ResultType /\ WellFormed(obs) /\ obs.op = Op.kind
          /\ obs.chan = c /\ obs.from = s /\ obs.val = Head(buffer[c][s])
      BY <1>1, <1>2, <2>1, RecvBuffered DEF PlaceInv
    <2>3. TakeFromBuffer(c, s) /\ Return(obs) /\ s \in Sender
      BY <1>2
    <2> HIDE DEF obs, c
    <2>4. Effect /\ mode = "Replay"
      BY <1>1, <2>2, <2>3, BufferEffect
    <2> QED
      BY <1>1, <2>2, <2>3, <2>4, DesyncedFacts
  <1>3. ASSUME {s \in Sender : buffer[c][s] # <<>>} = {},
               NEW obs \in Outcomes(Op.kind, 0, c), TakeFromWire(obs) /\ Return(obs)
        PROVE  Facts
    <2>1. /\ obs \in ResultType /\ WellFormed(obs) /\ obs.op = Op.kind /\ obs.chan = c
          /\ \/ /\ obs.error = "none" /\ wire[c] # <<>>
                /\ obs.from = Head(wire[c]).from /\ obs.val = Head(wire[c]).val
             \/ obs.error # "none" /\ obs.from = NoSender
      BY <1>1, RecvOutcome DEF PlaceInv
    <2>2. (\A s \in Sender : buffer[c][s] = <<>>) /\ buffer' = buffer
      BY <1>3 DEF TakeFromWire
    <2> HIDE DEF c
    <2>3. Effect
      BY <1>1, <1>3, <2>1, <2>2, WireEffect
    <2> QED
      BY <1>1, <1>3, <2>1, <2>2, <2>3, DesyncedFacts
  <1> QED
    BY <1>2, <1>3 DEF ReceiveAny

-----------------------------------------------------------------------------
(* The others. *)

LEMMA OtherFacts ==
    ASSUME PlaceInv, UNCHANGED <<threadVars, runVars, mode, log, next, buffer, added, chosen>>,
           Effect, open' => open, desynced' = desynced \/ (desynced' = TRUE /\ mode = "Replay")
    PROVE  Facts
  <1>1. UNCHANGED <<status, at, want, hist, setup, world, recorded>>
    BY DEF threadVars, runVars
  <1>2. Frame
    BY <1>1 DEF Frame
  <1>3. RecordEffect /\ ReplayEffect
    BY <1>1 DEF RecordEffect, ReplayEffect, Repeated, Reading, At
  <1>4. Op' = Op
    BY <1>1 DEF Op
  <1>5. Modes'
    BY <1>1 DEF PlaceInv, Place, Modes, At
  <1>6. SelectedFromWire' /\ PolledMessageIsThere'
    BY <1>1 DEF PlaceInv, Place, SelectedFromWire, PolledMessageIsThere, BufferedValue, At
  <1>7. Taken'
    BY <1>1 DEF PlaceInv, Place, Taken, At
  <1> QED
    BY <1>2, <1>3, <1>5, <1>6, <1>7 DEF Facts, Place

LEMMA EnvironmentFacts ==
    ASSUME PlaceInv, Environment
    PROVE  Facts
  <1>1. UNCHANGED <<added, chosen>>
    BY DEF Environment
  <1>2. ASSUME NEW s \in Sender, Send(s) PROVE Facts
    <2>1. UNCHANGED <<logVars, threadVars, runVars, desynced, buffer>>
      BY <1>2 DEF Send
    <2>2. SendsOne
      BY <1>2, <2>1 DEF Send, SendsOne, threadVars
    <2> QED
      BY <1>1, <2>1, <2>2, OtherFacts DEF Effect, logVars
  <1>3. ASSUME NEW s \in Sender, Leave(s) PROVE Facts
    BY <1>1, <1>3, OtherFacts DEF Leave, Effect, Quiet, logVars, threadVars
  <1>4. CASE OtherDesync
    BY <1>1, <1>4, OtherFacts DEF OtherDesync, Effect, Quiet, logVars, threadVars, chanVars
  <1>5. CASE Flush
    BY <1>1, <1>5, OtherFacts DEF Flush, Effect, Quiet, threadVars, chanVars
  <1> QED
    BY <1>2, <1>3, <1>4, <1>5 DEF Environment, Others

LEMMA ThreadFacts ==
    ASSUME WellFormedProgram, PlaceInv, Thread
    PROVE  Facts
  <1>1. CASE New \/ Add
    BY <1>1, NewFacts, AddFacts
  <1>2. CASE SelectDesynced \/ RecordSelect \/ SelectSleeps \/ ReplaySelect
    BY <1>2, SelectDesyncedFacts, RecordSelectFacts, SleepFacts, ReplaySelectFacts DEF SelectSleeps
  <1>3. CASE PollNext \/ Poll \/ PollFails \/ PollDisconnected \/ DesyncSelect
    BY <1>3, PollNextFacts, PollFacts, PollFailsFacts, PlainPanicFacts, DesyncSelectFacts
       DEF PollDisconnected
  <1>4. CASE CompleteWithWrongReceiver \/ RecordComplete \/ DesyncComplete
    BY <1>4, PlainPanicFacts, RecordCompleteFacts, DesyncCompleteFacts DEF CompleteWithWrongReceiver
  <1>5. CASE BufferComplete \/ ReplayComplete
    BY <1>5, BufferCompleteFacts, ReplayCompleteFacts
  <1>6. CASE RecordReady \/ ReplayReady \/ DesyncReady
    BY <1>6, RecordReadyFacts, ReplayReadyFacts, DesyncReadyFacts
  <1>7. CASE Receive /\ UNCHANGED <<added, chosen>>
    BY <1>7, RecordRecvFacts, SleepFacts, WakeUpFacts, ReplayRecvFacts, ReceiveNextFacts,
       ReceiveWantedFacts, ReceiveFailsFacts, ReceiveAnyFacts
       DEF Receive
  <1> QED
    BY <1>1, <1>2, <1>3, <1>4, <1>5, <1>6, <1>7 DEF Thread

LEMMA StutterFacts ==
    ASSUME PlaceInv, UNCHANGED vars
    PROVE  Facts
  <1>1. UNCHANGED <<threadVars, runVars, mode, log, open, next, desynced, added, chosen>> /\ Quiet
        /\ buffer' = buffer
    BY DEF vars, readerVars, logVars, chanVars, threadVars, Quiet
  <1> QED
    BY <1>1, OtherFacts DEF Effect

-----------------------------------------------------------------------------
(* A message that was selected is there. *)

\* In a new process.
LEMMA RestartPlace ==
    ASSUME PlaceInv, Restart
    PROVE  Place'
  <1>1. /\ mode' = "Replay" /\ ~open /\ open' = open /\ log' = log /\ next' = next /\ mode = "Record"
        /\ at' = "idle"
    BY DEF Restart, NewProcess
  <1>2. ~At("receive")' /\ ~At("poll")' /\ ~At("selected")' /\ ~At("desync")'
    BY <1>1 DEF At
  <1>3. Modes'
    BY <1>1, <1>2 DEF Modes
  <1>4. SelectedFromWire' /\ PolledMessageIsThere'
    BY <1>2 DEF SelectedFromWire, PolledMessageIsThere
  <1>5. Taken'
    BY <1>1, <1>2 DEF PlaceInv, Place, Taken
  <1> QED
    BY <1>3, <1>4, <1>5 DEF Place

LEMMA PlaceInit == Init => PlaceInv
  <1> SUFFICES ASSUME Init PROVE PlaceInv
    OBVIOUS
  <1>1. TypeInv
    BY TypeInit
  <1>2. /\ mode = "Record" /\ at = "idle" /\ next = 0 /\ log = <<>> /\ desynced = FALSE
        /\ buffer = EmptyBuffer
    BY DEF Init, ReaderInit
  <1>3. ~At("receive") /\ ~At("poll") /\ ~At("selected") /\ ~At("desync")
    BY <1>2 DEF At
  <1>4. Modes
    BY <1>2, <1>3 DEF Modes, EmptyBuffer
  <1>5. SelectedFromWire /\ PolledMessageIsThere /\ Taken
    BY <1>2, <1>3 DEF SelectedFromWire, PolledMessageIsThere, Taken
  <1> QED
    BY <1>1, <1>4, <1>5 DEF PlaceInv, Place

\* A step within a process, and the step to the next one.
LEMMA StepFacts ==
    ASSUME WellFormedProgram, PlaceInv, [Next]_vars
    PROVE  Facts \/ Restart
  BY ThreadFacts, EnvironmentFacts, StutterFacts DEF Next

LEMMA PlaceStep ==
    ASSUME WellFormedProgram, PlaceInv, [Next]_vars
    PROVE  PlaceInv'
  <1>1. TypeInv'
    BY TypeStep DEF PlaceInv
  <1>2. Place'
    BY StepFacts, RestartPlace DEF Facts
  <1> QED
    BY <1>1, <1>2 DEF PlaceInv

\* The receive of a selected operation, which cannot recover from a desync, finds the
\* message that select has promised, whatever the senders and other threads do meanwhile.
THEOREM PolledMessageIsThereCorrect ==
    ASSUME WellFormedProgram
    PROVE  Spec => []PolledMessageIsThere
  <1>1. Init => PlaceInv
    BY PlaceInit
  <1>2. PlaceInv /\ [Next]_vars => PlaceInv'
    BY PlaceStep
  <1>3. PlaceInv => PolledMessageIsThere
    BY DEF PlaceInv, Place
  <1> QED
    BY <1>1, <1>2, <1>3, PTL DEF Spec

-----------------------------------------------------------------------------
(* No message is lost, doubled or reordered: what each effect does to the messages of
   one sender on one channel.  The arguments are those of OnlySent, NoneMissing and
   Ordered. *)

InFlow(q, n, c, s, h, b, w) == OnlySent(q, n, c, s, h, b, w) /\ Ordered(c, s, h, b, w)

\* A result without a message of this sender on this channel.
LEMMA FlowNotes ==
    ASSUME NEW q, NEW n \in Nat, NEW c, NEW s, NEW h \in Seq(ResultType), NEW b \in Seq(Nat),
           NEW w \in Seq(Message), NEW obs \in ResultType, ~(obs.chan = c /\ obs.from = s)
    PROVE  /\ InFlow(q, n, c, s, h, b, w) => InFlow(q, n, c, s, Append(h, obs), b, w)
           /\ NoneMissing(q, n, c, s, h, b, w) => NoneMissing(q, n, c, s, Append(h, obs), b, w)
  <1> DEFINE g == Append(h, obs)
  <1>1. /\ \A i \in DOMAIN h : i \in DOMAIN g /\ g[i] = h[i]
        /\ \A i \in DOMAIN g : IsReceipt(g, i, c, s) => i \in DOMAIN h /\ IsReceipt(h, i, c, s)
    BY DEF IsReceipt
  <1> HIDE DEF g
  <1>2. \A i \in DOMAIN h : IsReceipt(h, i, c, s) => IsReceipt(g, i, c, s)
    BY <1>1 DEF IsReceipt
  <1>3. OnlySent(q, n, c, s, h, b, w) => OnlySent(q, n, c, s, g, b, w)
    BY <1>1 DEF OnlySent
  <1>4. Ordered(c, s, h, b, w) => Ordered(c, s, g, b, w)
    BY <1>1 DEF Ordered
  <1>5. NoneMissing(q, n, c, s, h, b, w) => NoneMissing(q, n, c, s, g, b, w)
    BY <1>1, <1>2 DEF NoneMissing
  <1> QED
    BY <1>3, <1>4, <1>5 DEF InFlow, g

\* The first of a sequence, and the rest.
LEMMA HeadAndTail ==
    ASSUME NEW S, NEW w \in Seq(S), w # <<>>
    PROVE  /\ 1 \in DOMAIN w /\ Head(w) = w[1] /\ Tail(w) \in Seq(S)
           /\ \A i \in DOMAIN Tail(w) : i + 1 \in DOMAIN w /\ Tail(w)[i] = w[i + 1]
           /\ \A i \in DOMAIN w : i = 1 \/ (i - 1 \in DOMAIN Tail(w) /\ Tail(w)[i - 1] = w[i])
  OBVIOUS

\* Messages may go without a trace.
LEMMA FlowLoses ==
    ASSUME NEW q, NEW n \in Nat, NEW c, NEW s, NEW h \in Seq(ResultType), NEW b \in Seq(Nat),
           NEW w \in Seq(Message), w # <<>>, InFlow(q, n, c, s, h, b, w)
    PROVE  InFlow(q, n, c, s, h, b, Tail(w))
  <1> DEFINE v == Tail(w)
  <1>1. \A i \in DOMAIN v : i + 1 \in DOMAIN w /\ v[i] = w[i + 1]
    BY HeadAndTail
  <1>2. DOMAIN v \subseteq Nat
    OBVIOUS
  <1> HIDE DEF v
  <1>3. OnlySent(q, n, c, s, h, b, v)
    BY <1>1 DEF InFlow, OnlySent
  <1>4. \A i, j \in DOMAIN v : i < j /\ v[i].from = s /\ v[j].from = s => v[i].val < v[j].val
    <2> SUFFICES ASSUME NEW i \in DOMAIN v, NEW j \in DOMAIN v, i < j, v[i].from = s, v[j].from = s
                 PROVE  v[i].val < v[j].val
      OBVIOUS
    <2>1. i + 1 < j + 1 /\ i + 1 \in DOMAIN w /\ j + 1 \in DOMAIN w /\ v[i] = w[i + 1] /\ v[j] = w[j + 1]
      BY <1>1, <1>2
    <2> QED
      BY <2>1 DEF InFlow, Ordered
  <1>5. \A i \in DOMAIN h, j \in DOMAIN v : IsReceipt(h, i, c, s) /\ v[j].from = s => h[i].val < v[j].val
    BY <1>1 DEF InFlow, Ordered
  <1>6. \A i \in DOMAIN b, j \in DOMAIN v : v[j].from = s => b[i] < v[j].val
    BY <1>1 DEF InFlow, Ordered
  <1>7. Ordered(c, s, h, b, v)
    BY <1>4, <1>5, <1>6 DEF InFlow, Ordered
  <1> QED
    BY <1>3, <1>7 DEF InFlow, v

\* The first message on the wire is not this sender's: it goes, and nothing is missing.
LEMMA OtherGoes ==
    ASSUME NEW q, NEW n \in Nat, NEW c, NEW s, NEW h \in Seq(ResultType), NEW b \in Seq(Nat),
           NEW w \in Seq(Message), w # <<>>, Head(w).from # s, NoneMissing(q, n, c, s, h, b, w)
    PROVE  NoneMissing(q, n, c, s, h, b, Tail(w))
  <1> DEFINE v == Tail(w)
  <1>1. /\ w[1].from # s
        /\ \A i \in DOMAIN w : i = 1 \/ (i - 1 \in DOMAIN v /\ v[i - 1] = w[i])
    BY HeadAndTail
  <1> HIDE DEF v
  <1>2. ASSUME NEW m \in 1 .. n, NEW i \in DOMAIN w, w[i].from = s, w[i].val = m
        PROVE  \E j \in DOMAIN v : v[j].from = s /\ v[j].val = m
    BY <1>1, <1>2
  <1> QED
    BY <1>2 DEF NoneMissing, v

\* It is received: nothing of the sender's was in the buffer.
LEMMA FlowReceives ==
    ASSUME NEW q, NEW n \in Nat, NEW c, NEW s, NEW h \in Seq(ResultType), NEW b, b = <<>>,
           NEW w \in Seq(Message), w # <<>>, Head(w).from = s,
           NEW obs \in ResultType, obs.chan = c, obs.from = s, obs.val = Head(w).val
    PROVE  /\ InFlow(q, n, c, s, h, b, w) => InFlow(q, n, c, s, Append(h, obs), b, Tail(w))
           /\ NoneMissing(q, n, c, s, h, b, w) => NoneMissing(q, n, c, s, Append(h, obs), b, Tail(w))
  <1> DEFINE g == Append(h, obs)
             v == Tail(w)
             l == Len(h) + 1
  <1>1. /\ \A i \in DOMAIN h : i \in DOMAIN g /\ g[i] = h[i] /\ i < l
        /\ l \in DOMAIN g /\ g[l] = obs /\ IsReceipt(g, l, c, s)
        /\ \A i \in DOMAIN g : i \in DOMAIN h \/ i = l
        /\ \A i \in DOMAIN h : IsReceipt(g, i, c, s) <=> IsReceipt(h, i, c, s)
    BY DEF IsReceipt
  <1>2. /\ 1 \in DOMAIN w /\ w[1].from = s /\ obs.val = w[1].val
        /\ \A i \in DOMAIN v : i + 1 \in DOMAIN w /\ v[i] = w[i + 1] /\ 1 < i + 1
        /\ \A i \in DOMAIN w : i = 1 \/ (i - 1 \in DOMAIN v /\ v[i - 1] = w[i])
    BY HeadAndTail
  <1>3. DOMAIN h \subseteq Nat /\ l \in Nat /\ DOMAIN b = {}
    OBVIOUS
  <1>4. InFlow(q, n, c, s, h, b, w) => InFlow(q, n, c, s, h, b, v)
    <2>1. b \in Seq(Nat)
      OBVIOUS
    <2> QED
      BY <2>1, FlowLoses
  <1> HIDE DEF g, v, l
  <1>5. ASSUME InFlow(q, n, c, s, h, b, w)
        PROVE  InFlow(q, n, c, s, g, b, v)
    <2>1. InFlow(q, n, c, s, h, b, v)
      BY <1>4, <1>5
    <2>2. OnlySent(q, n, c, s, g, b, v)
      <3>1. IsSent(q, n, c, w[1].val)
        BY <1>2, <1>5 DEF InFlow, OnlySent
      <3> QED
        BY <1>1, <1>2, <2>1, <3>1 DEF InFlow, OnlySent
    <2>3. \A i \in DOMAIN h : IsReceipt(h, i, c, s) => h[i].val < obs.val
      BY <1>2, <1>5 DEF InFlow, Ordered
    <2>4. \A i \in DOMAIN v : v[i].from = s => obs.val < v[i].val
      BY <1>2, <1>5 DEF InFlow, Ordered
    <2>5. \A i, j \in DOMAIN g : i < j /\ IsReceipt(g, i, c, s) /\ IsReceipt(g, j, c, s) => g[i].val < g[j].val
      BY <1>1, <1>3, <2>1, <2>3 DEF InFlow, Ordered
    <2>6. \A i \in DOMAIN g, j \in DOMAIN v : IsReceipt(g, i, c, s) /\ v[j].from = s => g[i].val < v[j].val
      BY <1>1, <2>1, <2>4 DEF InFlow, Ordered
    <2>7. Ordered(c, s, g, b, v)
      BY <1>3, <2>1, <2>5, <2>6 DEF InFlow, Ordered
    <2> QED
      BY <2>2, <2>7 DEF InFlow
  <1>6. ASSUME NoneMissing(q, n, c, s, h, b, w)
        PROVE  NoneMissing(q, n, c, s, g, b, v)
    <2> SUFFICES ASSUME NEW m \in 1 .. n, IsSent(q, n, c, m)
                 PROVE  \/ \E i \in DOMAIN g : IsReceipt(g, i, c, s) /\ g[i].val = m
                        \/ \E i \in DOMAIN v : v[i].from = s /\ v[i].val = m
      BY DEF NoneMissing
    <2>1. CASE \E i \in DOMAIN h : IsReceipt(h, i, c, s) /\ h[i].val = m
      BY <1>1, <2>1
    <2>2. CASE \E i \in DOMAIN w : w[i].from = s /\ w[i].val = m
      BY <1>1, <1>2, <2>2
    <2> QED
      BY <1>3, <1>6, <2>1, <2>2 DEF NoneMissing
  <1> QED
    BY <1>5, <1>6 DEF g, v

\* It moves to the end of the sender's buffer.
LEMMA FlowFetches ==
    ASSUME NEW q, NEW n \in Nat, NEW c, NEW s, NEW h \in Seq(ResultType), NEW b \in Seq(Nat),
           NEW w \in Seq(Message), w # <<>>, Head(w).from = s
    PROVE  /\ InFlow(q, n, c, s, h, b, w) => InFlow(q, n, c, s, h, Append(b, Head(w).val), Tail(w))
           /\ NoneMissing(q, n, c, s, h, b, w) =>
                  NoneMissing(q, n, c, s, h, Append(b, Head(w).val), Tail(w))
  <1> DEFINE val == Head(w).val
             a == Append(b, val)
             v == Tail(w)
             l == Len(b) + 1
  <1>1. /\ \A i \in DOMAIN b : i \in DOMAIN a /\ a[i] = b[i] /\ i < l
        /\ l \in DOMAIN a /\ a[l] = val
        /\ \A i \in DOMAIN a : i \in DOMAIN b \/ i = l
        /\ DOMAIN b \subseteq Nat /\ l \in Nat
    OBVIOUS
  <1>2. /\ 1 \in DOMAIN w /\ w[1].from = s /\ val = w[1].val
        /\ \A i \in DOMAIN v : i + 1 \in DOMAIN w /\ v[i] = w[i + 1] /\ 1 < i + 1
        /\ \A i \in DOMAIN w : i = 1 \/ (i - 1 \in DOMAIN v /\ v[i - 1] = w[i])
    BY HeadAndTail
  <1>3. InFlow(q, n, c, s, h, b, w) => InFlow(q, n, c, s, h, b, v)
    BY FlowLoses
  <1> HIDE DEF val, a, v, l
  <1>4. ASSUME InFlow(q, n, c, s, h, b, w)
        PROVE  InFlow(q, n, c, s, h, a, v)
    <2>1. InFlow(q, n, c, s, h, b, v)
      BY <1>3, <1>4
    <2>2. OnlySent(q, n, c, s, h, a, v)
      <3>1. IsSent(q, n, c, val)
        BY <1>2, <1>4 DEF InFlow, OnlySent
      <3> QED
        BY <1>1, <2>1, <3>1 DEF InFlow, OnlySent
    <2>3. \A i \in DOMAIN h : IsReceipt(h, i, c, s) => h[i].val < val
      BY <1>2, <1>4 DEF InFlow, Ordered
    <2>4. \A i \in DOMAIN b : b[i] < val
      BY <1>2, <1>4 DEF InFlow, Ordered
    <2>5. \A i \in DOMAIN v : v[i].from = s => val < v[i].val
      BY <1>2, <1>4 DEF InFlow, Ordered
    <2>6. \A i, j \in DOMAIN a : i < j => a[i] < a[j]
      BY <1>1, <2>1, <2>4 DEF InFlow, Ordered
    <2>7. \A i \in DOMAIN h, j \in DOMAIN a : IsReceipt(h, i, c, s) => h[i].val < a[j]
      BY <1>1, <2>1, <2>3 DEF InFlow, Ordered
    <2>8. \A i \in DOMAIN a, j \in DOMAIN v : v[j].from = s => a[i] < v[j].val
      BY <1>1, <2>1, <2>5 DEF InFlow, Ordered
    <2>9. Ordered(c, s, h, a, v)
      BY <2>1, <2>6, <2>7, <2>8 DEF InFlow, Ordered
    <2> QED
      BY <2>2, <2>9 DEF InFlow
  <1>5. ASSUME NoneMissing(q, n, c, s, h, b, w)
        PROVE  NoneMissing(q, n, c, s, h, a, v)
    <2> SUFFICES ASSUME NEW m \in 1 .. n, IsSent(q, n, c, m)
                 PROVE  \/ \E i \in DOMAIN h : IsReceipt(h, i, c, s) /\ h[i].val = m
                        \/ \E i \in DOMAIN a : a[i] = m
                        \/ \E i \in DOMAIN v : v[i].from = s /\ v[i].val = m
      BY DEF NoneMissing
    <2>1. CASE \E i \in DOMAIN b : b[i] = m
      BY <1>1, <2>1
    <2>2. CASE \E i \in DOMAIN w : w[i].from = s /\ w[i].val = m
      BY <1>1, <1>2, <2>2
    <2> QED
      BY <1>5, <2>1, <2>2 DEF NoneMissing
  <1> QED
    BY <1>4, <1>5 DEF a, v, val

\* It is received from the buffer.
LEMMA FlowUnbuffers ==
    ASSUME NEW q, NEW n \in Nat, NEW c, NEW s, NEW h \in Seq(ResultType), NEW b \in Seq(Nat),
           NEW w \in Seq(Message), b # <<>>,
           NEW obs \in ResultType, obs.chan = c, obs.from = s, obs.val = Head(b)
    PROVE  /\ InFlow(q, n, c, s, h, b, w) => InFlow(q, n, c, s, Append(h, obs), Tail(b), w)
           /\ NoneMissing(q, n, c, s, h, b, w) => NoneMissing(q, n, c, s, Append(h, obs), Tail(b), w)
  <1> DEFINE g == Append(h, obs)
             a == Tail(b)
             l == Len(h) + 1
  <1>1. /\ \A i \in DOMAIN h : i \in DOMAIN g /\ g[i] = h[i] /\ i < l
        /\ l \in DOMAIN g /\ g[l] = obs /\ IsReceipt(g, l, c, s)
        /\ \A i \in DOMAIN g : i \in DOMAIN h \/ i = l
        /\ \A i \in DOMAIN h : IsReceipt(g, i, c, s) <=> IsReceipt(h, i, c, s)
        /\ DOMAIN h \subseteq Nat /\ l \in Nat
    BY DEF IsReceipt
  <1>2. /\ 1 \in DOMAIN b /\ obs.val = b[1]
        /\ \A i \in DOMAIN a : i + 1 \in DOMAIN b /\ a[i] = b[i + 1] /\ 1 < i + 1
        /\ \A i \in DOMAIN b : i = 1 \/ (i - 1 \in DOMAIN a /\ a[i - 1] = b[i])
        /\ \A i, j \in DOMAIN a : i < j => i + 1 < j + 1
    BY HeadAndTail
  <1> HIDE DEF g, a, l
  <1>3. ASSUME InFlow(q, n, c, s, h, b, w)
        PROVE  InFlow(q, n, c, s, g, a, w)
    <2>1. OnlySent(q, n, c, s, g, a, w)
      BY <1>1, <1>2, <1>3 DEF InFlow, OnlySent
    <2>2. \A i \in DOMAIN h : IsReceipt(h, i, c, s) => h[i].val < obs.val
      BY <1>2, <1>3 DEF InFlow, Ordered
    <2>3. \A i \in DOMAIN a : obs.val < a[i]
      BY <1>2, <1>3 DEF InFlow, Ordered
    <2>4. \A i \in DOMAIN w : w[i].from = s => obs.val < w[i].val
      BY <1>2, <1>3 DEF InFlow, Ordered
    <2>5. \A i, j \in DOMAIN g : i < j /\ IsReceipt(g, i, c, s) /\ IsReceipt(g, j, c, s) => g[i].val < g[j].val
      BY <1>1, <1>3, <2>2 DEF InFlow, Ordered
    <2>6. \A i, j \in DOMAIN a : i < j => a[i] < a[j]
      BY <1>2, <1>3 DEF InFlow, Ordered
    <2>7. \A i \in DOMAIN g, j \in DOMAIN a : IsReceipt(g, i, c, s) => g[i].val < a[j]
      BY <1>1, <1>2, <1>3, <2>3 DEF InFlow, Ordered
    <2>8. \A i \in DOMAIN g, j \in DOMAIN w : IsReceipt(g, i, c, s) /\ w[j].from = s => g[i].val < w[j].val
      BY <1>1, <1>3, <2>4 DEF InFlow, Ordered
    <2>9. \A i \in DOMAIN a, j \in DOMAIN w : w[j].from = s => a[i] < w[j].val
      BY <1>2, <1>3 DEF InFlow, Ordered
    <2>10. Ordered(c, s, g, a, w)
      BY <1>3, <2>5, <2>6, <2>7, <2>8, <2>9 DEF InFlow, Ordered
    <2> QED
      BY <2>1, <2>10 DEF InFlow
  <1>4. ASSUME NoneMissing(q, n, c, s, h, b, w)
        PROVE  NoneMissing(q, n, c, s, g, a, w)
    <2> SUFFICES ASSUME NEW m \in 1 .. n, IsSent(q, n, c, m)
                 PROVE  \/ \E i \in DOMAIN g : IsReceipt(g, i, c, s) /\ g[i].val = m
                        \/ \E i \in DOMAIN a : a[i] = m
                        \/ \E i \in DOMAIN w : w[i].from = s /\ w[i].val = m
      BY DEF NoneMissing
    <2>1. CASE \E i \in DOMAIN h : IsReceipt(h, i, c, s) /\ h[i].val = m
      BY <1>1, <2>1
    <2>2. CASE \E i \in DOMAIN b : b[i] = m
      BY <1>1, <1>2, <2>2
    <2> QED
      BY <1>4, <2>1, <2>2 DEF NoneMissing
  <1> QED
    BY <1>3, <1>4 DEF g, a

\* The sender sends on another channel.
LEMMA FlowElsewhere ==
    ASSUME NEW q, NEW n \in Nat, NEW c, NEW s, NEW h \in Seq(ResultType), NEW b \in Seq(Nat),
           NEW w \in Seq(Message), q[n + 1] # c
    PROVE  /\ InFlow(q, n, c, s, h, b, w) => InFlow(q, n + 1, c, s, h, b, w)
           /\ NoneMissing(q, n, c, s, h, b, w) => NoneMissing(q, n + 1, c, s, h, b, w)
  <1>1. \A m : IsSent(q, n, c, m) <=> IsSent(q, n + 1, c, m)
    BY DEF IsSent
  <1>2. OnlySent(q, n, c, s, h, b, w) => OnlySent(q, n + 1, c, s, h, b, w)
    BY <1>1 DEF OnlySent
  <1>3. NoneMissing(q, n, c, s, h, b, w) => NoneMissing(q, n + 1, c, s, h, b, w)
    <2>1. \A m : IsSent(q, n + 1, c, m) => m \in 1 .. n
      BY <1>1 DEF IsSent
    <2> QED
      BY <1>1, <2>1 DEF NoneMissing
  <1> QED
    BY <1>2, <1>3 DEF InFlow

\* The sender sends on this channel: the message comes last.
LEMMA FlowSends ==
    ASSUME NEW q, NEW n \in Nat, NEW c, NEW s, NEW h \in Seq(ResultType), NEW b \in Seq(Nat),
           NEW w \in Seq(Message), q[n + 1] = c,
           NEW msg \in Message, msg.from = s, msg.val = n + 1
    PROVE  /\ InFlow(q, n, c, s, h, b, w) => InFlow(q, n + 1, c, s, h, b, Append(w, msg))
           /\ NoneMissing(q, n, c, s, h, b, w) => NoneMissing(q, n + 1, c, s, h, b, Append(w, msg))
  <1> DEFINE v == Append(w, msg)
             l == Len(w) + 1
  <1>1. /\ \A i \in DOMAIN w : i \in DOMAIN v /\ v[i] = w[i] /\ i < l
        /\ l \in DOMAIN v /\ v[l] = msg
        /\ \A i \in DOMAIN v : i \in DOMAIN w \/ i = l
        /\ DOMAIN w \subseteq Nat /\ l \in Nat
    OBVIOUS
  <1> HIDE DEF v, l
  <1>2. /\ \A m : IsSent(q, n, c, m) => IsSent(q, n + 1, c, m) /\ m < n + 1
        /\ \A m : IsSent(q, n + 1, c, m) => m = n + 1 \/ IsSent(q, n, c, m)
        /\ IsSent(q, n + 1, c, n + 1)
    BY DEF IsSent
  <1>3. ASSUME InFlow(q, n, c, s, h, b, w)
        PROVE  InFlow(q, n + 1, c, s, h, b, v)
    <2>1. OnlySent(q, n + 1, c, s, h, b, v)
      BY <1>1, <1>2, <1>3 DEF InFlow, OnlySent
    <2>2. \A i, j \in DOMAIN v : i < j /\ v[i].from = s /\ v[j].from = s => v[i].val < v[j].val
      <3> SUFFICES ASSUME NEW i \in DOMAIN v, NEW j \in DOMAIN v, i < j, v[i].from = s, v[j].from = s
                   PROVE  v[i].val < v[j].val
        OBVIOUS
      <3>1. i \in DOMAIN w
        BY <1>1
      <3>2. IsSent(q, n, c, v[i].val)
        BY <1>1, <1>3, <3>1 DEF InFlow, OnlySent
      <3>3. CASE j = l
        BY <1>1, <1>2, <3>2, <3>3
      <3>4. CASE j \in DOMAIN w
        BY <1>1, <1>3, <3>1, <3>4 DEF InFlow, Ordered
      <3> QED
        BY <1>1, <3>3, <3>4
    <2>3. \A i \in DOMAIN h, j \in DOMAIN v : IsReceipt(h, i, c, s) /\ v[j].from = s => h[i].val < v[j].val
      BY <1>1, <1>2, <1>3 DEF InFlow, Ordered, OnlySent
    <2>4. \A i \in DOMAIN b, j \in DOMAIN v : v[j].from = s => b[i] < v[j].val
      BY <1>1, <1>2, <1>3 DEF InFlow, Ordered, OnlySent
    <2>5. Ordered(c, s, h, b, v)
      BY <1>3, <2>2, <2>3, <2>4 DEF InFlow, Ordered
    <2> QED
      BY <2>1, <2>5 DEF InFlow
  <1>4. ASSUME NoneMissing(q, n, c, s, h, b, w)
        PROVE  NoneMissing(q, n + 1, c, s, h, b, v)
    <2> SUFFICES ASSUME NEW m \in 1 .. n + 1, IsSent(q, n + 1, c, m)
                 PROVE  \/ \E i \in DOMAIN h : IsReceipt(h, i, c, s) /\ h[i].val = m
                        \/ \E i \in DOMAIN b : b[i] = m
                        \/ \E i \in DOMAIN v : v[i].from = s /\ v[i].val = m
      BY DEF NoneMissing
    <2>1. CASE m = n + 1
      BY <1>1, <2>1
    <2>2. CASE IsSent(q, n, c, m)
      <3>1. m \in 1 .. n
        BY <2>2 DEF IsSent
      <3>2. \/ \E i \in DOMAIN h : IsReceipt(h, i, c, s) /\ h[i].val = m
            \/ \E i \in DOMAIN b : b[i] = m
            \/ \E i \in DOMAIN w : w[i].from = s /\ w[i].val = m
        BY <1>4, <2>2, <3>1 DEF NoneMissing
      <3> QED
        BY <1>1, <3>2
    <2> QED
      BY <1>2, <2>1, <2>2
  <1> QED
    BY <1>3, <1>4 DEF v

\* Another sender's message comes last.
LEMMA OthersSend ==
    ASSUME NEW q, NEW n \in Nat, NEW c, NEW s, NEW h \in Seq(ResultType), NEW b \in Seq(Nat),
           NEW w \in Seq(Message), NEW msg \in Message, msg.from # s
    PROVE  /\ InFlow(q, n, c, s, h, b, w) => InFlow(q, n, c, s, h, b, Append(w, msg))
           /\ NoneMissing(q, n, c, s, h, b, w) => NoneMissing(q, n, c, s, h, b, Append(w, msg))
  <1> DEFINE v == Append(w, msg)
  <1>1. /\ \A i \in DOMAIN w : i \in DOMAIN v /\ v[i] = w[i]
        /\ \A i \in DOMAIN v : v[i].from = s => i \in DOMAIN w /\ v[i] = w[i]
    OBVIOUS
  <1> HIDE DEF v
  <1>2. OnlySent(q, n, c, s, h, b, w) => OnlySent(q, n, c, s, h, b, v)
    BY <1>1 DEF OnlySent
  <1>3. Ordered(c, s, h, b, w) => Ordered(c, s, h, b, v)
    BY <1>1 DEF Ordered
  <1>4. NoneMissing(q, n, c, s, h, b, w) => NoneMissing(q, n, c, s, h, b, v)
    BY <1>1 DEF NoneMissing
  <1> QED
    BY <1>2, <1>3, <1>4 DEF InFlow, v

-----------------------------------------------------------------------------
(* The flow is kept by every effect. *)

Passes(c, s) == InFlow(Sends[s], sent[s], c, s, hist, buffer[c][s], wire[c])
Whole(c, s) == NoneMissing(Sends[s], sent[s], c, s, hist, buffer[c][s], wire[c])

\* The effect of a step on the messages of s on c.
KeepsFlow(c, s) == (Passes(c, s) => Passes(c, s)') /\ (Whole(c, s) => Whole(c, s)')

LEMMA FlowTyped ==
    ASSUME PlaceInv, NEW c \in Chan, NEW s \in Sender
    PROVE  /\ Sends[s] \in Seq(Chan)
           /\ sent[s] \in Nat
           /\ hist \in Seq(ResultType)
           /\ buffer[c][s] \in Seq(Nat)
           /\ wire[c] \in Seq(Message)
  BY SetupTyped, TypeParts DEF PlaceInv, TypeInv, ChanTyped, ThreadTyped

\* What is taken from a channel's wire, or added to it, does not change another's.
LEMMA TakesFirstHere ==
    ASSUME PlaceInv, NEW c \in Chan, TakesFirst(c)
    PROVE  /\ wire'[c] = Tail(wire[c])
           /\ \A d \in Chan \ {c} : wire'[d] = wire[d]
  BY TypeParts DEF TakesFirst, PlaceInv, TypeInv, ChanTyped

LEMMA NotesKeepsFlow ==
    ASSUME PlaceInv, Notes, UNCHANGED setup, NEW c \in Chan, NEW s \in Sender
    PROVE  KeepsFlow(c, s)
  <1>1. PICK obs : Appends(obs) /\ obs.from = NoSender
    BY DEF Notes
  <1>2. hist' = Append(hist, obs) /\ obs \in ResultType /\ UNCHANGED <<wire, buffer, sent>> /\ Sends' = Sends
    BY <1>1 DEF Appends, Notes, Sends
  <1>3. ~(obs.chan = c /\ obs.from = s)
    BY <1>1, ReaderAssumption
  <1> QED
    BY <1>2, <1>3, FlowTyped, FlowNotes DEF KeepsFlow, Passes, Whole

LEMMA ReceivesFromWireKeepsFlow ==
    ASSUME PlaceInv, ReceivesFromWire, UNCHANGED setup, NEW c \in Chan, NEW s \in Sender
    PROVE  KeepsFlow(c, s)
  <1>1. PICK d \in Chan, obs \in ResultType :
            /\ \A t \in Sender : buffer[d][t] = <<>>
            /\ TakesFirst(d)
            /\ Appends(obs)
            /\ obs.chan = d /\ obs.from = Head(wire[d]).from /\ obs.val = Head(wire[d]).val
    BY DEF ReceivesFromWire
  <1>2. hist' = Append(hist, obs) /\ buffer' = buffer /\ sent' = sent /\ Sends' = Sends
    BY <1>1 DEF Appends, TakesFirst, Sends
  <1>3. wire[d] # <<>> /\ wire'[d] = Tail(wire[d]) /\ \A e \in Chan \ {d} : wire'[e] = wire[e]
    BY <1>1, TakesFirstHere DEF TakesFirst
  <1>4. CASE c = d /\ obs.from = s
    <2>1. /\ buffer[c][s] = <<>>
          /\ wire[c] # <<>> /\ wire'[c] = Tail(wire[c])
          /\ Head(wire[c]).from = s
          /\ obs.chan = c /\ obs.from = s /\ obs.val = Head(wire[c]).val
      BY <1>1, <1>3, <1>4
    <2>2. /\ Passes(c, s) =>
                InFlow(Sends[s], sent[s], c, s, Append(hist, obs), buffer[c][s], Tail(wire[c]))
          /\ Whole(c, s) =>
                NoneMissing(Sends[s], sent[s], c, s, Append(hist, obs), buffer[c][s], Tail(wire[c]))
      BY <2>1, FlowTyped, FlowReceives DEF Passes, Whole
    <2> QED
      BY <1>2, <2>1, <2>2 DEF KeepsFlow, Passes, Whole
  <1>5. CASE c = d /\ obs.from # s
    <2>1. /\ Passes(c, s) => InFlow(Sends[s], sent[s], c, s, Append(hist, obs), buffer[c][s], wire[c])
          /\ Whole(c, s) => NoneMissing(Sends[s], sent[s], c, s, Append(hist, obs), buffer[c][s], wire[c])
      BY <1>5, FlowTyped, FlowNotes DEF Passes, Whole
    <2>2. Append(hist, obs) \in Seq(ResultType)
      BY FlowTyped
    <2>3. /\ Passes(c, s) => InFlow(Sends[s], sent[s], c, s, Append(hist, obs), buffer[c][s], Tail(wire[c]))
          /\ Whole(c, s) => NoneMissing(Sends[s], sent[s], c, s, Append(hist, obs), buffer[c][s], Tail(wire[c]))
      BY <1>1, <1>3, <1>5, <2>1, <2>2, FlowTyped, FlowLoses, OtherGoes
    <2> QED
      BY <1>2, <1>3, <1>5, <2>3 DEF KeepsFlow, Passes, Whole
  <1>6. CASE c # d
    <2>1. wire'[c] = wire[c] /\ ~(obs.chan = c /\ obs.from = s)
      BY <1>1, <1>3, <1>6
    <2> QED
      BY <1>2, <2>1, FlowTyped, FlowNotes DEF KeepsFlow, Passes, Whole
  <1> QED
    BY <1>4, <1>5, <1>6

LEMMA LosesKeepsFlow ==
    ASSUME PlaceInv, Loses, UNCHANGED setup, NEW c \in Chan, NEW s \in Sender
    PROVE  Passes(c, s) => Passes(c, s)'
  <1>1. PICK d \in Chan : TakesFirst(d)
    BY DEF Loses
  <1>2. hist' = hist /\ buffer' = buffer /\ sent' = sent /\ Sends' = Sends
    BY <1>1 DEF Loses, TakesFirst, Sends
  <1>3. wire[d] # <<>> /\ wire'[d] = Tail(wire[d]) /\ \A e \in Chan \ {d} : wire'[e] = wire[e]
    BY <1>1, TakesFirstHere DEF TakesFirst
  <1>4. CASE c = d
    BY <1>2, <1>3, <1>4, FlowTyped, FlowLoses DEF Passes
  <1>5. CASE c # d
    BY <1>2, <1>3, <1>5 DEF Passes
  <1> QED
    BY <1>4, <1>5

LEMMA ReceivesFromBufferKeepsFlow ==
    ASSUME PlaceInv, ReceivesFromBuffer, UNCHANGED setup, NEW c \in Chan, NEW s \in Sender
    PROVE  KeepsFlow(c, s)
  <1>1. PICK d \in Chan, t \in Sender, obs \in ResultType :
            /\ TakeFromBuffer(d, t)
            /\ Appends(obs)
            /\ obs.chan = d /\ obs.from = t /\ obs.val = Head(buffer[d][t])
    BY DEF ReceivesFromBuffer
  <1>2. hist' = Append(hist, obs) /\ wire' = wire /\ sent' = sent /\ Sends' = Sends
    BY <1>1 DEF Appends, TakeFromBuffer, Sends
  <1>3. /\ buffer[d][t] # <<>> /\ buffer'[d][t] = Tail(buffer[d][t])
        /\ c # d \/ s # t => buffer'[c][s] = buffer[c][s]
    BY <1>1, TypeParts DEF TakeFromBuffer, PlaceInv, TypeInv, ChanTyped
  <1>4. CASE c = d /\ s = t
    BY <1>1, <1>2, <1>3, <1>4, FlowTyped, FlowUnbuffers DEF KeepsFlow, Passes, Whole
  <1>5. CASE c # d \/ s # t
    <2>1. ~(obs.chan = c /\ obs.from = s)
      BY <1>1, <1>5
    <2> QED
      BY <1>2, <1>3, <1>5, <2>1, FlowTyped, FlowNotes DEF KeepsFlow, Passes, Whole
  <1> QED
    BY <1>4, <1>5

LEMMA FetchesKeepsFlow ==
    ASSUME PlaceInv, Fetches, UNCHANGED setup, NEW c \in Chan, NEW s \in Sender
    PROVE  KeepsFlow(c, s)
  <1>1. PICK d \in Chan : Fetch(d)
    BY DEF Fetches
  <1> DEFINE msg == Head(wire[d])
  <1>2. hist' = hist /\ sent' = sent /\ Sends' = Sends
    BY <1>1 DEF Fetches, Fetch, Sends
  <1>3. wire[d] # <<>> /\ wire[d] \in Seq(Message)
    BY <1>1, FlowTyped DEF Fetch
  <1>4. msg \in Message /\ msg.from \in Sender
    <2>1. msg \in Message
      BY <1>3
    <2> QED
      BY <2>1 DEF Message
  <1>5. /\ wire'[d] = Tail(wire[d])
        /\ c # d => wire'[c] = wire[c]
        /\ buffer'[d][msg.from] = Append(buffer[d][msg.from], msg.val)
        /\ c # d \/ s # msg.from => buffer'[c][s] = buffer[c][s]
    <2>1. wire \in [Chan -> Seq(Message)] /\ buffer \in [Chan -> [Sender -> Seq(Nat)]]
      BY TypeParts DEF PlaceInv, TypeInv, ChanTyped
    <2>2. /\ wire' = [wire EXCEPT ![d] = Tail(@)]
          /\ buffer' = [buffer EXCEPT ![d][msg.from] = Append(@, msg.val)]
      BY <1>1 DEF Fetch
    <2> HIDE DEF msg
    <2> QED
      BY <1>4, <2>1, <2>2
  <1>6. CASE c = d /\ msg.from = s
    <2>1. /\ buffer'[c][s] = Append(buffer[c][s], Head(wire[c]).val)
          /\ wire[c] # <<>> /\ wire'[c] = Tail(wire[c])
          /\ Head(wire[c]).from = s
      BY <1>3, <1>5, <1>6
    <2>2. /\ Passes(c, s) => InFlow(Sends[s], sent[s], c, s, hist,
                                     Append(buffer[c][s], Head(wire[c]).val), Tail(wire[c]))
          /\ Whole(c, s) => NoneMissing(Sends[s], sent[s], c, s, hist,
                                         Append(buffer[c][s], Head(wire[c]).val), Tail(wire[c]))
      BY <2>1, FlowTyped, FlowFetches DEF Passes, Whole
    <2> QED
      BY <1>2, <2>1, <2>2 DEF KeepsFlow, Passes, Whole
  <1>7. CASE c = d /\ msg.from # s
    <2>1. buffer'[c][s] = buffer[c][s] /\ wire'[c] = Tail(wire[c]) /\ wire[c] # <<>>
      BY <1>3, <1>5, <1>7
    <2> QED
      BY <1>2, <1>7, <2>1, FlowTyped, FlowLoses, OtherGoes DEF KeepsFlow, Passes, Whole
  <1>8. CASE c # d
    BY <1>2, <1>5, <1>8 DEF KeepsFlow, Passes, Whole
  <1> QED
    BY <1>6, <1>7, <1>8

LEMMA SendsOneKeepsFlow ==
    ASSUME PlaceInv, SendsOne, UNCHANGED setup, NEW c \in Chan, NEW s \in Sender
    PROVE  KeepsFlow(c, s)
  <1>1. PICK t \in Sender :
            /\ sent[t] < Len(Sends[t])
            /\ sent' = [sent EXCEPT ![t] = @ + 1]
            /\ wire' = [wire EXCEPT ![Sends[t][sent[t] + 1]] =
                            Append(@, [from |-> t, val |-> sent[t] + 1])]
            /\ UNCHANGED <<buffer, hist>>
    BY DEF SendsOne
  <1> DEFINE n == sent[t]
             d == Sends[t][n + 1]
             msg == [from |-> t, val |-> n + 1]
  <1>2. n \in Nat /\ n + 1 \in DOMAIN Sends[t] /\ d \in Chan
    BY <1>1, FlowTyped
  <1>3. msg \in Message /\ msg.from = t /\ msg.val = n + 1
    BY <1>2 DEF Message
  <1>4. /\ sent'[t] = n + 1
        /\ s # t => sent'[s] = sent[s]
        /\ wire'[d] = Append(wire[d], msg)
        /\ c # d => wire'[c] = wire[c]
    BY <1>1, <1>2, TypeParts DEF PlaceInv, TypeInv, ChanTyped
  <1>5. hist' = hist /\ buffer' = buffer /\ Sends' = Sends
    BY <1>1 DEF Sends
  <1>6. /\ hist \in Seq(ResultType) /\ wire[c] \in Seq(Message) /\ buffer[c][s] \in Seq(Nat)
        /\ sent[s] \in Nat
    BY FlowTyped
  <1>7. CASE s = t /\ c = d
    <2>1. Sends[s][sent[s] + 1] = c
      BY <1>2, <1>7
    <2>2. msg \in Message /\ msg.from = s /\ msg.val = sent[s] + 1
      BY <1>3, <1>7
    <2>3. sent'[s] = sent[s] + 1 /\ wire'[c] = Append(wire[c], msg)
      BY <1>4, <1>7
    <2> HIDE DEF n, d, msg
    <2> QED
      BY <1>5, <1>6, <2>1, <2>2, <2>3, FlowSends DEF KeepsFlow, Passes, Whole
  <1>8. CASE s = t /\ c # d
    <2>1. Sends[s][sent[s] + 1] # c /\ sent'[s] = sent[s] + 1 /\ wire'[c] = wire[c]
      BY <1>4, <1>8
    <2> HIDE DEF n, d, msg
    <2> QED
      BY <1>5, <1>6, <2>1, FlowElsewhere DEF KeepsFlow, Passes, Whole
  <1>9. CASE s # t /\ c = d
    <2>1. sent'[s] = sent[s] /\ wire'[c] = Append(wire[c], msg) /\ msg.from # s
      BY <1>3, <1>4, <1>9
    <2> HIDE DEF n, d, msg
    <2> QED
      BY <1>3, <1>5, <1>6, <2>1, OthersSend DEF KeepsFlow, Passes, Whole
  <1>10. CASE s # t /\ c # d
    BY <1>4, <1>5, <1>10 DEF KeepsFlow, Passes, Whole
  <1> QED
    BY <1>7, <1>8, <1>9, <1>10

LEMMA StepFlow ==
    ASSUME PlaceInv, Flow, Facts
    PROVE  Flow'
  <1> SUFFICES ASSUME NEW c \in Chan, NEW s \in Sender
               PROVE  FlowOn(c, s)'
    BY DEF Flow
  <1>1. UNCHANGED setup /\ (Lossless' => Lossless)
    BY DEF Facts, Frame, Lossless
  <1>2. Passes(c, s) /\ (Lossless => Whole(c, s))
    BY DEF Flow, FlowOn, Passes, Whole, InFlow
  <1>3. Passes(c, s)' /\ (Lossless' => Whole(c, s)')
    <2>1. CASE Quiet
      BY <1>1, <1>2, <2>1 DEF Quiet, Passes, Whole, Sends
    <2>2. CASE Loses
      BY <1>1, <1>2, <2>2, LosesKeepsFlow DEF Loses
    <2>3. CASE Notes \/ ReceivesFromWire \/ ReceivesFromBuffer \/ Fetches \/ SendsOne
      BY <1>1, <1>2, <2>3, NotesKeepsFlow, ReceivesFromWireKeepsFlow, ReceivesFromBufferKeepsFlow,
         FetchesKeepsFlow, SendsOneKeepsFlow DEF KeepsFlow
    <2> QED
      BY <2>1, <2>2, <2>3 DEF Facts, Effect
  <1> QED
    BY <1>3 DEF FlowOn, Passes, Whole, InFlow

\* Both executions start with nothing sent.
LEMMA EmptyFlow ==
    ASSUME sent = [s \in Sender |-> 0], hist = <<>>, buffer = EmptyBuffer, wire = EmptyWire
    PROVE  Flow
  <1> SUFFICES ASSUME NEW c \in Chan, NEW s \in Sender
               PROVE  FlowOn(c, s)
    BY DEF Flow
  <1>1. sent[s] = 0 /\ buffer[c][s] = <<>> /\ wire[c] = <<>>
    BY DEF EmptyBuffer, EmptyWire
  <1>2. DOMAIN hist = {} /\ DOMAIN buffer[c][s] = {} /\ DOMAIN wire[c] = {} /\ 1 .. sent[s] = {}
    BY <1>1
  <1> QED
    BY <1>2 DEF FlowOn, OnlySent, NoneMissing, Ordered

FlowInv == PlaceInv /\ Flow

LEMMA FlowInit == Init => FlowInv
  <1> SUFFICES ASSUME Init PROVE FlowInv
    OBVIOUS
  <1>1. sent = [s \in Sender |-> 0] /\ hist = <<>> /\ buffer = EmptyBuffer /\ wire = EmptyWire
    BY DEF Init, ReaderInit
  <1> QED
    BY <1>1, PlaceInit, EmptyFlow DEF FlowInv

LEMMA RestartFlow ==
    ASSUME Restart
    PROVE  Flow'
  <1>1. sent' = [s \in Sender |-> 0] /\ hist' = <<>> /\ buffer' = EmptyBuffer /\ wire' = EmptyWire
    BY DEF Restart, NewProcess
  <1> SUFFICES ASSUME NEW c \in Chan, NEW s \in Sender
               PROVE  FlowOn(c, s)'
    BY DEF Flow
  <1>2. sent'[s] = 0 /\ buffer'[c][s] = <<>> /\ wire'[c] = <<>>
    BY <1>1 DEF EmptyBuffer, EmptyWire
  <1>3. DOMAIN hist' = {} /\ DOMAIN buffer'[c][s] = {} /\ DOMAIN wire'[c] = {} /\ 1 .. sent'[s] = {}
    BY <1>1, <1>2
  <1> QED
    BY <1>3 DEF FlowOn, OnlySent, NoneMissing, Ordered

LEMMA FlowStep ==
    ASSUME WellFormedProgram, FlowInv, [Next]_vars
    PROVE  FlowInv'
  <1>1. PlaceInv'
    BY PlaceStep DEF FlowInv
  <1>2. Flow'
    BY StepFacts, StepFlow, RestartFlow DEF FlowInv
  <1> QED
    BY <1>1, <1>2 DEF FlowInv

\* All of a sender's messages are there, once and in order.
LEMMA FlowLossless ==
    ASSUME NEW c \in Chan, NEW s \in Sender, FlowOn(c, s), Lossless
    PROVE  AllThere(hist, c, s) /\ InOrder(hist, c, s)
  <1> DEFINE b == buffer[c][s]
             w == wire[c]
             q == Sends[s]
             n == sent[s]
  <1>1. OnlySent(q, n, c, s, hist, b, w) /\ Ordered(c, s, hist, b, w) /\ NoneMissing(q, n, c, s, hist, b, w)
    BY DEF FlowOn
  <1>2. /\ \A i : i \in Receipts(hist, c, s) <=> i \in DOMAIN hist /\ IsReceipt(hist, i, c, s)
        /\ \A i : i \in OnWire(c, s) <=> i \in DOMAIN w /\ w[i].from = s
    BY DEF Receipts, OnWire, IsReceipt
  <1>3. AllThere(hist, c, s) <=> {m \in 1 .. n : q[m] = c} =
            {hist[i].val : i \in Receipts(hist, c, s)} \cup {b[i] : i \in DOMAIN b} \cup {w[i].val : i \in OnWire(c, s)}
    BY DEF AllThere
  <1>4. InOrder(hist, c, s) <=>
            /\ \A i, j \in Receipts(hist, c, s) : i < j => hist[i].val < hist[j].val
            /\ \A i, j \in DOMAIN b : i < j => b[i] < b[j]
            /\ \A i, j \in OnWire(c, s) : i < j => w[i].val < w[j].val
            /\ \A i \in Receipts(hist, c, s), j \in DOMAIN b : hist[i].val < b[j]
            /\ \A i \in Receipts(hist, c, s), j \in OnWire(c, s) : hist[i].val < w[j].val
            /\ \A i \in DOMAIN b, j \in OnWire(c, s) : b[i] < w[j].val
    BY DEF InOrder
  <1> HIDE DEF b, w, q, n
  <1>5. AllThere(hist, c, s)
    <2> DEFINE All == {hist[i].val : i \in Receipts(hist, c, s)} \cup {b[i] : i \in DOMAIN b}
                           \cup {w[i].val : i \in OnWire(c, s)}
    <2>1. ASSUME NEW m \in 1 .. n, q[m] = c PROVE m \in All
      BY <1>1, <1>2, <2>1 DEF NoneMissing, IsSent
    <2>2. ASSUME NEW m \in All PROVE m \in 1 .. n /\ q[m] = c
      BY <1>1, <1>2, <2>2 DEF OnlySent, IsSent
    <2> QED
      BY <1>3, <2>1, <2>2
  <1>6. InOrder(hist, c, s)
    BY <1>1, <1>2, <1>4 DEF Ordered
  <1> QED
    BY <1>5, <1>6

\* In a replay every message that was sent is received, in a buffer or on the wire, once
\* and in the order of its sender: select, ready, the receives and the fall-back after
\* a desync lose none, however the senders are scheduled.
THEOREM NothingLostCorrect ==
    ASSUME WellFormedProgram
    PROVE  Spec => []NothingLost
  <1>1. Init => FlowInv
    BY FlowInit
  <1>2. FlowInv /\ [Next]_vars => FlowInv'
    BY FlowStep
  <1>3. FlowInv => NothingLost
    BY FlowLossless DEF FlowInv, Flow, Lossless, NothingLost
  <1> QED
    BY <1>1, <1>2, <1>3, PTL DEF Spec

-----------------------------------------------------------------------------
(* What a history and a longer one have in common. *)

LEMMA SamePast ==
    ASSUME NEW g \in Seq(ResultType), NEW h \in Seq(ResultType), NEW k \in Nat,
           k <= Len(g), k <= Len(h), \A i \in 1 .. k : g[i] = h[i]
    PROVE  SubSeq(g, 1, k) = SubSeq(h, 1, k)
  <1>1. /\ SubSeq(h, 1, k) \in Seq(ResultType) /\ Len(SubSeq(h, 1, k)) = k
        /\ \A i \in 1 .. k : SubSeq(h, 1, k)[i] = h[i]
    OBVIOUS
  <1>2. /\ SubSeq(g, 1, k) \in Seq(ResultType) /\ Len(SubSeq(g, 1, k)) = k
        /\ \A i \in 1 .. k : SubSeq(g, 1, k)[i] = g[i]
    OBVIOUS
  <1>3. \A i \in 1 .. Len(SubSeq(g, 1, k)) : SubSeq(g, 1, k)[i] = SubSeq(h, 1, k)[i]
    BY <1>1, <1>2
  <1> QED
    BY <1>1, <1>2, <1>3, SeqEqual

LEMMA WholePast ==
    ASSUME NEW h \in Seq(ResultType)
    PROVE  SubSeq(h, 1, Len(h)) = h
  <1>1. /\ SubSeq(h, 1, Len(h)) \in Seq(ResultType) /\ Len(SubSeq(h, 1, Len(h))) = Len(h)
        /\ \A i \in 1 .. Len(h) : SubSeq(h, 1, Len(h))[i] = h[i]
    OBVIOUS
  <1> QED
    BY <1>1, SeqEqual

LEMMA OneMore ==
    ASSUME NEW h \in Seq(ResultType), NEW obs \in ResultType, NEW g, g = Append(h, obs)
    PROVE  /\ g \in Seq(ResultType) /\ Len(g) = Len(h) + 1 /\ DOMAIN g = 1 .. Len(h) + 1
           /\ DOMAIN h = 1 .. Len(h) /\ Len(h) \in Nat
           /\ \A i \in 1 .. Len(h) : g[i] = h[i]
           /\ g[Len(h) + 1] = obs
  OBVIOUS

LEMMA FollowsOn ==
    ASSUME NEW p, NEW w, NEW h \in Seq(ResultType), NEW obs \in ResultType,
           Follows(p, w, h), obs.op = Code(p, w, h).kind
    PROVE  Follows(p, w, Append(h, obs))
  <1> DEFINE g == Append(h, obs)
             n == Len(h)
  <1>1. /\ g \in Seq(ResultType) /\ Len(g) = n + 1 /\ DOMAIN g = 1 .. n + 1
        /\ DOMAIN h = 1 .. n /\ n \in Nat
        /\ \A i \in 1 .. n : g[i] = h[i]
        /\ g[n + 1] = obs
    BY OneMore
  <1> HIDE DEF g
  <1>2. ASSUME NEW i \in DOMAIN g
        PROVE  g[i].op = Code(p, w, SubSeq(g, 1, i - 1)).kind
    <2>1. i - 1 \in Nat /\ i - 1 <= n /\ i - 1 <= n + 1 /\ \A j \in 1 .. i - 1 : g[j] = h[j]
      BY <1>1, <1>2
    <2>2. SubSeq(g, 1, i - 1) = SubSeq(h, 1, i - 1)
      BY <1>1, <2>1, SamePast
    <2>3. CASE i = n + 1
      <3>1. i - 1 = n
        BY <1>1, <2>3
      <3>2. SubSeq(g, 1, i - 1) = h
        BY <2>2, <3>1, WholePast
      <3> QED
        BY <1>1, <2>3, <3>2
    <2>4. CASE i \in DOMAIN h
      BY <1>1, <2>2, <2>4 DEF Follows
    <2> QED
      BY <1>1, <1>2, <2>3, <2>4
  <1> QED
    BY <1>2 DEF Follows, g

LEMMA InTurnKept ==
    ASSUME NEW sends, NEW h \in Seq(ResultType), NEW obs \in ResultType, NEW i \in DOMAIN h,
           InTurn(sends, h, i)
    PROVE  InTurn(sends, Append(h, obs), i)
  <1> DEFINE g == Append(h, obs)
  <1>1. \A j \in 1 .. i : g[j] = h[j]
    BY OneMore
  <1>2. i \in Nat /\ i \in 1 .. i
    OBVIOUS
  <1> HIDE DEF g
  <1>3. g[i] = h[i] /\ \A j \in 1 .. i - 1 : g[j] = h[j]
    BY <1>1, <1>2
  <1> QED
    BY <1>3 DEF InTurn, IsReceipt, g

\* The sender's first message in the buffer, or else on the wire, is in turn.
LEMMA FirstInTurn ==
    ASSUME NEW sends, NEW n \in Nat, NEW c, NEW s, NEW h \in Seq(ResultType), NEW b \in Seq(Nat),
           NEW w \in Seq(Message),
           InFlow(sends[s], n, c, s, h, b, w), NoneMissing(sends[s], n, c, s, h, b, w),
           NEW obs \in ResultType, obs.chan = c, obs.from = s,
           \/ b # <<>> /\ obs.val = Head(b)
           \/ b = <<>> /\ w # <<>> /\ Head(w).from = s /\ obs.val = Head(w).val
    PROVE  InTurn(sends, Append(h, obs), Len(h) + 1)
  <1> DEFINE q == sends[s]
             v == obs.val
             g == Append(h, obs)
             l == Len(h) + 1
  <1>1. /\ IsSent(q, n, c, v)
        /\ \A i \in DOMAIN h : IsReceipt(h, i, c, s) => h[i].val < v
        /\ \A j \in DOMAIN b : v <= b[j]
        /\ \A j \in DOMAIN w : w[j].from = s => v <= w[j].val
    <2>1. CASE b # <<>> /\ v = Head(b)
      <3>1. 1 \in DOMAIN b /\ v = b[1] /\ v \in Nat
        BY <2>1
      <3>2. \A j \in DOMAIN b : j = 1 \/ 1 < j
        OBVIOUS
      <3>3. \A j \in DOMAIN b : b[j] \in Nat
        OBVIOUS
      <3>4. \A j \in DOMAIN w : w[j].val \in Nat
        <4>1. \A j \in DOMAIN w : w[j] \in Message
          OBVIOUS
        <4> QED
          BY <4>1 DEF Message
      <3>5. \A j \in DOMAIN b : v <= b[j]
        BY <3>1, <3>2, <3>3 DEF InFlow, Ordered
      <3>6. \A j \in DOMAIN w : w[j].from = s => v <= w[j].val
        BY <3>1, <3>4 DEF InFlow, Ordered
      <3> QED
        BY <3>1, <3>5, <3>6 DEF InFlow, Ordered, OnlySent
    <2>2. CASE b = <<>> /\ w # <<>> /\ Head(w).from = s /\ v = Head(w).val
      <3>1. 1 \in DOMAIN w /\ w[1].from = s /\ v = w[1].val
        BY <2>2
      <3>2. \A j \in DOMAIN w : j = 1 \/ 1 < j
        OBVIOUS
      <3>3. \A j \in DOMAIN w : w[j].val \in Nat
        <4>1. \A j \in DOMAIN w : w[j] \in Message
          OBVIOUS
        <4> QED
          BY <4>1 DEF Message
      <3>4. \A j \in DOMAIN w : w[j].from = s => v <= w[j].val
        BY <3>1, <3>2, <3>3 DEF InFlow, Ordered
      <3>5. \A j \in DOMAIN b : v <= b[j]
        BY <2>2
      <3> QED
        BY <3>1, <3>4, <3>5 DEF InFlow, Ordered, OnlySent
    <2> QED
      BY <2>1, <2>2
  <1>2. /\ g[l] = obs /\ DOMAIN h = 1 .. l - 1 /\ l \in Nat
        /\ \A j \in 1 .. l - 1 : g[j] = h[j]
    BY OneMore
  <1> HIDE DEF g, l
  <1>3. \A j \in 1 .. l - 1 : IsReceipt(g, j, c, s) <=> IsReceipt(h, j, c, s)
    BY <1>2 DEF IsReceipt
  <1>4. v \in 1 .. n /\ v \in Nat /\ IsSent(q, v, c, v)
    BY <1>1 DEF IsSent
  <1>5. ASSUME NEW m \in 1 .. v - 1, IsSent(q, m, c, m)
        PROVE  \E j \in 1 .. l - 1 : IsReceipt(g, j, c, s) /\ g[j].val = m
    <2>1. m \in 1 .. n /\ m < v /\ IsSent(q, n, c, m)
      BY <1>4, <1>5 DEF IsSent
    <2>2. \/ \E i \in DOMAIN h : IsReceipt(h, i, c, s) /\ h[i].val = m
          \/ \E i \in DOMAIN b : b[i] = m
          \/ \E i \in DOMAIN w : w[i].from = s /\ w[i].val = m
      BY <2>1 DEF NoneMissing
    <2>3. ~\E i \in DOMAIN b : b[i] = m
      BY <1>1, <1>4, <2>1
    <2>4. ~\E i \in DOMAIN w : w[i].from = s /\ w[i].val = m
      BY <1>1, <1>4, <2>1
    <2> QED
      BY <1>2, <1>3, <2>2, <2>3, <2>4
  <1>6. \A j \in 1 .. l - 1 : IsReceipt(g, j, c, s) => g[j].val < v
    BY <1>1, <1>2, <1>3
  <1>7. g[l].chan = c /\ g[l].from = s /\ g[l].val = v
    BY <1>2
  <1>8. InTurn(sends, g, l)
    BY <1>4, <1>5, <1>6, <1>7 DEF InTurn
  <1> QED
    BY <1>8 DEF g, l

\* After the same past the next message of a sender's is the same.
LEMMA SameInTurn ==
    ASSUME NEW sends, NEW g \in Seq(ResultType), NEW h \in Seq(ResultType),
           NEW i \in DOMAIN g, i \in DOMAIN h, \A j \in 1 .. i - 1 : g[j] = h[j],
           g[i].chan = h[i].chan, g[i].from = h[i].from, g[i].from # NoSender,
           g[i].val \in Nat, h[i].val \in Nat,
           InTurn(sends, g, i), InTurn(sends, h, i)
    PROVE  g[i].val = h[i].val
  <1> DEFINE c == g[i].chan
             s == g[i].from
             u == g[i].val
             v == h[i].val
  <1>1. /\ IsSent(sends[s], u, c, u) /\ IsSent(sends[s], v, c, v)
        /\ \A m \in 1 .. u - 1 : IsSent(sends[s], m, c, m) =>
              \E j \in 1 .. i - 1 : IsReceipt(g, j, c, s) /\ g[j].val = m
        /\ \A j \in 1 .. i - 1 : IsReceipt(g, j, c, s) => g[j].val < u
        /\ \A m \in 1 .. v - 1 : IsSent(sends[s], m, c, m) =>
              \E j \in 1 .. i - 1 : IsReceipt(h, j, c, s) /\ h[j].val = m
        /\ \A j \in 1 .. i - 1 : IsReceipt(h, j, c, s) => h[j].val < v
    BY DEF InTurn
  <1>2. \A j \in 1 .. i - 1 : IsReceipt(g, j, c, s) <=> IsReceipt(h, j, c, s)
    BY DEF IsReceipt
  <1> HIDE DEF c, s, u, v
  <1>3. u \in Nat /\ v \in Nat /\ u > 0 /\ v > 0
    BY <1>1 DEF IsSent, u, v
  <1>4. ~(u < v)
    <2> SUFFICES ASSUME u < v PROVE FALSE
      OBVIOUS
    <2>1. u \in 1 .. v - 1
      BY <1>3
    <2>2. PICK j \in 1 .. i - 1 : IsReceipt(h, j, c, s) /\ h[j].val = u
      BY <1>1, <2>1
    <2>3. g[j].val < u /\ g[j].val = u
      BY <1>1, <1>2, <2>2
    <2> QED
      BY <1>3, <2>3
  <1>5. ~(v < u)
    <2> SUFFICES ASSUME v < u PROVE FALSE
      OBVIOUS
    <2>1. v \in 1 .. u - 1
      BY <1>3
    <2>2. PICK j \in 1 .. i - 1 : IsReceipt(g, j, c, s) /\ g[j].val = v
      BY <1>1, <2>1
    <2>3. h[j].val < v /\ h[j].val = v
      BY <1>1, <1>2, <2>2
    <2> QED
      BY <1>3, <2>3
  <1>6. u = v
    BY <1>3, <1>4, <1>5
  <1> QED
    BY <1>6 DEF u, v

-----------------------------------------------------------------------------
(* The recording: every entry is for a result, in the order of the results. *)

LEMMA LogUnwritten ==
    ASSUME NEW sends, NEW list \in Seq(Entry), NEW h \in Seq(ResultType), NEW obs \in ResultType,
           NEW pos, IsLogOf(sends, list, h, pos)
    PROVE  /\ IsLogOf(sends, list, Append(h, obs), pos)
           /\ IsFullLogOf(list, h, pos) /\ obs.op = "new" => IsFullLogOf(list, Append(h, obs), pos)
  <1> DEFINE g == Append(h, obs)
             n == Len(h)
  <1>1. /\ DOMAIN g = 1 .. n + 1 /\ DOMAIN h = 1 .. n /\ n \in Nat
        /\ \A i \in 1 .. n : g[i] = h[i]
        /\ g[n + 1] = obs
    BY OneMore
  <1>2. \A i \in DOMAIN h : InTurn(sends, h, i) => InTurn(sends, g, i)
    BY InTurnKept
  <1> HIDE DEF g, n
  <1>3. /\ pos \in [DOMAIN list -> DOMAIN h]
        /\ \A k \in DOMAIN list :
              h[pos[k]].op # "new" /\ list[k] = EntryFor(h[pos[k]]) /\ InTurn(sends, h, pos[k])
        /\ \A k, l \in DOMAIN list : k < l => pos[k] < pos[l]
        /\ \A k \in DOMAIN list, i \in DOMAIN h :
              i < pos[k] /\ h[i].op # "new" => \E l \in DOMAIN list : pos[l] = i
    BY DEF IsLogOf
  <1>4. pos \in [DOMAIN list -> DOMAIN g]
    BY <1>1, <1>3
  <1>5. ASSUME NEW k \in DOMAIN list
        PROVE  g[pos[k]].op # "new" /\ list[k] = EntryFor(g[pos[k]]) /\ InTurn(sends, g, pos[k])
    <2>1. pos[k] \in DOMAIN h /\ g[pos[k]] = h[pos[k]]
      BY <1>1, <1>3
    <2> QED
      BY <1>2, <1>3, <2>1
  <1>6. ASSUME NEW k \in DOMAIN list, NEW i \in DOMAIN g, i < pos[k], g[i].op # "new"
        PROVE  \E l \in DOMAIN list : pos[l] = i
    <2>1. pos[k] \in 1 .. n
      BY <1>1, <1>3
    <2>2. i \in DOMAIN h /\ g[i] = h[i]
      BY <1>1, <1>6, <2>1
    <2> QED
      BY <1>3, <1>6, <2>2
  <1>7. IsLogOf(sends, list, g, pos)
    BY <1>3, <1>4, <1>5, <1>6 DEF IsLogOf
  <1>8. IsFullLogOf(list, h, pos) /\ obs.op = "new" => IsFullLogOf(list, g, pos)
    BY <1>1 DEF IsFullLogOf
  <1> QED
    BY <1>7, <1>8 DEF g

LEMMA LogWritten ==
    ASSUME NEW sends, NEW list \in Seq(Entry), NEW h \in Seq(ResultType), NEW obs \in ResultType,
           NEW pos, IsLogOf(sends, list, h, pos), IsFullLogOf(list, h, pos),
           obs.op # "new", InTurn(sends, Append(h, obs), Len(h) + 1)
    PROVE  \E places : /\ IsLogOf(sends, Append(list, EntryFor(obs)), Append(h, obs), places)
                    /\ IsFullLogOf(Append(list, EntryFor(obs)), Append(h, obs), places)
  <1> DEFINE g == Append(h, obs)
             n == Len(h)
             all == Append(list, EntryFor(obs))
             m == Len(list)
             places == [k \in DOMAIN all |-> IF k = m + 1 THEN n + 1 ELSE pos[k]]
  <1>1. /\ DOMAIN g = 1 .. n + 1 /\ DOMAIN h = 1 .. n /\ n \in Nat
        /\ \A i \in 1 .. n : g[i] = h[i]
        /\ g[n + 1] = obs
    BY OneMore
  <1>2. /\ DOMAIN all = 1 .. m + 1 /\ DOMAIN list = 1 .. m /\ m \in Nat
        /\ \A k \in 1 .. m : all[k] = list[k]
        /\ all[m + 1] = EntryFor(obs)
    <2> DEFINE entry == EntryFor(obs)
               E == Entry \cup {entry}
    <2> HIDE DEF entry
    <2>1. list \in Seq(E) /\ entry \in E
      OBVIOUS
    <2> HIDE DEF E
    <2> QED
      BY <2>1 DEF entry
  <1>3. IsLogOf(sends, list, g, pos) /\ InTurn(sends, g, n + 1)
    BY LogUnwritten
  <1> HIDE DEF g, all
  <1>4. /\ pos \in [DOMAIN list -> DOMAIN h]
        /\ \A k, l \in DOMAIN list : k < l => pos[k] < pos[l]
        /\ \A k \in DOMAIN list :
              g[pos[k]].op # "new" /\ list[k] = EntryFor(g[pos[k]]) /\ InTurn(sends, g, pos[k])
        /\ \A i \in DOMAIN h : h[i].op # "new" => \E l \in DOMAIN list : pos[l] = i
    BY <1>3 DEF IsLogOf, IsFullLogOf
  <1>5. /\ places[m + 1] = n + 1
        /\ \A k \in 1 .. m : places[k] = pos[k] /\ pos[k] \in 1 .. n
    BY <1>1, <1>2, <1>4
  <1>6. places \in [DOMAIN all -> DOMAIN g]
    BY <1>1, <1>2, <1>4
  <1> HIDE DEF places, m, n
  <1>7. ASSUME NEW k \in DOMAIN all
        PROVE  g[places[k]].op # "new" /\ all[k] = EntryFor(g[places[k]]) /\ InTurn(sends, g, places[k])
    <2>1. CASE k = m + 1
      BY <1>1, <1>2, <1>3, <1>5, <2>1
    <2>2. CASE k \in 1 .. m
      BY <1>2, <1>4, <1>5, <2>2
    <2> QED
      BY <1>2, <2>1, <2>2
  <1>8. ASSUME NEW k \in DOMAIN all, NEW l \in DOMAIN all, k < l
        PROVE  places[k] < places[l]
    <2>1. k \in 1 .. m
      BY <1>2, <1>8
    <2>2. CASE l = m + 1
      BY <1>1, <1>5, <2>1, <2>2
    <2>3. CASE l \in 1 .. m
      BY <1>2, <1>4, <1>5, <1>8, <2>1, <2>3
    <2> QED
      BY <1>2, <2>2, <2>3
  <1>9. ASSUME NEW i \in DOMAIN g, g[i].op # "new"
        PROVE  \E l \in DOMAIN all : places[l] = i
    <2>1. CASE i = n + 1
      <3>1. m + 1 \in DOMAIN all
        BY <1>2
      <3> QED
        BY <1>5, <2>1, <3>1
    <2>2. CASE i \in DOMAIN h
      <3>1. h[i].op # "new"
        BY <1>1, <1>9, <2>2
      <3>2. PICK l \in DOMAIN list : pos[l] = i
        BY <1>4, <2>2, <3>1
      <3>3. l \in DOMAIN all /\ places[l] = i
        BY <1>2, <1>5, <3>2
      <3> QED
        BY <3>3
    <2> QED
      BY <1>1, <2>1, <2>2
  <1>10. IsLogOf(sends, all, g, places) /\ IsFullLogOf(all, g, places)
    BY <1>6, <1>7, <1>8, <1>9 DEF IsLogOf, IsFullLogOf
  <1> QED
    BY <1>10 DEF g, all

\* A result is appended, or none.
LEMMA HistoryStep ==
    ASSUME PlaceInv, Facts
    PROVE  hist' = hist \/ \E obs : Appends(obs)
  BY DEF Facts, Effect, Quiet, Notes, ReceivesFromWire, Loses, ReceivesFromBuffer, Fetches, SendsOne

LEMMA SameAppended ==
    ASSUME PlaceInv, NEW obs, Appends(obs)
    PROVE  /\ obs \in ResultType /\ hist \in Seq(ResultType)
           /\ hist' # hist
           /\ \A other : Appends(other) => other = obs
  <1>1. hist \in Seq(ResultType)
    BY TypeParts DEF PlaceInv, TypeInv, ThreadTyped
  <1>2. \A other : Appends(other) => other \in ResultType /\ hist' = Append(hist, other)
    BY DEF Appends
  <1>3. \A other : Appends(other) => hist'[Len(hist) + 1] = other /\ Len(hist') = Len(hist) + 1
    BY <1>1, <1>2
  <1>4. hist' # hist
    BY <1>1, <1>3
  <1> QED
    BY <1>1, <1>2, <1>3, <1>4

LEMMA StepInTurn ==
    ASSUME PlaceInv, Flow, Facts, Lossless, NEW obs, Appends(obs)
    PROVE  InTurn(Sends, hist', Len(hist) + 1)
  <1>1. /\ obs \in ResultType /\ hist \in Seq(ResultType) /\ hist' # hist
        /\ \A other : Appends(other) => other = obs
        /\ hist' = Append(hist, obs)
    BY SameAppended DEF Appends
  <1>2. hist'[Len(hist) + 1] = obs
    BY <1>1
  <1>3. CASE obs.from = NoSender
    BY <1>2, <1>3 DEF InTurn
  <1>4. CASE obs.from # NoSender
    <2>1. ReceivesFromWire \/ ReceivesFromBuffer
      BY <1>1, <1>4 DEF Facts, Effect, Quiet, Notes, Loses, Fetches, SendsOne
    <2>2. PICK c \in Chan, s \in Sender :
              /\ obs.chan = c /\ obs.from = s
              /\ \/ buffer[c][s] # <<>> /\ obs.val = Head(buffer[c][s])
                 \/ /\ buffer[c][s] = <<>>
                    /\ wire[c] # <<>> /\ Head(wire[c]).from = s /\ obs.val = Head(wire[c]).val
      <3>1. CASE ReceivesFromWire
        <4>1. PICK c \in Chan :
                  /\ \A s \in Sender : buffer[c][s] = <<>>
                  /\ wire[c] # <<>>
                  /\ obs.chan = c /\ obs.from = Head(wire[c]).from /\ obs.val = Head(wire[c]).val
          BY <1>1, <3>1 DEF ReceivesFromWire, TakesFirst
        <4>2. obs.from \in Sender
          BY <1>1, <1>4 DEF ResultType
        <4> QED
          BY <4>1, <4>2
      <3>2. CASE ReceivesFromBuffer
        BY <1>1, <3>2 DEF ReceivesFromBuffer, TakeFromBuffer
      <3> QED
        BY <2>1, <3>1, <3>2
    <2>3. /\ InFlow(Sends[s], sent[s], c, s, hist, buffer[c][s], wire[c])
          /\ NoneMissing(Sends[s], sent[s], c, s, hist, buffer[c][s], wire[c])
      BY DEF Flow, FlowOn, InFlow
    <2>4. InTurn(Sends, Append(hist, obs), Len(hist) + 1)
      BY <1>1, <2>2, <2>3, FlowTyped, FirstInTurn
    <2> QED
      BY <1>1, <2>4
  <1> QED
    BY <1>3, <1>4

LEMMA StepHistories ==
    ASSUME PlaceInv, Histories, Facts
    PROVE  Histories'
  <1>1. /\ UNCHANGED <<setup, world, recorded>> /\ Program' = Program
        /\ (Deterministic' <=> Deterministic)
    BY DEF Facts, Frame, Program, Deterministic, World
  <1>2. CASE hist' = hist
    BY <1>1, <1>2 DEF Histories
  <1>3. CASE \E obs : Appends(obs)
    <2>1. PICK obs : Appends(obs)
      BY <1>3
    <2>2. /\ obs \in ResultType /\ hist \in Seq(ResultType) /\ hist' = Append(hist, obs)
          /\ WellFormed(obs) /\ obs.op = Code(Program, world, hist).kind
      BY <2>1, SameAppended DEF Appends, Op, Program
    <2>3. Follows(Program, world, hist')
      BY <2>2, FollowsOn DEF Histories
    <2>4. \A i \in DOMAIN hist' : WellFormed(hist'[i])
      BY <2>2 DEF Histories
    <2> QED
      BY <1>1, <2>3, <2>4 DEF Histories
  <1> QED
    BY <1>2, <1>3, HistoryStep

LEMMA StepWritten ==
    ASSUME PlaceInv, Flow, Written, Facts
    PROVE  Written'
  <1> SUFFICES ASSUME mode' = "Record"
               PROVE  \E pos : IsLogOf(Sends, log', hist', pos) /\ (open' => IsFullLogOf(log', hist', pos))
    <2>1. Sends' = Sends
      BY DEF Facts, Frame, Sends
    <2> QED
      BY <2>1 DEF Written, IsLogOf
  <1>1. mode = "Record" /\ RecordEffect /\ (open' => open)
    BY DEF Facts, Frame
  <1>2. PICK pos : IsLogOf(Sends, log, hist, pos) /\ (open => IsFullLogOf(log, hist, pos))
    BY <1>1 DEF Written
  <1>3. log \in Seq(Entry) /\ hist \in Seq(ResultType)
    BY TypeParts DEF PlaceInv, TypeInv, ThreadTyped, LogTyped
  <1>4. CASE log' = log /\ hist' = hist
    BY <1>1, <1>2, <1>4
  <1>5. CASE \E obs : Appends(obs) /\ obs.op # "new" /\ open /\ log' = Append(log, EntryFor(obs))
    <2>1. PICK obs : Appends(obs) /\ obs.op # "new" /\ open /\ log' = Append(log, EntryFor(obs))
      BY <1>5
    <2>2. InTurn(Sends, Append(hist, obs), Len(hist) + 1)
      BY <2>1, StepInTurn DEF Lossless, Appends
    <2>3. obs \in ResultType /\ hist' = Append(hist, obs)
      BY <2>1 DEF Appends
    <2> QED
      BY <1>2, <1>3, <2>1, <2>2, <2>3, LogWritten
  <1>6. CASE log' = log /\ \E obs : Appends(obs) /\ (obs.op = "new" \/ ~open)
    <2>1. PICK obs : Appends(obs) /\ (obs.op = "new" \/ ~open)
      BY <1>6
    <2>2. obs \in ResultType /\ hist' = Append(hist, obs)
      BY <2>1 DEF Appends
    <2>3. IsLogOf(Sends, log, hist', pos) /\ (open' => IsFullLogOf(log, hist', pos))
      BY <1>1, <1>2, <1>3, <2>1, <2>2, LogUnwritten
    <2> QED
      BY <1>6, <2>3
  <1> QED
    BY <1>1, <1>4, <1>5, <1>6 DEF RecordEffect

-----------------------------------------------------------------------------
(* The replay: g is the history of the replay, and r that of the recording. *)

\* What the recorded thread did next is what the replaying thread does next.
LEMMA SameNext ==
    ASSUME NEW p, NEW w, NEW g \in Seq(ResultType), NEW r \in Seq(ResultType),
           Repeats(g, r), Follows(p, w, r), Len(g) + 1 \in DOMAIN r
    PROVE  /\ \A i \in 1 .. Len(g) : g[i] = r[i]
           /\ r[Len(g) + 1].op = Code(p, w, g).kind
  <1> DEFINE n == Len(g)
  <1>1. n \in Nat /\ DOMAIN g = 1 .. n /\ n <= Len(r) /\ DOMAIN r = 1 .. Len(r) /\ Len(r) \in Nat
    OBVIOUS
  <1> HIDE DEF n
  <1>2. \A i \in 1 .. n : g[i] = r[i]
    BY <1>1 DEF Repeats
  <1>3. SubSeq(r, 1, n) = SubSeq(g, 1, n)
    BY <1>1, <1>2, SamePast DEF n
  <1>4. SubSeq(g, 1, n) = g
    BY WholePast DEF n
  <1>5. n + 1 - 1 = n /\ n + 1 \in DOMAIN r
    BY <1>1 DEF n
  <1>6. r[n + 1].op = Code(p, w, SubSeq(r, 1, n)).kind
    <2>1. \A i \in DOMAIN r : r[i].op = Code(p, w, SubSeq(r, 1, i - 1)).kind
      BY DEF Follows
    <2>2. \A i \in DOMAIN r : i - 1 = n => r[i].op = Code(p, w, SubSeq(r, 1, n)).kind
      BY <2>1
    <2>3. PICK i \in DOMAIN r : i = n + 1 /\ i - 1 = n
      BY <1>1, <1>5
    <2> QED
      BY <2>2, <2>3
  <1> QED
    BY <1>2, <1>3, <1>4, <1>6 DEF n

\* One more result repeats one more.
LEMMA RepeatsOn ==
    ASSUME NEW g \in Seq(ResultType), NEW r, Repeats(g, r), NEW obs \in ResultType,
           IF Len(g) + 1 \in DOMAIN r THEN obs = r[Len(g) + 1] ELSE obs.op = "new"
    PROVE  Repeats(Append(g, obs), r)
  <1> DEFINE f == Append(g, obs)
             n == Len(g)
  <1>1. /\ DOMAIN f = 1 .. n + 1 /\ DOMAIN g = 1 .. n /\ n \in Nat
        /\ \A i \in 1 .. n : f[i] = g[i]
        /\ f[n + 1] = obs
    BY OneMore
  <1> HIDE DEF f
  <1>2. \A i \in DOMAIN f : i \in DOMAIN g \/ i = n + 1
    BY <1>1
  <1> QED
    BY <1>1, <1>2 DEF Repeats, f

LEMMA RepeatsNew ==
    ASSUME NEW p, NEW w, NEW g \in Seq(ResultType), NEW r \in Seq(ResultType),
           Repeats(g, r), Follows(p, w, r), \A i \in DOMAIN r : WellFormed(r[i]),
           NEW sends, NEW list, NEW pos, IsLogOf(sends, list, r, pos),
           NEW obs \in ResultType, WellFormed(obs), obs.op = "new", obs.op = Code(p, w, g).kind
    PROVE  /\ Repeats(Append(g, obs), r)
           /\ \A k \in DOMAIN list : pos[k] <= Len(g) + 1 <=> pos[k] <= Len(g)
  <1> DEFINE n == Len(g)
  <1>1. n \in Nat /\ DOMAIN r = 1 .. Len(r) /\ Len(r) \in Nat
    OBVIOUS
  <1>2. CASE n + 1 \in DOMAIN r
    <2>1. r[n + 1].op = "new"
      BY <1>2, SameNext
    <2>2. obs = r[n + 1]
      BY <1>2, <2>1 DEF WellFormed
    <2>3. \A k \in DOMAIN list : pos[k] \in DOMAIN r /\ pos[k] # n + 1
      BY <2>1 DEF IsLogOf
    <2>4. \A k \in DOMAIN list : pos[k] <= n + 1 <=> pos[k] <= n
      BY <1>1, <2>3
    <2> QED
      BY <1>2, <2>2, <2>4, RepeatsOn
  <1>3. CASE n + 1 \notin DOMAIN r
    <2>1. Len(r) <= n
      BY <1>1, <1>3
    <2>2. \A k \in DOMAIN list : pos[k] \in DOMAIN r
      BY DEF IsLogOf
    <2>3. \A k \in DOMAIN list : pos[k] <= n + 1 <=> pos[k] <= n
      BY <1>1, <2>1, <2>2
    <2> QED
      BY <1>3, <2>3, RepeatsOn
  <1> QED
    BY <1>2, <1>3

LEMMA SameResult ==
    ASSUME NEW a \in ResultType, NEW b \in ResultType,
           a.op = b.op, a.index = b.index, a.chan = b.chan, a.from = b.from, a.val = b.val,
           a.error = b.error
    PROVE  a = b
  <1>1. \A x \in ResultType : x = [op |-> x.op, index |-> x.index, chan |-> x.chan,
                                   from |-> x.from, val |-> x.val, error |-> x.error]
    BY DEF ResultType
  <1> QED
    BY <1>1

LEMMA RepeatsLogged ==
    ASSUME NEW p, NEW w, NEW g \in Seq(ResultType), NEW r \in Seq(ResultType),
           Repeats(g, r), Follows(p, w, r), \A i \in DOMAIN r : WellFormed(r[i]),
           NEW sends, NEW list \in Seq(Entry), NEW pos, IsLogOf(sends, list, r, pos),
           NEW obs \in ResultType, WellFormed(obs), obs.op # "new", obs.op = Code(p, w, g).kind,
           InTurn(sends, Append(g, obs), Len(g) + 1),
           NEW m \in Nat, m + 1 \in DOMAIN list, Fits(obs, list[m + 1]),
           \A k \in DOMAIN list : pos[k] <= Len(g) <=> k <= m
    PROVE  /\ Repeats(Append(g, obs), r)
           /\ \A k \in DOMAIN list : pos[k] <= Len(g) + 1 <=> k <= m + 1
  <1> DEFINE n == Len(g)
             f == Append(g, obs)
  <1>1. n \in Nat /\ DOMAIN r = 1 .. Len(r) /\ Len(r) \in Nat
    OBVIOUS
  <1>2. /\ f \in Seq(ResultType) /\ n + 1 \in DOMAIN f /\ f[n + 1] = obs
        /\ \A i \in 1 .. n : f[i] = g[i]
        /\ InTurn(sends, f, n + 1)
    BY OneMore
  <1> HIDE DEF f, n
  <1>3. /\ \A k \in DOMAIN list : pos[k] \in DOMAIN r /\ r[pos[k]].op # "new"
        /\ \A k \in DOMAIN list : list[k] = EntryFor(r[pos[k]]) /\ InTurn(sends, r, pos[k])
        /\ \A k, l \in DOMAIN list : k < l => pos[k] < pos[l]
        /\ \A k \in DOMAIN list, i \in DOMAIN r :
              i < pos[k] /\ r[i].op # "new" => \E l \in DOMAIN list : pos[l] = i
    BY DEF IsLogOf
  <1>4. \A k \in DOMAIN list : k \in Nat /\ pos[k] \in Nat /\ (pos[k] <= n <=> k <= m)
    BY <1>1, <1>3 DEF n
  <1>5. n < pos[m + 1] /\ n + 1 \in DOMAIN r
    <2>1. ~(pos[m + 1] <= n)
      BY <1>4
    <2>2. n < pos[m + 1]
      BY <1>1, <1>4, <2>1
    <2>3. pos[m + 1] \in 1 .. Len(r)
      BY <1>1, <1>3
    <2> QED
      BY <1>1, <2>2, <2>3
  <1>6. (\A i \in 1 .. n : g[i] = r[i]) /\ r[n + 1].op = obs.op
    BY <1>5, SameNext DEF n
  <1>7. pos[m + 1] = n + 1
    <2> SUFFICES ASSUME pos[m + 1] # n + 1 PROVE FALSE
      OBVIOUS
    <2>1. n + 1 < pos[m + 1]
      BY <1>1, <1>4, <1>5
    <2>2. PICK l \in DOMAIN list : pos[l] = n + 1
      BY <1>3, <1>5, <1>6, <2>1
    <2>3. l \in Nat /\ ~(l <= m)
      BY <1>1, <1>4, <2>2
    <2>4. l = m + 1 \/ m + 1 < l
      BY <2>3
    <2>5. pos[m + 1] <= pos[l]
      BY <1>3, <1>4, <2>4
    <2> QED
      BY <1>1, <1>4, <2>1, <2>2, <2>5
  <1>8. /\ list[m + 1] = EntryFor(r[n + 1]) /\ InTurn(sends, r, n + 1)
        /\ r[n + 1] \in ResultType /\ WellFormed(r[n + 1])
    BY <1>3, <1>5, <1>7
  <1>9. /\ obs.index = r[n + 1].index /\ obs.chan = r[n + 1].chan /\ obs.from = r[n + 1].from
        /\ obs.error = r[n + 1].error /\ obs.op = r[n + 1].op
    BY <1>6, <1>8 DEF Fits, EntryFor
  <1>10. obs.val = r[n + 1].val
    <2>1. CASE obs.from = NoSender
      BY <1>8, <1>9, <2>1 DEF WellFormed
    <2>2. CASE obs.from # NoSender
      <3>1. obs.val \in Nat /\ r[n + 1].val \in Nat
        BY <1>8, <1>9, <2>2 DEF WellFormed
      <3>2. \A j \in 1 .. (n + 1) - 1 : f[j] = r[j]
        BY <1>1, <1>2, <1>6
      <3>3. f[n + 1].val = r[n + 1].val
        BY <1>2, <1>5, <1>8, <1>9, <2>2, <3>1, <3>2, SameInTurn
      <3> QED
        BY <1>2, <3>3
    <2> QED
      BY <2>1, <2>2
  <1>11. obs = r[n + 1]
    BY <1>8, <1>9, <1>10, SameResult
  <1>12. Repeats(f, r)
    BY <1>5, <1>11, RepeatsOn DEF n, f
  <1>13. ASSUME NEW k \in DOMAIN list
         PROVE  pos[k] <= n + 1 <=> k <= m + 1
    <2>1. CASE k <= m + 1
      <3>1. k < m + 1 \/ k = m + 1
        BY <1>4, <2>1
      <3>2. pos[k] <= pos[m + 1]
        BY <1>3, <1>4, <3>1
      <3> QED
        BY <1>7, <2>1, <3>2
    <2>2. CASE ~(k <= m + 1)
      <3>1. m + 1 < k
        BY <1>4, <2>2
      <3>2. pos[m + 1] < pos[k]
        BY <1>3, <3>1
      <3> QED
        BY <1>1, <1>4, <1>7, <2>2, <3>2
    <2> QED
      BY <2>1, <2>2
  <1> QED
    BY <1>12, <1>13 DEF n, f

\* The cursor in terms of the entries whose results are in the history.
LEMMA CursorMeans ==
    ASSUME NEW pos
    PROVE  /\ Cursor(hist, pos) <=> \A k \in DOMAIN log : pos[k] <= Len(hist) <=> k <= Repeated
           /\ Cursor(hist, pos)' <=> \A k \in DOMAIN log' : pos[k] <= Len(hist') <=> k <= Repeated'
  BY DEF Cursor, Repeated

LEMMA RepeatedTyped ==
    ASSUME PlaceInv, mode = "Replay", ~desynced
    PROVE  Repeated \in Nat
  <1>1. At("receive") \/ At("poll") \/ At("selected") => next > 0
    BY DEF PlaceInv, TypeInv, Inside, Place, Modes, Taken
  <1>2. next \in Nat
    BY NextTyped
  <1> QED
    BY <1>1, <1>2, ReadingNow DEF Repeated

LEMMA StepReplayed ==
    ASSUME PlaceInv, Flow, Histories, Replayed, Facts
    PROVE  Replayed'
  <1>1. /\ UNCHANGED <<setup, mode, world, recorded>> /\ Sends' = Sends
        /\ (Deterministic' <=> Deterministic)
        /\ desynced => desynced'
        /\ status = "panicked" => status' = "panicked"
    BY DEF Facts, Frame, Sends, Deterministic, World
  <1>2. CASE mode' # "Replay"
    BY <1>2 DEF Replayed
  <1>3. CASE mode' = "Replay"
    <2>1. mode = "Replay" /\ ReplayEffect /\ log' = log
      BY <1>1, <1>3 DEF Facts, ReplayEffect
    <2>2. PICK pos \in [DOMAIN log -> DOMAIN recorded] :
              /\ IsLogOf(Sends, log, recorded, pos)
              /\ ~desynced /\ Deterministic =>
                    Repeats(hist, recorded) /\ (status # "panicked" => Cursor(hist, pos))
      BY <2>1 DEF Replayed
    <2>3. ASSUME ~desynced', Deterministic
          PROVE  /\ Repeats(hist', recorded)
                 /\ status' # "panicked" => \A k \in DOMAIN log : pos[k] <= Len(hist') <=> k <= Repeated'
      <3>1. /\ Repeats(hist, recorded) /\ Repeated \in Nat
            /\ status # "panicked" => \A k \in DOMAIN log : pos[k] <= Len(hist) <=> k <= Repeated
        BY <1>1, <2>1, <2>2, <2>3, CursorMeans, RepeatedTyped
      <3>2. /\ hist \in Seq(ResultType) /\ recorded \in Seq(ResultType) /\ log \in Seq(Entry)
            /\ Follows(Program, world, recorded)
            /\ \A i \in DOMAIN recorded : WellFormed(recorded[i])
        BY <2>3, TypeParts DEF PlaceInv, TypeInv, ThreadTyped, RunTyped, LogTyped, Histories
      <3>3. CASE hist' = hist /\ (status' = "panicked" \/ Repeated' = Repeated)
        BY <1>1, <3>1, <3>3
      <3>4. CASE \E obs : Appends(obs) /\ obs.op = "new" /\ Repeated' = Repeated
        <4>1. PICK obs : Appends(obs) /\ obs.op = "new" /\ Repeated' = Repeated
          BY <3>4
        <4>2. /\ status = "running" /\ obs \in ResultType /\ WellFormed(obs)
              /\ obs.op = Code(Program, world, hist).kind
              /\ hist' = Append(hist, obs) /\ Len(hist') = Len(hist) + 1
          BY <3>2, <4>1 DEF Appends, Op, Program
        <4>3. /\ Repeats(Append(hist, obs), recorded)
              /\ \A k \in DOMAIN log : pos[k] <= Len(hist) + 1 <=> pos[k] <= Len(hist)
          BY <2>2, <3>1, <3>2, <4>1, <4>2, RepeatsNew
        <4> QED
          BY <3>1, <4>1, <4>2, <4>3
      <3>5. CASE \E obs : /\ Appends(obs) /\ obs.op # "new"
                          /\ Repeated' = Repeated + 1 /\ next' = Repeated + 1
                          /\ Fits(obs, log[next'])
        <4>1. PICK obs : /\ Appends(obs) /\ obs.op # "new"
                         /\ Repeated' = Repeated + 1 /\ next' = Repeated + 1
                         /\ Fits(obs, log[next'])
          BY <3>5
        <4>2. /\ status = "running" /\ obs \in ResultType /\ WellFormed(obs)
              /\ obs.op = Code(Program, world, hist).kind
              /\ hist' = Append(hist, obs) /\ Len(hist') = Len(hist) + 1
          BY <3>2, <4>1 DEF Appends, Op, Program
        <4>3. InTurn(Sends, Append(hist, obs), Len(hist) + 1)
          BY <2>1, <4>1, <4>2, StepInTurn DEF Lossless
        <4>4. next' \in 0 .. Len(log)
          BY <2>1 DEF Facts, Place, Taken
        <4>5. Repeated + 1 \in DOMAIN log /\ Fits(obs, log[Repeated + 1])
          BY <3>1, <3>2, <4>1, <4>4
        <4>6. /\ Repeats(Append(hist, obs), recorded)
              /\ \A k \in DOMAIN log : pos[k] <= Len(hist) + 1 <=> k <= Repeated + 1
          <5>1. PICK m \in Nat : m = Repeated
            BY <3>1
          <5>2. /\ \A k \in DOMAIN log : pos[k] <= Len(hist) <=> k <= m
                /\ m + 1 \in DOMAIN log /\ Fits(obs, log[m + 1])
            BY <3>1, <4>2, <4>5, <5>1
          <5>3. IsLogOf(Sends, log, recorded, pos) /\ Repeats(hist, recorded) /\ obs.op # "new"
            BY <2>2, <3>1, <4>1
          <5>4. /\ Repeats(Append(hist, obs), recorded)
                /\ \A k \in DOMAIN log : pos[k] <= Len(hist) + 1 <=> k <= m + 1
            <6> DEFINE p == Program
                       sends == Sends
            <6>1. /\ hist \in Seq(ResultType) /\ recorded \in Seq(ResultType) /\ log \in Seq(Entry)
                  /\ Repeats(hist, recorded) /\ Follows(p, world, recorded)
                  /\ \A i \in DOMAIN recorded : WellFormed(recorded[i])
                  /\ IsLogOf(sends, log, recorded, pos)
              BY <3>2, <5>3
            <6>2. /\ obs \in ResultType /\ WellFormed(obs) /\ obs.op # "new"
                  /\ obs.op = Code(p, world, hist).kind
                  /\ InTurn(sends, Append(hist, obs), Len(hist) + 1)
              BY <4>2, <4>3, <5>3
            <6> HIDE DEF p, sends
            <6> QED
              BY <5>1, <5>2, <6>1, <6>2, RepeatsLogged
          <5> QED
            BY <5>1, <5>4
        <4> QED
          BY <4>1, <4>2, <4>6
      <3> QED
        BY <2>1, <2>3, <3>3, <3>4, <3>5 DEF ReplayEffect
    <2>4. ~desynced' /\ Deterministic' =>
              Repeats(hist', recorded') /\ (status' # "panicked" => Cursor(hist, pos)')
      BY <1>1, <2>1, <2>3, CursorMeans
    <2>5. pos \in [DOMAIN log' -> DOMAIN recorded'] /\ IsLogOf(Sends', log', recorded', pos)
      BY <1>1, <2>1, <2>2
    <2> QED
      BY <2>4, <2>5 DEF Replayed, Cursor
  <1> QED
    BY <1>2, <1>3

-----------------------------------------------------------------------------
(* The replay repeats the recording. *)

LEMMA SelectInvParts ==
    /\ SelectInv <=> FlowInv /\ Histories /\ Written /\ Replayed
    /\ SelectInv' <=> FlowInv' /\ Histories' /\ Written' /\ Replayed'
  BY DEF SelectInv, FlowInv, PlaceInv, TypeInv

LEMMA NoHistory ==
    /\ \A p, w : Follows(p, w, <<>>)
    /\ \A r : Repeats(<<>>, r)
    /\ DOMAIN <<>> = {}
  <1>1. DOMAIN <<>> = {}
    OBVIOUS
  <1> QED
    BY <1>1 DEF Follows, Repeats

LEMMA SelectInit == Init => SelectInv
  <1> SUFFICES ASSUME Init PROVE SelectInv
    OBVIOUS
  <1>1. mode = "Record" /\ log = <<>> /\ hist = <<>> /\ recorded = <<>>
    BY DEF Init, ReaderInit
  <1>2. Histories
    BY <1>1, NoHistory DEF Histories
  <1>3. Written
    <2> DEFINE pos == [k \in DOMAIN log |-> k]
    <2>1. DOMAIN log = {} /\ DOMAIN hist = {}
      BY <1>1, NoHistory
    <2>2. pos \in [DOMAIN log -> DOMAIN hist]
      BY <2>1
    <2> HIDE DEF pos
    <2>3. IsLogOf(Sends, log, hist, pos) /\ IsFullLogOf(log, hist, pos)
      BY <2>1, <2>2 DEF IsLogOf, IsFullLogOf
    <2> QED
      BY <2>2, <2>3 DEF Written
  <1>4. Replayed
    BY <1>1 DEF Replayed
  <1> QED
    BY <1>2, <1>3, <1>4, FlowInit, SelectInvParts

\* In the new process nothing is repeated yet.
LEMMA RestartReplayed ==
    ASSUME SelectInv, Restart
    PROVE  Histories' /\ Written' /\ Replayed'
  <1>1. /\ mode = "Record" /\ mode' = "Replay" /\ recorded' = hist /\ hist' = <<>>
        /\ UNCHANGED <<setup, log, next>> /\ world' \in World /\ at' = "idle"
    BY DEF Restart, NewProcess
  <1>2. /\ Program' = Program /\ Sends' = Sends /\ (Deterministic' <=> Deterministic)
        /\ world \in World
    BY <1>1, TypeParts DEF Program, Sends, Deterministic, World, SelectInv, RunTyped
  <1>3. Deterministic => world' = world
    BY <1>1, <1>2 DEF Deterministic
  <1>4. Histories'
    <2>1. Histories
      BY DEF SelectInv
    <2>2. Follows(Program, world', hist') /\ \A i \in DOMAIN hist' : WellFormed(hist'[i])
      BY <1>1, NoHistory
    <2> QED
      BY <1>1, <1>2, <1>3, <2>1, <2>2 DEF Histories
  <1>5. Written'
    BY <1>1 DEF Written
  <1>6. Replayed'
    <2>1. PICK pos \in [DOMAIN log -> DOMAIN hist] : IsLogOf(Sends, log, hist, pos)
      BY <1>1 DEF SelectInv, Written
    <2>2. next' = 0 /\ Reading' = 0 /\ Len(hist') = 0
      BY <1>1, ReadingNow DEF SelectInv, Place, Taken
    <2>3. log \in Seq(Entry) /\ hist \in Seq(ResultType)
      BY TypeParts DEF SelectInv, ThreadTyped, LogTyped
    <2>4. \A k \in DOMAIN log : k \in Nat /\ k > 0 /\ pos[k] \in Nat /\ pos[k] > 0
      BY <2>1, <2>3
    <2>5. Cursor(hist, pos)'
      <3>1. Repeated' = next' - Reading'
        BY DEF Repeated
      <3>2. Repeated' = 0
        BY <2>2, <3>1
      <3> QED
        BY <1>1, <2>2, <2>4, <3>2, CursorMeans
    <2>6. Repeats(hist', recorded')
      BY <1>1, NoHistory
    <2> QED
      BY <1>1, <1>2, <2>1, <2>5, <2>6 DEF Replayed
  <1> QED
    BY <1>4, <1>5, <1>6

LEMMA SelectStep ==
    ASSUME WellFormedProgram, SelectInv, [Next]_vars
    PROVE  SelectInv'
  <1>1. PlaceInv /\ Flow /\ FlowInv /\ Histories /\ Written /\ Replayed
    BY SelectInvParts DEF FlowInv
  <1>2. FlowInv'
    BY <1>1, FlowStep
  <1>3. CASE Facts
    BY <1>1, <1>2, <1>3, StepHistories, StepWritten, StepReplayed, SelectInvParts
  <1>4. CASE Restart
    BY <1>2, <1>4, RestartReplayed, SelectInvParts
  <1> QED
    BY <1>1, <1>3, <1>4, StepFacts

\* The replay of a deterministic program selects, receives and reports ready what the
\* recording did, with the same values, until the program desyncs: wherever the log was
\* cut off, and however the messages of different senders are interleaved this time.
THEOREM SelectIsFaithfulCorrect ==
    ASSUME WellFormedProgram
    PROVE  Spec => []SelectIsFaithful
  <1>1. Init => SelectInv
    BY SelectInit
  <1>2. SelectInv /\ [Next]_vars => SelectInv'
    BY SelectStep
  <1>3. SelectInv => SelectIsFaithful
    BY DEF SelectInv, Replayed, SelectIsFaithful
  <1> QED
    BY <1>1, <1>2, <1>3, PTL DEF Spec

=============================================================================
