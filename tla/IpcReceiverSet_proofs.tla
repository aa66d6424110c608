-------------------------- MODULE IpcReceiverSet_proofs --------------------------
(***************************************************************************)
(* Proofs about IpcReceiverSet: types; the index of a receiver, which is   *)
(* the same for the program, in the vector and in the set underneath; that *)
(* no message is lost; that each is seen once, in order, and the end of a  *)
(* channel once; and that the replay tells the program what the recording  *)
(* told it.                                                                *)
(***************************************************************************)
EXTENDS IpcReceiverSet, SequenceTheorems, TLAPS

Operation ==
    [kind : {"channel", "select", "halt"}]
    \cup [kind : RecvKind \cup {"add"}, chan : Chan]

\* What a program does next is an operation, whatever the thread has seen so far.
WellFormedProgram ==
    \A s \in Setups : \A w \in s.worlds, h \in Seq(ResultType) :
        Code(s.program, w, h) \in Operation

-----------------------------------------------------------------------------
(* The inductive invariant. *)

\* Where the thread is inside an operation.
Inside ==
    /\ At("receive") =>
          Op.kind \in RecvKind /\ want.chan \in Chan /\ want.from \in Sender /\ want.chan = Op.chan
    /\ todo # <<>> => At("replay")
    /\ got # <<>> => At("replay") \/ At("select") \/ At("drain")
    /\ \A k \in DOMAIN got : got[k].op = "event" /\ got[k].index \in Index

\* What the modes rule out.  The set underneath is empty in a replay until the receivers
\* are moved, and the vector before the replay and after the move.
Modes ==
    /\ At("desync") \/ At("drain") => desynced
    /\ moved => desynced /\ receivers = <<>>
    /\ At("replay") => ~moved
    /\ mode = "Record" =>
          /\ ~At("replay") /\ ~At("receive")
          /\ receivers = <<>>
          /\ next = 0
          /\ desynced => ~open
    /\ mode = "Replay" =>
          /\ ~open
          /\ At("select") \/ At("drain") => moved
          /\ ~moved /\ real # <<>> =>
                status = "panicked" \/ (At("desync") /\ Op.kind \in {"select", "add"})

-----------------------------------------------------------------------------
(* Indices.  h is a history, g are events, set the receivers by index, list the log. *)

IsAdd(e) == e.op = "add"

Increasing(h) ==
    \A i, j \in DOMAIN h : i < j /\ IsAdd(h[i]) /\ IsAdd(h[j]) => h[i].index < h[j].index

Numbered(h, set) ==
    /\ \A i \in DOMAIN h :
          IsAdd(h[i]) => h[i].index \in DOMAIN set /\ set[h[i].index].chan = h[i].chan
    /\ \A n \in DOMAIN set : \E i \in DOMAIN h : IsAdd(h[i]) /\ h[i].index = n

\* Every event is of the channel that was added under its index.
OfAdds(g, h) ==
    \A k \in DOMAIN g : g[k].op = "event" =>
        \E i \in DOMAIN h : IsAdd(h[i]) /\ h[i].index = g[k].index /\ h[i].chan = g[k].chan

AddsLogged(h, list) ==
    \A i \in DOMAIN h : IsAdd(h[i]) => \E k \in DOMAIN list : IsAdd(list[k]) /\ list[k].index = h[i].index

\* A receiver is added before it has an event.
AddedFirst(list) ==
    \A k \in DOMAIN list : list[k].op = "select" =>
        \A e \in DOMAIN list[k].events :
            \E l \in 1 .. k - 1 : IsAdd(list[l]) /\ list[l].index = list[k].events[e].index

HistIndexed ==
    /\ Increasing(hist)
    /\ status # "panicked" => Numbered(hist, InSet)
    /\ OfAdds(hist, hist)
    /\ OfAdds(got, hist)

LogIndexed ==
    /\ mode = "Record" /\ open => AddsLogged(hist, log)
    /\ AddedFirst(log)

\* What the replay has taken from the log is in its vector.
Repeated ==
    /\ mode = "Replay" /\ ~desynced /\ status # "panicked" =>
          \A k \in 1 .. next : k \in DOMAIN log /\ (IsAdd(log[k]) => log[k].index \in DOMAIN receivers)
    /\ \A k \in DOMAIN todo : todo[k].index \in DOMAIN receivers

TypeInv == TypeOK /\ Inside /\ Modes /\ HistIndexed /\ LogIndexed /\ Repeated

-----------------------------------------------------------------------------
(* Types of operations, results and entries. *)

Kinds == RecvKind \cup {"channel", "add", "event", "select"}
Receiver == [chan : Chan, closed : BOOLEAN]

LEMMA SetupTyped ==
    ASSUME TypeOK
    PROVE  Sends \in [Sender -> Seq(Chan)] /\ KeepGoing \in BOOLEAN
  BY ReaderAssumption DEF TypeOK, ReaderTypeOK, Sends, KeepGoing

LEMMA OpTyped ==
    ASSUME WellFormedProgram, TypeOK
    PROVE  Op \in Operation
  BY DEF WellFormedProgram, TypeOK, ReaderTypeOK, World, Op

LEMMA OpShape ==
    ASSUME WellFormedProgram, TypeOK
    PROVE  Op.kind \in RecvKind \cup {"add"} => Op.chan \in Chan
  BY OpTyped DEF Operation, RecvKind

\* A result without a message.
LEMMA FailureTyped ==
    ASSUME NEW op \in Kinds, NEW index \in Nat, NEW c \in Chan \cup {NoChan},
           NEW error \in {"none", "Disconnected", "Empty", "Closed"}
    PROVE  /\ Failure(op, index, c, error) \in ResultType
           /\ Failure(op, index, c, error).op = op
           /\ Failure(op, index, c, error).index = index
           /\ Failure(op, index, c, error).chan = c
           /\ Failure(op, index, c, error).from = NoSender
           /\ Failure(op, index, c, error).error = error
           /\ EntryFor(Failure(op, index, c, error)) =
                  [op |-> op, index |-> index, chan |-> c, from |-> NoSender, error |-> error]
  BY DEF Failure, Result, ResultType, EntryFor, Kinds

\* A result with a message.
LEMMA MessageTyped ==
    ASSUME NEW op \in Kinds, NEW index \in Nat, NEW c \in Chan, NEW s \in Sender, NEW val \in Nat
    PROVE  LET obs == Result(op, index, c, s, val, "none") IN
           /\ obs \in ResultType
           /\ obs.op = op /\ obs.index = index /\ obs.chan = c /\ obs.from = s /\ obs.val = val
           /\ obs.error = "none"
           /\ EntryFor(obs) = [op |-> op, index |-> index, chan |-> c, from |-> s, error |-> "none"]
  BY DEF Result, ResultType, EntryFor, Kinds

\* The entry for a receive.
LEMMA RecvEntryTyped ==
    ASSUME NEW op \in RecvKind, NEW c \in Chan
    PROVE  /\ \A s \in Sender : [op |-> op, index |-> 0, chan |-> c, from |-> s, error |-> "none"] \in Entry
           /\ \A error \in {"Disconnected", "Empty"} :
                 [op |-> op, index |-> 0, chan |-> c, from |-> NoSender, error |-> error] \in Entry
  BY DEF Entry, RecvEntry, ReceiptOf

\* What a receive on the wire finds: the first message, or no message at all.
LEMMA OutcomeTyped ==
    ASSUME wire \in [Chan -> Seq(Message)], NEW op \in RecvKind, NEW c \in Chan,
           NEW obs \in Outcomes(op, 0, c)
    PROVE  /\ obs \in ResultType
           /\ obs.op = op /\ obs.chan = c
           /\ EntryFor(obs) \in Entry
           /\ \/ /\ obs.error = "none"
                 /\ wire[c] # <<>>
                 /\ obs.from = Head(wire[c]).from
                 /\ obs.val = Head(wire[c]).val
              \/ obs.error # "none" /\ obs.from = NoSender
  <1>0. op \in Kinds /\ 0 \in Nat
    BY DEF Kinds
  <1>1. CASE wire[c] # <<>>
    <2> DEFINE s == Head(wire[c]).from
               val == Head(wire[c]).val
    <2>1. Head(wire[c]) \in Message
      BY <1>1
    <2>2. s \in Sender /\ val \in Nat
      BY <2>1 DEF Message
    <2>3. obs = Result(op, 0, c, s, val, "none")
      BY <1>1 DEF Outcomes
    <2> HIDE DEF s, val
    <2>4. /\ obs \in ResultType
          /\ obs.op = op /\ obs.chan = c /\ obs.from = s /\ obs.val = val /\ obs.error = "none"
          /\ EntryFor(obs) = [op |-> op, index |-> 0, chan |-> c, from |-> s, error |-> "none"]
      BY <1>0, <2>2, <2>3, MessageTyped
    <2>5. EntryFor(obs) \in Entry
      BY <2>2, <2>4, RecvEntryTyped
    <2> QED
      BY <1>1, <2>4, <2>5 DEF s, val
  <1>2. CASE wire[c] = <<>>
    <2>1. PICK error \in {"Disconnected", "Empty"} : obs = Failure(op, 0, c, error)
      BY <1>2 DEF Outcomes
    <2>2. /\ obs \in ResultType
          /\ obs.op = op /\ obs.chan = c /\ obs.from = NoSender /\ obs.error = error
          /\ EntryFor(obs) = [op |-> op, index |-> 0, chan |-> c, from |-> NoSender, error |-> error]
      BY <1>0, <2>1, FailureTyped
    <2>3. EntryFor(obs) \in Entry
      BY <2>2, RecvEntryTyped
    <2> QED
      BY <2>2, <2>3
  <1> QED
    BY <1>1, <1>2

LEMMA BufferedTyped ==
    ASSUME buffer \in [Chan -> [Sender -> Seq(Nat)]],
           NEW op \in Kinds, NEW index \in Nat, NEW c \in Chan, NEW s \in Sender,
           buffer[c][s] # <<>>
    PROVE  LET obs == Result(op, index, c, s, Head(buffer[c][s]), "none") IN
           /\ obs \in ResultType
           /\ obs.op = op /\ obs.index = index /\ obs.chan = c /\ obs.from = s
           /\ obs.val = Head(buffer[c][s])
  <1>1. Head(buffer[c][s]) \in Nat
    OBVIOUS
  <1> QED
    BY <1>1, MessageTyped

\* An entry tells what it is for.
LEMMA EntryShape ==
    ASSUME NEW entry \in Entry
    PROVE  /\ entry.op = "add" => entry \in AddEntry
           /\ entry.op \in RecvKind => entry \in RecvEntry
           /\ entry.op = "select" => entry.events \in Seq(SelectEvent)
           /\ entry.error = "none" /\ entry.op \in RecvKind => entry.from \in Sender
           /\ entry.error # "none" /\ entry.op \in RecvKind =>
                  entry.from = NoSender /\ entry.error \in {"Disconnected", "Empty"}
  BY DEF Entry, ChannelEntry, AddEntry, RecvEntry, ReceiptOf, RecvKind

LEMMA NextEntryTyped ==
    ASSUME TypeOK, HasEntry
    PROVE  /\ NextEntry \in Entry
           /\ next + 1 \in DOMAIN log
  BY DEF TypeOK, ReaderTypeOK, HasEntry, NextEntry

\* The entry for a select, and what it is for.
LEMMA SelectEntryTyped ==
    ASSUME NEW g \in Seq(ResultType), \A k \in DOMAIN g : g[k].index \in Index
    PROVE  /\ SelectEntry(g) \in Entry
           /\ SelectEntry(g).op = "select"
           /\ DOMAIN SelectEntry(g).events = DOMAIN g
           /\ \A k \in DOMAIN g : SelectEntry(g).events[k].index = g[k].index
                                  /\ SelectEntry(g).events[k].from = g[k].from
  <1> DEFINE events == [k \in DOMAIN g |-> [index |-> g[k].index, from |-> g[k].from]]
  <1>0. \A k \in DOMAIN g : g[k] \in ResultType
    OBVIOUS
  <1>1. \A k \in DOMAIN g : g[k].from \in Sender \cup {NoSender}
    BY <1>0 DEF ResultType
  <1>2. events \in [1 .. Len(g) -> SelectEvent]
    BY <1>1 DEF SelectEvent
  <1>3. events \in Seq(SelectEvent)
    BY <1>2
  <1>4. SelectEntry(g) = [op |-> "select", events |-> events]
    BY DEF SelectEntry
  <1> QED
    BY <1>3, <1>4 DEF Entry

LEMMA AddedTyped ==
    ASSUME NEW n \in Nat \ {0}, NEW c \in Chan
    PROVE  LET obs == Failure("add", n, c, "none") IN
           /\ obs \in ResultType
           /\ obs.op = "add" /\ obs.index = n /\ obs.chan = c
           /\ EntryFor(obs) \in Entry /\ EntryFor(obs).op = "add" /\ EntryFor(obs).index = n
  <1> DEFINE obs == Failure("add", n, c, "none")
  <1>0. "add" \in Kinds /\ n \in Nat /\ c \in Chan \cup {NoChan}
    BY DEF Kinds
  <1>1. /\ obs \in ResultType /\ obs.op = "add" /\ obs.index = n /\ obs.chan = c
        /\ EntryFor(obs) = [op |-> "add", index |-> n, chan |-> c, from |-> NoSender, error |-> "none"]
    BY <1>0, FailureTyped
  <1> QED
    BY <1>1 DEF Entry, AddEntry, Index

LEMMA CreatedTyped ==
    ASSUME created \in Nat
    PROVE  /\ Created \in ResultType /\ Created.op = "channel"
           /\ EntryFor(Created) \in Entry /\ EntryFor(Created).op = "channel"
  <1>0. "channel" \in Kinds /\ created + 1 \in Nat /\ NoChan \in Chan \cup {NoChan}
    BY DEF Kinds
  <1>1. /\ Created \in ResultType /\ Created.op = "channel"
        /\ EntryFor(Created) = [op |-> "channel", index |-> created + 1, chan |-> NoChan,
                                from |-> NoSender, error |-> "none"]
    BY <1>0, FailureTyped DEF Created
  <1> QED
    BY <1>1 DEF Entry, ChannelEntry, Index

LEMMA SelectedTyped == Selected \in ResultType /\ Selected.op = "select"
  BY FailureTyped DEF Selected, Kinds

\* The first of a sequence, and the rest.
LEMMA HeadAndTail ==
    ASSUME NEW S, NEW w \in Seq(S), w # <<>>
    PROVE  /\ 1 \in DOMAIN w /\ Head(w) = w[1] /\ Tail(w) \in Seq(S)
           /\ \A i \in DOMAIN Tail(w) : i + 1 \in DOMAIN w /\ Tail(w)[i] = w[i + 1]
           /\ \A i \in DOMAIN w : i = 1 \/ (i - 1 \in DOMAIN Tail(w) /\ Tail(w)[i - 1] = w[i])
  OBVIOUS

-----------------------------------------------------------------------------
(* Types are preserved.  The variables come in five groups. *)

LogTyped ==
    mode \in {"Record", "Replay"} /\ open \in BOOLEAN /\ next \in Nat /\ log \in Seq(Entry)
ChanTyped ==
    /\ wire \in [Chan -> Seq(Message)]
    /\ buffer \in [Chan -> [Sender -> Seq(Nat)]]
    /\ sent \in [Sender -> Nat]
    /\ gone \subseteq Sender
ThreadTyped ==
    /\ status \in {"running", "asleep", "panicked"}
    /\ at \in {"idle", "receive", "replay", "desync", "select", "drain"}
    /\ want \in Want
    /\ hist \in Seq(ResultType)
    /\ desynced \in BOOLEAN
SetTyped ==
    /\ receivers \in Seq(Receiver)
    /\ real \in Seq(Receiver)
    /\ moved \in BOOLEAN
SelectTyped == todo \in Seq(SelectEvent) /\ got \in Seq(ResultType) /\ created \in Nat
RunTyped == setup \in Setups /\ world \in World /\ recorded \in Seq(ResultType)

LEMMA TypeParts ==
    /\ TypeOK <=> LogTyped /\ ChanTyped /\ ThreadTyped /\ SetTyped /\ SelectTyped /\ RunTyped
    /\ TypeOK' <=> LogTyped' /\ ChanTyped' /\ ThreadTyped' /\ SetTyped' /\ SelectTyped' /\ RunTyped'
  BY DEF TypeOK, ReaderTypeOK, LogTyped, ChanTyped, ThreadTyped, SetTyped, SelectTyped, RunTyped, Receiver

LEMMA RunKept ==
    ASSUME RunTyped, UNCHANGED runVars
    PROVE  RunTyped'
  BY DEF RunTyped, runVars, World

LEMMA LogKept ==
    ASSUME LogTyped, UNCHANGED logVars
    PROVE  LogTyped'
  BY DEF LogTyped, logVars

LEMMA ChanKept ==
    ASSUME ChanTyped, UNCHANGED chanVars
    PROVE  ChanTyped'
  BY DEF ChanTyped, chanVars

LEMMA ThreadKept ==
    ASSUME ThreadTyped, UNCHANGED threadVars, desynced' \in BOOLEAN
    PROVE  ThreadTyped'
  BY DEF ThreadTyped, threadVars

LEMMA SetKept ==
    ASSUME SetTyped, UNCHANGED setVars
    PROVE  SetTyped'
  BY DEF SetTyped, setVars

LEMMA SelectKept ==
    ASSUME SelectTyped, UNCHANGED <<selectVars, created>>
    PROVE  SelectTyped'
  BY DEF SelectTyped, selectVars

LEMMA WriteTyped ==
    ASSUME LogTyped, NEW entry \in Entry, WriteEntry(entry)
    PROVE  LogTyped'
  BY DEF LogTyped, WriteEntry

LEMMA TakeTyped ==
    ASSUME LogTyped, TakeEntry
    PROVE  LogTyped'
  BY DEF LogTyped, TakeEntry

\* The first message on a wire is taken.
LEMMA TailTyped ==
    ASSUME ChanTyped, NEW c \in Chan, wire[c] # <<>>, wire' = [wire EXCEPT ![c] = Tail(@)],
           UNCHANGED <<buffer, sent, gone>>
    PROVE  ChanTyped'
  <1>1. Tail(wire[c]) \in Seq(Message)
    BY DEF ChanTyped
  <1> QED
    BY <1>1 DEF ChanTyped

LEMMA WireTyped ==
    ASSUME ChanTyped, NEW c \in Chan, NEW obs, obs.chan = c,
           obs.error = "none" => wire[c] # <<>>, TakeFromWire(obs)
    PROVE  ChanTyped'
  BY TailTyped, ChanKept DEF TakeFromWire, chanVars

LEMMA UnbufferTyped ==
    ASSUME ChanTyped, NEW c \in Chan, NEW s \in Sender, TakeFromBuffer(c, s)
    PROVE  ChanTyped'
  <1>1. Tail(buffer[c][s]) \in Seq(Nat)
    BY DEF ChanTyped, TakeFromBuffer
  <1> QED
    BY <1>1 DEF ChanTyped, TakeFromBuffer

\* The first message on the wire.
LEMMA FirstTyped ==
    ASSUME ChanTyped, NEW c \in Chan, wire[c] # <<>>
    PROVE  Head(wire[c]).from \in Sender /\ Head(wire[c]).val \in Nat
  <1>1. Head(wire[c]) \in Message
    BY DEF ChanTyped
  <1> QED
    BY <1>1 DEF Message

LEMMA FetchTyped ==
    ASSUME ChanTyped, NEW c \in Chan, Fetch(c)
    PROVE  ChanTyped'
  <1>1. wire[c] # <<>>
    BY DEF Fetch
  <1> DEFINE s == Head(wire[c]).from
             val == Head(wire[c]).val
  <1>2. s \in Sender /\ val \in Nat
    BY <1>1, FirstTyped
  <1>3. Tail(wire[c]) \in Seq(Message)
    BY <1>1 DEF ChanTyped
  <1>4. /\ wire' = [wire EXCEPT ![c] = Tail(@)]
        /\ buffer' = [buffer EXCEPT ![c][s] = Append(@, val)]
        /\ UNCHANGED <<sent, gone>>
    BY DEF Fetch
  <1> HIDE DEF s, val
  <1>5. Append(buffer[c][s], val) \in Seq(Nat)
    BY <1>2 DEF ChanTyped
  <1> QED
    BY <1>2, <1>3, <1>4, <1>5 DEF ChanTyped

LEMMA OpaqueTyped ==
    ASSUME ChanTyped, Op.chan \in Chan, ToOpaque
    PROVE  ChanTyped'
  <1>1. [s \in Sender |-> <<>>] \in [Sender -> Seq(Nat)]
    OBVIOUS
  <1> QED
    BY <1>1 DEF ChanTyped, ToOpaque

LEMMA ReturnTyped ==
    ASSUME ThreadTyped, NEW obs \in ResultType, Return(obs), UNCHANGED desynced
    PROVE  ThreadTyped' /\ at' = "idle" /\ status' = status
  BY DEF ThreadTyped, Return, Want

LEMMA PanicTyped ==
    ASSUME ThreadTyped, Panic, UNCHANGED desynced
    PROVE  ThreadTyped' /\ status' = "panicked" /\ hist' = hist
  BY DEF ThreadTyped, Panic

LEMMA DesyncTyped ==
    ASSUME ThreadTyped, HandleDesync
    PROVE  /\ ThreadTyped' /\ hist' = hist
           /\ \/ status' = "panicked" /\ desynced' = desynced
              \/ status' = "running" /\ at' = "desync" /\ desynced' = TRUE
  BY DEF ThreadTyped, HandleDesync, Panic, Want

-----------------------------------------------------------------------------
(* Indices: what the kinds of steps do to the history, to the receivers and to the log. *)

SameSet ==
    /\ DOMAIN InSet' = DOMAIN InSet
    /\ \A n \in DOMAIN InSet : InSet'[n].chan = InSet[n].chan

\* The history grows, but not by an add.
Grows ==
    /\ \A i \in DOMAIN hist : i \in DOMAIN hist' /\ hist'[i] = hist[i]
    /\ \A i \in DOMAIN hist' : IsAdd(hist'[i]) => i \in DOMAIN hist

\* By results of receives, or events of got.
NoNewEvents ==
    \A k \in DOMAIN hist' : hist'[k].op = "event" =>
        k \in DOMAIN hist \/ \E l \in DOMAIN got : hist'[k] = got[l]

OfAdd(e, h) == \E i \in DOMAIN h : IsAdd(h[i]) /\ h[i].index = e.index /\ h[i].chan = e.chan

KnownEvents ==
    \A k \in DOMAIN got' : (k \in DOMAIN got /\ got'[k] = got[k]) \/ OfAdd(got'[k], hist)

LEMMA SameGrows ==
    ASSUME hist' = hist
    PROVE  Grows /\ NoNewEvents
  BY DEF Grows, NoNewEvents

LEMMA AppendGrows ==
    ASSUME ThreadTyped, NEW obs \in ResultType, hist' = Append(hist, obs), obs.op \notin {"add", "event"}
    PROVE  Grows /\ NoNewEvents
  <1>1. hist \in Seq(ResultType)
    BY DEF ThreadTyped
  <1>2. /\ \A i \in DOMAIN hist : i \in DOMAIN hist' /\ hist'[i] = hist[i]
        /\ \A i \in DOMAIN hist' : i \in DOMAIN hist \/ hist'[i] = obs
    BY <1>1
  <1> QED
    BY <1>2 DEF Grows, NoNewEvents, IsAdd

\* What is in a sequence with another one and an element behind it.
LEMMA ThreeParts ==
    ASSUME NEW S, NEW h \in Seq(S), NEW g \in Seq(S), NEW obs \in S
    PROVE  LET all == Append(h \o g, obs) IN
           /\ all \in Seq(S)
           /\ \A i \in DOMAIN h : i \in DOMAIN all /\ all[i] = h[i]
           /\ \A i \in DOMAIN g : Len(h) + i \in DOMAIN all /\ all[Len(h) + i] = g[i]
           /\ \A i \in DOMAIN all :
                 \/ i \in DOMAIN h
                 \/ i - Len(h) \in DOMAIN g /\ all[i] = g[i - Len(h)]
                 \/ all[i] = obs
  OBVIOUS

LEMMA EventsGrow ==
    ASSUME ThreadTyped, SelectTyped, Inside, hist' = Append(hist \o got, Selected)
    PROVE  Grows /\ NoNewEvents
  <1>1. hist \in Seq(ResultType) /\ got \in Seq(ResultType) /\ Selected \in ResultType
    BY SelectedTyped DEF ThreadTyped, SelectTyped
  <1>2. /\ \A i \in DOMAIN hist : i \in DOMAIN hist' /\ hist'[i] = hist[i]
        /\ \A i \in DOMAIN hist' :
              i \in DOMAIN hist \/ (\E l \in DOMAIN got : hist'[i] = got[l]) \/ hist'[i] = Selected
    <2>1. LET all == Append(hist \o got, Selected) IN
           /\ all \in Seq(ResultType)
           /\ \A i \in DOMAIN hist : i \in DOMAIN all /\ all[i] = hist[i]
           /\ \A i \in DOMAIN all :
                 \/ i \in DOMAIN hist
                 \/ i - Len(hist) \in DOMAIN got /\ all[i] = got[i - Len(hist)]
                 \/ all[i] = Selected
      BY <1>1, ThreeParts
    <2> QED
      BY <2>1
  <1>3. \A l \in DOMAIN got : got[l].op = "event"
    BY DEF Inside
  <1>4. Selected.op = "select"
    BY SelectedTyped
  <1> QED
    BY <1>2, <1>3, <1>4 DEF Grows, NoNewEvents, IsAdd

\* No receiver is added.
LEMMA KeepsHistIndexed ==
    ASSUME HistIndexed, Grows, NoNewEvents, KnownEvents,
           status' = "panicked" \/ (status # "panicked" /\ SameSet)
    PROVE  HistIndexed'
  <1>1. Increasing(hist')
    BY DEF HistIndexed, Increasing, Grows
  <1>2. ASSUME status # "panicked", SameSet
        PROVE  Numbered(hist', InSet')
    <2>1. Numbered(hist, InSet)
      BY <1>2 DEF HistIndexed
    <2>2. \A i \in DOMAIN hist' : IsAdd(hist'[i]) => hist'[i] = hist[i] /\ i \in DOMAIN hist
      BY DEF Grows
    <2>3. \A i \in DOMAIN hist' :
             IsAdd(hist'[i]) => hist'[i].index \in DOMAIN InSet' /\ InSet'[hist'[i].index].chan = hist'[i].chan
      BY <1>2, <2>1, <2>2 DEF Numbered, SameSet
    <2>4. \A n \in DOMAIN InSet' : \E i \in DOMAIN hist' : IsAdd(hist'[i]) /\ hist'[i].index = n
      BY <1>2, <2>1 DEF Numbered, SameSet, Grows
    <2> HIDE DEF SameSet
    <2> QED
      BY <2>3, <2>4 DEF Numbered
  <1>3. \A e : OfAdd(e, hist) => OfAdd(e, hist')
    BY DEF OfAdd, Grows
  <1>4. (\A k \in DOMAIN hist : hist[k].op = "event" => OfAdd(hist[k], hist))
        /\ (\A k \in DOMAIN got : got[k].op = "event" => OfAdd(got[k], hist))
    BY DEF HistIndexed, OfAdds, OfAdd
  <1>5. \A k \in DOMAIN hist' : hist'[k].op = "event" => OfAdd(hist'[k], hist')
    <2> SUFFICES ASSUME NEW k \in DOMAIN hist', hist'[k].op = "event"
                 PROVE  OfAdd(hist'[k], hist)
      BY <1>3
    <2>1. CASE k \in DOMAIN hist
      BY <1>4, <2>1 DEF Grows
    <2>2. CASE \E l \in DOMAIN got : hist'[k] = got[l]
      BY <1>4, <2>2
    <2> QED
      BY <2>1, <2>2 DEF NoNewEvents
  <1>6. \A k \in DOMAIN got' : got'[k].op = "event" => OfAdd(got'[k], hist')
    BY <1>3, <1>4 DEF KnownEvents
  <1>7. OfAdds(hist', hist') /\ OfAdds(got', hist')
    BY <1>5, <1>6 DEF OfAdds, OfAdd
  <1> QED
    BY <1>1, <1>2, <1>7 DEF HistIndexed

\* A receiver is added, and gets the next index.
LEMMA AddHistIndexed ==
    ASSUME HistIndexed, ThreadTyped, SetTyped, got = <<>>, UNCHANGED got,
           status # "panicked", NEW obs \in ResultType,
           obs.op = "add", obs.index = Len(InSet) + 1, hist' = Append(hist, obs),
           NEW closed \in BOOLEAN, obs.chan \in Chan,
           InSet' = Append(InSet, [chan |-> obs.chan, closed |-> closed])
    PROVE  HistIndexed'
  <1> DEFINE l == Len(hist) + 1
             n == Len(InSet) + 1
  <1>1. hist \in Seq(ResultType)
    BY DEF ThreadTyped
  <1>2. InSet \in Seq(Receiver) /\ [chan |-> obs.chan, closed |-> closed] \in Receiver
    BY DEF SetTyped, InSet, Receiver
  <1>3. /\ \A i \in DOMAIN hist : i \in DOMAIN hist' /\ hist'[i] = hist[i] /\ i < l
        /\ l \in DOMAIN hist' /\ hist'[l] = obs
        /\ \A i \in DOMAIN hist' : i \in DOMAIN hist \/ i = l
        /\ DOMAIN hist \subseteq Nat /\ l \in Nat
    BY <1>1
  <1>4. /\ \A i \in DOMAIN InSet : i \in DOMAIN InSet' /\ InSet'[i] = InSet[i] /\ i < n
        /\ n \in DOMAIN InSet' /\ InSet'[n].chan = obs.chan
        /\ \A i \in DOMAIN InSet' : i \in DOMAIN InSet \/ i = n
    BY <1>2
  <1>5. IsAdd(obs) /\ obs.index = n
    BY DEF IsAdd
  <1> HIDE DEF l, n
  <1>6. Numbered(hist, InSet) /\ Increasing(hist)
    BY DEF HistIndexed
  <1>7. \A i \in DOMAIN hist : IsAdd(hist[i]) => hist[i].index < n
    BY <1>4, <1>6 DEF Numbered
  <1>8. Increasing(hist')
    BY <1>3, <1>5, <1>6, <1>7 DEF Increasing
  <1>9. Numbered(hist', InSet')
    <2>1. ASSUME NEW i \in DOMAIN hist', IsAdd(hist'[i])
          PROVE  hist'[i].index \in DOMAIN InSet' /\ InSet'[hist'[i].index].chan = hist'[i].chan
      BY <1>3, <1>4, <1>5, <1>6, <2>1 DEF Numbered
    <2>2. ASSUME NEW m \in DOMAIN InSet'
          PROVE  \E i \in DOMAIN hist' : IsAdd(hist'[i]) /\ hist'[i].index = m
      <3>1. CASE m = n
        BY <1>3, <1>5, <3>1
      <3>2. CASE m \in DOMAIN InSet
        <4>1. PICK i \in DOMAIN hist : IsAdd(hist[i]) /\ hist[i].index = m
          BY <1>6, <3>2 DEF Numbered
        <4> QED
          BY <1>3, <4>1
      <3> QED
        BY <1>4, <3>1, <3>2
    <2> QED
      BY <2>1, <2>2 DEF Numbered
  <1>10. \A e : OfAdd(e, hist) => OfAdd(e, hist')
    BY <1>3 DEF OfAdd
  <1>11. \A k \in DOMAIN hist' : hist'[k].op = "event" => OfAdd(hist'[k], hist')
    <2>1. \A k \in DOMAIN hist : hist[k].op = "event" => OfAdd(hist[k], hist)
      BY DEF HistIndexed, OfAdds, OfAdd
    <2> QED
      BY <1>3, <1>10, <2>1
  <1>12. OfAdds(hist', hist')
    BY <1>11 DEF OfAdds, OfAdd
  <1>13. OfAdds(got', hist')
    BY DEF OfAdds
  <1> QED
    BY <1>8, <1>9, <1>12, <1>13 DEF HistIndexed

\* The receivers, one sequence behind the other.
LEMMA SetParts ==
    ASSUME SetTyped
    PROVE  /\ InSet \in Seq(Receiver)
           /\ Len(InSet) = Len(real) + Len(receivers)
           /\ \A n \in DOMAIN real : n \in DOMAIN InSet /\ InSet[n] = real[n] /\ real[n].chan \in Chan
           /\ \A n \in DOMAIN InSet : InSet[n].chan \in Chan
           /\ real = <<>> => InSet = receivers
           /\ receivers = <<>> => InSet = real
  <1>1. real \in Seq(Receiver) /\ receivers \in Seq(Receiver)
    BY DEF SetTyped
  <1>2. /\ InSet \in Seq(Receiver)
        /\ Len(InSet) = Len(real) + Len(receivers)
        /\ \A n \in DOMAIN real : n \in DOMAIN InSet /\ InSet[n] = real[n]
    BY <1>1 DEF InSet
  <1>3. \A n \in DOMAIN InSet : InSet[n] \in Receiver
    BY <1>2
  <1>4. \A n \in DOMAIN InSet : InSet[n].chan \in Chan
    BY <1>3 DEF Receiver
  <1>5. (real = <<>> => InSet = receivers) /\ (receivers = <<>> => InSet = real)
    BY <1>1 DEF InSet
  <1> QED
    BY <1>2, <1>4, <1>5

\* A receiver's mark changes; its channel does not.
LEMMA MarkSet ==
    ASSUME SetTyped, UNCHANGED real, NEW n, receivers' = [receivers EXCEPT ![n].closed = TRUE]
    PROVE  SetTyped' => SameSet
  <1> SUFFICES ASSUME SetTyped' PROVE SameSet
    OBVIOUS
  <1>1. /\ real \in Seq(Receiver) /\ receivers \in Seq(Receiver)
        /\ DOMAIN receivers' = DOMAIN receivers
        /\ \A k \in DOMAIN receivers : receivers'[k].chan = receivers[k].chan
    BY DEF SetTyped, Receiver
  <1>2. receivers' \in Seq(Receiver) /\ Len(receivers') = Len(receivers)
    BY <1>1 DEF SetTyped
  <1> QED
    BY <1>1, <1>2 DEF SameSet, InSet

LEMMA ReportSet ==
    ASSUME SetTyped, UNCHANGED receivers, NEW n, real' = [real EXCEPT ![n].closed = TRUE]
    PROVE  SetTyped' => SameSet
  <1> SUFFICES ASSUME SetTyped' PROVE SameSet
    OBVIOUS
  <1>1. /\ real \in Seq(Receiver) /\ receivers \in Seq(Receiver)
        /\ DOMAIN real' = DOMAIN real
        /\ \A k \in DOMAIN real : real'[k].chan = real[k].chan
    BY DEF SetTyped, Receiver
  <1>2. real' \in Seq(Receiver) /\ Len(real') = Len(real)
    BY <1>1 DEF SetTyped
  <1> QED
    BY <1>1, <1>2 DEF SameSet, InSet

LEMMA MoveSet ==
    ASSUME SetTyped, receivers # <<>>, real' = Append(real, receivers[1]), receivers' = Tail(receivers)
    PROVE  InSet' = InSet /\ real' \in Seq(Receiver) /\ receivers' \in Seq(Receiver)
  <1>1. real \in Seq(Receiver) /\ receivers \in Seq(Receiver)
    BY DEF SetTyped
  <1>2. receivers[1] \in Receiver /\ Tail(receivers) \in Seq(Receiver)
    BY <1>1
  <1>3. InSet' \in Seq(Receiver) /\ InSet \in Seq(Receiver)
    BY <1>1, <1>2 DEF InSet
  <1>4. Len(InSet') = Len(InSet)
    BY <1>1, <1>2 DEF InSet
  <1>5. \A n \in 1 .. Len(InSet) : InSet'[n] = InSet[n]
    BY <1>1, <1>2 DEF InSet
  <1> QED
    BY <1>1, <1>2, <1>3, <1>4, <1>5

LEMMA KeptSet ==
    ASSUME UNCHANGED <<real, receivers>>
    PROVE  SameSet
  BY DEF SameSet, InSet

\* Nothing new is logged.
LEMMA KeepsLogIndexed ==
    ASSUME LogIndexed, UNCHANGED <<mode, log>>, open' => open, Grows
    PROVE  LogIndexed'
  BY DEF LogIndexed, AddsLogged, Grows

\* An entry is written: for an add, if there was one, and for known events if it is for a select.
LEMMA WriteLogIndexed ==
    ASSUME LogIndexed, LogTyped, NEW entry \in Entry, WriteEntry(entry),
           \A i \in DOMAIN hist' : IsAdd(hist'[i]) =>
               (i \in DOMAIN hist /\ hist'[i] = hist[i]) \/ (IsAdd(entry) /\ entry.index = hist'[i].index),
           entry.op = "select" => \A e \in DOMAIN entry.events :
               \E i \in DOMAIN hist : IsAdd(hist[i]) /\ hist[i].index = entry.events[e].index
    PROVE  LogIndexed'
  <1> DEFINE l == Len(log) + 1
  <1>1. log' = Append(log, entry) /\ UNCHANGED <<mode, open>> /\ mode = "Record" /\ open
    BY DEF WriteEntry
  <1>2. /\ \A k \in DOMAIN log : k \in DOMAIN log' /\ log'[k] = log[k]
        /\ l \in DOMAIN log' /\ log'[l] = entry
        /\ \A k \in DOMAIN log' : k \in DOMAIN log \/ k = l
        /\ 1 .. l - 1 = DOMAIN log
        /\ \A k \in DOMAIN log : \A j \in 1 .. k - 1 : j \in DOMAIN log
    BY <1>1 DEF LogTyped
  <1>3. AddsLogged(hist, log)
    BY <1>1 DEF LogIndexed
  <1> HIDE DEF l
  <1>4. AddsLogged(hist', log')
    BY <1>2, <1>3 DEF AddsLogged
  <1>5. AddedFirst(log')
    <2> SUFFICES ASSUME NEW k \in DOMAIN log', log'[k].op = "select", NEW e \in DOMAIN log'[k].events
                 PROVE  \E j \in 1 .. k - 1 : IsAdd(log'[j]) /\ log'[j].index = log'[k].events[e].index
      BY DEF AddedFirst
    <2>1. CASE k \in DOMAIN log
      BY <1>2, <2>1 DEF LogIndexed, AddedFirst
    <2>2. CASE k = l
      <3>1. PICK i \in DOMAIN hist : IsAdd(hist[i]) /\ hist[i].index = entry.events[e].index
        BY <1>2, <2>2
      <3>2. PICK j \in DOMAIN log : IsAdd(log[j]) /\ log[j].index = hist[i].index
        BY <1>3, <3>1 DEF AddsLogged
      <3> QED
        BY <1>2, <2>2, <3>1, <3>2
    <2> QED
      BY <1>2, <2>1, <2>2
  <1> QED
    BY <1>4, <1>5 DEF LogIndexed

-----------------------------------------------------------------------------
(* The kinds of steps that keep the invariant. *)

\* Between events there is nothing in the loops of select.
LEMMA Quiet ==
    ASSUME Inside, ~At("replay"), ~At("select"), ~At("drain")
    PROVE  todo = <<>> /\ got = <<>>
  BY DEF Inside

LEMMA OutsideInside ==
    ASSUME at' \in {"idle", "desync"} \/ status' # "running", todo' = <<>>, got' = <<>>
    PROVE  Inside'
  BY DEF Inside, At

\* What a step may do with the log that is not about adds and selects.
LogMoves ==
    \/ UNCHANGED logVars
    \/ TakeEntry /\ ~IsAdd(NextEntry)
    \/ \E entry \in Entry : WriteEntry(entry) /\ entry.op # "select"

LEMMA LogMovesTyped ==
    ASSUME LogTyped, LogIndexed, Grows, LogMoves
    PROVE  LogTyped' /\ LogIndexed' /\ mode' = mode /\ open' = open /\ (mode = "Record" => next' = next)
  <1>1. CASE UNCHANGED logVars
    BY <1>1, LogKept, KeepsLogIndexed DEF logVars
  <1>2. CASE TakeEntry
    BY <1>2, TakeTyped, KeepsLogIndexed DEF TakeEntry, HasEntry
  <1>3. ASSUME NEW entry \in Entry, WriteEntry(entry), entry.op # "select"
        PROVE  LogTyped' /\ LogIndexed' /\ mode' = mode /\ open' = open /\ next' = next
    <2>1. LogTyped' /\ mode' = mode /\ open' = open /\ next' = next
      BY <1>3, WriteTyped DEF WriteEntry
    <2>2. LogIndexed'
      BY <1>3, WriteLogIndexed DEF Grows
    <2> QED
      BY <2>1, <2>2
  <1> QED
    BY <1>1, <1>2, <1>3 DEF LogMoves

\* The entries taken have receivers, as long as this is promised.
LEMMA KeepsRepeated ==
    ASSUME TypeOK, Repeated, LogMoves, DOMAIN receivers \subseteq DOMAIN receivers', todo' = <<>>,
           desynced => desynced', status = "panicked" => status' = "panicked"
    PROVE  Repeated'
  <1> SUFFICES ASSUME mode' = "Replay", ~desynced', status' # "panicked", NEW k \in 1 .. next'
               PROVE  k \in DOMAIN log' /\ (IsAdd(log'[k]) => log'[k].index \in DOMAIN receivers')
    BY DEF Repeated
  <1>1. next \in Nat /\ log \in Seq(Entry)
    BY TypeParts DEF LogTyped
  <1>2. CASE UNCHANGED logVars
    BY <1>2 DEF Repeated, logVars
  <1>3. CASE TakeEntry /\ ~IsAdd(NextEntry)
    <2>1. next' = next + 1 /\ log' = log /\ mode' = mode /\ next + 1 \in DOMAIN log /\ log[next + 1] = NextEntry
      BY <1>3, NextEntryTyped DEF TakeEntry, NextEntry
    <2>2. k \in 1 .. next \/ k = next + 1
      BY <1>1, <2>1
    <2> QED
      BY <1>3, <2>1, <2>2 DEF Repeated
  <1>4. CASE \E entry \in Entry : WriteEntry(entry) /\ entry.op # "select"
    BY <1>4 DEF WriteEntry
  <1> QED
    BY <1>2, <1>3, <1>4 DEF LogMoves

\* In none of the loops, and not with the receivers on the move.
Outside ==
    /\ status = "running"
    /\ at \in {"idle", "receive"} \/ (at = "desync" /\ Op.kind \notin {"select", "add"})

LEMMA OutsideFacts ==
    ASSUME TypeInv, Outside
    PROVE  todo = <<>> /\ got = <<>> /\ (mode = "Replay" /\ ~moved => real = <<>>)
  BY Quiet DEF TypeInv, Outside, At, Modes

\* An operation returns.
LEMMA ReturnStep ==
    ASSUME TypeInv, Outside, NEW obs \in ResultType, obs.op \notin {"add", "event"}, Return(obs),
           LogMoves, ChanTyped', created' \in Nat,
           UNCHANGED <<runVars, desynced, setVars, selectVars>>
    PROVE  TypeInv'
  <1>1. todo = <<>> /\ got = <<>> /\ todo' = <<>> /\ got' = <<>> /\ (mode = "Replay" /\ ~moved => real = <<>>)
    BY OutsideFacts DEF selectVars
  <1>2. ThreadTyped' /\ at' = "idle" /\ status' = status /\ hist' = Append(hist, obs)
    BY ReturnTyped, TypeParts DEF TypeInv, Return
  <1>3. Grows /\ NoNewEvents
    BY <1>2, AppendGrows, TypeParts DEF TypeInv
  <1>4. LogTyped' /\ LogIndexed' /\ mode' = mode /\ open' = open /\ (mode = "Record" => next' = next)
    BY <1>3, LogMovesTyped, TypeParts DEF TypeInv
  <1>5. SetTyped' /\ SelectTyped' /\ RunTyped'
    BY <1>1, SetKept, RunKept, TypeParts DEF TypeInv, SelectTyped
  <1>6. TypeOK'
    BY <1>2, <1>4, <1>5, TypeParts
  <1>7. Inside'
    BY <1>1, <1>2, OutsideInside
  <1>8. Modes'
    BY <1>1, <1>2, <1>4 DEF TypeInv, Modes, At, setVars
  <1>9. HistIndexed'
    <2>1. KnownEvents /\ SameSet /\ status # "panicked"
      BY <1>1, KeptSet DEF KnownEvents, setVars, Outside
    <2> QED
      BY <1>3, <2>1, KeepsHistIndexed DEF TypeInv
  <1>10. Repeated'
    BY <1>1, <1>2, KeepsRepeated DEF TypeInv, setVars
  <1> QED
    BY <1>4, <1>6, <1>7, <1>8, <1>9, <1>10 DEF TypeInv

\* The thread desyncs, or panics because of it.
LEMMA DesyncStep ==
    ASSUME TypeInv, status # "panicked", HandleDesync, mode = "Record" => ~open,
           UNCHANGED logVars \/ TakeEntry, ChanTyped', SetTyped',
           SameSet, UNCHANGED <<runVars, real, moved, created>>, mode = "Record" \/ moved => receivers' = receivers,
           mode = "Replay" /\ ~moved => real = <<>>, todo' = <<>>, got' = <<>>
    PROVE  TypeInv'
  <1>1. /\ ThreadTyped' /\ hist' = hist
        /\ \/ status' = "panicked" /\ desynced' = desynced
           \/ status' = "running" /\ at' = "desync" /\ desynced' = TRUE
    BY DesyncTyped, TypeParts DEF TypeInv
  <1>2. Grows /\ NoNewEvents
    BY <1>1, SameGrows
  <1>3. /\ LogTyped' /\ LogIndexed' /\ mode' = mode /\ open' = open
        /\ (mode = "Record" => next' = next)
    BY <1>2, LogKept, TakeTyped, KeepsLogIndexed, TypeParts DEF TypeInv, logVars, TakeEntry, HasEntry
  <1>4. SelectTyped' /\ RunTyped'
    BY RunKept, TypeParts DEF TypeInv, SelectTyped
  <1>5. TypeOK'
    BY <1>1, <1>3, <1>4, TypeParts
  <1>6. Inside'
    BY <1>1, OutsideInside
  <1>7. Modes'
    BY <1>1, <1>3 DEF TypeInv, Modes, At
  <1>8. HistIndexed'
    <2>1. KnownEvents
      BY DEF KnownEvents
    <2> QED
      BY <1>2, <2>1, KeepsHistIndexed DEF TypeInv
  <1>9. Repeated'
    BY <1>1 DEF Repeated
  <1> QED
    BY <1>3, <1>5, <1>6, <1>7, <1>8, <1>9 DEF TypeInv

\* The thread panics, and nothing more can happen to its receivers.
LEMMA PanicStep ==
    ASSUME TypeInv, Panic, LogTyped', LogIndexed', ChanTyped', SetTyped', created' \in Nat,
           UNCHANGED <<runVars, desynced, moved, mode, open>>, mode = "Record" => next' = next,
           mode = "Record" \/ moved => receivers' = receivers, todo' = <<>>, got' = <<>>
    PROVE  TypeInv'
  <1>1. ThreadTyped' /\ status' = "panicked" /\ hist' = hist
    BY PanicTyped, TypeParts DEF TypeInv
  <1>2. SelectTyped' /\ RunTyped'
    BY RunKept, TypeParts DEF TypeInv, SelectTyped
  <1>3. TypeOK'
    BY <1>1, <1>2, TypeParts
  <1>4. Inside'
    BY <1>1, OutsideInside
  <1>5. Modes'
    BY <1>1 DEF TypeInv, Modes, At
  <1>6. HistIndexed'
    <2>1. KnownEvents
      BY DEF KnownEvents
    <2> QED
      BY <1>1, <2>1, SameGrows, KeepsHistIndexed DEF TypeInv
  <1>7. Repeated'
    BY <1>1 DEF Repeated
  <1> QED
    BY <1>3, <1>4, <1>5, <1>6, <1>7 DEF TypeInv

\* The events so far are returned.
LEMMA EventsStep ==
    ASSUME TypeInv, At("select") \/ At("drain") \/ At("replay"), ReturnEvents,
           LogTyped', LogIndexed', ChanTyped', todo' = <<>>,
           UNCHANGED <<mode, open, next, log>> \/ (UNCHANGED <<mode, open, next>> /\ mode = "Record"),
           UNCHANGED <<runVars, desynced, setVars, created>>
    PROVE  TypeInv'
  <1>1. /\ hist' = Append(hist \o got, Selected) /\ at' = "idle" /\ want' = NoWant /\ got' = <<>>
        /\ status' = status /\ status = "running"
    BY DEF ReturnEvents, At
  <1>2. Grows /\ NoNewEvents
    BY <1>1, EventsGrow, TypeParts DEF TypeInv
  <1>3. ThreadTyped'
    <2>1. hist \in Seq(ResultType) /\ got \in Seq(ResultType) /\ Selected \in ResultType
      BY SelectedTyped, TypeParts DEF TypeInv, ThreadTyped, SelectTyped
    <2>2. hist' \in Seq(ResultType)
      BY <1>1, <2>1
    <2> QED
      BY <1>1, <2>2, TypeParts DEF TypeInv, ThreadTyped, Want
  <1>4. SetTyped' /\ SelectTyped' /\ RunTyped'
    BY <1>1, SetKept, RunKept, TypeParts DEF TypeInv, SelectTyped
  <1>5. TypeOK'
    BY <1>3, <1>4, TypeParts
  <1>6. Inside'
    BY <1>1, OutsideInside
  <1>7. Modes'
    BY <1>1 DEF TypeInv, Modes, At, setVars
  <1>8. HistIndexed'
    <2>1. KnownEvents /\ SameSet /\ status # "panicked"
      BY <1>1, KeptSet DEF KnownEvents, setVars
    <2> QED
      BY <1>2, <2>1, KeepsHistIndexed DEF TypeInv
  <1>9. Repeated'
    BY <1>1 DEF TypeInv, Repeated, setVars
  <1> QED
    BY <1>5, <1>6, <1>7, <1>8, <1>9 DEF TypeInv

\* One more event, of a receiver with this index.
LEMMA EventStep ==
    ASSUME TypeInv, At("select") \/ At("drain") \/ At("replay"),
           NEW e \in ResultType, e.op = "event", e.index \in DOMAIN InSet, e.chan = InSet[e.index].chan,
           got' = Append(got, e), todo' = todo \/ (todo # <<>> /\ todo' = Tail(todo)),
           ChanTyped', SetTyped', SameSet, Len(real') = Len(real), DOMAIN receivers' = DOMAIN receivers,
           UNCHANGED <<logVars, threadVars, runVars, desynced, moved, created>>
    PROVE  TypeInv'
  <1>1. LogTyped' /\ ThreadTyped' /\ RunTyped'
    <2>1. desynced' \in BOOLEAN
      BY TypeParts DEF TypeInv, ThreadTyped
    <2> QED
      BY <2>1, LogKept, ThreadKept, RunKept, TypeParts DEF TypeInv
  <1>2. todo' \in Seq(SelectEvent) /\ \A k \in DOMAIN todo' : \E l \in DOMAIN todo : todo'[k] = todo[l]
    <2>1. todo \in Seq(SelectEvent)
      BY TypeParts DEF TypeInv, SelectTyped
    <2>2. CASE todo' = todo
      BY <2>1, <2>2
    <2>3. CASE todo # <<>> /\ todo' = Tail(todo)
      BY <2>1, <2>3, HeadAndTail
    <2> QED
      BY <2>2, <2>3
  <1>3. SelectTyped'
    BY <1>2, TypeParts DEF TypeInv, SelectTyped
  <1>4. TypeOK'
    BY <1>1, <1>3, TypeParts
  <1>5. e.index \in Index
    <2>1. InSet \in Seq(Receiver)
      BY SetParts, TypeParts DEF TypeInv
    <2> QED
      BY <2>1 DEF Index
  <1>6. \A k \in DOMAIN got' : (k \in DOMAIN got /\ got'[k] = got[k]) \/ got'[k] = e
    <2>1. got \in Seq(ResultType)
      BY TypeParts DEF TypeInv, SelectTyped
    <2> QED
      BY <2>1
  <1>7. Inside'
    <2>1. \A k \in DOMAIN got' : got'[k].op = "event" /\ got'[k].index \in Index
      BY <1>5, <1>6 DEF TypeInv, Inside
    <2>2. todo' # <<>> => todo # <<>>
      OBVIOUS
    <2> QED
      BY <2>1, <2>2 DEF TypeInv, Inside, At, threadVars
  <1>8. Modes'
    <2>1. /\ receivers = <<>> => receivers' = <<>>
          /\ real' # <<>> => real # <<>>
      BY TypeParts DEF TypeInv, SetTyped
    <2> QED
      BY <2>1 DEF TypeInv, Modes, At, threadVars, logVars, runVars, Op
  <1>9. HistIndexed'
    <2>1. Numbered(hist, InSet) /\ status # "panicked"
      BY DEF TypeInv, HistIndexed, At
    <2>2. OfAdd(e, hist)
      BY <2>1 DEF Numbered, OfAdd
    <2>3. KnownEvents
      BY <1>6, <2>2 DEF KnownEvents
    <2> QED
      BY <2>1, <2>3, SameGrows, KeepsHistIndexed DEF TypeInv, threadVars
  <1>10. LogIndexed'
    BY SameGrows, KeepsLogIndexed DEF TypeInv, threadVars, logVars
  <1>11. Repeated'
    BY <1>2 DEF TypeInv, Repeated, logVars, threadVars
  <1> QED
    BY <1>4, <1>7, <1>8, <1>9, <1>10, <1>11 DEF TypeInv

\* Only channels change, and what can be said of the thread's place.
LEMMA StillStep ==
    ASSUME TypeInv, ChanTyped', UNCHANGED <<logVars, threadVars, runVars, setVars, selectVars, created>>,
           desynced' = desynced \/ (desynced' = TRUE /\ mode = "Replay")
    PROVE  TypeInv'
  <1>1. LogTyped' /\ ThreadTyped' /\ RunTyped' /\ SetTyped' /\ SelectTyped'
    <2>1. desynced' \in BOOLEAN
      BY TypeParts DEF TypeInv, ThreadTyped
    <2> QED
      BY <2>1, LogKept, ThreadKept, RunKept, SetKept, SelectKept, TypeParts DEF TypeInv
  <1>2. TypeOK'
    BY <1>1, TypeParts
  <1>3. Inside' /\ Modes'
    BY DEF TypeInv, Inside, Modes, At, Op, threadVars, selectVars, runVars, setVars, logVars
  <1>4. HistIndexed'
    <2>1. KnownEvents /\ SameSet
      BY KeptSet DEF KnownEvents, setVars, selectVars
    <2> QED
      BY <2>1, SameGrows, KeepsHistIndexed DEF TypeInv, threadVars
  <1>5. LogIndexed'
    BY SameGrows, KeepsLogIndexed DEF TypeInv, threadVars, logVars
  <1>6. Repeated'
    BY DEF TypeInv, Repeated, logVars, threadVars, selectVars, setVars
  <1> QED
    BY <1>2, <1>3, <1>4, <1>5, <1>6 DEF TypeInv

-----------------------------------------------------------------------------
(* Each step keeps the invariant: channels, adds. *)

\* A panic in front of the log, which may have been asked for an entry.
LEMMA PanicAtLog ==
    ASSUME TypeInv, Outside \/ At("desync"), Panic, UNCHANGED logVars \/ TakeEntry,
           ChanTyped', SetTyped', created' \in Nat,
           UNCHANGED <<runVars, desynced, moved, selectVars>>, mode = "Record" \/ moved => receivers' = receivers
    PROVE  TypeInv'
  <1>1. todo' = <<>> /\ got' = <<>>
    BY Quiet DEF TypeInv, Outside, At, selectVars
  <1>2. Grows
    BY SameGrows DEF Panic
  <1>3. LogTyped' /\ LogIndexed' /\ UNCHANGED <<mode, open>> /\ (mode = "Record" => next' = next)
    BY <1>2, LogKept, TakeTyped, KeepsLogIndexed, TypeParts DEF TypeInv, logVars, TakeEntry, HasEntry
  <1> QED
    BY <1>1, <1>3, PanicStep

LEMMA CreateChannelTyped ==
    ASSUME TypeInv, CreateChannel
    PROVE  TypeInv'
  <1>1. /\ Outside
        /\ created' = created + 1
        /\ UNCHANGED <<chanVars, runVars, desynced, setVars, selectVars>>
    BY DEF CreateChannel, Calls, At, Outside
  <1>2. created \in Nat /\ created' \in Nat /\ ChanTyped' /\ SetTyped'
    BY <1>1, ChanKept, SetKept, TypeParts DEF TypeInv, SelectTyped
  <1>3. Created \in ResultType /\ Created.op = "channel" /\ EntryFor(Created) \in Entry /\ EntryFor(Created).op = "channel"
    BY <1>2, CreatedTyped
  <1>4. CASE WriteEntry(EntryFor(Created)) /\ Return(Created)
    <2>1. LogMoves
      BY <1>3, <1>4 DEF LogMoves
    <2> QED
      BY <1>1, <1>2, <1>3, <1>4, <2>1, ReturnStep
  <1>5. CASE TakeEntry /\ NextEntry = EntryFor(Created) /\ Return(Created)
    <2>1. LogMoves
      BY <1>3, <1>5 DEF LogMoves, IsAdd
    <2> QED
      BY <1>1, <1>2, <1>3, <1>5, <2>1, ReturnStep
  <1>6. CASE Panic /\ (TakeEntry \/ UNCHANGED logVars)
    BY <1>1, <1>2, <1>6, PanicAtLog DEF setVars
  <1> QED
    BY <1>4, <1>5, <1>6 DEF CreateChannel

\* What all adds have in common.
LEMMA AddCommon ==
    ASSUME WellFormedProgram, TypeInv, status = "running", at \in {"idle", "desync"}, Op.kind = "add",
           ToOpaque, Return(Added), UNCHANGED <<runVars, desynced, moved, selectVars, created>>,
           NewIndex = Len(InSet) + 1,
           \/ /\ receivers = <<>> /\ receivers' = receivers
              /\ real' = Append(real, [chan |-> Op.chan, closed |-> FALSE])
           \/ /\ real = <<>> /\ real' = real
              /\ receivers' = Append(receivers, [chan |-> Op.chan, closed |-> FALSE])
    PROVE  /\ NewIndex \in Nat \ {0} /\ Op.chan \in Chan
           /\ EntryFor(Added) \in Entry /\ IsAdd(EntryFor(Added)) /\ EntryFor(Added).index = NewIndex
           /\ ThreadTyped' /\ ChanTyped' /\ SetTyped' /\ SelectTyped' /\ RunTyped'
           /\ Inside' /\ HistIndexed'
           /\ at' = "idle" /\ status' = status /\ todo' = <<>>
           /\ Len(InSet') = NewIndex
           /\ \A i \in DOMAIN hist' : IsAdd(hist'[i]) =>
                 (i \in DOMAIN hist /\ hist'[i] = hist[i]) \/ EntryFor(Added).index = hist'[i].index
  <1> DEFINE c == Op.chan
             r == [chan |-> c, closed |-> FALSE]
             n == NewIndex
  <1>1. c \in Chan
    BY OpShape DEF TypeInv
  <1>2. InSet \in Seq(Receiver) /\ n \in Nat \ {0}
    BY SetParts, TypeParts DEF TypeInv
  <1>3. todo = <<>> /\ got = <<>> /\ UNCHANGED <<todo, got>>
    BY Quiet DEF TypeInv, At, selectVars
  <1>4. Added = Failure("add", n, c, "none")
    BY DEF Added
  <1>5. r \in Receiver
    BY <1>1 DEF Receiver
  <1>6. SetTyped' /\ InSet' = Append(InSet, r)
    <2>1. real \in Seq(Receiver) /\ receivers \in Seq(Receiver) /\ moved \in BOOLEAN
      BY TypeParts DEF TypeInv, SetTyped
    <2>2. \/ receivers = <<>> /\ receivers' = receivers /\ real' = Append(real, r)
          \/ real = <<>> /\ real' = real /\ receivers' = Append(receivers, r)
      OBVIOUS
    <2> HIDE DEF r
    <2>3. CASE receivers = <<>> /\ receivers' = receivers /\ real' = Append(real, r)
      BY <1>5, <2>1, <2>3 DEF InSet, SetTyped
    <2>4. CASE real = <<>> /\ real' = real /\ receivers' = Append(receivers, r)
      BY <1>5, <2>1, <2>4 DEF InSet, SetTyped
    <2> QED
      BY <2>2, <2>3, <2>4
  <1> HIDE DEF c, r, n
  <1>7. /\ Added \in ResultType
        /\ Added.op = "add" /\ Added.index = n /\ Added.chan = c
        /\ EntryFor(Added) \in Entry /\ EntryFor(Added).op = "add" /\ EntryFor(Added).index = n
    BY <1>1, <1>2, <1>4, AddedTyped
  <1>8. ThreadTyped' /\ at' = "idle" /\ status' = status /\ hist' = Append(hist, Added)
    BY <1>7, ReturnTyped, TypeParts DEF TypeInv, Return
  <1>9. HistIndexed'
    <2>1. HistIndexed /\ ThreadTyped /\ SetTyped /\ status # "panicked"
      BY TypeParts DEF TypeInv
    <2>2. Added.index = Len(InSet) + 1 /\ FALSE \in BOOLEAN /\ Added.chan \in Chan
      BY <1>1, <1>7 DEF n
    <2>3. InSet' = Append(InSet, [chan |-> Added.chan, closed |-> FALSE])
      BY <1>6, <1>7 DEF r
    <2> QED
      BY <1>3, <1>7, <1>8, <2>1, <2>2, <2>3, AddHistIndexed
  <1>10. ChanTyped'
    BY <1>1, OpaqueTyped, TypeParts DEF TypeInv, c
  <1>11. SelectTyped' /\ RunTyped' /\ Inside'
    BY <1>3, <1>8, SelectKept, RunKept, OutsideInside, TypeParts DEF TypeInv
  <1>12. \A i \in DOMAIN hist' : (i \in DOMAIN hist /\ hist'[i] = hist[i]) \/ hist'[i] = Added
    <2>1. hist \in Seq(ResultType)
      BY TypeParts DEF TypeInv, ThreadTyped
    <2> QED
      BY <1>8, <2>1
  <1>13. Len(InSet') = n
    BY <1>2, <1>5, <1>6 DEF n
  <1> QED
    BY <1>1, <1>2, <1>3, <1>6, <1>7, <1>8, <1>9, <1>10, <1>11, <1>12, <1>13 DEF n, c, IsAdd

LEMMA RecordAddTyped ==
    ASSUME WellFormedProgram, TypeInv, RecordAdd
    PROVE  TypeInv'
  <1>1. /\ mode = "Record" /\ receivers = <<>> /\ receivers' = receivers /\ next = 0 /\ ~moved
        /\ status = "running" /\ at = "idle" /\ Op.kind = "add"
        /\ ToOpaque
        /\ real' = Append(real, [chan |-> Op.chan, closed |-> FALSE])
        /\ UNCHANGED <<runVars, desynced, moved, selectVars, created>>
    BY DEF RecordAdd, Calls, At, TypeInv, Modes
  <1>2. NewIndex = Len(InSet) + 1
    BY <1>1, SetParts, TypeParts DEF NewIndex, TypeInv
  <1>3. CASE WriteEntry(EntryFor(Added)) /\ Return(Added)
    <2> HIDE DEF Added
    <2>1. /\ EntryFor(Added) \in Entry /\ IsAdd(EntryFor(Added))
          /\ ThreadTyped' /\ ChanTyped' /\ SetTyped' /\ SelectTyped' /\ RunTyped'
          /\ Inside' /\ HistIndexed'
          /\ at' = "idle" /\ todo' = <<>>
          /\ \A i \in DOMAIN hist' : IsAdd(hist'[i]) =>
                (i \in DOMAIN hist /\ hist'[i] = hist[i]) \/ EntryFor(Added).index = hist'[i].index
      BY <1>1, <1>2, <1>3, AddCommon
    <2>2. LogTyped'
      BY <1>3, <2>1, WriteTyped, TypeParts DEF TypeInv
    <2>3. TypeOK'
      BY <2>1, <2>2, TypeParts
    <2>4. LogIndexed'
      BY <1>3, <2>1, WriteLogIndexed, TypeParts DEF TypeInv, IsAdd
    <2>5. UNCHANGED <<mode, open, next>>
      BY <1>3 DEF WriteEntry
    <2>6. Modes' /\ Repeated'
      BY <1>1, <2>1, <2>5 DEF TypeInv, Modes, Repeated, At
    <2> QED
      BY <2>1, <2>3, <2>4, <2>6 DEF TypeInv
  <1>4. CASE Panic /\ UNCHANGED logVars
    <2>1. ChanTyped' /\ created' \in Nat /\ Op.chan \in Chan
      BY <1>1, OpShape, OpaqueTyped, TypeParts DEF TypeInv, SelectTyped
    <2>2. SetTyped'
      <3>1. [chan |-> Op.chan, closed |-> FALSE] \in Receiver
        BY <2>1 DEF Receiver
      <3> QED
        BY <1>1, <3>1, TypeParts DEF TypeInv, SetTyped
    <2>3. Outside
      BY <1>1 DEF Outside
    <2> QED
      BY <1>1, <1>4, <2>1, <2>2, <2>3, PanicAtLog
  <1> QED
    BY <1>3, <1>4 DEF RecordAdd

LEMMA ReplayAddTyped ==
    ASSUME WellFormedProgram, TypeInv, ReplayAdd
    PROVE  TypeInv'
  <1>1. /\ mode = "Replay" /\ ~desynced /\ ~moved /\ real = <<>> /\ real' = real
        /\ status = "running" /\ at = "idle" /\ Op.kind = "add"
        /\ ToOpaque
        /\ receivers' = Append(receivers, [chan |-> Op.chan, closed |-> FALSE])
        /\ UNCHANGED <<runVars, desynced, moved, selectVars, created>>
    BY DEF ReplayAdd, Calls, At, TypeInv, Modes
  <1>2. NewIndex = Len(InSet) + 1 /\ Len(receivers) + 1 = NewIndex
    BY <1>1, SetParts, TypeParts DEF NewIndex, TypeInv
  <1>3. CASE TakeEntry /\ NextEntry = EntryFor(Added) /\ Return(Added)
    <2>1. /\ NewIndex \in Nat \ {0} /\ Op.chan \in Chan
          /\ EntryFor(Added).index = NewIndex
          /\ ThreadTyped' /\ ChanTyped' /\ SetTyped' /\ SelectTyped' /\ RunTyped'
          /\ Inside' /\ HistIndexed'
          /\ at' = "idle" /\ status' = status /\ todo' = <<>>
      BY <1>1, <1>2, <1>3, AddCommon
    <2>2. LogTyped' /\ UNCHANGED <<mode, log, open>> /\ next' = next + 1 /\ next + 1 \in DOMAIN log
      BY <1>3, TakeTyped, NextEntryTyped, TypeParts DEF TypeInv, TakeEntry
    <2>3. TypeOK'
      BY <2>1, <2>2, TypeParts
    <2>4. LogIndexed'
      BY <2>2, <1>1 DEF TypeInv, LogIndexed, Modes
    <2>5. Modes'
      BY <1>1, <2>1, <2>2 DEF TypeInv, Modes, At
    <2>6. Repeated'
      <3>1. receivers \in Seq(Receiver) /\ receivers' \in Seq(Receiver) /\ next \in Nat
        BY <2>1, TypeParts DEF TypeInv, SetTyped, LogTyped
      <3>2. /\ DOMAIN receivers \subseteq DOMAIN receivers'
            /\ NewIndex \in DOMAIN receivers'
        BY <1>1, <1>2, <3>1
      <3>3. \A k \in 1 .. next' : k \in 1 .. next \/ k = next + 1
        BY <2>2, <3>1
      <3>4. log[next + 1].index = NewIndex
        BY <1>3, <2>1 DEF NextEntry
      <3> QED
        BY <1>1, <2>1, <2>2, <3>2, <3>3, <3>4 DEF TypeInv, Repeated
    <2> QED
      BY <2>1, <2>3, <2>4, <2>5, <2>6 DEF TypeInv
  <1>4. CASE Panic /\ (TakeEntry \/ UNCHANGED logVars)
    <2>1. ChanTyped' /\ created' \in Nat /\ Op.chan \in Chan
      BY <1>1, OpShape, OpaqueTyped, TypeParts DEF TypeInv, SelectTyped
    <2>2. SetTyped'
      <3>1. [chan |-> Op.chan, closed |-> FALSE] \in Receiver
        BY <2>1 DEF Receiver
      <3> QED
        BY <1>1, <3>1, TypeParts DEF TypeInv, SetTyped
    <2>3. Outside
      BY <1>1 DEF Outside
    <2> QED
      BY <1>1, <1>4, <2>1, <2>2, <2>3, PanicAtLog
  <1> QED
    BY <1>3, <1>4 DEF ReplayAdd

LEMMA DesyncAddTyped ==
    ASSUME WellFormedProgram, TypeInv, DesyncAdd
    PROVE  TypeInv'
  <1>1. /\ moved /\ desynced /\ receivers = <<>> /\ receivers' = receivers
        /\ status = "running" /\ at = "desync" /\ Op.kind = "add"
        /\ ToOpaque /\ Return(Added)
        /\ real' = Append(real, [chan |-> Op.chan, closed |-> FALSE])
        /\ UNCHANGED <<logVars, runVars, desynced, moved, selectVars, created>>
    BY DEF DesyncAdd, At, TypeInv, Modes
  <1>2. NewIndex = Len(InSet) + 1
    BY <1>1, SetParts, TypeParts DEF NewIndex, TypeInv
  <1>3. /\ ThreadTyped' /\ ChanTyped' /\ SetTyped' /\ SelectTyped' /\ RunTyped'
        /\ Inside' /\ HistIndexed'
        /\ at' = "idle" /\ todo' = <<>>
    BY <1>1, <1>2, AddCommon
  <1>4. LogTyped'
    BY <1>1, LogKept, TypeParts DEF TypeInv
  <1>5. TypeOK'
    BY <1>3, <1>4, TypeParts
  <1>6. mode = "Replay" => ~open
    BY DEF TypeInv, Modes
  <1>7. LogIndexed' /\ Modes' /\ Repeated'
    BY <1>1, <1>3, <1>6 DEF TypeInv, LogIndexed, Modes, Repeated, At, logVars
  <1> QED
    BY <1>3, <1>5, <1>7 DEF TypeInv

-----------------------------------------------------------------------------
(* Each step keeps the invariant: the beginning and the end of a select. *)

LEMMA DesyncedTyped ==
    ASSUME TypeInv, Desynced
    PROVE  TypeInv'
  <1>1. /\ Outside /\ at = "idle" /\ status = "running" /\ desynced
        /\ HandleDesync
        /\ UNCHANGED <<logVars, chanVars, runVars, setVars, selectVars, created>>
    BY DEF Desynced, Calls, At, Outside
  <1>2. mode = "Record" => ~open
    BY <1>1 DEF TypeInv, Modes
  <1>3. todo' = <<>> /\ got' = <<>> /\ (mode = "Replay" /\ ~moved => real = <<>>)
    BY <1>1, OutsideFacts DEF selectVars
  <1>4. ChanTyped' /\ SetTyped' /\ SameSet
    BY <1>1, ChanKept, SetKept, KeptSet, TypeParts DEF TypeInv, setVars
  <1> QED
    BY <1>1, <1>2, <1>3, <1>4, DesyncStep DEF setVars

\* The thread goes into a loop.
LEMMA EnterTyped ==
    ASSUME TypeInv, status = "running", at \in {"idle", "desync"},
           \/ mode = "Record" /\ at' = "select"
           \/ moved /\ at' \in {"select", "drain"},
           UNCHANGED <<logVars, chanVars, status, want, hist, runVars, desynced, setVars, selectVars, created>>
    PROVE  TypeInv'
  <1>1. todo = <<>> /\ got = <<>> /\ todo' = <<>> /\ got' = <<>>
    BY Quiet DEF TypeInv, At, selectVars
  <1>2. LogTyped' /\ ChanTyped' /\ RunTyped' /\ SetTyped' /\ SelectTyped'
    BY LogKept, ChanKept, RunKept, SetKept, SelectKept, TypeParts DEF TypeInv
  <1>3. ThreadTyped'
    BY TypeParts DEF TypeInv, ThreadTyped
  <1>4. TypeOK'
    BY <1>2, <1>3, TypeParts
  <1>5. Inside' /\ Modes'
    BY <1>1 DEF TypeInv, Inside, Modes, At, Op, runVars, setVars, logVars
  <1>6. HistIndexed'
    <2>1. KnownEvents /\ SameSet
      BY <1>1, KeptSet DEF KnownEvents, setVars
    <2> QED
      BY <2>1, SameGrows, KeepsHistIndexed DEF TypeInv
  <1>7. LogIndexed'
    BY SameGrows, KeepsLogIndexed DEF TypeInv, logVars
  <1>8. Repeated'
    BY <1>1 DEF TypeInv, Repeated, logVars, setVars
  <1> QED
    BY <1>4, <1>5, <1>6, <1>7, <1>8 DEF TypeInv

LEMMA RecordSelectTyped ==
    ASSUME TypeInv, RecordSelect
    PROVE  TypeInv'
  BY EnterTyped DEF RecordSelect, Calls, At

LEMMA DesyncSelectTyped ==
    ASSUME TypeInv, DesyncSelect
    PROVE  TypeInv'
  BY EnterTyped DEF DesyncSelect, At

LEMMA RecordSelectReturnsTyped ==
    ASSUME TypeInv, RecordSelectReturns
    PROVE  TypeInv'
  <1>1. /\ At("select") /\ todo = <<>> /\ todo' = <<>>
        /\ UNCHANGED <<chanVars, runVars, desynced, setVars, todo, created>>
    BY DEF RecordSelectReturns, At, TypeInv, Inside
  <1>2. ChanTyped' /\ SetTyped' /\ created' \in Nat
    BY <1>1, ChanKept, SetKept, TypeParts DEF TypeInv, SelectTyped
  <1>3. CASE WriteEntry(SelectEntry(got)) /\ ReturnEvents
    <2>1. got \in Seq(ResultType) /\ \A k \in DOMAIN got : got[k].index \in Index /\ got[k].op = "event"
      BY TypeParts DEF TypeInv, SelectTyped, Inside
    <2>2. /\ SelectEntry(got) \in Entry
          /\ SelectEntry(got).op = "select"
          /\ DOMAIN SelectEntry(got).events = DOMAIN got
          /\ \A k \in DOMAIN got : SelectEntry(got).events[k].index = got[k].index
      BY <2>1, SelectEntryTyped
    <2>3. LogTyped' /\ mode = "Record" /\ UNCHANGED <<mode, open, next>>
      BY <1>3, <2>2, WriteTyped, TypeParts DEF TypeInv, WriteEntry
    <2>4. Grows
      BY <1>3, EventsGrow, TypeParts DEF TypeInv, ReturnEvents
    <2>5. \A e \in DOMAIN SelectEntry(got).events :
             \E i \in DOMAIN hist : IsAdd(hist[i]) /\ hist[i].index = SelectEntry(got).events[e].index
      BY <2>1, <2>2 DEF TypeInv, HistIndexed, OfAdds
    <2>6. LogIndexed'
      BY <1>3, <2>2, <2>4, <2>5, WriteLogIndexed, TypeParts DEF TypeInv, Grows
    <2> QED
      BY <1>1, <1>2, <1>3, <2>3, <2>6, EventsStep
  <1>4. CASE Panic /\ got' = <<>> /\ UNCHANGED logVars
    <2>1. Grows
      BY <1>4, SameGrows DEF Panic
    <2>2. LogTyped' /\ LogIndexed'
      BY <1>4, <2>1, LogKept, KeepsLogIndexed, TypeParts DEF TypeInv, logVars
    <2> QED
      BY <1>1, <1>2, <1>4, <2>2, PanicStep DEF logVars, setVars
  <1> QED
    BY <1>3, <1>4 DEF RecordSelectReturns

LEMMA SleepTyped ==
    ASSUME TypeInv, NEW kinds, FallAsleep(kinds), UNCHANGED <<setVars, selectVars, created>>
    PROVE  TypeInv'
  <1>1. /\ Outside /\ at = "idle" /\ status' = "asleep" /\ status = "running"
        /\ UNCHANGED <<logVars, chanVars, at, want, hist, runVars, desynced>>
    BY DEF FallAsleep, Calls, At, Outside
  <1>2. todo = <<>> /\ got = <<>> /\ todo' = <<>> /\ got' = <<>> /\ (mode = "Replay" /\ ~moved => real = <<>>)
    BY <1>1, OutsideFacts DEF selectVars
  <1>3. LogTyped' /\ ChanTyped' /\ RunTyped' /\ SetTyped' /\ SelectTyped'
    BY <1>1, LogKept, ChanKept, RunKept, SetKept, SelectKept, TypeParts DEF TypeInv
  <1>4. ThreadTyped'
    BY <1>1, TypeParts DEF TypeInv, ThreadTyped
  <1>5. TypeOK'
    BY <1>3, <1>4, TypeParts
  <1>6. Inside' /\ Modes'
    BY <1>1, <1>2 DEF TypeInv, Inside, Modes, At, runVars, setVars, logVars
  <1>7. HistIndexed'
    <2>1. KnownEvents /\ SameSet
      BY <1>2, KeptSet DEF KnownEvents, setVars
    <2> QED
      BY <1>1, <2>1, SameGrows, KeepsHistIndexed DEF TypeInv
  <1>8. LogIndexed'
    BY <1>1, SameGrows, KeepsLogIndexed DEF TypeInv, logVars
  <1>9. Repeated'
    BY <1>1, <1>2 DEF TypeInv, Repeated, logVars, setVars
  <1> QED
    BY <1>5, <1>6, <1>7, <1>8, <1>9 DEF TypeInv

LEMMA ReplaySelectTyped ==
    ASSUME TypeInv, ReplaySelect
    PROVE  TypeInv'
  <1>1. /\ Outside /\ status = "running" /\ at = "idle" /\ ~desynced
        /\ TakeEntry /\ HasEntry /\ mode = "Replay"
        /\ UNCHANGED <<chanVars, runVars, setVars, got, created>>
    BY DEF ReplaySelect, Calls, At, Outside, TakeEntry, HasEntry
  <1>2. todo = <<>> /\ got = <<>> /\ got' = <<>> /\ ~moved /\ real = <<>>
    BY <1>1, OutsideFacts DEF TypeInv, Modes
  <1>3. LogTyped' /\ ChanTyped' /\ RunTyped' /\ SetTyped' /\ SameSet
    BY <1>1, TakeTyped, ChanKept, RunKept, SetKept, KeptSet, TypeParts DEF TypeInv, setVars
  <1>4. CASE HandleDesync /\ UNCHANGED todo
    BY <1>1, <1>2, <1>3, <1>4, DesyncStep DEF setVars
  <1>5. CASE /\ NextEntry.op = "select"
             /\ todo' = NextEntry.events
             /\ at' = "replay"
             /\ UNCHANGED <<status, want, hist, desynced>>
    <2>1. NextEntry.events \in Seq(SelectEvent) /\ next + 1 \in DOMAIN log /\ NextEntry = log[next + 1]
      BY <1>1, <1>5, NextEntryTyped, EntryShape DEF TypeInv, NextEntry
    <2>2. TypeOK'
      <3>1. ThreadTyped'
        BY <1>5, TypeParts DEF TypeInv, ThreadTyped
      <3>2. todo' \in Seq(SelectEvent)
        BY <1>5, <2>1
      <3>3. SelectTyped'
        BY <1>1, <3>2, TypeParts DEF TypeInv, SelectTyped
      <3> QED
        BY <1>3, <3>1, <3>3, TypeParts
    <2>3. next' = next + 1 /\ UNCHANGED <<mode, log, open>>
      BY <1>1 DEF TakeEntry
    <2>4. Inside' /\ Modes'
      BY <1>1, <1>2, <1>5, <2>3 DEF TypeInv, Inside, Modes, At, setVars
    <2>5. HistIndexed'
      <3>1. KnownEvents
        BY <1>2 DEF KnownEvents
      <3> QED
        BY <1>1, <1>3, <1>5, <3>1, SameGrows, KeepsHistIndexed DEF TypeInv
    <2>6. LogIndexed'
      BY <1>5, <2>3, SameGrows, KeepsLogIndexed DEF TypeInv
    <2>7. Repeated'
      <3>1. next \in Nat
        BY TypeParts DEF TypeInv, LogTyped
      <3>2. \A k \in 1 .. next : k \in DOMAIN log /\ (IsAdd(log[k]) => log[k].index \in DOMAIN receivers)
        BY <1>1 DEF TypeInv, Repeated
      <3>3. ~IsAdd(log[next + 1])
        BY <1>5, <2>1 DEF IsAdd
      <3>4. \A k \in 1 .. next' : k \in 1 .. next \/ k = next + 1
        BY <2>3, <3>1
      <3>5. \A e \in DOMAIN todo' : \E l \in 1 .. next : IsAdd(log[l]) /\ log[l].index = todo'[e].index
        <4>1. (next + 1) - 1 = next
          BY <3>1
        <4>2. \A e \in DOMAIN log[next + 1].events :
                 \E l \in 1 .. (next + 1) - 1 : IsAdd(log[l]) /\ log[l].index = log[next + 1].events[e].index
          BY <1>5, <2>1 DEF TypeInv, LogIndexed, AddedFirst
        <4> QED
          BY <1>5, <2>1, <4>1, <4>2
      <3>6. receivers' = receivers
        BY <1>1 DEF setVars
      <3> QED
        BY <2>1, <2>3, <3>2, <3>3, <3>4, <3>5, <3>6 DEF Repeated
    <2> QED
      BY <2>2, <2>4, <2>5, <2>6, <2>7 DEF TypeInv
  <1> QED
    BY <1>4, <1>5 DEF ReplaySelect

LEMMA SelectReturnsTyped ==
    ASSUME TypeInv, SelectReturns
    PROVE  TypeInv'
  <1>1. Grows
    BY EventsGrow, TypeParts DEF TypeInv, SelectReturns, ReturnEvents
  <1>2. LogTyped' /\ LogIndexed' /\ ChanTyped'
    BY <1>1, LogKept, ChanKept, KeepsLogIndexed, TypeParts DEF TypeInv, SelectReturns, logVars
  <1> QED
    BY <1>2, EventsStep DEF SelectReturns, logVars

LEMMA DesyncSelectReturnsTyped ==
    ASSUME TypeInv, DesyncSelectReturns
    PROVE  TypeInv'
  <1>1. Grows
    BY EventsGrow, TypeParts DEF TypeInv, DesyncSelectReturns, ReturnEvents
  <1>2. LogTyped' /\ LogIndexed' /\ ChanTyped'
    BY <1>1, LogKept, ChanKept, KeepsLogIndexed, TypeParts DEF TypeInv, DesyncSelectReturns, logVars
  <1>3. todo' = <<>>
    BY DEF TypeInv, Inside, DesyncSelectReturns, At
  <1> QED
    BY <1>2, <1>3, EventsStep DEF DesyncSelectReturns, logVars

-----------------------------------------------------------------------------
(* Each step keeps the invariant: the events. *)

LEMMA EventTyped ==
    ASSUME NEW i \in Nat, NEW c \in Chan
    PROVE  /\ Closed(i, c) \in ResultType
           /\ Closed(i, c).op = "event" /\ Closed(i, c).index = i /\ Closed(i, c).chan = c
           /\ Closed(i, c).from = NoSender
  <1>1. "event" \in Kinds /\ c \in Chan \cup {NoChan}
    BY DEF Kinds
  <1> QED
    BY <1>1, FailureTyped DEF Closed

LEMMA MarkTyped ==
    ASSUME NEW w \in Seq(Receiver), NEW i \in DOMAIN w
    PROVE  /\ [w EXCEPT ![i].closed = TRUE] \in Seq(Receiver)
           /\ Len([w EXCEPT ![i].closed = TRUE]) = Len(w)
           /\ DOMAIN [w EXCEPT ![i].closed = TRUE] = DOMAIN w
  <1>1. w[i] \in Receiver
    OBVIOUS
  <1>2. [w[i] EXCEPT !.closed = TRUE] \in Receiver
    BY <1>1 DEF Receiver
  <1> DEFINE r == [w[i] EXCEPT !.closed = TRUE]
  <1>3. [w EXCEPT ![i].closed = TRUE] = [w EXCEPT ![i] = r]
    OBVIOUS
  <1> HIDE DEF r
  <1> QED
    BY <1>2, <1>3 DEF r

\* What select looks for when it replays an event.
LEMMA SourceTyped ==
    ASSUME TypeInv, Replaying
    PROVE  /\ at = "replay" /\ status = "running" /\ mode = "Replay" /\ ~moved /\ real = <<>>
           /\ todo # <<>>
           /\ Event.index \in DOMAIN receivers /\ Event.index \in Nat
           /\ Event.index \in DOMAIN InSet /\ InSet[Event.index].chan = Source
           /\ Source \in Chan
           /\ Event.from \in Sender \cup {NoSender}
  <1>1. at = "replay" /\ status = "running" /\ todo # <<>>
    BY DEF Replaying, At
  <1>2. mode = "Replay" /\ ~moved /\ real = <<>>
    BY <1>1, TypeParts DEF TypeInv, Modes, At, LogTyped
  <1>3. 1 \in DOMAIN todo /\ todo[1] \in SelectEvent
    BY <1>1, TypeParts DEF TypeInv, SelectTyped
  <1>4. Event.index \in DOMAIN receivers /\ Event.from \in Sender \cup {NoSender} /\ Event.index \in Nat
    BY <1>3 DEF TypeInv, Repeated, Event, SelectEvent, Index
  <1>5. InSet = receivers /\ \A n \in DOMAIN InSet : InSet[n].chan \in Chan
    BY <1>2, SetParts, TypeParts DEF TypeInv
  <1> QED
    BY <1>1, <1>2, <1>4, <1>5 DEF Source

LEMMA EventFetchTyped ==
    ASSUME TypeInv, EventFetch
    PROVE  TypeInv'
  <1>1. Replaying /\ Fetch(Source)
    BY DEF EventFetch, ExpectsMessage
  <1>2. ChanTyped'
    BY <1>1, SourceTyped, FetchTyped, TypeParts DEF TypeInv
  <1> QED
    BY <1>2, StillStep DEF EventFetch

LEMMA EventMessageTyped ==
    ASSUME TypeInv, EventMessage
    PROVE  TypeInv'
  <1> DEFINE i == Event.index
             c == Source
             s == Event.from
             e == Result("event", i, c, s, Head(buffer[c][s]), "none")
  <1>1. Replaying /\ s # NoSender /\ TakeFromBuffer(c, s) /\ Replayed(e) /\ UNCHANGED receivers
    BY DEF EventMessage, ExpectsMessage, Received
  <1>2. /\ i \in Nat /\ c \in Chan /\ s \in Sender
        /\ i \in DOMAIN InSet /\ InSet[i].chan = c /\ todo # <<>> /\ At("replay")
    BY <1>1, SourceTyped DEF At
  <1> HIDE DEF i, c, s
  <1>3. e \in ResultType /\ e.op = "event" /\ e.index = i /\ e.chan = c
    <2>1. buffer[c][s] # <<>> /\ "event" \in Kinds
      BY <1>1 DEF TakeFromBuffer, Kinds
    <2> QED
      BY <1>2, <2>1, BufferedTyped, TypeParts DEF TypeInv, ChanTyped
  <1>4. ChanTyped'
    BY <1>1, <1>2, UnbufferTyped, TypeParts DEF TypeInv
  <1> HIDE DEF e
  <1>5. /\ got' = Append(got, e) /\ todo' = Tail(todo)
        /\ UNCHANGED <<logVars, threadVars, runVars, desynced, real, moved, created, receivers>>
    BY <1>1 DEF Replayed
  <1>6. SetTyped' /\ SameSet
    BY <1>5, SetKept, KeptSet, TypeParts DEF TypeInv, setVars
  <1> QED
    BY <1>2, <1>3, <1>4, <1>5, <1>6, EventStep

LEMMA MarksClosed ==
    ASSUME TypeInv, Replaying, MarkClosed, UNCHANGED <<real, moved>>
    PROVE  SetTyped' /\ SameSet /\ DOMAIN receivers' = DOMAIN receivers
  <1>1. receivers \in Seq(Receiver) /\ Event.index \in DOMAIN receivers
    BY SourceTyped, TypeParts DEF TypeInv, SetTyped
  <1>2. receivers' \in Seq(Receiver) /\ DOMAIN receivers' = DOMAIN receivers
    BY <1>1, MarkTyped DEF MarkClosed
  <1>3. SetTyped'
    BY <1>2, TypeParts DEF TypeInv, SetTyped
  <1> QED
    BY <1>2, <1>3, MarkSet, TypeParts DEF TypeInv, MarkClosed

LEMMA EventClosedTyped ==
    ASSUME TypeInv, EventClosed
    PROVE  TypeInv'
  <1> DEFINE e == Closed(Event.index, Source)
  <1>1. Replaying /\ MarkClosed /\ Replayed(e) /\ UNCHANGED chanVars
    BY DEF EventClosed, ExpectsClosed
  <1>2. /\ Event.index \in Nat /\ Source \in Chan /\ Event.index \in DOMAIN InSet
        /\ InSet[Event.index].chan = Source /\ todo # <<>> /\ At("replay")
    BY <1>1, SourceTyped DEF At
  <1>3. e \in ResultType /\ e.op = "event" /\ e.index = Event.index /\ e.chan = Source
    BY <1>2, EventTyped
  <1> HIDE DEF e
  <1>4. /\ got' = Append(got, e) /\ todo' = Tail(todo)
        /\ UNCHANGED <<logVars, threadVars, runVars, desynced, real, moved, created>>
    BY <1>1 DEF Replayed
  <1>5. SetTyped' /\ SameSet /\ DOMAIN receivers' = DOMAIN receivers
    BY <1>1, <1>4, MarksClosed
  <1>6. ChanTyped'
    BY <1>1, ChanKept, TypeParts DEF TypeInv
  <1> QED
    BY <1>2, <1>3, <1>4, <1>5, <1>6, EventStep

\* The events so far are ignored.
LEMMA SelectFailsTyped ==
    ASSUME TypeInv, Replaying, SelectFails, ChanTyped', MarkClosed \/ UNCHANGED receivers
    PROVE  TypeInv'
  <1>1. at = "replay" /\ status = "running" /\ mode = "Replay" /\ ~moved /\ real = <<>>
    BY SourceTyped
  <1>2. /\ HandleDesync /\ todo' = <<>> /\ got' = <<>>
        /\ UNCHANGED <<logVars, runVars, real, moved, created>>
    BY DEF SelectFails
  <1>3. SetTyped' /\ SameSet
    <2>1. CASE UNCHANGED receivers
      BY <1>2, <2>1, SetKept, KeptSet, TypeParts DEF TypeInv, setVars
    <2>2. CASE MarkClosed
      BY <1>2, <2>2, MarksClosed
    <2> QED
      BY <2>1, <2>2
  <1> QED
    BY <1>1, <1>2, <1>3, DesyncStep

LEMMA EventFailsTyped ==
    ASSUME TypeInv, EventClosedUnexpected \/ EventClosedExpected \/ EventTimesOut
    PROVE  TypeInv'
  <1>1. CASE EventClosedUnexpected
    BY <1>1, ChanKept, SelectFailsTyped, TypeParts DEF TypeInv, EventClosedUnexpected, ExpectsMessage
  <1>2. CASE EventClosedExpected
    <2>1. Replaying /\ SelectFails /\ UNCHANGED receivers
      BY <1>2 DEF EventClosedExpected, ExpectsClosed
    <2>2. /\ wire[Source] # <<>> /\ wire' = [wire EXCEPT ![Source] = Tail(@)]
          /\ UNCHANGED <<buffer, sent, gone>>
      BY <1>2 DEF EventClosedExpected
    <2>3. ChanTyped'
      BY <2>1, <2>2, SourceTyped, TailTyped, TypeParts DEF TypeInv
    <2> QED
      BY <2>1, <2>3, SelectFailsTyped
  <1>3. CASE EventTimesOut
    BY <1>3, ChanKept, SelectFailsTyped, TypeParts DEF TypeInv, EventTimesOut, ExpectsMessage, ExpectsClosed
  <1> QED
    BY <1>1, <1>2, <1>3

\* A receiver of the set underneath.
LEMMA RealTyped ==
    ASSUME TypeInv, NEW i \in DOMAIN real
    PROVE  i \in Nat /\ real[i].chan \in Chan /\ i \in DOMAIN InSet /\ InSet[i].chan = real[i].chan
  <1>1. real \in Seq(Receiver)
    BY TypeParts DEF TypeInv, SetTyped
  <1>2. i \in DOMAIN InSet /\ InSet[i] = real[i] /\ real[i].chan \in Chan
    BY SetParts, TypeParts DEF TypeInv
  <1> QED
    BY <1>1, <1>2

LEMMA SetMessageTyped ==
    ASSUME TypeInv, NEW i \in DOMAIN real, SetMessage(i)
    PROVE  TypeInv'
  <1> DEFINE c == real[i].chan
             s == Head(wire[c]).from
             val == Head(wire[c]).val
             e == Result("event", i, c, s, val, "none")
  <1>1. /\ At("select") /\ wire[c] # <<>> /\ wire' = [wire EXCEPT ![c] = Tail(@)]
        /\ got' = Append(got, e)
        /\ UNCHANGED <<buffer, sent, gone, logVars, threadVars, runVars, desynced, setVars, todo, created>>
    BY DEF SetMessage, Received
  <1>2. i \in Nat /\ c \in Chan /\ i \in DOMAIN InSet /\ InSet[i].chan = c
    BY RealTyped
  <1>3. s \in Sender /\ val \in Nat
    BY <1>1, <1>2, FirstTyped, TypeParts DEF TypeInv
  <1>4. ChanTyped'
    BY <1>1, <1>2, TailTyped, TypeParts DEF TypeInv
  <1> HIDE DEF c, s, val
  <1>5. e \in ResultType /\ e.op = "event" /\ e.index = i /\ e.chan = c
    <2>1. "event" \in Kinds
      BY DEF Kinds
    <2> QED
      BY <1>2, <1>3, <2>1, MessageTyped
  <1> HIDE DEF e
  <1>6. SetTyped' /\ SameSet
    BY <1>1, SetKept, KeptSet, TypeParts DEF TypeInv, setVars
  <1> QED
    BY <1>1, <1>2, <1>4, <1>5, <1>6, EventStep DEF setVars

LEMMA SetClosedTyped ==
    ASSUME TypeInv, NEW i \in DOMAIN real, SetClosed(i)
    PROVE  TypeInv'
  <1> DEFINE e == Closed(i, real[i].chan)
  <1>1. /\ At("select") /\ real' = [real EXCEPT ![i].closed = TRUE] /\ got' = Append(got, e)
        /\ UNCHANGED <<chanVars, logVars, threadVars, runVars, desynced, receivers, moved, todo, created>>
    BY DEF SetClosed
  <1>2. i \in Nat /\ real[i].chan \in Chan /\ i \in DOMAIN InSet /\ InSet[i].chan = real[i].chan
    BY RealTyped
  <1>3. e \in ResultType /\ e.op = "event" /\ e.index = i /\ e.chan = real[i].chan
    BY <1>2, EventTyped
  <1> HIDE DEF e
  <1>4. real' \in Seq(Receiver) /\ Len(real') = Len(real)
    BY <1>1, MarkTyped, TypeParts DEF TypeInv, SetTyped
  <1>5. SetTyped'
    BY <1>1, <1>4, TypeParts DEF TypeInv, SetTyped
  <1>6. SameSet
    BY <1>1, <1>5, ReportSet, TypeParts DEF TypeInv
  <1>7. ChanTyped'
    BY <1>1, ChanKept, TypeParts DEF TypeInv
  <1> QED
    BY <1>1, <1>2, <1>3, <1>4, <1>5, <1>6, <1>7, EventStep

LEMMA DrainTyped ==
    ASSUME TypeInv, NEW i \in DOMAIN real, NEW s \in Sender, Drain(i, s)
    PROVE  TypeInv'
  <1> DEFINE c == real[i].chan
             e == Result("event", i, c, s, Head(buffer[c][s]), "none")
  <1>1. /\ At("drain") /\ TakeFromBuffer(c, s) /\ got' = Append(got, e)
        /\ UNCHANGED <<logVars, threadVars, runVars, desynced, setVars, todo, created>>
    BY DEF Drain, Received
  <1>2. i \in Nat /\ c \in Chan /\ i \in DOMAIN InSet /\ InSet[i].chan = c
    BY RealTyped
  <1> HIDE DEF c
  <1>3. e \in ResultType /\ e.op = "event" /\ e.index = i /\ e.chan = c
    <2>1. buffer[c][s] # <<>> /\ "event" \in Kinds
      BY <1>1 DEF TakeFromBuffer, Kinds
    <2> QED
      BY <1>2, <2>1, BufferedTyped, TypeParts DEF TypeInv, ChanTyped
  <1>4. ChanTyped'
    BY <1>1, <1>2, UnbufferTyped, TypeParts DEF TypeInv
  <1> HIDE DEF e
  <1>5. SetTyped' /\ SameSet
    BY <1>1, SetKept, KeptSet, TypeParts DEF TypeInv, setVars
  <1> QED
    BY <1>1, <1>2, <1>3, <1>4, <1>5, EventStep DEF setVars
-----------------------------------------------------------------------------
(* Each step keeps the invariant: the receivers move to the set underneath. *)

LEMMA MoveStep ==
    ASSUME TypeInv, Moving, UNCHANGED logVars \/ TakeEntry, SetTyped', SameSet, created' \in Nat,
           \/ moved' = moved /\ receivers # <<>>
           \/ moved' = TRUE /\ receivers = <<>> /\ UNCHANGED <<receivers, real>>,
           UNCHANGED <<chanVars, threadVars, runVars, desynced, selectVars>>
    PROVE  TypeInv'
  <1>1. /\ status = "running" /\ at = "desync" /\ Op.kind \in {"select", "add"} /\ ~moved
        /\ desynced /\ UNCHANGED <<status, at, want, hist, setup, world, recorded>>
    BY DEF Moving, At, TypeInv, Modes, threadVars, runVars
  <1>2. todo = <<>> /\ got = <<>> /\ todo' = <<>> /\ got' = <<>>
    BY <1>1, Quiet DEF TypeInv, At, selectVars
  <1>3. Grows
    BY <1>1, SameGrows
  <1>4. LogTyped' /\ LogIndexed' /\ UNCHANGED <<mode, open>> /\ (mode = "Record" => next' = next)
    BY <1>3, LogKept, TakeTyped, KeepsLogIndexed, TypeParts DEF TypeInv, logVars, TakeEntry, HasEntry
  <1>5. ChanTyped' /\ ThreadTyped' /\ RunTyped' /\ SelectTyped'
    <2>1. desynced' \in BOOLEAN
      BY TypeParts DEF TypeInv, ThreadTyped
    <2> QED
      BY <1>2, <2>1, ChanKept, ThreadKept, RunKept, TypeParts DEF TypeInv, SelectTyped
  <1>6. TypeOK'
    BY <1>4, <1>5, TypeParts
  <1>7. Inside'
    BY <1>1, <1>2, OutsideInside
  <1>8. Op' = Op
    BY <1>1 DEF Op
  <1>9. Modes'
    BY <1>1, <1>4, <1>8 DEF TypeInv, Modes, At
  <1>10. HistIndexed'
    <2>1. KnownEvents
      BY <1>2 DEF KnownEvents
    <2> QED
      BY <1>1, <2>1, SameGrows, KeepsHistIndexed DEF TypeInv
  <1>11. Repeated'
    BY <1>1, <1>2 DEF Repeated
  <1> QED
    BY <1>4, <1>6, <1>7, <1>9, <1>10, <1>11 DEF TypeInv

\* The first receiver moves.
LEMMA FirstMoves ==
    ASSUME TypeInv, receivers # <<>>, real' = Append(real, receivers[1]), receivers' = Tail(receivers),
           UNCHANGED moved
    PROVE  SetTyped' /\ SameSet
  <1>1. InSet' = InSet /\ real' \in Seq(Receiver) /\ receivers' \in Seq(Receiver)
    BY MoveSet, TypeParts DEF TypeInv
  <1> QED
    BY <1>1, TypeParts DEF TypeInv, SetTyped, SameSet

LEMMA MoveReceiverTyped ==
    ASSUME TypeInv, MoveReceiver
    PROVE  TypeInv'
  <1>1. created' \in Nat /\ SetTyped' /\ SameSet
    BY FirstMoves, TypeParts DEF TypeInv, SelectTyped, MoveReceiver
  <1> QED
    BY <1>1, MoveStep DEF MoveReceiver

LEMMA MoveDummyTyped ==
    ASSUME TypeInv, MoveDummy
    PROVE  TypeInv'
  <1>1. /\ Moving /\ ~moved /\ receivers # <<>> /\ receivers' = Tail(receivers) /\ created' = created + 1
        /\ UNCHANGED <<chanVars, runVars, desynced, moved, selectVars>>
    BY DEF MoveDummy, Moving
  <1>2. created' \in Nat
    BY <1>1, TypeParts DEF TypeInv, SelectTyped
  <1>3. CASE TakeEntry /\ real' = Append(real, receivers[1]) /\ UNCHANGED threadVars
    <2>1. SetTyped' /\ SameSet
      BY <1>1, <1>3, FirstMoves
    <2> QED
      BY <1>1, <1>2, <1>3, <2>1, MoveStep
  <1>4. CASE Panic /\ (TakeEntry \/ UNCHANGED logVars) /\ UNCHANGED real
    <2>1. mode # "Record"
      BY <1>1 DEF TypeInv, Modes
    <2>2. receivers' \in Seq(Receiver) /\ SetTyped'
      BY <1>1, <1>4, HeadAndTail, TypeParts DEF TypeInv, SetTyped
    <2>3. ChanTyped' /\ At("desync")
      BY <1>1, ChanKept, TypeParts DEF TypeInv, Moving
    <2> QED
      BY <1>1, <1>2, <1>4, <2>1, <2>2, <2>3, PanicAtLog
  <1> QED
    BY <1>3, <1>4 DEF MoveDummy

LEMMA MoveDoneTyped ==
    ASSUME TypeInv, MoveDone
    PROVE  TypeInv'
  <1>1. SetTyped' /\ SameSet /\ created' \in Nat
    BY KeptSet, TypeParts DEF TypeInv, SetTyped, SelectTyped, MoveDone
  <1> QED
    BY <1>1, MoveStep DEF MoveDone

-----------------------------------------------------------------------------
(* Each step keeps the invariant: the receives. *)

LEMMA RecordRecvTyped ==
    ASSUME WellFormedProgram, TypeInv, RecordRecv, UNCHANGED <<setVars, selectVars, created>>
    PROVE  TypeInv'
  <1> DEFINE op == Op.kind
             c == Op.chan
  <1>1. mode = "Record" /\ status = "running" /\ at = "idle" /\ op \in RecvKind /\ Outside /\ UNCHANGED runVars
    BY DEF RecordRecv, Calls, At, Outside
  <1>2. c \in Chan
    BY <1>1, OpShape DEF TypeInv
  <1>3. PICK obs \in Outcomes(op, 0, c) :
          /\ TakeFromWire(obs)
          /\ \/ WriteEntry(EntryFor(obs)) /\ Return(obs) /\ UNCHANGED desynced
             \/ CannotWrite /\ HandleDesync /\ UNCHANGED logVars
    BY DEF RecordRecv
  <1> HIDE DEF c
  <1>4. /\ obs \in ResultType /\ obs.op = op /\ obs.chan = c /\ EntryFor(obs) \in Entry
        /\ obs.error = "none" => wire[c] # <<>>
    BY <1>1, <1>2, <1>3, OutcomeTyped, TypeParts DEF TypeInv, ChanTyped
  <1>5. ChanTyped' /\ SetTyped' /\ SameSet /\ created' \in Nat
    BY <1>2, <1>3, <1>4, WireTyped, SetKept, KeptSet, TypeParts DEF TypeInv, SelectTyped, setVars
  <1>6. CASE WriteEntry(EntryFor(obs)) /\ Return(obs) /\ UNCHANGED desynced
    <2>1. obs.op \notin {"add", "event", "select"}
      BY <1>1, <1>4 DEF RecvKind
    <2>2. EntryFor(obs).op # "select"
      BY <2>1 DEF EntryFor
    <2>3. LogMoves
      BY <1>4, <1>6, <2>2 DEF LogMoves
    <2> QED
      BY <1>1, <1>4, <1>5, <1>6, <2>1, <2>3, ReturnStep
  <1>7. CASE CannotWrite /\ HandleDesync /\ UNCHANGED logVars
    <2>1. todo' = <<>> /\ got' = <<>>
      BY <1>1, OutsideFacts DEF selectVars
    <2> QED
      BY <1>1, <1>5, <1>7, <2>1, DesyncStep DEF CannotWrite, setVars
  <1> QED
    BY <1>3, <1>6, <1>7

LEMMA WakeUpTyped ==
    ASSUME TypeInv, WakeUp, UNCHANGED <<setVars, selectVars, created>>
    PROVE  TypeInv'
  <1>1. status = "asleep" /\ desynced /\ HandleDesync /\ UNCHANGED <<logVars, chanVars, runVars>>
    BY DEF WakeUp
  <1>2. todo' = <<>> /\ got' = <<>>
    BY <1>1, Quiet DEF TypeInv, At, selectVars
  <1>3. mode = "Record" => ~open
    BY <1>1 DEF TypeInv, Modes
  <1>4. mode = "Replay" /\ ~moved => real = <<>>
    BY <1>1 DEF TypeInv, Modes, At
  <1>5. ChanTyped' /\ SetTyped' /\ SameSet
    BY <1>1, ChanKept, SetKept, KeptSet, TypeParts DEF TypeInv, setVars
  <1> QED
    BY <1>1, <1>2, <1>3, <1>4, <1>5, DesyncStep DEF setVars

LEMMA ReplayRecvTyped ==
    ASSUME WellFormedProgram, TypeInv, ReplayRecv, UNCHANGED <<setVars, selectVars, created>>
    PROVE  TypeInv'
  <1> DEFINE op == Op.kind
             c == Op.chan
  <1>1. /\ status = "running" /\ at = "idle" /\ op \in RecvKind /\ Outside /\ mode = "Replay"
        /\ TakeEntry /\ HasEntry
        /\ UNCHANGED <<chanVars, runVars>>
    BY DEF ReplayRecv, Calls, At, Outside, TakeEntry, HasEntry
  <1>2. c \in Chan
    BY <1>1, OpShape DEF TypeInv
  <1>3. NextEntry \in Entry
    BY <1>1, NextEntryTyped DEF TypeInv
  <1>4. /\ todo = <<>> /\ got = <<>> /\ todo' = <<>> /\ got' = <<>>
        /\ ~moved => real = <<>>
    BY <1>1, OutsideFacts DEF selectVars
  <1>5. LogTyped' /\ ChanTyped' /\ RunTyped' /\ SetTyped' /\ SelectTyped' /\ SameSet /\ created' \in Nat
    BY <1>1, TakeTyped, ChanKept, RunKept, SetKept, KeptSet, SelectKept, TypeParts DEF TypeInv, setVars, SelectTyped
  <1>6. CASE ~EntryFits /\ HandleDesync
    BY <1>1, <1>4, <1>5, <1>6, DesyncStep DEF setVars
  <1>7. ASSUME EntryFits
        PROVE  NextEntry.op \in RecvKind /\ LogMoves
    BY <1>1, <1>7 DEF EntryFits, LogMoves, IsAdd, RecvKind
  <1>8. CASE /\ EntryFits
             /\ NextEntry.error # "none"
             /\ Return(Failure(op, 0, c, NextEntry.error))
             /\ UNCHANGED desynced
    <2> DEFINE error == NextEntry.error
               obs == Failure(op, 0, c, error)
    <2>1. error \in {"Disconnected", "Empty"}
      BY <1>3, <1>7, <1>8, EntryShape
    <2>2. op \in Kinds /\ op \notin {"add", "event"} /\ 0 \in Nat /\ c \in Chan \cup {NoChan}
      BY <1>1, <1>2 DEF Kinds, RecvKind
    <2>3. Return(obs) /\ UNCHANGED desynced
      BY <1>8
    <2> HIDE DEF error, op, c
    <2>4. obs \in ResultType /\ obs.op = op
      <3>1. error \in {"none", "Disconnected", "Empty", "Closed"}
        BY <2>1
      <3> QED
        BY <2>2, <3>1, FailureTyped
    <2> HIDE DEF obs
    <2> QED
      BY <1>1, <1>5, <1>7, <1>8, <2>2, <2>3, <2>4, ReturnStep
  <1>9. CASE /\ EntryFits
             /\ NextEntry.error = "none"
             /\ want' = [chan |-> c, from |-> NextEntry.from]
             /\ at' = "receive"
             /\ UNCHANGED <<status, hist, desynced>>
    <2>1. NextEntry.from \in Sender /\ LogMoves
      BY <1>3, <1>7, <1>9, EntryShape
    <2>2. ThreadTyped'
      BY <1>2, <1>9, <2>1, TypeParts DEF TypeInv, ThreadTyped, Want
    <2>3. TypeOK'
      BY <1>5, <2>2, TypeParts
    <2>4. Op' = Op
      BY <1>1, <1>9 DEF Op, runVars
    <2>5. Inside'
      BY <1>1, <1>2, <1>4, <1>9, <2>1, <2>4 DEF Inside, At
    <2>6. mode' = mode /\ open' = open
      BY <1>1 DEF TakeEntry
    <2>7. Modes'
      BY <1>1, <1>4, <1>9, <2>6 DEF TypeInv, Modes, At, setVars
    <2>8. HistIndexed'
      <3>1. KnownEvents
        BY <1>4 DEF KnownEvents
      <3> QED
        BY <1>1, <1>5, <1>9, <3>1, SameGrows, KeepsHistIndexed DEF TypeInv
    <2>9. LogIndexed' /\ Repeated'
      BY <1>4, <1>9, <2>1, LogMovesTyped, SameGrows, KeepsRepeated, TypeParts DEF TypeInv, setVars
    <2> QED
      BY <2>3, <2>5, <2>7, <2>8, <2>9 DEF TypeInv
  <1> QED
    BY <1>6, <1>8, <1>9 DEF ReplayRecv

LEMMA ReceiveLoopTyped ==
    ASSUME TypeInv, ReceiveNext \/ ReceiveWanted \/ ReceiveFails, UNCHANGED <<setVars, selectVars, created>>
    PROVE  TypeInv'
  <1>1. /\ At("receive") /\ Outside /\ want.chan \in Chan /\ want.from \in Sender
        /\ Op.kind \in RecvKind /\ mode # "Record"
        /\ UNCHANGED <<logVars, runVars>>
    BY DEF ReceiveNext, ReceiveWanted, ReceiveFails, At, Outside, TypeInv, Inside, Modes
  <1>2. SetTyped' /\ SameSet /\ created' \in Nat
    BY SetKept, KeptSet, TypeParts DEF TypeInv, SelectTyped, setVars
  <1>3. CASE ReceiveNext
    <2>1. ChanTyped'
      BY <1>1, <1>3, FetchTyped, TypeParts DEF TypeInv, ReceiveNext
    <2> QED
      BY <1>3, <2>1, StillStep DEF ReceiveNext
  <1>4. CASE ReceiveWanted
    <2> DEFINE c == want.chan
               s == want.from
               op == Op.kind
               obs == Buffered(op, 0, c, s)
    <2>1. TakeFromBuffer(c, s) /\ Return(obs) /\ UNCHANGED desynced
      BY <1>4 DEF ReceiveWanted
    <2>2. op \in Kinds /\ op \notin {"add", "event"} /\ c \in Chan /\ s \in Sender
      BY <1>1 DEF Kinds, RecvKind
    <2> HIDE DEF c, s, op
    <2>3. obs \in ResultType /\ obs.op = op
      <3>1. buffer[c][s] # <<>> /\ 0 \in Nat /\ ChanTyped
        BY <2>1, TypeParts DEF TypeInv, TakeFromBuffer
      <3>2. obs = Result(op, 0, c, s, Head(buffer[c][s]), "none")
        BY DEF Buffered
      <3> HIDE DEF obs
      <3> QED
        BY <2>2, <3>1, <3>2, BufferedTyped DEF ChanTyped
    <2>4. ChanTyped'
      BY <2>1, <2>2, UnbufferTyped, TypeParts DEF TypeInv
    <2> HIDE DEF obs
    <2> QED
      BY <1>1, <1>2, <2>1, <2>2, <2>3, <2>4, ReturnStep DEF LogMoves
  <1>5. CASE ReceiveFails
    <2>1. HandleDesync /\ UNCHANGED chanVars
      BY <1>5 DEF ReceiveFails
    <2>2. todo' = <<>> /\ got' = <<>> /\ (mode = "Replay" /\ ~moved => real = <<>>)
      BY <1>1, OutsideFacts DEF selectVars
    <2>3. ChanTyped' /\ status # "panicked" /\ at = "receive"
      BY <1>1, <2>1, ChanKept, TypeParts DEF TypeInv, At
    <2> QED
      BY <1>1, <1>2, <2>1, <2>2, <2>3, DesyncStep DEF setVars
  <1> QED
    BY <1>3, <1>4, <1>5

LEMMA ReceiveAnyTyped ==
    ASSUME WellFormedProgram, TypeInv, ReceiveAny, UNCHANGED <<setVars, selectVars, created>>
    PROVE  TypeInv'
  <1> DEFINE op == Op.kind
             c == Op.chan
  <1>1. op \in RecvKind /\ status = "running" /\ at = "desync" /\ UNCHANGED <<logVars, runVars, desynced>>
    BY DEF ReceiveAny, At
  <1>2. Outside /\ LogMoves
    BY <1>1 DEF Outside, RecvKind, LogMoves
  <1>3. c \in Chan
    BY <1>1, OpShape DEF TypeInv
  <1>4. op \in Kinds /\ op \notin {"add", "event"}
    BY <1>1 DEF Kinds, RecvKind
  <1>5. \/ \E s \in Sender : TakeFromBuffer(c, s) /\ Return(Buffered(op, 0, c, s))
        \/ \E obs \in Outcomes(op, 0, c) : TakeFromWire(obs) /\ Return(obs)
    BY DEF ReceiveAny
  <1>6. created' \in Nat
    BY TypeParts DEF TypeInv, SelectTyped
  <1> HIDE DEF op, c
  <1>7. ASSUME NEW s \in Sender, TakeFromBuffer(c, s), Return(Buffered(op, 0, c, s))
        PROVE  TypeInv'
    <2> DEFINE obs == Buffered(op, 0, c, s)
    <2>1. obs \in ResultType /\ obs.op = op
      <3>1. buffer[c][s] # <<>> /\ 0 \in Nat /\ ChanTyped
        BY <1>7, TypeParts DEF TypeInv, TakeFromBuffer
      <3>2. obs = Result(op, 0, c, s, Head(buffer[c][s]), "none")
        BY DEF Buffered
      <3> HIDE DEF obs
      <3> QED
        BY <1>3, <1>4, <3>1, <3>2, BufferedTyped DEF ChanTyped
    <2>2. ChanTyped'
      BY <1>3, <1>7, UnbufferTyped, TypeParts DEF TypeInv
    <2>3. Return(obs)
      BY <1>7
    <2> HIDE DEF obs
    <2> QED
      BY <1>1, <1>2, <1>4, <1>6, <2>1, <2>2, <2>3, ReturnStep
  <1>8. ASSUME NEW obs \in Outcomes(op, 0, c), TakeFromWire(obs), Return(obs)
        PROVE  TypeInv'
    <2>1. obs \in ResultType /\ obs.op = op /\ obs.chan = c /\ (obs.error = "none" => wire[c] # <<>>)
      BY <1>1, <1>3, OutcomeTyped, TypeParts DEF TypeInv, ChanTyped, op
    <2>2. ChanTyped'
      BY <1>3, <1>8, <2>1, WireTyped, TypeParts DEF TypeInv
    <2> QED
      BY <1>1, <1>2, <1>4, <1>6, <1>8, <2>1, <2>2, ReturnStep
  <1> QED
    BY <1>5, <1>7, <1>8

LEMMA ReceiveTyped ==
    ASSUME WellFormedProgram, TypeInv, Receive, UNCHANGED <<setVars, selectVars, created>>
    PROVE  TypeInv'
  BY RecordRecvTyped, SleepTyped, WakeUpTyped, ReplayRecvTyped, ReceiveLoopTyped, ReceiveAnyTyped DEF Receive

-----------------------------------------------------------------------------
(* Each step keeps the invariant: everyone else. *)

LEMMA SendTyped ==
    ASSUME TypeInv, NEW s \in Sender, Send(s), UNCHANGED <<setVars, selectVars, created>>
    PROVE  TypeInv'
  <1>1. Sends[s] \in Seq(Chan) /\ sent[s] \in Nat /\ sent[s] < Len(Sends[s])
    BY SetupTyped, TypeParts DEF TypeInv, Send, ChanTyped
  <1>2. Sends[s][sent[s] + 1] \in Chan
    BY <1>1
  <1> DEFINE c == Sends[s][sent[s] + 1]
             m == [from |-> s, val |-> sent[s] + 1]
  <1>3. m \in Message /\ sent[s] + 1 \in Nat
    BY <1>1 DEF Message
  <1>4. /\ sent' = [sent EXCEPT ![s] = sent[s] + 1]
        /\ wire' = [wire EXCEPT ![c] = Append(@, m)]
        /\ UNCHANGED <<buffer, gone, logVars, threadVars, runVars, desynced>>
    BY DEF Send
  <1>5. ChanTyped'
    <2>1. c \in Chan
      BY <1>2
    <2> HIDE DEF c, m
    <2>2. Append(wire[c], m) \in Seq(Message)
      BY <1>3, <2>1, TypeParts DEF TypeInv, ChanTyped
    <2> QED
      BY <1>3, <1>4, <2>1, <2>2, TypeParts DEF TypeInv, ChanTyped
  <1> QED
    BY <1>4, <1>5, StillStep

LEMMA LeaveTyped ==
    ASSUME TypeInv, NEW s \in Sender, Leave(s), UNCHANGED <<setVars, selectVars, created>>
    PROVE  TypeInv'
  <1>1. ChanTyped'
    BY TypeParts DEF TypeInv, Leave, ChanTyped
  <1> QED
    BY <1>1, StillStep DEF Leave

LEMMA OtherDesyncTyped ==
    ASSUME TypeInv, OtherDesync, UNCHANGED <<setVars, selectVars, created>>
    PROVE  TypeInv'
  BY ChanKept, StillStep, TypeParts DEF TypeInv, OtherDesync

LEMMA FlushTyped ==
    ASSUME TypeInv, Flush, UNCHANGED <<setVars, selectVars, created>>
    PROVE  TypeInv'
  <1>1. /\ mode = "Record" /\ mode' = mode /\ open' = FALSE /\ log' = log /\ next' = next
        /\ UNCHANGED <<chanVars, threadVars, runVars, desynced>>
    BY DEF Flush
  <1>2. LogTyped'
    BY <1>1, TypeParts DEF TypeInv, LogTyped
  <1>3. ChanTyped' /\ ThreadTyped' /\ RunTyped' /\ SetTyped' /\ SelectTyped'
    <2>1. desynced' \in BOOLEAN
      BY <1>1, TypeParts DEF TypeInv, ThreadTyped
    <2> QED
      BY <1>1, <2>1, ChanKept, ThreadKept, RunKept, SetKept, SelectKept, TypeParts DEF TypeInv
  <1>4. TypeOK'
    BY <1>2, <1>3, TypeParts
  <1>5. Inside' /\ Modes'
    BY <1>1 DEF TypeInv, Inside, Modes, At, Op, threadVars, selectVars, runVars, setVars
  <1>6. HistIndexed'
    <2>1. KnownEvents /\ SameSet /\ hist' = hist /\ status' = status
      BY <1>1, KeptSet DEF KnownEvents, setVars, selectVars, threadVars
    <2> QED
      BY <2>1, SameGrows, KeepsHistIndexed DEF TypeInv
  <1>7. LogIndexed' /\ Repeated'
    BY <1>1 DEF TypeInv, LogIndexed, Repeated, selectVars, setVars
  <1> QED
    BY <1>4, <1>5, <1>6, <1>7 DEF TypeInv

LEMMA StutterTyped ==
    ASSUME TypeInv, UNCHANGED vars
    PROVE  TypeInv'
  <1>1. UNCHANGED <<logVars, chanVars, threadVars, runVars, desynced, setVars, selectVars, created>>
    BY DEF vars, readerVars
  <1> QED
    BY <1>1, ChanKept, StillStep, TypeParts DEF TypeInv

-----------------------------------------------------------------------------
(* Each step keeps the invariant: a new process. *)

LEMMA EmptyTyped ==
    EmptyWire \in [Chan -> Seq(Message)] /\ EmptyBuffer \in [Chan -> [Sender -> Seq(Nat)]]
  <1>1. \A S : <<>> \in Seq(S)
    OBVIOUS
  <1>2. EmptyWire \in [Chan -> Seq(Message)]
    BY <1>1 DEF EmptyWire
  <1>3. [s \in Sender |-> <<>>] \in [Sender -> Seq(Nat)]
    BY <1>1
  <1> QED
    BY <1>2, <1>3 DEF EmptyBuffer

\* Nothing is received, and no receiver added.
LEMMA EmptyInv ==
    ASSUME hist' = <<>>, got' = <<>>, todo' = <<>>, receivers' = <<>>, real' = <<>>, next' = 0
    PROVE  HistIndexed' /\ Repeated'
  <1>1. InSet' = <<>>
    BY DEF InSet
  <1> QED
    BY <1>1 DEF HistIndexed, Repeated, Increasing, Numbered, OfAdds

LEMMA RestartTyped ==
    ASSUME TypeInv, Restart
    PROVE  TypeInv'
  <1>1. /\ mode = "Record" /\ ~open /\ mode' = "Replay" /\ recorded' = hist
        /\ wire' = EmptyWire /\ buffer' = EmptyBuffer
        /\ sent' = [s \in Sender |-> 0] /\ gone' = {}
        /\ status' = "running" /\ at' = "idle" /\ want' = NoWant /\ hist' = <<>>
        /\ world' \in World /\ desynced' = FALSE
        /\ UNCHANGED <<setup, log, open, next>>
        /\ receivers' = <<>> /\ real' = <<>> /\ moved' = FALSE
        /\ todo' = <<>> /\ got' = <<>> /\ created' = 0
    BY DEF Restart, NewProcess
  <1>2. next' = 0
    BY <1>1 DEF TypeInv, Modes
  <1>3. LogTyped' /\ RunTyped'
    BY <1>1, TypeParts DEF TypeInv, LogTyped, RunTyped, ThreadTyped, World
  <1>4. ChanTyped'
    BY <1>1, EmptyTyped DEF ChanTyped
  <1>5. ThreadTyped' /\ SetTyped' /\ SelectTyped'
    <2>1. \A S : <<>> \in Seq(S)
      OBVIOUS
    <2> QED
      BY <1>1, <2>1 DEF ThreadTyped, SetTyped, SelectTyped, Want
  <1>6. TypeOK'
    BY <1>3, <1>4, <1>5, TypeParts
  <1>7. Inside'
    BY <1>1, OutsideInside
  <1>8. Modes'
    BY <1>1 DEF Modes, At
  <1>9. HistIndexed' /\ Repeated'
    BY <1>1, <1>2, EmptyInv
  <1>10. LogIndexed'
    BY <1>1 DEF TypeInv, LogIndexed
  <1> QED
    BY <1>6, <1>7, <1>8, <1>9, <1>10 DEF TypeInv

LEMMA TypeInit ==
    ASSUME Init
    PROVE  TypeInv
  <1>1. /\ setup \in Setups
        /\ mode = "Record" /\ log = <<>> /\ open = TRUE /\ next = 0
        /\ wire = EmptyWire /\ buffer = EmptyBuffer
        /\ sent = [s \in Sender |-> 0] /\ gone = {}
        /\ status = "running" /\ at = "idle" /\ want = NoWant /\ hist = <<>>
        /\ world \in World /\ recorded = <<>> /\ desynced = FALSE
        /\ receivers = <<>> /\ real = <<>> /\ moved = FALSE
        /\ todo = <<>> /\ got = <<>> /\ created = 0
    BY DEF Init, ReaderInit
  <1>2. ChanTyped
    BY <1>1, EmptyTyped DEF ChanTyped
  <1>3. LogTyped /\ ThreadTyped /\ SetTyped /\ SelectTyped /\ RunTyped
    <2>1. \A S : <<>> \in Seq(S)
      OBVIOUS
    <2> QED
      BY <1>1, <2>1 DEF LogTyped, ThreadTyped, SetTyped, SelectTyped, RunTyped, Want
  <1>4. TypeOK
    BY <1>2, <1>3, TypeParts
  <1>5. Inside /\ Modes
    BY <1>1 DEF Inside, Modes, At
  <1>6. HistIndexed /\ LogIndexed /\ Repeated
    <2>1. InSet = <<>>
      BY <1>1 DEF InSet
    <2> QED
      BY <1>1, <2>1 DEF HistIndexed, LogIndexed, Repeated, Increasing, Numbered, OfAdds, AddsLogged, AddedFirst
  <1> QED
    BY <1>4, <1>5, <1>6 DEF TypeInv

-----------------------------------------------------------------------------
LEMMA TypeStep ==
    ASSUME WellFormedProgram, TypeInv, [Next]_vars
    PROVE  TypeInv'
  <1>1. CASE CreateChannel \/ RecordAdd \/ ReplayAdd \/ DesyncAdd
    BY <1>1, CreateChannelTyped, RecordAddTyped, ReplayAddTyped, DesyncAddTyped
  <1>2. CASE Desynced \/ RecordSelect \/ RecordSelectReturns \/ ReplaySelect \/ SelectReturns
    BY <1>2, DesyncedTyped, RecordSelectTyped, RecordSelectReturnsTyped, ReplaySelectTyped, SelectReturnsTyped
  <1>3. CASE SelectSleeps
    BY <1>3, SleepTyped DEF SelectSleeps
  <1>4. CASE EventFetch \/ EventMessage \/ EventClosed
    BY <1>4, EventFetchTyped, EventMessageTyped, EventClosedTyped
  <1>5. CASE EventClosedUnexpected \/ EventClosedExpected \/ EventTimesOut
    BY <1>5, EventFailsTyped
  <1>6. CASE MoveReceiver \/ MoveDummy \/ MoveDone \/ DesyncSelect \/ DesyncSelectReturns
    BY <1>6, MoveReceiverTyped, MoveDummyTyped, MoveDoneTyped, DesyncSelectTyped, DesyncSelectReturnsTyped
  <1>7. CASE \E i \in DOMAIN real : SetMessage(i) \/ SetClosed(i) \/ \E s \in Sender : Drain(i, s)
    BY <1>7, SetMessageTyped, SetClosedTyped, DrainTyped
  <1>8. CASE Receive /\ UNCHANGED <<setVars, selectVars, created>>
    BY <1>8, ReceiveTyped
  <1>9. CASE Environment
    BY <1>9, SendTyped, LeaveTyped, OtherDesyncTyped, FlushTyped DEF Environment, Others
  <1>10. CASE Restart
    BY <1>10, RestartTyped
  <1>11. CASE UNCHANGED vars
    BY <1>11, StutterTyped
  <1> QED
    BY <1>1, <1>2, <1>3, <1>4, <1>5, <1>6, <1>7, <1>8, <1>9, <1>10, <1>11 DEF Next, Thread

LEMMA TypeInvariant ==
    ASSUME WellFormedProgram
    PROVE  Spec => []TypeInv
  BY TypeInit, TypeStep, PTL DEF Spec

\* The types of the thread, of its receivers and of what it is in the middle of: in
\* particular every receiver is of a channel, every event that is replayed has an index,
\* and select returns results only (IpcReceiverSet, do_add and rr_select).
THEOREM TypeCorrect ==
    ASSUME WellFormedProgram
    PROVE  Spec => []TypeOK
  <1>1. TypeInv => TypeOK
    BY DEF TypeInv
  <1> QED
    BY <1>1, TypeInvariant, PTL

LEMMA IndicesFollow ==
    ASSUME TypeInv
    PROVE  IndicesAgree
  <1>1. \A i \in DOMAIN hist : i \in Adds <=> IsAdd(hist[i])
    BY DEF Adds, IsAdd
  <1>2. Adds \subseteq DOMAIN hist
    BY DEF Adds
  <1>3. \A i, j \in Adds : i < j => hist[i].index < hist[j].index
    BY <1>1, <1>2 DEF TypeInv, HistIndexed, Increasing
  <1>4. ASSUME status # "panicked"
        PROVE  /\ {hist[i].index : i \in Adds} = DOMAIN InSet
               /\ \A i \in Adds : InSet[hist[i].index].chan = hist[i].chan
    <2>1. Numbered(hist, InSet)
      BY <1>4 DEF TypeInv, HistIndexed
    <2> QED
      BY <1>1, <1>2, <2>1 DEF Numbered
  <1>5. ASSUME NEW k \in DOMAIN Seen, Seen[k].op = "event"
        PROVE  \E i \in Adds : hist[i].index = Seen[k].index /\ hist[i].chan = Seen[k].chan
    <2>1. hist \in Seq(ResultType) /\ got \in Seq(ResultType)
      BY TypeParts DEF TypeInv, ThreadTyped, SelectTyped
    <2>2. (k \in DOMAIN hist /\ Seen[k] = hist[k]) \/ (\E l \in DOMAIN got : Seen[k] = got[l])
      <3>1. k \in 1 .. Len(hist) + Len(got)
        BY <2>1 DEF Seen
      <3>2. CASE k \in 1 .. Len(hist)
        BY <2>1, <3>2 DEF Seen
      <3>3. CASE k \in Len(hist) + 1 .. Len(hist) + Len(got)
        <4>1. k - Len(hist) \in DOMAIN got /\ Seen[k] = got[k - Len(hist)]
          BY <2>1, <3>3 DEF Seen
        <4> QED
          BY <4>1
      <3> QED
        BY <2>1, <3>1, <3>2, <3>3
    <2>3. OfAdds(hist, hist) /\ OfAdds(got, hist)
      BY DEF TypeInv, HistIndexed
    <2>4. PICK i \in DOMAIN hist : IsAdd(hist[i]) /\ hist[i].index = Seen[k].index /\ hist[i].chan = Seen[k].chan
      <3>1. CASE k \in DOMAIN hist /\ Seen[k] = hist[k]
        BY <1>5, <2>3, <3>1 DEF OfAdds
      <3>2. CASE \E l \in DOMAIN got : Seen[k] = got[l]
        BY <1>5, <2>3, <3>2 DEF OfAdds
      <3> QED
        BY <2>2, <3>1, <3>2
    <2> QED
      BY <1>1, <2>4
  <1>6. \A k \in DOMAIN todo : todo[k].index \in DOMAIN receivers
    BY DEF TypeInv, Repeated
  <1> QED
    BY <1>3, <1>4, <1>5, <1>6 DEF IndicesAgree

\* The index that add returns is the receiver's index in the vector of a replay and in
\* the set underneath, also while receivers are moved from the one to the other; every
\* event is of the channel that was added under its index; and select never replays an
\* event whose receiver is missing, so that DesyncError::MissingReceiver cannot occur.
THEOREM IndicesAgreeCorrect ==
    ASSUME WellFormedProgram
    PROVE  Spec => []IndicesAgree
  BY IndicesFollow, TypeInvariant, PTL

-----------------------------------------------------------------------------
(* The messages of one sender on one channel: q is the sender's script and n how far
   it has come, h the thread's history, b the buffer and w the wire. *)

IsReceipt(h, i, c, s) == h[i].chan = c /\ h[i].from = s

IsSent(q, n, c, m) == m \in 1 .. n /\ q[m] = c

OnlySent(q, n, c, s, h, b, w) ==
    /\ \A i \in DOMAIN h : IsReceipt(h, i, c, s) => IsSent(q, n, c, h[i].val)
    /\ \A i \in DOMAIN b : IsSent(q, n, c, b[i])
    /\ \A i \in DOMAIN w : w[i].from = s => IsSent(q, n, c, w[i].val)

NoneMissing(q, n, c, s, h, b, w) ==
    \A m \in 1 .. n : IsSent(q, n, c, m) =>
        \/ \E i \in DOMAIN h : IsReceipt(h, i, c, s) /\ h[i].val = m
        \/ \E i \in DOMAIN b : b[i] = m
        \/ \E i \in DOMAIN w : w[i].from = s /\ w[i].val = m

Ordered(c, s, h, b, w) ==
    /\ \A i, j \in DOMAIN h : i < j /\ IsReceipt(h, i, c, s) /\ IsReceipt(h, j, c, s) => h[i].val < h[j].val
    /\ \A i, j \in DOMAIN b : i < j => b[i] < b[j]
    /\ \A i, j \in DOMAIN w : i < j /\ w[i].from = s /\ w[j].from = s => w[i].val < w[j].val
    /\ \A i \in DOMAIN h, j \in DOMAIN b : IsReceipt(h, i, c, s) => h[i].val < b[j]
    /\ \A i \in DOMAIN h, j \in DOMAIN w : IsReceipt(h, i, c, s) /\ w[j].from = s => h[i].val < w[j].val
    /\ \A i \in DOMAIN b, j \in DOMAIN w : w[j].from = s => b[i] < w[j].val

-----------------------------------------------------------------------------
(* No message is lost, doubled or reordered: what each effect does to the messages of
   one sender on one channel.  The arguments are those of OnlySent, NoneMissing and
   Ordered. *)

InFlow(q, n, c, s, h, b, w) == OnlySent(q, n, c, s, h, b, w) /\ Ordered(c, s, h, b, w)

\* A result without a message of this sender on this channel.
LEMMA FlowNotes ==
    ASSUME NEW q, NEW n \in Nat, NEW c, NEW s, NEW h \in Seq(ResultType), NEW b \in Seq(Nat),
           NEW w \in Seq(Message), NEW obs \in ResultType, ~(obs.chan = c /\ obs.from = s)
    PROVE  /\ InFlow(q, n, c, s, h, b, w) => InFlow(q, n, c, s, Append(h, obs), b, w)
           /\ NoneMissing(q, n, c, s, h, b, w) => NoneMissing(q, n, c, s, Append(h, obs), b, w)
  <1> DEFINE g == Append(h, obs)
  <1>1. /\ \A i \in DOMAIN h : i \in DOMAIN g /\ g[i] = h[i]
        /\ \A i \in DOMAIN g : IsReceipt(g, i, c, s) => i \in DOMAIN h /\ IsReceipt(h, i, c, s)
    BY DEF IsReceipt
  <1> HIDE DEF g
  <1>2. \A i \in DOMAIN h : IsReceipt(h, i, c, s) => IsReceipt(g, i, c, s)
    BY <1>1 DEF IsReceipt
  <1>3. OnlySent(q, n, c, s, h, b, w) => OnlySent(q, n, c, s, g, b, w)
    BY <1>1 DEF OnlySent
  <1>4. Ordered(c, s, h, b, w) => Ordered(c, s, g, b, w)
    BY <1>1 DEF Ordered
  <1>5. NoneMissing(q, n, c, s, h, b, w) => NoneMissing(q, n, c, s, g, b, w)
    BY <1>1, <1>2 DEF NoneMissing
  <1> QED
    BY <1>3, <1>4, <1>5 DEF InFlow, g

\* Messages may go without a trace.
LEMMA FlowLoses ==
    ASSUME NEW q, NEW n \in Nat, NEW c, NEW s, NEW h \in Seq(ResultType), NEW b \in Seq(Nat),
           NEW w \in Seq(Message), w # <<>>, InFlow(q, n, c, s, h, b, w)
    PROVE  InFlow(q, n, c, s, h, b, Tail(w))
  <1> DEFINE v == Tail(w)
  <1>1. \A i \in DOMAIN v : i + 1 \in DOMAIN w /\ v[i] = w[i + 1]
    BY HeadAndTail
  <1>2. DOMAIN v \subseteq Nat
    OBVIOUS
  <1> HIDE DEF v
  <1>3. OnlySent(q, n, c, s, h, b, v)
    BY <1>1 DEF InFlow, OnlySent
  <1>4. \A i, j \in DOMAIN v : i < j /\ v[i].from = s /\ v[j].from = s => v[i].val < v[j].val
    <2> SUFFICES ASSUME NEW i \in DOMAIN v, NEW j \in DOMAIN v, i < j, v[i].from = s, v[j].from = s
                 PROVE  v[i].val < v[j].val
      OBVIOUS
    <2>1. i + 1 < j + 1 /\ i + 1 \in DOMAIN w /\ j + 1 \in DOMAIN w /\ v[i] = w[i + 1] /\ v[j] = w[j + 1]
      BY <1>1, <1>2
    <2> QED
      BY <2>1 DEF InFlow, Ordered
  <1>5. \A i \in DOMAIN h, j \in DOMAIN v : IsReceipt(h, i, c, s) /\ v[j].from = s => h[i].val < v[j].val
    BY <1>1 DEF InFlow, Ordered
  <1>6. \A i \in DOMAIN b, j \in DOMAIN v : v[j].from = s => b[i] < v[j].val
    BY <1>1 DEF InFlow, Ordered
  <1>7. Ordered(c, s, h, b, v)
    BY <1>4, <1>5, <1>6 DEF InFlow, Ordered
  <1> QED
    BY <1>3, <1>7 DEF InFlow, v

\* The first message on the wire is not this sender's: it goes, and nothing is missing.
LEMMA OtherGoes ==
    ASSUME NEW q, NEW n \in Nat, NEW c, NEW s, NEW h \in Seq(ResultType), NEW b \in Seq(Nat),
           NEW w \in Seq(Message), w # <<>>, Head(w).from # s, NoneMissing(q, n, c, s, h, b, w)
    PROVE  NoneMissing(q, n, c, s, h, b, Tail(w))
  <1> DEFINE v == Tail(w)
  <1>1. /\ w[1].from # s
        /\ \A i \in DOMAIN w : i = 1 \/ (i - 1 \in DOMAIN v /\ v[i - 1] = w[i])
    BY HeadAndTail
  <1> HIDE DEF v
  <1>2. ASSUME NEW m \in 1 .. n, NEW i \in DOMAIN w, w[i].from = s, w[i].val = m
        PROVE  \E j \in DOMAIN v : v[j].from = s /\ v[j].val = m
    BY <1>1, <1>2
  <1> QED
    BY <1>2 DEF NoneMissing, v

\* It is received: nothing of the sender's was in the buffer.
LEMMA FlowReceives ==
    ASSUME NEW q, NEW n \in Nat, NEW c, NEW s, NEW h \in Seq(ResultType), NEW b, b = <<>>,
           NEW w \in Seq(Message), w # <<>>, Head(w).from = s,
           NEW obs \in ResultType, obs.chan = c, obs.from = s, obs.val = Head(w).val
    PROVE  /\ InFlow(q, n, c, s, h, b, w) => InFlow(q, n, c, s, Append(h, obs), b, Tail(w))
           /\ NoneMissing(q, n, c, s, h, b, w) => NoneMissing(q, n, c, s, Append(h, obs), b, Tail(w))
  <1> DEFINE g == Append(h, obs)
             v == Tail(w)
             l == Len(h) + 1
  <1>1. /\ \A i \in DOMAIN h : i \in DOMAIN g /\ g[i] = h[i] /\ i < l
        /\ l \in DOMAIN g /\ g[l] = obs /\ IsReceipt(g, l, c, s)
        /\ \A i \in DOMAIN g : i \in DOMAIN h \/ i = l
        /\ \A i \in DOMAIN h : IsReceipt(g, i, c, s) <=> IsReceipt(h, i, c, s)
    BY DEF IsReceipt
  <1>2. /\ 1 \in DOMAIN w /\ w[1].from = s /\ obs.val = w[1].val
        /\ \A i \in DOMAIN v : i + 1 \in DOMAIN w /\ v[i] = w[i + 1] /\ 1 < i + 1
        /\ \A i \in DOMAIN w : i = 1 \/ (i - 1 \in DOMAIN v /\ v[i - 1] = w[i])
    BY HeadAndTail
  <1>3. DOMAIN h \subseteq Nat /\ l \in Nat /\ DOMAIN b = {}
    OBVIOUS
  <1>4. InFlow(q, n, c, s, h, b, w) => InFlow(q, n, c, s, h, b, v)
    <2>1. b \in Seq(Nat)
      OBVIOUS
    <2> QED
      BY <2>1, FlowLoses
  <1> HIDE DEF g, v, l
  <1>5. ASSUME InFlow(q, n, c, s, h, b, w)
        PROVE  InFlow(q, n, c, s, g, b, v)
    <2>1. InFlow(q, n, c, s, h, b, v)
      BY <1>4, <1>5
    <2>2. OnlySent(q, n, c, s, g, b, v)
      <3>1. IsSent(q, n, c, w[1].val)
        BY <1>2, <1>5 DEF InFlow, OnlySent
      <3> QED
        BY <1>1, <1>2, <2>1, <3>1 DEF InFlow, OnlySent
    <2>3. \A i \in DOMAIN h : IsReceipt(h, i, c, s) => h[i].val < obs.val
      BY <1>2, <1>5 DEF InFlow, Ordered
    <2>4. \A i \in DOMAIN v : v[i].from = s => obs.val < v[i].val
      BY <1>2, <1>5 DEF InFlow, Ordered
    <2>5. \A i, j \in DOMAIN g : i < j /\ IsReceipt(g, i, c, s) /\ IsReceipt(g, j, c, s) => g[i].val < g[j].val
      BY <1>1, <1>3, <2>1, <2>3 DEF InFlow, Ordered
    <2>6. \A i \in DOMAIN g, j \in DOMAIN v : IsReceipt(g, i, c, s) /\ v[j].from = s => g[i].val < v[j].val
      BY <1>1, <2>1, <2>4 DEF InFlow, Ordered
    <2>7. Ordered(c, s, g, b, v)
      BY <1>3, <2>1, <2>5, <2>6 DEF InFlow, Ordered
    <2> QED
      BY <2>2, <2>7 DEF InFlow
  <1>6. ASSUME NoneMissing(q, n, c, s, h, b, w)
        PROVE  NoneMissing(q, n, c, s, g, b, v)
    <2> SUFFICES ASSUME NEW m \in 1 .. n, IsSent(q, n, c, m)
                 PROVE  \/ \E i \in DOMAIN g : IsReceipt(g, i, c, s) /\ g[i].val = m
                        \/ \E i \in DOMAIN v : v[i].from = s /\ v[i].val = m
      BY DEF NoneMissing
    <2>1. CASE \E i \in DOMAIN h : IsReceipt(h, i, c, s) /\ h[i].val = m
      BY <1>1, <2>1
    <2>2. CASE \E i \in DOMAIN w : w[i].from = s /\ w[i].val = m
      BY <1>1, <1>2, <2>2
    <2> QED
      BY <1>3, <1>6, <2>1, <2>2 DEF NoneMissing
  <1> QED
    BY <1>5, <1>6 DEF g, v

\* It moves to the end of the sender's buffer.
LEMMA FlowFetches ==
    ASSUME NEW q, NEW n \in Nat, NEW c, NEW s, NEW h \in Seq(ResultType), NEW b \in Seq(Nat),
           NEW w \in Seq(Message), w # <<>>, Head(w).from = s
    PROVE  /\ InFlow(q, n, c, s, h, b, w) => InFlow(q, n, c, s, h, Append(b, Head(w).val), Tail(w))
           /\ NoneMissing(q, n, c, s, h, b, w) =>
                  NoneMissing(q, n, c, s, h, Append(b, Head(w).val), Tail(w))
  <1> DEFINE val == Head(w).val
             a == Append(b, val)
             v == Tail(w)
             l == Len(b) + 1
  <1>1. /\ \A i \in DOMAIN b : i \in DOMAIN a /\ a[i] = b[i] /\ i < l
        /\ l \in DOMAIN a /\ a[l] = val
        /\ \A i \in DOMAIN a : i \in DOMAIN b \/ i = l
        /\ DOMAIN b \subseteq Nat /\ l \in Nat
    OBVIOUS
  <1>2. /\ 1 \in DOMAIN w /\ w[1].from = s /\ val = w[1].val
        /\ \A i \in DOMAIN v : i + 1 \in DOMAIN w /\ v[i] = w[i + 1] /\ 1 < i + 1
        /\ \A i \in DOMAIN w : i = 1 \/ (i - 1 \in DOMAIN v /\ v[i - 1] = w[i])
    BY HeadAndTail
  <1>3. InFlow(q, n, c, s, h, b, w) => InFlow(q, n, c, s, h, b, v)
    BY FlowLoses
  <1> HIDE DEF val, a, v, l
  <1>4. ASSUME InFlow(q, n, c, s, h, b, w)
        PROVE  InFlow(q, n, c, s, h, a, v)
    <2>1. InFlow(q, n, c, s, h, b, v)
      BY <1>3, <1>4
    <2>2. OnlySent(q, n, c, s, h, a, v)
      <3>1. IsSent(q, n, c, val)
        BY <1>2, <1>4 DEF InFlow, OnlySent
      <3> QED
        BY <1>1, <2>1, <3>1 DEF InFlow, OnlySent
    <2>3. \A i \in DOMAIN h : IsReceipt(h, i, c, s) => h[i].val < val
      BY <1>2, <1>4 DEF InFlow, Ordered
    <2>4. \A i \in DOMAIN b : b[i] < val
      BY <1>2, <1>4 DEF InFlow, Ordered
    <2>5. \A i \in DOMAIN v : v[i].from = s => val < v[i].val
      BY <1>2, <1>4 DEF InFlow, Ordered
    <2>6. \A i, j \in DOMAIN a : i < j => a[i] < a[j]
      BY <1>1, <2>1, <2>4 DEF InFlow, Ordered
    <2>7. \A i \in DOMAIN h, j \in DOMAIN a : IsReceipt(h, i, c, s) => h[i].val < a[j]
      BY <1>1, <2>1, <2>3 DEF InFlow, Ordered
    <2>8. \A i \in DOMAIN a, j \in DOMAIN v : v[j].from = s => a[i] < v[j].val
      BY <1>1, <2>1, <2>5 DEF InFlow, Ordered
    <2>9. Ordered(c, s, h, a, v)
      BY <2>1, <2>6, <2>7, <2>8 DEF InFlow, Ordered
    <2> QED
      BY <2>2, <2>9 DEF InFlow
  <1>5. ASSUME NoneMissing(q, n, c, s, h, b, w)
        PROVE  NoneMissing(q, n, c, s, h, a, v)
    <2> SUFFICES ASSUME NEW m \in 1 .. n, IsSent(q, n, c, m)
                 PROVE  \/ \E i \in DOMAIN h : IsReceipt(h, i, c, s) /\ h[i].val = m
                        \/ \E i \in DOMAIN a : a[i] = m
                        \/ \E i \in DOMAIN v : v[i].from = s /\ v[i].val = m
      BY DEF NoneMissing
    <2>1. CASE \E i \in DOMAIN b : b[i] = m
      BY <1>1, <2>1
    <2>2. CASE \E i \in DOMAIN w : w[i].from = s /\ w[i].val = m
      BY <1>1, <1>2, <2>2
    <2> QED
      BY <1>5, <2>1, <2>2 DEF NoneMissing
  <1> QED
    BY <1>4, <1>5 DEF a, v, val

\* It is received from the buffer.
LEMMA FlowUnbuffers ==
    ASSUME NEW q, NEW n \in Nat, NEW c, NEW s, NEW h \in Seq(ResultType), NEW b \in Seq(Nat),
           NEW w \in Seq(Message), b # <<>>,
           NEW obs \in ResultType, obs.chan = c, obs.from = s, obs.val = Head(b)
    PROVE  /\ InFlow(q, n, c, s, h, b, w) => InFlow(q, n, c, s, Append(h, obs), Tail(b), w)
           /\ NoneMissing(q, n, c, s, h, b, w) => NoneMissing(q, n, c, s, Append(h, obs), Tail(b), w)
  <1> DEFINE g == Append(h, obs)
             a == Tail(b)
             l == Len(h) + 1
  <1>1. /\ \A i \in DOMAIN h : i \in DOMAIN g /\ g[i] = h[i] /\ i < l
        /\ l \in DOMAIN g /\ g[l] = obs /\ IsReceipt(g, l, c, s)
        /\ \A i \in DOMAIN g : i \in DOMAIN h \/ i = l
        /\ \A i \in DOMAIN h : IsReceipt(g, i, c, s) <=> IsReceipt(h, i, c, s)
        /\ DOMAIN h \subseteq Nat /\ l \in Nat
    BY DEF IsReceipt
  <1>2. /\ 1 \in DOMAIN b /\ obs.val = b[1]
        /\ \A i \in DOMAIN a : i + 1 \in DOMAIN b /\ a[i] = b[i + 1] /\ 1 < i + 1
        /\ \A i \in DOMAIN b : i = 1 \/ (i - 1 \in DOMAIN a /\ a[i - 1] = b[i])
        /\ \A i, j \in DOMAIN a : i < j => i + 1 < j + 1
    BY HeadAndTail
  <1> HIDE DEF g, a, l
  <1>3. ASSUME InFlow(q, n, c, s, h, b, w)
        PROVE  InFlow(q, n, c, s, g, a, w)
    <2>1. OnlySent(q, n, c, s, g, a, w)
      BY <1>1, <1>2, <1>3 DEF InFlow, OnlySent
    <2>2. \A i \in DOMAIN h : IsReceipt(h, i, c, s) => h[i].val < obs.val
      BY <1>2, <1>3 DEF InFlow, Ordered
    <2>3. \A i \in DOMAIN a : obs.val < a[i]
      BY <1>2, <1>3 DEF InFlow, Ordered
    <2>4. \A i \in DOMAIN w : w[i].from = s => obs.val < w[i].val
      BY <1>2, <1>3 DEF InFlow, Ordered
    <2>5. \A i, j \in DOMAIN g : i < j /\ IsReceipt(g, i, c, s) /\ IsReceipt(g, j, c, s) => g[i].val < g[j].val
      BY <1>1, <1>3, <2>2 DEF InFlow, Ordered
    <2>6. \A i, j \in DOMAIN a : i < j => a[i] < a[j]
      BY <1>2, <1>3 DEF InFlow, Ordered
    <2>7. \A i \in DOMAIN g, j \in DOMAIN a : IsReceipt(g, i, c, s) => g[i].val < a[j]
      BY <1>1, <1>2, <1>3, <2>3 DEF InFlow, Ordered
    <2>8. \A i \in DOMAIN g, j \in DOMAIN w : IsReceipt(g, i, c, s) /\ w[j].from = s => g[i].val < w[j].val
      BY <1>1, <1>3, <2>4 DEF InFlow, Ordered
    <2>9. \A i \in DOMAIN a, j \in DOMAIN w : w[j].from = s => a[i] < w[j].val
      BY <1>2, <1>3 DEF InFlow, Ordered
    <2>10. Ordered(c, s, g, a, w)
      BY <1>3, <2>5, <2>6, <2>7, <2>8, <2>9 DEF InFlow, Ordered
    <2> QED
      BY <2>1, <2>10 DEF InFlow
  <1>4. ASSUME NoneMissing(q, n, c, s, h, b, w)
        PROVE  NoneMissing(q, n, c, s, g, a, w)
    <2> SUFFICES ASSUME NEW m \in 1 .. n, IsSent(q, n, c, m)
                 PROVE  \/ \E i \in DOMAIN g : IsReceipt(g, i, c, s) /\ g[i].val = m
                        \/ \E i \in DOMAIN a : a[i] = m
                        \/ \E i \in DOMAIN w : w[i].from = s /\ w[i].val = m
      BY DEF NoneMissing
    <2>1. CASE \E i \in DOMAIN h : IsReceipt(h, i, c, s) /\ h[i].val = m
      BY <1>1, <2>1
    <2>2. CASE \E i \in DOMAIN b : b[i] = m
      BY <1>1, <1>2, <2>2
    <2> QED
      BY <1>4, <2>1, <2>2 DEF NoneMissing
  <1> QED
    BY <1>3, <1>4 DEF g, a

\* The sender sends on another channel.
LEMMA FlowElsewhere ==
    ASSUME NEW q, NEW n \in Nat, NEW c, NEW s, NEW h \in Seq(ResultType), NEW b \in Seq(Nat),
           NEW w \in Seq(Message), q[n + 1] # c
    PROVE  /\ InFlow(q, n, c, s, h, b, w) => InFlow(q, n + 1, c, s, h, b, w)
           /\ NoneMissing(q, n, c, s, h, b, w) => NoneMissing(q, n + 1, c, s, h, b, w)
  <1>1. \A m : IsSent(q, n, c, m) <=> IsSent(q, n + 1, c, m)
    BY DEF IsSent
  <1>2. OnlySent(q, n, c, s, h, b, w) => OnlySent(q, n + 1, c, s, h, b, w)
    BY <1>1 DEF OnlySent
  <1>3. NoneMissing(q, n, c, s, h, b, w) => NoneMissing(q, n + 1, c, s, h, b, w)
    <2>1. \A m : IsSent(q, n + 1, c, m) => m \in 1 .. n
      BY <1>1 DEF IsSent
    <2> QED
      BY <1>1, <2>1 DEF NoneMissing
  <1> QED
    BY <1>2, <1>3 DEF InFlow

\* The sender sends on this channel: the message comes last.
LEMMA FlowSends ==
    ASSUME NEW q, NEW n \in Nat, NEW c, NEW s, NEW h \in Seq(ResultType), NEW b \in Seq(Nat),
           NEW w \in Seq(Message), q[n + 1] = c,
           NEW msg \in Message, msg.from = s, msg.val = n + 1
    PROVE  /\ InFlow(q, n, c, s, h, b, w) => InFlow(q, n + 1, c, s, h, b, Append(w, msg))
           /\ NoneMissing(q, n, c, s, h, b, w) => NoneMissing(q, n + 1, c, s, h, b, Append(w, msg))
  <1> DEFINE v == Append(w, msg)
             l == Len(w) + 1
  <1>1. /\ \A i \in DOMAIN w : i \in DOMAIN v /\ v[i] = w[i] /\ i < l
        /\ l \in DOMAIN v /\ v[l] = msg
        /\ \A i \in DOMAIN v : i \in DOMAIN w \/ i = l
        /\ DOMAIN w \subseteq Nat /\ l \in Nat
    OBVIOUS
  <1> HIDE DEF v, l
  <1>2. /\ \A m : IsSent(q, n, c, m) => IsSent(q, n + 1, c, m) /\ m < n + 1
        /\ \A m : IsSent(q, n + 1, c, m) => m = n + 1 \/ IsSent(q, n, c, m)
        /\ IsSent(q, n + 1, c, n + 1)
    BY DEF IsSent
  <1>3. ASSUME InFlow(q, n, c, s, h, b, w)
        PROVE  InFlow(q, n + 1, c, s, h, b, v)
    <2>1. OnlySent(q, n + 1, c, s, h, b, v)
      BY <1>1, <1>2, <1>3 DEF InFlow, OnlySent
    <2>2. \A i, j \in DOMAIN v : i < j /\ v[i].from = s /\ v[j].from = s => v[i].val < v[j].val
      <3> SUFFICES ASSUME NEW i \in DOMAIN v, NEW j \in DOMAIN v, i < j, v[i].from = s, v[j].from = s
                   PROVE  v[i].val < v[j].val
        OBVIOUS
      <3>1. i \in DOMAIN w
        BY <1>1
      <3>2. IsSent(q, n, c, v[i].val)
        BY <1>1, <1>3, <3>1 DEF InFlow, OnlySent
      <3>3. CASE j = l
        BY <1>1, <1>2, <3>2, <3>3
      <3>4. CASE j \in DOMAIN w
        BY <1>1, <1>3, <3>1, <3>4 DEF InFlow, Ordered
      <3> QED
        BY <1>1, <3>3, <3>4
    <2>3. \A i \in DOMAIN h, j \in DOMAIN v : IsReceipt(h, i, c, s) /\ v[j].from = s => h[i].val < v[j].val
      BY <1>1, <1>2, <1>3 DEF InFlow, Ordered, OnlySent
    <2>4. \A i \in DOMAIN b, j \in DOMAIN v : v[j].from = s => b[i] < v[j].val
      BY <1>1, <1>2, <1>3 DEF InFlow, Ordered, OnlySent
    <2>5. Ordered(c, s, h, b, v)
      BY <1>3, <2>2, <2>3, <2>4 DEF InFlow, Ordered
    <2> QED
      BY <2>1, <2>5 DEF InFlow
  <1>4. ASSUME NoneMissing(q, n, c, s, h, b, w)
        PROVE  NoneMissing(q, n + 1, c, s, h, b, v)
    <2> SUFFICES ASSUME NEW m \in 1 .. n + 1, IsSent(q, n + 1, c, m)
                 PROVE  \/ \E i \in DOMAIN h : IsReceipt(h, i, c, s) /\ h[i].val = m
                        \/ \E i \in DOMAIN b : b[i] = m
                        \/ \E i \in DOMAIN v : v[i].from = s /\ v[i].val = m
      BY DEF NoneMissing
    <2>1. CASE m = n + 1
      BY <1>1, <2>1
    <2>2. CASE IsSent(q, n, c, m)
      <3>1. m \in 1 .. n
        BY <2>2 DEF IsSent
      <3>2. \/ \E i \in DOMAIN h : IsReceipt(h, i, c, s) /\ h[i].val = m
            \/ \E i \in DOMAIN b : b[i] = m
            \/ \E i \in DOMAIN w : w[i].from = s /\ w[i].val = m
        BY <1>4, <2>2, <3>1 DEF NoneMissing
      <3> QED
        BY <1>1, <3>2
    <2> QED
      BY <1>2, <2>1, <2>2
  <1> QED
    BY <1>3, <1>4 DEF v

\* Another sender's message comes last.
LEMMA OthersSend ==
    ASSUME NEW q, NEW n \in Nat, NEW c, NEW s, NEW h \in Seq(ResultType), NEW b \in Seq(Nat),
           NEW w \in Seq(Message), NEW msg \in Message, msg.from # s
    PROVE  /\ InFlow(q, n, c, s, h, b, w) => InFlow(q, n, c, s, h, b, Append(w, msg))
           /\ NoneMissing(q, n, c, s, h, b, w) => NoneMissing(q, n, c, s, h, b, Append(w, msg))
  <1> DEFINE v == Append(w, msg)
  <1>1. /\ \A i \in DOMAIN w : i \in DOMAIN v /\ v[i] = w[i]
        /\ \A i \in DOMAIN v : v[i].from = s => i \in DOMAIN w /\ v[i] = w[i]
    OBVIOUS
  <1> HIDE DEF v
  <1>2. OnlySent(q, n, c, s, h, b, w) => OnlySent(q, n, c, s, h, b, v)
    BY <1>1 DEF OnlySent
  <1>3. Ordered(c, s, h, b, w) => Ordered(c, s, h, b, v)
    BY <1>1 DEF Ordered
  <1>4. NoneMissing(q, n, c, s, h, b, w) => NoneMissing(q, n, c, s, h, b, v)
    BY <1>1 DEF NoneMissing
  <1> QED
    BY <1>2, <1>3, <1>4 DEF InFlow, v

\* The end of what was received is forgotten.
LEMMA FlowForgets ==
    ASSUME NEW q, NEW n \in Nat, NEW c, NEW s, NEW h \in Seq(ResultType), NEW g \in Seq(ResultType),
           NEW b, NEW w, InFlow(q, n, c, s, h \o g, b, w)
    PROVE  InFlow(q, n, c, s, h, b, w)
  <1> DEFINE all == h \o g
  <1>1. \A i \in DOMAIN h : i \in DOMAIN all /\ all[i] = h[i]
    OBVIOUS
  <1>2. InFlow(q, n, c, s, all, b, w)
    OBVIOUS
  <1> HIDE DEF all
  <1>3. \A i \in DOMAIN h : IsReceipt(h, i, c, s) => IsReceipt(all, i, c, s)
    BY <1>1 DEF IsReceipt
  <1>4. OnlySent(q, n, c, s, h, b, w)
    BY <1>1, <1>2, <1>3 DEF InFlow, OnlySent
  <1>5. Ordered(c, s, h, b, w)
    BY <1>1, <1>2, <1>3 DEF InFlow, Ordered
  <1> QED
    BY <1>4, <1>5 DEF InFlow

\* So is the buffer.
LEMMA FlowOpens ==
    ASSUME NEW q, NEW n \in Nat, NEW c, NEW s, NEW h, NEW b, NEW w, InFlow(q, n, c, s, h, b, w)
    PROVE  InFlow(q, n, c, s, h, <<>>, w)
  <1>1. DOMAIN <<>> = {}
    OBVIOUS
  <1>2. OnlySent(q, n, c, s, h, <<>>, w)
    BY <1>1 DEF InFlow, OnlySent
  <1>3. Ordered(c, s, h, <<>>, w)
    BY <1>1 DEF InFlow, Ordered
  <1> QED
    BY <1>2, <1>3 DEF InFlow

-----------------------------------------------------------------------------
(* What a step does to what the program sees and to the channels. *)

\* The recorded events are not lost before the log is closed, nor the replayed ones
\* before the program desyncs.
Lossless == status # "panicked" /\ ~desynced /\ (mode = "Replay" \/ open)

\* The end of a channel is seen because the replayed select was told of it, or by the set
\* underneath; it is marked then.
EndsAt(i) ==
    /\ i \in DOMAIN InSet' /\ InSet'[i].closed
    /\ \/ todo # <<>> /\ todo[1].from = NoSender /\ todo[1].index = i /\ todo' = Tail(todo)
       \/ ~InSet[i].closed /\ status # "panicked" /\ todo' = <<>> /\ ~(mode = "Replay" /\ Lossless)

SeesMore(obs) == obs \in ResultType /\ Seen' = Append(Seen, obs)
TakesFirst(c) ==
    /\ wire[c] # <<>>
    /\ wire' = [wire EXCEPT ![c] = Tail(@)]
    /\ UNCHANGED <<buffer, sent>>

Still == UNCHANGED <<wire, buffer, sent>> /\ Seen' = Seen
Notes == UNCHANGED <<wire, buffer, sent>> /\ \E obs : SeesMore(obs) /\ obs.from = NoSender /\ obs.op # "event"
Ends == UNCHANGED <<wire, buffer, sent>> /\ \E i \in Nat, c \in Chan : SeesMore(Closed(i, c)) /\ EndsAt(i)
ReceivesFromWire ==
    \E c \in Chan, obs \in ResultType :
        /\ \A s \in Sender : buffer[c][s] = <<>>
        /\ TakesFirst(c)
        /\ SeesMore(obs)
        /\ obs.chan = c /\ obs.from = Head(wire[c]).from /\ obs.val = Head(wire[c]).val
ReceivesFromBuffer ==
    \E c \in Chan, s \in Sender, obs \in ResultType :
        /\ TakeFromBuffer(c, s)
        /\ SeesMore(obs)
        /\ obs.chan = c /\ obs.from = s /\ obs.val = Head(buffer[c][s])
Fetches == Seen' = Seen /\ \E c \in Chan : Fetch(c)
SendsOne ==
    \E t \in Sender :
        /\ sent[t] < Len(Sends[t])
        /\ sent' = [sent EXCEPT ![t] = @ + 1]
        /\ wire' = [wire EXCEPT ![Sends[t][sent[t] + 1]] = Append(@, [from |-> t, val |-> sent[t] + 1])]
        /\ UNCHANGED buffer
        /\ Seen' = Seen
\* A receiver is added, and its buffer dropped; the log may make the thread panic.
Opens ==
    \E c \in Chan :
        /\ buffer' = [buffer EXCEPT ![c] = [s \in Sender |-> <<>>]]
        /\ UNCHANGED <<wire, sent>>
        /\ \/ \E obs : SeesMore(obs) /\ obs.from = NoSender /\ obs.op # "event"
           \/ Seen' = Seen
        /\ Lossless' /\ ~Dropped(c)' => \A s \in Sender : buffer[c][s] = <<>>
\* Messages are gone, and with them the events of a select that failed.
Loses ==
    /\ ~Lossless'
    /\ UNCHANGED <<buffer, sent>>
    /\ wire' = wire \/ \E c \in Chan : TakesFirst(c)
    /\ Seen' = Seen \/ Seen' = hist

Effect ==
    \/ Still \/ Notes \/ Ends \/ Opens \/ Loses
    \/ ReceivesFromWire \/ ReceivesFromBuffer \/ Fetches \/ SendsOne

Extends == \A i \in DOMAIN hist : i \in DOMAIN hist' /\ hist'[i] = hist[i]

\* What was done stays done.
Frame ==
    /\ UNCHANGED setup
    /\ Lossless' => Lossless
    /\ Extends
    /\ \A c \in Chan : Dropped(c) => Dropped(c)'

-----------------------------------------------------------------------------
(* The flow is kept by every effect. *)

Passes(c, s) == InFlow(Sends[s], sent[s], c, s, Seen, buffer[c][s], wire[c])
Whole(c, s) == NoneMissing(Sends[s], sent[s], c, s, Seen, buffer[c][s], wire[c])

FlowOn(c, s) == Passes(c, s) /\ (Lossless /\ ~Dropped(c) => Whole(c, s))
Flow == \A c \in Chan, s \in Sender : FlowOn(c, s)

\* The effect of a step on the messages of s on c.
KeepsFlow(c, s) == (Passes(c, s) => Passes(c, s)') /\ (Whole(c, s) => Whole(c, s)')

LEMMA FlowTyped ==
    ASSUME TypeOK, NEW c \in Chan, NEW s \in Sender
    PROVE  /\ Sends[s] \in Seq(Chan)
           /\ sent[s] \in Nat
           /\ hist \in Seq(ResultType) /\ got \in Seq(ResultType) /\ Seen \in Seq(ResultType)
           /\ buffer[c][s] \in Seq(Nat)
           /\ wire[c] \in Seq(Message)
  BY SetupTyped, TypeParts DEF ChanTyped, ThreadTyped, SelectTyped, Seen

\* What is taken from a channel's wire, or added to it, does not change another's.
LEMMA TakesFirstHere ==
    ASSUME TypeOK, NEW c \in Chan, TakesFirst(c)
    PROVE  /\ wire'[c] = Tail(wire[c])
           /\ \A d \in Chan \ {c} : wire'[d] = wire[d]
  BY TypeParts DEF TakesFirst, ChanTyped

LEMMA NotesKeepsFlow ==
    ASSUME TypeOK, Notes \/ Ends, UNCHANGED setup, NEW c \in Chan, NEW s \in Sender
    PROVE  KeepsFlow(c, s)
  <1>1. PICK obs : SeesMore(obs) /\ obs.from = NoSender
    <2>1. \A i, k : Closed(i, k).from = NoSender
      BY DEF Closed, Failure, Result
    <2> QED
      BY <2>1 DEF Notes, Ends
  <1>2. Seen' = Append(Seen, obs) /\ obs \in ResultType /\ UNCHANGED <<wire, buffer, sent>> /\ Sends' = Sends
    BY <1>1 DEF SeesMore, Notes, Ends, Sends
  <1>3. ~(obs.chan = c /\ obs.from = s)
    BY <1>1, ReaderAssumption
  <1> QED
    BY <1>2, <1>3, FlowTyped, FlowNotes DEF KeepsFlow, Passes, Whole

LEMMA ReceivesFromWireKeepsFlow ==
    ASSUME TypeOK, ReceivesFromWire, UNCHANGED setup, NEW c \in Chan, NEW s \in Sender
    PROVE  KeepsFlow(c, s)
  <1>1. PICK d \in Chan, obs \in ResultType :
            /\ \A t \in Sender : buffer[d][t] = <<>>
            /\ TakesFirst(d)
            /\ SeesMore(obs)
            /\ obs.chan = d /\ obs.from = Head(wire[d]).from /\ obs.val = Head(wire[d]).val
    BY DEF ReceivesFromWire
  <1>2. Seen' = Append(Seen, obs) /\ buffer' = buffer /\ sent' = sent /\ Sends' = Sends
    BY <1>1 DEF SeesMore, TakesFirst, Sends
  <1>3. wire[d] # <<>> /\ wire'[d] = Tail(wire[d]) /\ \A e \in Chan \ {d} : wire'[e] = wire[e]
    BY <1>1, TakesFirstHere DEF TakesFirst
  <1>4. CASE c = d /\ obs.from = s
    <2>1. /\ buffer[c][s] = <<>>
          /\ wire[c] # <<>> /\ wire'[c] = Tail(wire[c])
          /\ Head(wire[c]).from = s
          /\ obs.chan = c /\ obs.from = s /\ obs.val = Head(wire[c]).val
      BY <1>1, <1>3, <1>4
    <2>2. /\ Passes(c, s) =>
                InFlow(Sends[s], sent[s], c, s, Append(Seen, obs), buffer[c][s], Tail(wire[c]))
          /\ Whole(c, s) =>
                NoneMissing(Sends[s], sent[s], c, s, Append(Seen, obs), buffer[c][s], Tail(wire[c]))
      BY <2>1, FlowTyped, FlowReceives DEF Passes, Whole
    <2> QED
      BY <1>2, <2>1, <2>2 DEF KeepsFlow, Passes, Whole
  <1>5. CASE c = d /\ obs.from # s
    <2>1. /\ Passes(c, s) => InFlow(Sends[s], sent[s], c, s, Append(Seen, obs), buffer[c][s], wire[c])
          /\ Whole(c, s) => NoneMissing(Sends[s], sent[s], c, s, Append(Seen, obs), buffer[c][s], wire[c])
      BY <1>5, FlowTyped, FlowNotes DEF Passes, Whole
    <2>2. Append(Seen, obs) \in Seq(ResultType)
      BY FlowTyped
    <2>3. /\ Passes(c, s) => InFlow(Sends[s], sent[s], c, s, Append(Seen, obs), buffer[c][s], Tail(wire[c]))
          /\ Whole(c, s) => NoneMissing(Sends[s], sent[s], c, s, Append(Seen, obs), buffer[c][s], Tail(wire[c]))
      BY <1>1, <1>3, <1>5, <2>1, <2>2, FlowTyped, FlowLoses, OtherGoes
    <2> QED
      BY <1>2, <1>3, <1>5, <2>3 DEF KeepsFlow, Passes, Whole
  <1>6. CASE c # d
    <2>1. wire'[c] = wire[c] /\ ~(obs.chan = c /\ obs.from = s)
      BY <1>1, <1>3, <1>6
    <2> QED
      BY <1>2, <2>1, FlowTyped, FlowNotes DEF KeepsFlow, Passes, Whole
  <1> QED
    BY <1>4, <1>5, <1>6

LEMMA ReceivesFromBufferKeepsFlow ==
    ASSUME TypeOK, ReceivesFromBuffer, UNCHANGED setup, NEW c \in Chan, NEW s \in Sender
    PROVE  KeepsFlow(c, s)
  <1>1. PICK d \in Chan, t \in Sender, obs \in ResultType :
            /\ TakeFromBuffer(d, t)
            /\ SeesMore(obs)
            /\ obs.chan = d /\ obs.from = t /\ obs.val = Head(buffer[d][t])
    BY DEF ReceivesFromBuffer
  <1>2. Seen' = Append(Seen, obs) /\ wire' = wire /\ sent' = sent /\ Sends' = Sends
    BY <1>1 DEF SeesMore, TakeFromBuffer, Sends
  <1>3. /\ buffer[d][t] # <<>> /\ buffer'[d][t] = Tail(buffer[d][t])
        /\ c # d \/ s # t => buffer'[c][s] = buffer[c][s]
    BY <1>1, TypeParts DEF TakeFromBuffer, ChanTyped
  <1>4. CASE c = d /\ s = t
    <2>1. /\ buffer[c][s] # <<>> /\ buffer'[c][s] = Tail(buffer[c][s])
          /\ obs.chan = c /\ obs.from = s /\ obs.val = Head(buffer[c][s])
      BY <1>1, <1>3, <1>4
    <2>2. /\ Passes(c, s) =>
                InFlow(Sends[s], sent[s], c, s, Append(Seen, obs), Tail(buffer[c][s]), wire[c])
          /\ Whole(c, s) =>
                NoneMissing(Sends[s], sent[s], c, s, Append(Seen, obs), Tail(buffer[c][s]), wire[c])
      BY <2>1, FlowTyped, FlowUnbuffers DEF Passes, Whole
    <2> QED
      BY <1>2, <2>1, <2>2 DEF KeepsFlow, Passes, Whole
  <1>5. CASE c # d \/ s # t
    <2>1. ~(obs.chan = c /\ obs.from = s)
      BY <1>1, <1>5
    <2> QED
      BY <1>2, <1>3, <1>5, <2>1, FlowTyped, FlowNotes DEF KeepsFlow, Passes, Whole
  <1> QED
    BY <1>4, <1>5

LEMMA FetchesKeepsFlow ==
    ASSUME TypeOK, Fetches, UNCHANGED setup, NEW c \in Chan, NEW s \in Sender
    PROVE  KeepsFlow(c, s)
  <1>1. PICK d \in Chan : Fetch(d)
    BY DEF Fetches
  <1> DEFINE msg == Head(wire[d])
  <1>2. Seen' = Seen /\ sent' = sent /\ Sends' = Sends
    BY <1>1 DEF Fetches, Fetch, Sends
  <1>3. wire[d] # <<>> /\ wire[d] \in Seq(Message)
    BY <1>1, FlowTyped DEF Fetch
  <1>4. msg \in Message /\ msg.from \in Sender
    <2>1. msg \in Message
      BY <1>3
    <2> QED
      BY <2>1 DEF Message
  <1>5. /\ wire'[d] = Tail(wire[d])
        /\ c # d => wire'[c] = wire[c]
        /\ buffer'[d][msg.from] = Append(buffer[d][msg.from], msg.val)
        /\ c # d \/ s # msg.from => buffer'[c][s] = buffer[c][s]
    <2>1. wire \in [Chan -> Seq(Message)] /\ buffer \in [Chan -> [Sender -> Seq(Nat)]]
      BY TypeParts DEF ChanTyped
    <2>2. /\ wire' = [wire EXCEPT ![d] = Tail(@)]
          /\ buffer' = [buffer EXCEPT ![d][msg.from] = Append(@, msg.val)]
      BY <1>1 DEF Fetch
    <2> HIDE DEF msg
    <2> QED
      BY <1>4, <2>1, <2>2
  <1>6. CASE c = d /\ msg.from = s
    <2>1. /\ buffer'[c][s] = Append(buffer[c][s], Head(wire[c]).val)
          /\ wire[c] # <<>> /\ wire'[c] = Tail(wire[c])
          /\ Head(wire[c]).from = s
      BY <1>3, <1>5, <1>6
    <2>2. /\ Passes(c, s) => InFlow(Sends[s], sent[s], c, s, Seen,
                                     Append(buffer[c][s], Head(wire[c]).val), Tail(wire[c]))
          /\ Whole(c, s) => NoneMissing(Sends[s], sent[s], c, s, Seen,
                                         Append(buffer[c][s], Head(wire[c]).val), Tail(wire[c]))
      BY <2>1, FlowTyped, FlowFetches DEF Passes, Whole
    <2> QED
      BY <1>2, <2>1, <2>2 DEF KeepsFlow, Passes, Whole
  <1>7. CASE c = d /\ msg.from # s
    <2>1. buffer'[c][s] = buffer[c][s] /\ wire'[c] = Tail(wire[c]) /\ wire[c] # <<>>
      BY <1>3, <1>5, <1>7
    <2> QED
      BY <1>2, <1>7, <2>1, FlowTyped, FlowLoses, OtherGoes DEF KeepsFlow, Passes, Whole
  <1>8. CASE c # d
    BY <1>2, <1>5, <1>8 DEF KeepsFlow, Passes, Whole
  <1> QED
    BY <1>6, <1>7, <1>8

LEMMA SendsOneKeepsFlow ==
    ASSUME TypeOK, SendsOne, UNCHANGED setup, NEW c \in Chan, NEW s \in Sender
    PROVE  KeepsFlow(c, s)
  <1>1. PICK t \in Sender :
            /\ sent[t] < Len(Sends[t])
            /\ sent' = [sent EXCEPT ![t] = @ + 1]
            /\ wire' = [wire EXCEPT ![Sends[t][sent[t] + 1]] =
                            Append(@, [from |-> t, val |-> sent[t] + 1])]
            /\ UNCHANGED <<buffer, Seen>>
    BY DEF SendsOne
  <1> DEFINE n == sent[t]
             d == Sends[t][n + 1]
             msg == [from |-> t, val |-> n + 1]
  <1>2. n \in Nat /\ n + 1 \in DOMAIN Sends[t] /\ d \in Chan
    BY <1>1, FlowTyped
  <1>3. msg \in Message /\ msg.from = t /\ msg.val = n + 1
    BY <1>2 DEF Message
  <1>4. /\ sent'[t] = n + 1
        /\ s # t => sent'[s] = sent[s]
        /\ wire'[d] = Append(wire[d], msg)
        /\ c # d => wire'[c] = wire[c]
    BY <1>1, <1>2, TypeParts DEF ChanTyped
  <1>5. Seen' = Seen /\ buffer' = buffer /\ Sends' = Sends
    BY <1>1 DEF Sends
  <1>6. /\ Seen \in Seq(ResultType) /\ wire[c] \in Seq(Message) /\ buffer[c][s] \in Seq(Nat)
        /\ sent[s] \in Nat
    BY FlowTyped
  <1>7. CASE s = t /\ c = d
    <2>1. Sends[s][sent[s] + 1] = c
      BY <1>2, <1>7
    <2>2. msg \in Message /\ msg.from = s /\ msg.val = sent[s] + 1
      BY <1>3, <1>7
    <2>3. sent'[s] = sent[s] + 1 /\ wire'[c] = Append(wire[c], msg)
      BY <1>4, <1>7
    <2> HIDE DEF n, d, msg
    <2> QED
      BY <1>5, <1>6, <2>1, <2>2, <2>3, FlowSends DEF KeepsFlow, Passes, Whole
  <1>8. CASE s = t /\ c # d
    <2>1. Sends[s][sent[s] + 1] # c /\ sent'[s] = sent[s] + 1 /\ wire'[c] = wire[c]
      BY <1>4, <1>8
    <2> HIDE DEF n, d, msg
    <2> QED
      BY <1>5, <1>6, <2>1, FlowElsewhere DEF KeepsFlow, Passes, Whole
  <1>9. CASE s # t /\ c = d
    <2>1. sent'[s] = sent[s] /\ wire'[c] = Append(wire[c], msg) /\ msg.from # s
      BY <1>3, <1>4, <1>9
    <2> HIDE DEF n, d, msg
    <2> QED
      BY <1>3, <1>5, <1>6, <2>1, OthersSend DEF KeepsFlow, Passes, Whole
  <1>10. CASE s # t /\ c # d
    BY <1>4, <1>5, <1>10 DEF KeepsFlow, Passes, Whole
  <1> QED
    BY <1>7, <1>8, <1>9, <1>10

LEMMA LosesKeepsFlow ==
    ASSUME TypeOK, Loses, UNCHANGED setup, NEW c \in Chan, NEW s \in Sender
    PROVE  Passes(c, s) => Passes(c, s)'
  <1> SUFFICES ASSUME Passes(c, s) PROVE Passes(c, s)'
    OBVIOUS
  <1>1. buffer' = buffer /\ sent' = sent /\ Sends' = Sends
    BY DEF Loses, Sends
  <1> DEFINE w == wire'[c]
  <1>2. wire'[c] = wire[c] \/ (wire[c] # <<>> /\ wire'[c] = Tail(wire[c]))
    <2>1. CASE wire' = wire
      BY <2>1
    <2>2. ASSUME NEW d \in Chan, TakesFirst(d)
          PROVE  wire'[c] = wire[c] \/ (wire[c] # <<>> /\ wire'[c] = Tail(wire[c]))
      BY <2>2, TakesFirstHere DEF TakesFirst
    <2> QED
      BY <2>1, <2>2 DEF Loses
  <1>3. InFlow(Sends[s], sent[s], c, s, Seen, buffer[c][s], w)
    <2>1. InFlow(Sends[s], sent[s], c, s, Seen, buffer[c][s], wire[c])
      BY DEF Passes
    <2> QED
      BY <1>2, <2>1, FlowTyped, FlowLoses
  <1> HIDE DEF w
  <1>4. InFlow(Sends[s], sent[s], c, s, hist, buffer[c][s], w)
    <2>1. InFlow(Sends[s], sent[s], c, s, hist \o got, buffer[c][s], w)
      BY <1>3 DEF Seen
    <2> QED
      BY <2>1, FlowTyped, FlowForgets
  <1>5. InFlow(Sends[s], sent[s], c, s, Seen', buffer[c][s], w)
    BY <1>3, <1>4 DEF Loses
  <1> QED
    BY <1>1, <1>5 DEF Passes, w

LEMMA OpensKeepsFlow ==
    ASSUME TypeOK, Opens, UNCHANGED setup, NEW c \in Chan, NEW s \in Sender
    PROVE  /\ Passes(c, s) => Passes(c, s)'
           /\ Lossless' /\ ~Dropped(c)' => (Whole(c, s) => Whole(c, s)')
  <1>1. PICK d \in Chan :
            /\ buffer' = [buffer EXCEPT ![d] = [t \in Sender |-> <<>>]]
            /\ UNCHANGED <<wire, sent>>
            /\ \/ \E obs : SeesMore(obs) /\ obs.from = NoSender /\ obs.op # "event"
               \/ Seen' = Seen
            /\ Lossless' /\ ~Dropped(d)' => \A t \in Sender : buffer[d][t] = <<>>
    BY DEF Opens
  <1>2. wire' = wire /\ sent' = sent /\ Sends' = Sends
    BY <1>1 DEF Sends
  <1>3. IF c = d THEN buffer'[c][s] = <<>> ELSE buffer'[c][s] = buffer[c][s]
    <2>1. buffer \in [Chan -> [Sender -> Seq(Nat)]]
      BY TypeParts DEF ChanTyped
    <2> QED
      BY <1>1, <2>1
  <1>4. Seen' = Seen \/ \E obs \in ResultType : Seen' = Append(Seen, obs) /\ ~(obs.chan = c /\ obs.from = s)
    BY <1>1, ReaderAssumption DEF SeesMore
  <1>5. /\ InFlow(Sends[s], sent[s], c, s, Seen, buffer[c][s], wire[c]) =>
              InFlow(Sends[s], sent[s], c, s, Seen', buffer[c][s], wire[c])
        /\ NoneMissing(Sends[s], sent[s], c, s, Seen, buffer[c][s], wire[c]) =>
              NoneMissing(Sends[s], sent[s], c, s, Seen', buffer[c][s], wire[c])
    <2>1. CASE Seen' = Seen
      BY <2>1
    <2>2. ASSUME NEW obs \in ResultType, Seen' = Append(Seen, obs), ~(obs.chan = c /\ obs.from = s)
          PROVE  /\ InFlow(Sends[s], sent[s], c, s, Seen, buffer[c][s], wire[c]) =>
                       InFlow(Sends[s], sent[s], c, s, Append(Seen, obs), buffer[c][s], wire[c])
                 /\ NoneMissing(Sends[s], sent[s], c, s, Seen, buffer[c][s], wire[c]) =>
                       NoneMissing(Sends[s], sent[s], c, s, Append(Seen, obs), buffer[c][s], wire[c])
      BY <2>2, FlowTyped, FlowNotes
    <2> QED
      BY <1>4, <2>1, <2>2
  <1>6. Passes(c, s) => InFlow(Sends[s], sent[s], c, s, Seen', buffer'[c][s], wire[c])
    BY <1>3, <1>5, FlowTyped, FlowOpens DEF Passes
  <1>7. Lossless' /\ ~Dropped(c)' /\ Whole(c, s) =>
            NoneMissing(Sends[s], sent[s], c, s, Seen', buffer'[c][s], wire[c])
    BY <1>1, <1>3, <1>5 DEF Whole
  <1> QED
    BY <1>2, <1>6, <1>7 DEF Passes, Whole

LEMMA StepFlow ==
    ASSUME TypeOK, Flow, Effect, Frame
    PROVE  Flow'
  <1> SUFFICES ASSUME NEW c \in Chan, NEW s \in Sender
               PROVE  FlowOn(c, s)'
    BY DEF Flow
  <1>1. UNCHANGED setup /\ (Lossless' => Lossless) /\ (Dropped(c) => Dropped(c)')
    BY DEF Frame
  <1>2. Passes(c, s) /\ (Lossless /\ ~Dropped(c) => Whole(c, s))
    BY DEF Flow, FlowOn
  <1>3. Passes(c, s)' /\ (Lossless' /\ ~Dropped(c)' => Whole(c, s)')
    <2>1. CASE Still
      <3>1. Sends' = Sends /\ UNCHANGED <<wire, buffer, sent>> /\ Seen' = Seen
        BY <1>1, <2>1 DEF Still, Sends
      <3> QED
        BY <1>1, <1>2, <3>1 DEF Passes, Whole
    <2>2. CASE Loses
      BY <1>1, <1>2, <2>2, LosesKeepsFlow DEF Loses
    <2>3. CASE Opens
      BY <1>1, <1>2, <2>3, OpensKeepsFlow
    <2>4. CASE Notes \/ Ends \/ ReceivesFromWire \/ ReceivesFromBuffer \/ Fetches \/ SendsOne
      BY <1>1, <1>2, <2>4, NotesKeepsFlow, ReceivesFromWireKeepsFlow, ReceivesFromBufferKeepsFlow,
         FetchesKeepsFlow, SendsOneKeepsFlow DEF KeepsFlow
    <2> QED
      BY <2>1, <2>2, <2>3, <2>4 DEF Effect
  <1> QED
    BY <1>3 DEF FlowOn

-----------------------------------------------------------------------------
(* What is in the buffers, and what the history tells of adds. *)

\* The program adds a channel once: op is what it does next after an add.
AddsAsWritten(p, w, h) ==
    \A i \in DOMAIN h : IsAdd(h[i]) =>
        LET op == Code(p, w, SubSeq(h, 1, i - 1)) IN op.kind = "add" /\ op.chan = h[i].chan

\* A receiver is moved into the set, and so is added once.
AddsOnce ==
    \A s \in Setups : \A w \in s.worlds, h \in Seq(ResultType) :
        LET op == Code(s.program, w, h) IN
        AddsAsWritten(s.program, w, h) /\ op.kind = "add" =>
            \A i \in DOMAIN h : IsAdd(h[i]) => h[i].chan # op.chan

Adding == AddsAsWritten(setup.program, world, hist)

\* A message is in the buffer of a channel that the program receives from, or has added.
Explained(c) == ReceivedFrom(c) \/ AddedToSet(c) \/ (At("receive") /\ want.chan = c)

EmptyFor(c) == \A s \in Sender : buffer[c][s] = <<>>

\* A recording has nothing buffered, nor has the set underneath that is asked.
Early ==
    /\ mode = "Record" => \A c \in Chan : EmptyFor(c)
    /\ At("select") => \A i \in DOMAIN real : EmptyFor(real[i].chan)
    /\ mode = "Replay" /\ Lossless => \A c \in Chan : EmptyFor(c) \/ Explained(c)

LEMMA ExtendsExplains ==
    ASSUME Extends, NEW c
    PROVE  /\ ReceivedFrom(c) => ReceivedFrom(c)'
           /\ AddedToSet(c) => AddedToSet(c)'
           /\ Dropped(c) => Dropped(c)'
  <1>1. ReceivedFrom(c) => ReceivedFrom(c)'
    BY DEF Extends, ReceivedFrom
  <1>2. AddedToSet(c) => AddedToSet(c)'
    BY DEF Extends, AddedToSet, Adds
  <1> QED
    BY <1>1, <1>2 DEF Dropped

LEMMA AddsKept ==
    ASSUME TypeOK, TypeOK', Extends, UNCHANGED runVars, Adding,
           \A i \in DOMAIN hist' : IsAdd(hist'[i]) => i \in DOMAIN hist
    PROVE  Adding'
  <1>1. hist \in Seq(ResultType) /\ hist' \in Seq(ResultType) /\ setup' = setup /\ world' = world
    BY TypeParts DEF ThreadTyped, runVars
  <1>2. ASSUME NEW i \in DOMAIN hist
        PROVE  SubSeq(hist', 1, i - 1) = SubSeq(hist, 1, i - 1)
    <2>1. i \in Nat /\ i >= 1 /\ i <= Len(hist) /\ i \in DOMAIN hist' /\ i <= Len(hist')
      BY <1>1 DEF Extends
    <2>2. \A j \in 1 .. i - 1 : j \in DOMAIN hist /\ hist'[j] = hist[j]
      BY <1>1, <2>1 DEF Extends
    <2>3. /\ SubSeq(hist', 1, i - 1) \in Seq(ResultType) /\ SubSeq(hist, 1, i - 1) \in Seq(ResultType)
          /\ Len(SubSeq(hist', 1, i - 1)) = i - 1 /\ Len(SubSeq(hist, 1, i - 1)) = i - 1
          /\ \A j \in 1 .. i - 1 : SubSeq(hist', 1, i - 1)[j] = hist'[j] /\ SubSeq(hist, 1, i - 1)[j] = hist[j]
      BY <1>1, <2>1
    <2> QED
      BY <2>2, <2>3
  <1> QED
    BY <1>1, <1>2 DEF Adding, AddsAsWritten, Extends

\* The add that the program has asked for.
LEMMA AddsMore ==
    ASSUME TypeOK, UNCHANGED runVars, Adding, Op.kind = "add",
           NEW obs \in ResultType, obs.chan = Op.chan, hist' = Append(hist, obs)
    PROVE  Adding'
  <1>1. hist \in Seq(ResultType) /\ setup' = setup /\ world' = world
    BY TypeParts DEF ThreadTyped, runVars
  <1> DEFINE l == Len(hist) + 1
  <1>2. \A i \in DOMAIN hist' : i = l \/ (i \in DOMAIN hist /\ hist'[i] = hist[i])
    BY <1>1
  <1>3. \A i \in DOMAIN hist : SubSeq(hist', 1, i - 1) = SubSeq(hist, 1, i - 1)
    BY <1>1
  <1>4. SubSeq(hist', 1, l - 1) = hist /\ hist'[l] = obs
    BY <1>1
  <1> HIDE DEF l
  <1>5. Code(setup.program, world, hist).kind = "add" /\ Code(setup.program, world, hist).chan = obs.chan
    BY DEF Op
  <1> QED
    BY <1>1, <1>2, <1>3, <1>4, <1>5 DEF Adding, AddsAsWritten

\* What is seen of the channels, when the history or the events so far change.
LEMMA SeenParts ==
    ASSUME TypeOK
    PROVE  /\ got = <<>> => Seen = hist
           /\ got' = <<>> => (\A h \in Seq(ResultType) : hist' = h => Seen' = h)
           /\ hist' = hist /\ got' = got => Seen' = Seen
           /\ hist' = hist /\ got' = <<>> => Seen' = hist
           /\ \A obs \in ResultType : hist' = hist /\ got' = Append(got, obs) => SeesMore(obs)
           /\ \A obs \in ResultType : got = <<>> /\ got' = <<>> /\ hist' = Append(hist, obs) => SeesMore(obs)
           /\ ReturnEvents => SeesMore(Selected)
  <1>1. hist \in Seq(ResultType) /\ got \in Seq(ResultType)
    BY TypeParts DEF ThreadTyped, SelectTyped
  <1>2. \A h \in Seq(ResultType) : h \o <<>> = h
    OBVIOUS
  <1>3. \A obs \in ResultType : hist \o Append(got, obs) = Append(hist \o got, obs)
    BY <1>1
  <1>4. \A obs \in ResultType : Append(hist \o got, obs) \in Seq(ResultType) /\ Append(hist, obs) \in Seq(ResultType)
    BY <1>1
  <1>5. (got = <<>> => Seen = hist) /\ (hist' = hist /\ got' = got => Seen' = Seen)
    BY <1>1, <1>2 DEF Seen
  <1>6. got' = <<>> => (\A h \in Seq(ResultType) : hist' = h => Seen' = h)
    BY <1>2 DEF Seen
  <1>7. \A obs \in ResultType : hist' = hist /\ got' = Append(got, obs) => SeesMore(obs)
    BY <1>3 DEF SeesMore, Seen
  <1>8. \A obs \in ResultType : got = <<>> /\ got' = <<>> /\ hist' = Append(hist, obs) => SeesMore(obs)
    BY <1>4, <1>5, <1>6 DEF SeesMore
  <1>9. ReturnEvents => SeesMore(Selected)
    <2>1. ReturnEvents => hist' = Append(Seen, Selected) /\ got' = <<>>
      BY DEF ReturnEvents, Seen
    <2>2. Append(Seen, Selected) \in Seq(ResultType)
      BY <1>4, SelectedTyped DEF Seen
    <2> QED
      BY <1>6, <2>1, <2>2, SelectedTyped DEF SeesMore
  <1>10. hist' = hist /\ got' = <<>> => Seen' = hist
    BY <1>1, <1>6
  <1> QED
    BY <1>5, <1>6, <1>7, <1>8, <1>9, <1>10

-----------------------------------------------------------------------------
(* What each step does. *)

Base == UNCHANGED runVars /\ mode' = mode /\ (Lossless' => Lossless)

LEMMA LogBase ==
    ASSUME UNCHANGED logVars \/ TakeEntry \/ (\E entry : WriteEntry(entry))
    PROVE  mode' = mode /\ open' = open
  BY DEF logVars, TakeEntry, WriteEntry

LEMMA MakesBase ==
    ASSUME UNCHANGED runVars, mode' = mode, open' => open, status # "panicked",
           UNCHANGED desynced \/ desynced'
    PROVE  Base
  BY DEF Base, Lossless

LEMMA DesyncBase ==
    ASSUME HandleDesync
    PROVE  (UNCHANGED desynced \/ desynced') /\ (Lossless' => FALSE)
  BY DEF HandleDesync, Panic, Lossless

LEMMA RunsOn ==
    ASSUME NEW place, At(place)
    PROVE  status # "panicked"
  BY DEF At

LEMMA ThreadBase ==
    ASSUME Thread
    PROVE  Base
  <1>1. CASE CreateChannel
    BY <1>1, LogBase, RunsOn, MakesBase DEF CreateChannel, Calls
  <1>2. CASE RecordAdd \/ ReplayAdd \/ DesyncAdd
    BY <1>2, LogBase, RunsOn, MakesBase DEF RecordAdd, ReplayAdd, DesyncAdd, Calls
  <1>3. CASE Desynced
    <2>1. ~Lossless' /\ mode' = mode /\ UNCHANGED runVars
      BY <1>3, LogBase, DesyncBase DEF Desynced
    <2> QED
      BY <2>1 DEF Base
  <1>4. CASE RecordSelect \/ DesyncSelect
    BY <1>4, LogBase, RunsOn, MakesBase DEF RecordSelect, DesyncSelect, Calls
  <1>5. CASE RecordSelectReturns
    BY <1>5, LogBase, RunsOn, MakesBase DEF RecordSelectReturns
  <1>6. CASE SelectSleeps
    BY <1>6, LogBase, RunsOn, MakesBase DEF SelectSleeps, FallAsleep, Calls
  <1>7. CASE ReplaySelect
    BY <1>7, LogBase, RunsOn, DesyncBase, MakesBase DEF ReplaySelect, Calls
  <1>8. CASE EventFetch \/ EventMessage \/ EventClosed
    BY <1>8, LogBase, RunsOn, MakesBase DEF EventFetch, EventMessage, EventClosed, ExpectsMessage, ExpectsClosed, Replaying, Replayed
  <1>9. CASE EventClosedUnexpected \/ EventClosedExpected \/ EventTimesOut
    <2>1. SelectFails /\ Replaying
      BY <1>9 DEF EventClosedUnexpected, EventClosedExpected, EventTimesOut, ExpectsMessage, ExpectsClosed
    <2> QED
      BY <2>1, LogBase, RunsOn, DesyncBase, MakesBase DEF SelectFails, Replaying
  <1>10. CASE SelectReturns \/ DesyncSelectReturns
    BY <1>10, LogBase, RunsOn, MakesBase DEF SelectReturns, DesyncSelectReturns
  <1>11. CASE MoveReceiver \/ MoveDummy \/ MoveDone
    BY <1>11, LogBase, RunsOn, MakesBase DEF MoveReceiver, MoveDummy, MoveDone, Moving
  <1>12. CASE \E i \in DOMAIN real : SetMessage(i) \/ SetClosed(i) \/ \E s \in Sender : Drain(i, s)
    BY <1>12, LogBase, RunsOn, MakesBase DEF SetMessage, SetClosed, Drain
  <1>13. CASE Receive
    <2>1. CASE RecordRecv
      BY <1>13, <2>1, LogBase, RunsOn, DesyncBase, MakesBase DEF RecordRecv, Calls
    <2>2. CASE FallAsleep(RecvKind)
      BY <1>13, <2>2, LogBase, RunsOn, MakesBase DEF FallAsleep, Calls
    <2>3. CASE WakeUp
      <3>1. ~Lossless' /\ mode' = mode /\ UNCHANGED runVars
        BY <1>13, <2>3, LogBase, DesyncBase DEF WakeUp
      <3> QED
        BY <3>1 DEF Base
    <2>4. CASE ReplayRecv
      BY <1>13, <2>4, LogBase, RunsOn, DesyncBase, MakesBase DEF ReplayRecv, Calls
    <2>5. CASE ReceiveNext \/ ReceiveWanted
      BY <1>13, <2>5, LogBase, RunsOn, MakesBase DEF ReceiveNext, ReceiveWanted
    <2>6. CASE ReceiveFails
      BY <1>13, <2>6, LogBase, RunsOn, DesyncBase, MakesBase DEF ReceiveFails
    <2>7. CASE ReceiveAny
      BY <1>13, <2>7, LogBase, RunsOn, MakesBase DEF ReceiveAny
    <2> QED
      BY <1>13, <2>1, <2>2, <2>3, <2>4, <2>5, <2>6, <2>7 DEF Receive
  <1> QED
    BY <1>1, <1>2, <1>3, <1>4, <1>5, <1>6, <1>7, <1>8, <1>9, <1>10, <1>11, <1>12, <1>13 DEF Thread

\* The buffers of a recording are empty, and so are those of the set that is asked.
LEMMA KeepsEarly ==
    ASSUME Early, mode' = mode,
           mode = "Record" => \A c \in Chan : EmptyFor(c) => EmptyFor(c)',
           (At("select") => \A i \in DOMAIN real : EmptyFor(real[i].chan))',
           mode = "Replay" /\ Lossless' =>
               Lossless /\ \A c \in Chan : EmptyFor(c) \/ Explained(c) => EmptyFor(c)' \/ Explained(c)'
    PROVE  Early'
  BY DEF Early

\* A step that adds nothing, and that buffers nothing.
QuietMove ==
    /\ Grows
    /\ Lossless' => ~At("receive")
    /\ \A c \in Chan : EmptyFor(c) => EmptyFor(c)'
    /\ At("select")' =>
          At("select") /\ DOMAIN real' = DOMAIN real /\ \A i \in DOMAIN real : real'[i].chan = real[i].chan

LEMMA GrowsOn ==
    ASSUME TypeInv, TypeInv', Adding, Base, Grows
    PROVE  Frame /\ Adding'
  <1>1. Extends /\ \A i \in DOMAIN hist' : IsAdd(hist'[i]) => i \in DOMAIN hist
    BY DEF Grows, Extends
  <1>2. \A c \in Chan : Dropped(c) => Dropped(c)'
    BY <1>1, ExtendsExplains
  <1> QED
    BY <1>1, <1>2, AddsKept DEF TypeInv, Base, Frame, runVars

LEMMA QuietStep ==
    ASSUME TypeInv, TypeInv', Early, Adding, Base, QuietMove
    PROVE  Frame /\ Early' /\ Adding'
  <1>1. Extends
    BY DEF QuietMove, Grows, Extends
  <1>2. Lossless' => \A c \in Chan : Explained(c) => Explained(c)'
    BY <1>1, ExtendsExplains DEF Explained, QuietMove
  <1>3. (At("select") => \A i \in DOMAIN real : EmptyFor(real[i].chan))'
    <2> SUFFICES ASSUME At("select")'
                 PROVE  \A i \in DOMAIN real' : \A s \in Sender : buffer'[real'[i].chan][s] = <<>>
      BY DEF EmptyFor
    <2>1. TAKE i \in DOMAIN real'
    <2>2. At("select") /\ i \in DOMAIN real /\ real'[i].chan = real[i].chan
      BY DEF QuietMove
    <2>3. EmptyFor(real[i].chan) /\ real[i].chan \in Chan
      BY <2>2, RealTyped DEF Early
    <2>4. PICK c \in Chan : c = real[i].chan
      BY <2>3
    <2>5. EmptyFor(c)
      BY <2>3, <2>4 DEF EmptyFor
    <2>6. EmptyFor(c)'
      BY <2>5 DEF QuietMove
    <2> QED
      BY <2>2, <2>4, <2>6 DEF EmptyFor
  <1>4. Early'
    BY <1>2, <1>3, KeepsEarly DEF Base, QuietMove
  <1> QED
    BY <1>4, GrowsOn DEF QuietMove

Done == Effect /\ Frame /\ Early' /\ Adding'

LEMMA QuietDone ==
    ASSUME TypeInv, TypeInv', Early, Adding, Base, QuietMove, Effect
    PROVE  Done
  BY QuietStep DEF Done

\* Nothing is received.
LEMMA StillDone ==
    ASSUME TypeInv, TypeInv', Early, Adding, Base, Lossless' => ~At("receive"),
           UNCHANGED <<wire, buffer, sent>>, hist' = hist, got' = got,
           At("select")' =>
              At("select") /\ DOMAIN real' = DOMAIN real /\ \A i \in DOMAIN real : real'[i].chan = real[i].chan
    PROVE  Done
  <1>1. Effect
    BY SeenParts DEF TypeInv, Effect, Still
  <1>2. QuietMove
    BY SameGrows DEF QuietMove, EmptyFor
  <1> QED
    BY <1>1, <1>2, QuietDone

\* A result without a message.
LEMMA NoteDone ==
    ASSUME TypeInv, TypeInv', Early, Adding, Base, ~At("receive"), got = <<>>, got' = <<>>,
           NEW obs \in ResultType, Return(obs), obs.op \notin {"add", "event"}, obs.from = NoSender,
           UNCHANGED <<wire, buffer, sent>>
    PROVE  Done
  <1>1. hist' = Append(hist, obs) /\ at' = "idle"
    BY DEF Return
  <1>2. Effect
    BY <1>1, SeenParts DEF TypeInv, Effect, Notes
  <1>3. QuietMove
    BY <1>1, AppendGrows, TypeParts DEF TypeInv, QuietMove, EmptyFor, At
  <1> QED
    BY <1>2, <1>3, QuietDone

\* The events of a select.
LEMMA EventsDone ==
    ASSUME TypeInv, TypeInv', Early, Adding, Base, ~At("receive"), ReturnEvents, UNCHANGED <<wire, buffer, sent>>
    PROVE  Done
  <1>1. hist' = Append(hist \o got, Selected) /\ at' = "idle"
    BY DEF ReturnEvents
  <1>2. Effect
    <2>1. SeesMore(Selected) /\ Selected.op # "event"
      BY SeenParts, SelectedTyped DEF TypeInv
    <2>2. Selected.from = NoSender
      BY DEF Selected, Failure, Result
    <2> QED
      BY <2>1, <2>2 DEF Effect, Notes
  <1>3. QuietMove
    BY <1>1, EventsGrow, TypeParts DEF TypeInv, QuietMove, EmptyFor, At
  <1> QED
    BY <1>2, <1>3, QuietDone

\* The events of a select that failed are ignored, and a message is lost with them.
LEMMA LossDone ==
    ASSUME TypeInv, TypeInv', Early, Adding, Base, ~Lossless',
           UNCHANGED <<buffer, sent>>, hist' = hist, got' = got \/ got' = <<>>, at' # "select" \/ status' # "running",
           wire' = wire \/ \E c \in Chan : TakesFirst(c)
    PROVE  Done
  <1>1. Effect
    BY SeenParts DEF TypeInv, Effect, Loses
  <1>2. QuietMove
    BY SameGrows DEF QuietMove, EmptyFor, At
  <1> QED
    BY <1>1, <1>2, QuietDone

LEMMA CreateChannelDone ==
    ASSUME TypeInv, TypeInv', Early, Adding, Base, CreateChannel
    PROVE  Done
  <1>1. at = "idle" /\ status = "running" /\ UNCHANGED <<chanVars, selectVars>> /\ created \in Nat
    BY TypeParts DEF CreateChannel, Calls, At, TypeInv, SelectTyped
  <1>2. got = <<>> /\ got' = <<>>
    BY <1>1, Quiet DEF TypeInv, At, selectVars
  <1>3. Created \in ResultType /\ Created.op = "channel" /\ Created.from = NoSender
    BY <1>1, CreatedTyped DEF Created, Failure, Result
  <1>4. CASE Return(Created)
    BY <1>1, <1>2, <1>3, <1>4, NoteDone DEF At, chanVars
  <1>5. CASE Panic
    BY <1>1, <1>2, <1>5, StillDone DEF At, chanVars, Panic
  <1> QED
    BY <1>4, <1>5 DEF CreateChannel

LEMMA PlainDone ==
    ASSUME TypeInv, TypeInv', Early, Adding, Base,
           Desynced \/ SelectSleeps \/ MoveReceiver \/ MoveDone \/ MoveDummy
    PROVE  Done
  <1>1. /\ ~At("receive") /\ hist' = hist /\ got' = got /\ UNCHANGED <<wire, buffer, sent>>
        /\ at' # "select" \/ status' # "running"
    BY DEF Desynced, SelectSleeps, FallAsleep, MoveReceiver, MoveDone, MoveDummy, Moving, Calls, At, HandleDesync, Panic,
           chanVars, selectVars, threadVars
  <1> QED
    BY <1>1, StillDone DEF At

LEMMA SelectDone ==
    ASSUME TypeInv, TypeInv', Early, Adding, Base, RecordSelect \/ DesyncSelect
    PROVE  Done
  <1>1. /\ ~At("receive") /\ hist' = hist /\ got' = got /\ UNCHANGED <<wire, buffer, sent, real>>
        /\ mode = "Record" \/ (at' = "select" => \A i \in DOMAIN real : ~BufferedOf(i))
    BY DEF RecordSelect, DesyncSelect, Calls, At, chanVars, selectVars, setVars
  <1>2. Effect
    BY <1>1, SeenParts DEF TypeInv, Effect, Still
  <1>3. Grows
    BY <1>1, SameGrows
  <1>4. Lossless' => \A c \in Chan : Explained(c) => Explained(c)'
    BY <1>1, <1>3, ExtendsExplains DEF Explained, Grows, Extends
  <1>5. (At("select") => \A i \in DOMAIN real : EmptyFor(real[i].chan))'
    <2>1. CASE mode = "Record"
      BY <1>1, <2>1, RealTyped DEF Early, EmptyFor
    <2>2. CASE at' = "select" => \A i \in DOMAIN real : ~BufferedOf(i)
      BY <1>1, <2>2 DEF BufferedOf, EmptyFor, At
    <2> QED
      BY <1>1, <2>1, <2>2
  <1>6. \A c \in Chan : EmptyFor(c) => EmptyFor(c)'
    BY <1>1 DEF EmptyFor
  <1>7. Early'
    BY <1>4, <1>5, <1>6, KeepsEarly DEF Base
  <1> QED
    BY <1>2, <1>3, <1>7, GrowsOn DEF Done

LEMMA ReturnsDone ==
    ASSUME TypeInv, TypeInv', Early, Adding, Base, RecordSelectReturns \/ SelectReturns \/ DesyncSelectReturns
    PROVE  Done
  <1>1. ~At("receive") /\ UNCHANGED <<wire, buffer, sent>>
    BY DEF RecordSelectReturns, SelectReturns, DesyncSelectReturns, At, chanVars
  <1>2. ReturnEvents \/ (Panic /\ got' = <<>>)
    BY DEF RecordSelectReturns, SelectReturns, DesyncSelectReturns
  <1>3. CASE Panic /\ got' = <<>>
    BY <1>1, <1>3, LossDone DEF Panic, Lossless
  <1> QED
    BY <1>1, <1>2, <1>3, EventsDone

LEMMA ReplaySelectDone ==
    ASSUME TypeInv, TypeInv', Early, Adding, Base, ReplaySelect
    PROVE  Done
  <1>1. /\ ~At("receive") /\ hist' = hist /\ got' = got /\ UNCHANGED <<wire, buffer, sent>>
        /\ at' # "select" \/ status' # "running"
    BY DEF ReplaySelect, Calls, At, HandleDesync, Panic, chanVars
  <1> QED
    BY <1>1, StillDone DEF At

LEMMA AddDone ==
    ASSUME WellFormedProgram, TypeInv, TypeInv', Early, Adding, Base,
           status = "running", at # "receive", Op.kind = "add", ToOpaque, got = <<>>, got' = <<>>,
           Return(Added) \/ Panic, Added \in ResultType,
           NEW c \in Chan, c = Op.chan, Lossless' /\ ~Dropped(c)' => EmptyFor(c)
    PROVE  Done
  <1>1. buffer' = [buffer EXCEPT ![c] = [s \in Sender |-> <<>>]] /\ UNCHANGED <<wire, sent>>
    BY DEF ToOpaque
  <1>2. Added.from = NoSender /\ Added.op = "add" /\ Added.chan = c
    BY DEF Added, Failure, Result
  <1>3. SeesMore(Added) \/ Seen' = Seen
    BY SeenParts DEF TypeInv, Return, Panic
  <1>4. Effect
    <2>1. (\E obs : SeesMore(obs) /\ obs.from = NoSender /\ obs.op # "event") \/ Seen' = Seen
      BY <1>2, <1>3
    <2> QED
      BY <1>1, <2>1 DEF Effect, Opens, EmptyFor
  <1>5. Extends /\ ~At("receive") /\ ~At("select")'
    <2>1. hist \in Seq(ResultType)
      BY TypeParts DEF TypeInv, ThreadTyped
    <2> HIDE DEF Added
    <2> QED
      BY <2>1 DEF Extends, Return, Panic, At
  <1>6. Adding'
    <2>1. CASE Return(Added)
      BY <1>2, <2>1, AddsMore DEF TypeInv, Return, Base
    <2>2. CASE Panic
      BY <2>2, SameGrows, GrowsOn DEF Panic
    <2> QED
      BY <2>1, <2>2
  <1>7. \A d \in Chan : EmptyFor(d) => EmptyFor(d)'
    <2>1. \A d \in Chan, s \in Sender : buffer'[d][s] = IF d = c THEN <<>> ELSE buffer[d][s]
      BY <1>1, TypeParts DEF TypeInv, ChanTyped
    <2> QED
      BY <2>1 DEF EmptyFor
  <1>8. \A d \in Chan : Explained(d) => Explained(d)'
    BY <1>5, ExtendsExplains DEF Explained
  <1>9. Early'
    BY <1>5, <1>7, <1>8, KeepsEarly DEF Base
  <1>10. Frame
    BY <1>5, ExtendsExplains DEF TypeInv, Frame, Base, runVars
  <1> QED
    BY <1>4, <1>6, <1>9, <1>10 DEF Done

\* The receiver that is added was not added before.
LEMMA AddedNow ==
    ASSUME AddsOnce, TypeInv, Adding, Op.kind = "add"
    PROVE  ~AddedToSet(Op.chan)
  <1>1. setup \in Setups /\ world \in setup.worlds /\ hist \in Seq(ResultType)
    BY TypeParts DEF TypeInv, RunTyped, ThreadTyped, World
  <1>2. \A i \in DOMAIN hist : IsAdd(hist[i]) => hist[i].chan # Op.chan
    BY <1>1 DEF AddsOnce, Adding, Op
  <1> QED
    BY <1>2 DEF AddedToSet, Adds, IsAdd

LEMMA AddsDone ==
    ASSUME WellFormedProgram, AddsOnce, TypeInv, TypeInv', Early, Adding, Base, RecordAdd \/ ReplayAdd \/ DesyncAdd
    PROVE  Done
  <1>1. /\ status = "running" /\ at \in {"idle", "desync"} /\ Op.kind = "add" /\ ToOpaque
        /\ Return(Added) \/ Panic
        /\ UNCHANGED selectVars
    BY DEF RecordAdd, ReplayAdd, DesyncAdd, Calls, At
  <1>2. got = <<>> /\ got' = <<>>
    BY <1>1, Quiet DEF TypeInv, At, selectVars
  <1>3. Op.chan \in Chan
    BY <1>1, OpShape DEF TypeInv
  <1>4. Added \in ResultType
    <2>1. NewIndex \in Nat \ {0}
      <3>1. Len(receivers) \in Nat /\ Len(real) \in Nat
        BY TypeParts DEF TypeInv, SetTyped
      <3> QED
        BY <3>1 DEF NewIndex
    <2> QED
      BY <1>3, <2>1, AddedTyped DEF Added
  <1>5. PICK c \in Chan : c = Op.chan
    BY <1>3
  <1>6. Lossless' /\ ~Dropped(c)' => EmptyFor(c)
    <2>1. CASE RecordAdd
      BY <2>1 DEF RecordAdd, Early
    <2>2. CASE DesyncAdd
      BY <2>2 DEF DesyncAdd, At, TypeInv, Modes, Lossless
    <2>3. CASE ReplayAdd
      <3> SUFFICES ASSUME Lossless', ~Dropped(c)', ~EmptyFor(c)
                   PROVE  FALSE
        OBVIOUS
      <3>1. Explained(c) /\ ~At("receive")
        BY <1>1, <2>3 DEF Early, Base, ReplayAdd, At
      <3>2. ReceivedFrom(c)
        BY <1>1, <1>5, <3>1, AddedNow DEF Explained
      <3>3. Return(Added)
        BY <1>1 DEF Panic, Lossless
      <3>4. Extends /\ AddedToSet(c)'
        <4>1. hist \in Seq(ResultType) /\ hist' = Append(hist, Added)
          BY <3>3, TypeParts DEF TypeInv, ThreadTyped, Return
        <4>2. Added.op = "add" /\ Added.chan = c
          BY <1>5 DEF Added, Failure, Result
        <4> HIDE DEF Added
        <4>3. Len(hist) + 1 \in DOMAIN hist' /\ hist'[Len(hist) + 1] = Added
          BY <1>4, <4>1
        <4> QED
          BY <1>4, <4>1, <4>2, <4>3 DEF Extends, AddedToSet, Adds
      <3>5. ReceivedFrom(c)'
        BY <3>2, <3>4, ExtendsExplains
      <3> QED
        BY <3>4, <3>5 DEF Dropped
    <2> QED
      BY <2>1, <2>2, <2>3
  <1> QED
    BY <1>1, <1>2, <1>4, <1>5, <1>6, AddDone

\* An event that select gets.
LEMMA GotDone ==
    ASSUME TypeInv, TypeInv', Early, Adding, Base, ~At("receive"),
           NEW obs \in ResultType, hist' = hist, got' = Append(got, obs),
           At("select")' =>
              At("select") /\ DOMAIN real' = DOMAIN real /\ \A i \in DOMAIN real : real'[i].chan = real[i].chan,
           \A c \in Chan : EmptyFor(c) => EmptyFor(c)',
           SeesMore(obs) => Effect
    PROVE  Done
  <1>1. Effect
    BY SeenParts DEF TypeInv
  <1>2. QuietMove
    BY SameGrows DEF QuietMove
  <1> QED
    BY <1>1, <1>2, QuietDone

LEMMA TakenFromBuffer ==
    ASSUME TypeInv, NEW c \in Chan, NEW s \in Sender, TakeFromBuffer(c, s)
    PROVE  \A d \in Chan : EmptyFor(d) => EmptyFor(d)'
  <1>1. \A d \in Chan, t \in Sender : buffer'[d][t] = IF d = c /\ t = s THEN Tail(buffer[c][s]) ELSE buffer[d][t]
    BY TypeParts DEF TypeInv, ChanTyped, TakeFromBuffer
  <1> QED
    BY <1>1 DEF EmptyFor, TakeFromBuffer

LEMMA EventFetchDone ==
    ASSUME TypeInv, TypeInv', Early, Adding, Base, EventFetch
    PROVE  Done
  <1>1. Replaying /\ Fetch(Source) /\ UNCHANGED <<threadVars, selectVars>>
    BY DEF EventFetch, ExpectsMessage
  <1>2. /\ at = "replay" /\ status = "running" /\ mode = "Replay" /\ real = <<>> /\ Source \in Chan
        /\ Event.index \in DOMAIN InSet /\ InSet[Event.index].chan = Source
    BY <1>1, SourceTyped
  <1>3. hist' = hist /\ got' = got /\ at' = at /\ status' = status
    BY <1>1 DEF threadVars, selectVars
  <1>4. PICK c \in Chan : c = Source
    BY <1>2
  <1>5. AddedToSet(c)
    <2>1. Numbered(hist, InSet)
      BY <1>2 DEF TypeInv, HistIndexed
    <2> QED
      BY <1>2, <1>4, <2>1 DEF Numbered, AddedToSet, Adds, IsAdd
  <1>6. Effect
    BY <1>1, <1>3, <1>4, SeenParts DEF TypeInv, Effect, Fetches
  <1>7. Grows
    BY <1>3, SameGrows
  <1>8. \A d \in Chan \ {c} : EmptyFor(d) => EmptyFor(d)'
    <2>1. \A d \in Chan \ {c} : buffer'[d] = buffer[d]
      BY <1>1, <1>4, TypeParts DEF TypeInv, ChanTyped, Fetch
    <2> QED
      BY <2>1 DEF EmptyFor
  <1>9. \A d \in Chan : Explained(d) => Explained(d)'
    BY <1>2, <1>7, ExtendsExplains DEF Explained, Grows, Extends, At
  <1>10. Early'
    BY <1>2, <1>3, <1>5, <1>8, <1>9, KeepsEarly DEF Base, At, Explained
  <1> QED
    BY <1>6, <1>7, <1>10, GrowsOn DEF Done

LEMMA FromBufferDone ==
    ASSUME TypeInv, TypeInv', Early, Adding, Base, ~At("receive"), ~At("select")', hist' = hist,
           NEW i \in Nat, NEW c \in Chan, NEW s \in Sender, TakeFromBuffer(c, s),
           got' = Append(got, Received(i, c, s, Head(buffer[c][s])))
    PROVE  Done
  <1> DEFINE obs == Result("event", i, c, s, Head(buffer[c][s]), "none")
  <1>1. obs \in ResultType /\ obs.chan = c /\ obs.from = s /\ obs.val = Head(buffer[c][s])
    <2>1. buffer[c][s] # <<>> /\ "event" \in Kinds
      BY DEF TakeFromBuffer, Kinds
    <2>2. obs \in ResultType
      BY <2>1, BufferedTyped, TypeParts DEF TypeInv, ChanTyped
    <2> QED
      BY <2>2 DEF Result
  <1>2. got' = Append(got, obs)
    BY DEF Received
  <1> HIDE DEF obs
  <1>3. SeesMore(obs) => Effect
    BY <1>1 DEF Effect, ReceivesFromBuffer
  <1> QED
    BY <1>1, <1>2, <1>3, TakenFromBuffer, GotDone

LEMMA EventMessageDone ==
    ASSUME TypeInv, TypeInv', Early, Adding, Base, EventMessage
    PROVE  Done
  <1>1. Replaying /\ Event.from # NoSender /\ TakeFromBuffer(Source, Event.from)
    BY DEF EventMessage, ExpectsMessage
  <1>2. /\ at = "replay" /\ Event.index \in Nat /\ Source \in Chan /\ Event.from \in Sender
    BY <1>1, SourceTyped
  <1>3. /\ got' = Append(got, Received(Event.index, Source, Event.from, Head(buffer[Source][Event.from])))
        /\ UNCHANGED threadVars
    BY DEF EventMessage, Replayed
  <1> QED
    BY <1>1, <1>2, <1>3, FromBufferDone DEF threadVars, At

LEMMA DrainDone ==
    ASSUME TypeInv, TypeInv', Early, Adding, Base, NEW i \in DOMAIN real, NEW s \in Sender, Drain(i, s)
    PROVE  Done
  <1>1. /\ at = "drain" /\ TakeFromBuffer(real[i].chan, s) /\ UNCHANGED threadVars
        /\ got' = Append(got, Received(i, real[i].chan, s, Head(buffer[real[i].chan][s])))
    BY DEF Drain, At
  <1> QED
    BY <1>1, RealTyped, FromBufferDone DEF threadVars, At

LEMMA ClosingDone ==
    ASSUME TypeInv, TypeInv', Early, Adding, Base, ~At("receive"), UNCHANGED threadVars,
           NEW i \in Nat, NEW c \in Chan, got' = Append(got, Closed(i, c)), UNCHANGED chanVars,
           EndsAt(i), DOMAIN real' = DOMAIN real, \A n \in DOMAIN real : real'[n].chan = real[n].chan
    PROVE  Done
  <1> DEFINE obs == Closed(i, c)
  <1>1. obs \in ResultType /\ obs.from = NoSender
    BY EventTyped
  <1>2. got' = Append(got, obs)
    OBVIOUS
  <1> HIDE DEF obs
  <1>3. SeesMore(obs) => Effect
    BY <1>1 DEF Effect, Ends, chanVars, obs
  <1>4. \A d \in Chan : EmptyFor(d) => EmptyFor(d)'
    BY DEF EmptyFor, chanVars
  <1> QED
    BY <1>1, <1>2, <1>3, <1>4, GotDone DEF threadVars, At

\* What a receiver that is marked keeps.
LEMMA MarkedSet ==
    ASSUME NEW w \in Seq(Receiver), NEW i \in DOMAIN w
    PROVE  LET m == [w EXCEPT ![i].closed = TRUE] IN
           /\ m \in Seq(Receiver) /\ DOMAIN m = DOMAIN w /\ Len(m) = Len(w)
           /\ m[i].closed = TRUE
           /\ \A n \in DOMAIN w : m[n].chan = w[n].chan /\ (w[n].closed => m[n].closed)
  <1> DEFINE m == [w EXCEPT ![i].closed = TRUE]
             r == [w[i] EXCEPT !.closed = TRUE]
  <1>1. w[i] \in Receiver
    OBVIOUS
  <1>2. r \in Receiver /\ r.closed = TRUE /\ r.chan = w[i].chan
    BY <1>1 DEF Receiver
  <1>3. m = [w EXCEPT ![i] = r]
    OBVIOUS
  <1>4. DOMAIN m = DOMAIN w /\ Len(m) = Len(w) /\ m \in Seq(Receiver)
    BY MarkTyped
  <1> HIDE DEF r
  <1>5. \A n \in DOMAIN w : m[n] = IF n = i THEN r ELSE w[n]
    BY <1>3
  <1> HIDE DEF m
  <1> QED
    BY <1>2, <1>4, <1>5 DEF m

LEMMA EventClosedDone ==
    ASSUME TypeInv, TypeInv', Early, Adding, Base, EventClosed
    PROVE  Done
  <1>1. /\ Replaying /\ UNCHANGED <<chanVars, threadVars, real, moved>> /\ todo' = Tail(todo)
        /\ got' = Append(got, Closed(Event.index, Source))
        /\ MarkClosed
    BY DEF EventClosed, ExpectsClosed, Replayed
  <1>2. /\ at = "replay" /\ Event.index \in Nat /\ Source \in Chan /\ todo # <<>> /\ real = <<>>
        /\ Event.index \in DOMAIN receivers
    BY <1>1, SourceTyped
  <1>3. PICK i \in Nat : i = Event.index
    BY <1>2
  <1>4. i \in DOMAIN InSet' /\ InSet'[i].closed
    <2>1. SetTyped' /\ DOMAIN receivers' = DOMAIN receivers
      BY <1>1, MarksClosed
    <2>2. InSet' = receivers'
      <3>1. receivers' \in Seq(Receiver) /\ InSet' = real' \o receivers'
        BY <2>1 DEF SetTyped, InSet, Receiver
      <3> QED
        BY <1>1, <1>2, <3>1
    <2>3. receivers'[i].closed = TRUE
      <3>1. receivers \in Seq(Receiver)
        BY TypeParts DEF TypeInv, SetTyped
      <3>2. i \in DOMAIN receivers /\ receivers' = [receivers EXCEPT ![i].closed = TRUE]
        BY <1>1, <1>2, <1>3 DEF MarkClosed
      <3> QED
        BY <3>1, <3>2, MarkedSet
    <2> QED
      BY <1>2, <1>3, <2>1, <2>2, <2>3
  <1>5. EndsAt(i)
    <2>1. todo[1].from = NoSender
      BY DEF EventClosed, ExpectsClosed, Event
    <2> QED
      BY <1>1, <1>2, <1>3, <1>4, <2>1 DEF EndsAt, Event
  <1>6. got' = Append(got, Closed(i, Source))
    BY <1>1, <1>3
  <1> QED
    BY <1>1, <1>2, <1>5, <1>6, ClosingDone DEF At

LEMMA SetClosedDone ==
    ASSUME TypeInv, TypeInv', Early, Adding, Base, NEW i \in DOMAIN real, SetClosed(i)
    PROVE  Done
  <1>1. /\ At("select") /\ UNCHANGED <<chanVars, threadVars, todo, receivers>>
        /\ got' = Append(got, Closed(i, real[i].chan))
        /\ real' = [real EXCEPT ![i].closed = TRUE] /\ ~real[i].closed
    BY DEF SetClosed
  <1>2. real \in Seq(Receiver) /\ receivers \in Seq(Receiver)
    BY TypeParts DEF TypeInv, SetTyped
  <1>3. DOMAIN real' = DOMAIN real /\ (\A n \in DOMAIN real : real'[n].chan = real[n].chan) /\ real'[i].closed = TRUE
    BY <1>1, <1>2, MarkedSet
  <1>4. real' \in Seq(Receiver) /\ receivers' \in Seq(Receiver)
    BY TypeParts DEF TypeInv, SetTyped, Receiver
  <1>5. EndsAt(i)
    <2>1. InSet[i] = real[i]
      BY <1>2 DEF InSet
    <2>2. InSet' = real' \o receivers'
      BY DEF InSet
    <2>3. i \in DOMAIN InSet' /\ InSet'[i] = real'[i]
      BY <1>3, <1>4, <2>2
    <2>4. todo = <<>>
      BY <1>1 DEF TypeInv, Inside, At
    <2>5. ~(mode = "Replay" /\ Lossless)
      BY <1>1 DEF TypeInv, Modes, Lossless
    <2> QED
      BY <1>1, <1>3, <2>1, <2>3, <2>4, <2>5 DEF EndsAt, At
  <1> QED
    BY <1>1, <1>3, <1>5, RealTyped, ClosingDone DEF At

LEMMA SetMessageDone ==
    ASSUME TypeInv, TypeInv', Early, Adding, Base, NEW i \in DOMAIN real, SetMessage(i)
    PROVE  Done
  <1>1. i \in Nat /\ real[i].chan \in Chan
    BY RealTyped
  <1>2. PICK c \in Chan : c = real[i].chan
    BY <1>1
  <1> DEFINE s == Head(wire[c]).from
             val == Head(wire[c]).val
             obs == Result("event", i, c, s, val, "none")
  <1>3. /\ At("select") /\ wire[c] # <<>> /\ wire' = [wire EXCEPT ![c] = Tail(@)]
        /\ got' = Append(got, obs)
        /\ UNCHANGED <<buffer, sent, threadVars, real>>
    BY <1>2 DEF SetMessage, Received, setVars
  <1>4. s \in Sender /\ val \in Nat
    BY <1>3, FirstTyped, TypeParts DEF TypeInv
  <1>5. obs.chan = c /\ obs.from = Head(wire[c]).from /\ obs.val = Head(wire[c]).val
    BY DEF Result
  <1>6. obs \in ResultType
    <2>1. "event" \in Kinds
      BY DEF Kinds
    <2> HIDE DEF s, val
    <2> QED
      BY <1>1, <1>4, <2>1, MessageTyped
  <1>7. EmptyFor(c)
    BY <1>2, <1>3 DEF Early, EmptyFor
  <1> HIDE DEF obs
  <1>8. SeesMore(obs) => Effect
    BY <1>3, <1>5, <1>6, <1>7 DEF Effect, ReceivesFromWire, TakesFirst, EmptyFor
  <1>9. \A d \in Chan : EmptyFor(d) => EmptyFor(d)'
    BY <1>3 DEF EmptyFor
  <1> QED
    BY <1>3, <1>6, <1>8, <1>9, GotDone DEF threadVars, At

LEMMA EventFailsDone ==
    ASSUME TypeInv, TypeInv', Early, Adding, Base, EventClosedUnexpected \/ EventClosedExpected \/ EventTimesOut
    PROVE  Done
  <1>1. SelectFails /\ Replaying /\ UNCHANGED <<buffer, sent>>
    BY DEF EventClosedUnexpected, EventClosedExpected, EventTimesOut, ExpectsMessage, ExpectsClosed, chanVars
  <1>2. ~Lossless' /\ hist' = hist /\ got' = <<>> /\ (at' # "select" \/ status' # "running")
    BY <1>1 DEF SelectFails, HandleDesync, Panic, Lossless, Replaying, At
  <1>3. wire' = wire \/ \E c \in Chan : TakesFirst(c)
    <2>1. CASE EventClosedUnexpected \/ EventTimesOut
      BY <2>1 DEF EventClosedUnexpected, EventTimesOut, chanVars
    <2>2. CASE EventClosedExpected
      BY <1>1, <2>2, SourceTyped DEF EventClosedExpected, TakesFirst
    <2> QED
      BY <2>1, <2>2
  <1> QED
    BY <1>1, <1>2, <1>3, LossDone

\* What is taken from the wire is seen, or lost.
LEMMA WireEffect ==
    ASSUME TypeInv, NEW op \in RecvKind, NEW c \in Chan, NEW obs \in Outcomes(op, 0, c), TakeFromWire(obs)
    PROVE  /\ obs \in ResultType /\ obs.op = op /\ obs.op \notin {"add", "event"} /\ obs.chan = c
           /\ UNCHANGED <<buffer, sent>>
           /\ wire' = wire \/ TakesFirst(c)
           /\ SeesMore(obs) /\ EmptyFor(c) => Effect
  <1>1. /\ obs \in ResultType /\ obs.op = op /\ obs.chan = c
        /\ \/ obs.error = "none" /\ wire[c] # <<>> /\ obs.from = Head(wire[c]).from /\ obs.val = Head(wire[c]).val
           \/ obs.error # "none" /\ obs.from = NoSender
    BY OutcomeTyped, TypeParts DEF TypeInv, ChanTyped
  <1>2. UNCHANGED <<buffer, sent>> /\ wire' = IF obs.error = "none" THEN [wire EXCEPT ![c] = Tail(@)] ELSE wire
    BY <1>1 DEF TakeFromWire
  <1>3. CASE obs.error = "none"
    <2>1. TakesFirst(c) /\ obs.from = Head(wire[c]).from /\ obs.val = Head(wire[c]).val
      BY <1>1, <1>2, <1>3 DEF TakesFirst
    <2> QED
      BY <1>1, <1>2, <2>1 DEF Effect, ReceivesFromWire, EmptyFor, RecvKind
  <1>4. CASE obs.error # "none"
    BY <1>1, <1>2, <1>4 DEF Effect, Notes, RecvKind
  <1> QED
    BY <1>3, <1>4

\* A result of a receive outside of the loop.
LEMMA ReceiptDone ==
    ASSUME TypeInv, TypeInv', Early, Adding, Base, ~At("receive"), got = <<>>, got' = <<>>,
           NEW obs \in ResultType, obs.op \notin {"add", "event"}, Return(obs),
           SeesMore(obs) => Effect, \A c \in Chan : EmptyFor(c) => EmptyFor(c)'
    PROVE  Done
  <1>1. hist' = Append(hist, obs) /\ at' = "idle"
    BY DEF Return
  <1>2. Effect
    BY <1>1, SeenParts DEF TypeInv
  <1>3. QuietMove
    BY <1>1, AppendGrows, TypeParts DEF TypeInv, QuietMove, At
  <1> QED
    BY <1>2, <1>3, QuietDone

LEMMA RecordRecvDone ==
    ASSUME WellFormedProgram, TypeInv, TypeInv', Early, Adding, Base, RecordRecv, UNCHANGED selectVars
    PROVE  Done
  <1>1. mode = "Record" /\ status = "running" /\ at = "idle" /\ Op.kind \in RecvKind
    BY DEF RecordRecv, Calls, At
  <1>2. Op.chan \in Chan /\ got = <<>> /\ got' = <<>>
    BY <1>1, OpShape, Quiet DEF TypeInv, At, selectVars
  <1>3. PICK op \in RecvKind, c \in Chan : op = Op.kind /\ c = Op.chan
    BY <1>1, <1>2
  <1>4. PICK obs \in Outcomes(op, 0, c) : TakeFromWire(obs) /\ (Return(obs) \/ HandleDesync)
    BY <1>3 DEF RecordRecv
  <1>5. /\ obs \in ResultType /\ obs.op \notin {"add", "event"} /\ UNCHANGED <<buffer, sent>>
        /\ wire' = wire \/ TakesFirst(c)
        /\ SeesMore(obs) /\ EmptyFor(c) => Effect
    BY <1>4, WireEffect
  <1>6. EmptyFor(c)
    BY <1>1 DEF Early
  <1>7. CASE Return(obs)
    <2>1. \A d \in Chan : EmptyFor(d) => EmptyFor(d)'
      BY <1>5 DEF EmptyFor
    <2> QED
      BY <1>1, <1>2, <1>5, <1>6, <1>7, <2>1, ReceiptDone DEF At
  <1>8. CASE HandleDesync
    <2>1. ~Lossless' /\ hist' = hist /\ (at' # "select" \/ status' # "running")
      BY <1>1, <1>8 DEF HandleDesync, Panic, Lossless
    <2> QED
      BY <1>2, <1>5, <2>1, LossDone
  <1> QED
    BY <1>4, <1>7, <1>8

LEMMA SleepDone ==
    ASSUME TypeInv, TypeInv', Early, Adding, Base, UNCHANGED selectVars, FallAsleep(RecvKind) \/ WakeUp
    PROVE  Done
  <1>1. /\ ~At("receive") /\ hist' = hist /\ got' = got /\ UNCHANGED <<wire, buffer, sent>>
        /\ at' # "select" \/ status' # "running"
    BY DEF FallAsleep, WakeUp, Calls, At, HandleDesync, Panic, chanVars, selectVars
  <1> QED
    BY <1>1, StillDone DEF At

LEMMA ReplayRecvDone ==
    ASSUME WellFormedProgram, TypeInv, TypeInv', Early, Adding, Base, ReplayRecv, UNCHANGED selectVars
    PROVE  Done
  <1>1. /\ status = "running" /\ at = "idle" /\ Op.kind \in RecvKind /\ HasEntry
        /\ UNCHANGED <<wire, buffer, sent>>
    BY DEF ReplayRecv, Calls, At, TakeEntry, chanVars
  <1>2. Op.chan \in Chan /\ got = <<>> /\ got' = <<>>
    BY <1>1, OpShape, Quiet DEF TypeInv, At, selectVars
  <1>3. CASE HandleDesync \/ (at' = "receive" /\ UNCHANGED <<status, hist>>)
    <2>1. ~At("receive") /\ hist' = hist /\ (at' # "select" \/ status' # "running")
      BY <1>1, <1>3 DEF At, HandleDesync, Panic
    <2> QED
      BY <1>1, <1>2, <2>1, StillDone DEF At
  <1>4. CASE EntryFits /\ Return(Failure(Op.kind, 0, Op.chan, NextEntry.error))
    <2> DEFINE obs == Failure(Op.kind, 0, Op.chan, NextEntry.error)
    <2>1. obs \in ResultType /\ obs.op = Op.kind /\ obs.from = NoSender
      <3>1. NextEntry \in Entry
        BY <1>1, NextEntryTyped, TypeParts DEF TypeInv
      <3>2. NextEntry.error \in {"none", "Disconnected", "Empty"}
        BY <1>4, <3>1, EntryShape DEF EntryFits
      <3>3. Op.kind \in Kinds /\ Op.chan \in Chan \cup {NoChan} /\ 0 \in Nat
        BY <1>1, <1>2 DEF Kinds
      <3>4. obs \in ResultType /\ obs.op = Op.kind
        BY <3>2, <3>3, FailureTyped
      <3> QED
        BY <3>4 DEF Failure, Result
    <2> HIDE DEF obs
    <2>2. obs.op \notin {"add", "event"}
      BY <1>1, <2>1 DEF RecvKind
    <2>3. Return(obs)
      BY <1>4 DEF obs
    <2> QED
      BY <1>1, <1>2, <2>1, <2>2, <2>3, NoteDone DEF At
  <1> QED
    BY <1>3, <1>4 DEF ReplayRecv

\* What the loop looks for.
LEMMA Receiving ==
    ASSUME TypeInv, At("receive")
    PROVE  /\ want.chan \in Chan /\ want.from \in Sender /\ Op.kind \in RecvKind /\ mode = "Replay"
           /\ at = "receive" /\ status = "running" /\ got = <<>>
  BY Quiet, TypeParts DEF TypeInv, Inside, Modes, At, LogTyped

LEMMA ReceiveNextDone ==
    ASSUME TypeInv, TypeInv', Early, Adding, Base, ReceiveNext, UNCHANGED selectVars
    PROVE  Done
  <1>1. At("receive") /\ Fetch(want.chan) /\ UNCHANGED <<status, at, want, hist, got>>
    BY DEF ReceiveNext, threadVars, selectVars
  <1>2. want.chan \in Chan /\ mode = "Replay" /\ at = "receive"
    BY <1>1, Receiving
  <1>3. PICK c \in Chan : c = want.chan
    BY <1>2
  <1>4. Effect
    BY <1>1, <1>3, SeenParts DEF TypeInv, Effect, Fetches
  <1>5. Grows
    BY <1>1, SameGrows
  <1>6. \A d \in Chan \ {c} : EmptyFor(d) => EmptyFor(d)'
    <2>1. \A d \in Chan \ {c} : buffer'[d] = buffer[d]
      BY <1>1, <1>3, TypeParts DEF TypeInv, ChanTyped, Fetch
    <2> QED
      BY <2>1 DEF EmptyFor
  <1>7. \A d \in Chan : Explained(d) => Explained(d)'
    BY <1>1, <1>5, ExtendsExplains DEF Explained, Grows, Extends, At
  <1>8. Explained(c)'
    BY <1>1, <1>3 DEF Explained, At
  <1>9. Early'
    BY <1>1, <1>2, <1>6, <1>7, <1>8, KeepsEarly DEF Base, At
  <1> QED
    BY <1>4, <1>5, <1>9, GrowsOn DEF Done

LEMMA ReceiveWantedDone ==
    ASSUME TypeInv, TypeInv', Early, Adding, Base, ReceiveWanted, UNCHANGED selectVars
    PROVE  Done
  <1>1. At("receive") /\ got' = got
    BY DEF ReceiveWanted, selectVars
  <1>2. want.chan \in Chan /\ want.from \in Sender /\ Op.kind \in RecvKind /\ mode = "Replay" /\ got = <<>>
    BY <1>1, Receiving
  <1>3. PICK op \in RecvKind, c \in Chan, s \in Sender : op = Op.kind /\ c = want.chan /\ s = want.from
    BY <1>2
  <1> DEFINE obs == Buffered(op, 0, c, s)
  <1>4. TakeFromBuffer(c, s) /\ Return(obs)
    BY <1>3 DEF ReceiveWanted
  <1>5. /\ obs \in ResultType /\ obs.op = op /\ obs.chan = c /\ obs.from = s /\ obs.val = Head(buffer[c][s])
    <2>1. buffer[c][s] # <<>> /\ 0 \in Nat /\ op \in Kinds
      BY <1>4 DEF TakeFromBuffer, Kinds
    <2>2. obs \in ResultType
      BY <2>1, BufferedTyped, TypeParts DEF TypeInv, ChanTyped, Buffered
    <2> QED
      BY <2>2 DEF Buffered, Result
  <1> HIDE DEF obs
  <1>6. hist' = Append(hist, obs) /\ at' = "idle" /\ hist \in Seq(ResultType) /\ obs.op \notin {"add", "event"}
    BY <1>4, <1>5, TypeParts DEF Return, RecvKind, TypeInv, ThreadTyped
  <1>7. Effect
    <2>1. SeesMore(obs)
      BY <1>1, <1>2, <1>5, <1>6, SeenParts DEF TypeInv
    <2> QED
      BY <1>4, <1>5, <2>1 DEF Effect, ReceivesFromBuffer
  <1>8. Grows
    BY <1>5, <1>6, AppendGrows, TypeParts DEF TypeInv
  <1>9. ReceivedFrom(c)'
    <2>1. Len(hist) + 1 \in DOMAIN hist' /\ hist'[Len(hist) + 1] = obs
      BY <1>5, <1>6
    <2> QED
      BY <1>5, <2>1 DEF ReceivedFrom
  <1>10. \A d \in Chan : Explained(d) => Explained(d)'
    BY <1>3, <1>8, <1>9, ExtendsExplains DEF Explained, Grows, Extends
  <1>11. \A d \in Chan : EmptyFor(d) => EmptyFor(d)'
    BY <1>4, TakenFromBuffer
  <1>12. Early'
    BY <1>6, <1>10, <1>11, KeepsEarly DEF Base, At
  <1> QED
    BY <1>7, <1>8, <1>12, GrowsOn DEF Done

LEMMA ReceiveFailsDone ==
    ASSUME TypeInv, TypeInv', Early, Adding, Base, ReceiveFails, UNCHANGED selectVars
    PROVE  Done
  <1>1. /\ ~Lossless' /\ hist' = hist /\ got' = got /\ UNCHANGED <<wire, buffer, sent>>
        /\ at' # "select" \/ status' # "running"
    BY DEF ReceiveFails, HandleDesync, Panic, Lossless, At, chanVars, selectVars
  <1> QED
    BY <1>1, LossDone

LEMMA ReceiveAnyDone ==
    ASSUME WellFormedProgram, TypeInv, TypeInv', Early, Adding, Base, ReceiveAny, UNCHANGED selectVars
    PROVE  Done
  <1>1. status = "running" /\ at = "desync" /\ Op.kind \in RecvKind
    BY DEF ReceiveAny, At
  <1>2. Op.chan \in Chan /\ got = <<>> /\ got' = <<>>
    BY <1>1, OpShape, Quiet DEF TypeInv, At, selectVars
  <1>3. PICK op \in RecvKind, c \in Chan : op = Op.kind /\ c = Op.chan
    BY <1>1, <1>2
  <1>4. \/ \E s \in Sender : TakeFromBuffer(c, s) /\ Return(Buffered(op, 0, c, s))
        \/ EmptyFor(c) /\ \E obs \in Outcomes(op, 0, c) : TakeFromWire(obs) /\ Return(obs)
    BY <1>3 DEF ReceiveAny, EmptyFor
  <1>5. ASSUME NEW s \in Sender, TakeFromBuffer(c, s), Return(Buffered(op, 0, c, s))
        PROVE  Done
    <2> DEFINE obs == Buffered(op, 0, c, s)
    <2>1. /\ obs \in ResultType /\ obs.op = op /\ obs.chan = c /\ obs.from = s /\ obs.val = Head(buffer[c][s])
      <3>1. buffer[c][s] # <<>> /\ 0 \in Nat /\ op \in Kinds
        BY <1>5 DEF TakeFromBuffer, Kinds
      <3>2. obs \in ResultType
        BY <3>1, BufferedTyped, TypeParts DEF TypeInv, ChanTyped, Buffered
      <3> QED
        BY <3>2 DEF Buffered, Result
    <2>2. Return(obs)
      BY <1>5
    <2> HIDE DEF obs
    <2>3. SeesMore(obs) => Effect
      BY <1>5, <2>1 DEF Effect, ReceivesFromBuffer
    <2>4. \A d \in Chan : EmptyFor(d) => EmptyFor(d)'
      BY <1>5, TakenFromBuffer
    <2> QED
      BY <1>1, <1>2, <2>1, <2>2, <2>3, <2>4, ReceiptDone DEF At, RecvKind
  <1>6. ASSUME NEW obs \in Outcomes(op, 0, c), EmptyFor(c), TakeFromWire(obs), Return(obs)
        PROVE  Done
    <2>1. /\ obs \in ResultType /\ obs.op \notin {"add", "event"} /\ UNCHANGED <<buffer, sent>>
          /\ SeesMore(obs) /\ EmptyFor(c) => Effect
      BY <1>6, WireEffect
    <2>2. \A d \in Chan : EmptyFor(d) => EmptyFor(d)'
      BY <2>1 DEF EmptyFor
    <2> QED
      BY <1>1, <1>2, <1>6, <2>1, <2>2, ReceiptDone DEF At
  <1> QED
    BY <1>4, <1>5, <1>6

-----------------------------------------------------------------------------
(* Everyone else, and a new process. *)

\* A step that is not the thread's.
LEMMA BesideDone ==
    ASSUME TypeInv, TypeInv', Early, Adding, Base, UNCHANGED <<threadVars, buffer, real, got>>, Effect
    PROVE  Done
  <1>1. UNCHANGED <<status, at, want, hist>>
    BY DEF threadVars
  <1>2. Grows
    BY <1>1, SameGrows
  <1>3. \A c \in Chan : Explained(c) => Explained(c)'
    BY <1>1, <1>2, ExtendsExplains DEF Explained, Grows, Extends, At
  <1>4. Early'
    BY <1>1, <1>3, KeepsEarly DEF Early, EmptyFor, Base, At
  <1> QED
    BY <1>2, <1>4, GrowsOn DEF Done

LEMMA EnvironmentDone ==
    ASSUME TypeInv, TypeInv', Early, Adding, Environment
    PROVE  Base /\ Done
  <1>1. UNCHANGED <<threadVars, real, got, hist>>
    BY DEF Environment, Others, Send, Leave, OtherDesync, Flush, setVars, selectVars, threadVars
  <1>2. ASSUME NEW t \in Sender, Send(t)
        PROVE  Base /\ Effect /\ UNCHANGED buffer
    <2>1. UNCHANGED <<logVars, runVars, desynced, status, buffer>>
      BY <1>2 DEF Send, threadVars
    <2>2. Base
      BY <2>1 DEF Base, Lossless, logVars
    <2>3. Seen' = Seen
      BY <1>1 DEF Seen
    <2> QED
      BY <1>2, <2>1, <2>2, <2>3 DEF Send, Effect, SendsOne
  <1>3. ASSUME (\E t \in Sender : Leave(t)) \/ OtherDesync \/ Flush
        PROVE  Base /\ Effect /\ UNCHANGED buffer
    <2>1. UNCHANGED <<wire, buffer, sent, runVars, status, mode>> /\ (open' => open) /\ (desynced => desynced')
      BY <1>3 DEF Leave, OtherDesync, Flush, threadVars, logVars, chanVars
    <2>2. Base
      BY <2>1 DEF Base, Lossless
    <2>3. Seen' = Seen
      BY <1>1 DEF Seen
    <2> QED
      BY <2>1, <2>2, <2>3 DEF Effect, Still
  <1>4. Base /\ Effect /\ UNCHANGED buffer
    BY <1>2, <1>3 DEF Environment, Others
  <1> QED
    BY <1>1, <1>4, BesideDone

LEMMA StutterDone ==
    ASSUME TypeInv, TypeInv', Early, Adding, UNCHANGED vars
    PROVE  Done
  <1>1. UNCHANGED <<logVars, chanVars, threadVars, runVars, desynced, real, got>>
    BY DEF vars, readerVars, setVars, selectVars
  <1>2. Base
    BY <1>1 DEF Base, Lossless, logVars, threadVars
  <1>3. Effect
    BY <1>1 DEF Effect, Still, Seen, threadVars, chanVars
  <1> QED
    BY <1>1, <1>2, <1>3, BesideDone DEF chanVars

LEMMA ThreadDone ==
    ASSUME WellFormedProgram, AddsOnce, TypeInv, TypeInv', Early, Adding, Thread
    PROVE  Done
  <1>1. Base
    BY ThreadBase
  <1>2. CASE CreateChannel \/ RecordAdd \/ ReplayAdd \/ DesyncAdd
    BY <1>1, <1>2, CreateChannelDone, AddsDone
  <1>3. CASE Desynced \/ SelectSleeps \/ MoveReceiver \/ MoveDone \/ MoveDummy
    BY <1>1, <1>3, PlainDone
  <1>4. CASE RecordSelect \/ DesyncSelect \/ ReplaySelect
    BY <1>1, <1>4, SelectDone, ReplaySelectDone
  <1>5. CASE RecordSelectReturns \/ SelectReturns \/ DesyncSelectReturns
    BY <1>1, <1>5, ReturnsDone
  <1>6. CASE EventFetch \/ EventMessage \/ EventClosed
    BY <1>1, <1>6, EventFetchDone, EventMessageDone, EventClosedDone
  <1>7. CASE EventClosedUnexpected \/ EventClosedExpected \/ EventTimesOut
    BY <1>1, <1>7, EventFailsDone
  <1>8. CASE \E i \in DOMAIN real : SetMessage(i) \/ SetClosed(i) \/ \E s \in Sender : Drain(i, s)
    BY <1>1, <1>8, SetMessageDone, SetClosedDone, DrainDone
  <1>9. CASE Receive /\ UNCHANGED <<setVars, selectVars, created>>
    BY <1>1, <1>9, RecordRecvDone, SleepDone, ReplayRecvDone, ReceiveNextDone, ReceiveWantedDone,
       ReceiveFailsDone, ReceiveAnyDone DEF Receive
  <1> QED
    BY <1>2, <1>3, <1>4, <1>5, <1>6, <1>7, <1>8, <1>9 DEF Thread

FlowInv == TypeInv /\ Early /\ Adding /\ Flow

\* At the beginning of a process.
Fresh ==
    /\ sent = [s \in Sender |-> 0] /\ buffer = EmptyBuffer /\ wire = EmptyWire
    /\ hist = <<>> /\ got = <<>> /\ real = <<>>

LEMMA FreshFlow == Fresh => Early /\ Adding /\ Flow
  <1> SUFFICES ASSUME Fresh PROVE Early /\ Adding /\ Flow
    OBVIOUS
  <1>1. Seen = <<>> /\ DOMAIN Seen = {} /\ DOMAIN hist = {}
    BY DEF Fresh, Seen
  <1>2. \A c \in Chan, s \in Sender : sent[s] = 0 /\ buffer[c][s] = <<>> /\ wire[c] = <<>>
    BY DEF Fresh, EmptyBuffer, EmptyWire
  <1>3. Adding
    BY <1>1 DEF Adding, AddsAsWritten
  <1>4. Flow
    <2> SUFFICES ASSUME NEW c \in Chan, NEW s \in Sender
                 PROVE  FlowOn(c, s)
      BY DEF Flow
    <2>1. DOMAIN buffer[c][s] = {} /\ DOMAIN wire[c] = {} /\ 1 .. sent[s] = {}
      BY <1>2
    <2> QED
      BY <1>1, <2>1 DEF FlowOn, Passes, Whole, InFlow, OnlySent, NoneMissing, Ordered
  <1>5. Early
    BY <1>2 DEF Fresh, Early, EmptyFor
  <1> QED
    BY <1>3, <1>4, <1>5

LEMMA FlowInit ==
    ASSUME Init
    PROVE  FlowInv
  <1>1. Fresh
    BY DEF Init, ReaderInit, Fresh
  <1> QED
    BY <1>1, TypeInit, FreshFlow DEF FlowInv

LEMMA FlowStep ==
    ASSUME WellFormedProgram, AddsOnce, FlowInv, [Next]_vars
    PROVE  FlowInv'
  <1>1. TypeInv /\ TypeInv' /\ Early /\ Adding /\ Flow
    BY TypeStep DEF FlowInv
  <1>2. CASE Restart
    <2>1. Fresh'
      BY <1>2 DEF Restart, NewProcess, Fresh
    <2>2. Fresh' => (Early /\ Adding /\ Flow)'
      BY FreshFlow, PTL
    <2> QED
      BY <1>1, <2>1, <2>2 DEF FlowInv
  <1>3. CASE Thread \/ Environment \/ UNCHANGED vars
    <2>1. Done
      BY <1>1, <1>3, ThreadDone, EnvironmentDone, StutterDone
    <2> QED
      BY <1>1, <2>1, StepFlow DEF Done, FlowInv, TypeInv
  <1> QED
    BY <1>2, <1>3 DEF Next

LEMMA FlowInvariant ==
    ASSUME WellFormedProgram, AddsOnce
    PROVE  Spec => []FlowInv
  BY FlowInit, FlowStep, PTL DEF Spec

\* All of a sender's messages are there; what is there is in order.
LEMMA FlowLossless ==
    ASSUME NEW c \in Chan, NEW s \in Sender
    PROVE  /\ Passes(c, s) => InOrder(Seen, c, s)
           /\ Passes(c, s) /\ Whole(c, s) => AllThere(Seen, c, s)
  <1> DEFINE b == buffer[c][s]
             w == wire[c]
             q == Sends[s]
             n == sent[s]
             h == Seen
  <1>1. /\ Passes(c, s) => OnlySent(q, n, c, s, h, b, w) /\ Ordered(c, s, h, b, w)
        /\ Whole(c, s) <=> NoneMissing(q, n, c, s, h, b, w)
    BY DEF Passes, Whole, InFlow
  <1>2. /\ \A i : i \in Receipts(h, c, s) <=> i \in DOMAIN h /\ IsReceipt(h, i, c, s)
        /\ \A i : i \in OnWire(c, s) <=> i \in DOMAIN w /\ w[i].from = s
    BY DEF Receipts, OnWire, IsReceipt
  <1>3. AllThere(Seen, c, s) <=> {m \in 1 .. n : q[m] = c} =
            {h[i].val : i \in Receipts(h, c, s)} \cup {b[i] : i \in DOMAIN b} \cup {w[i].val : i \in OnWire(c, s)}
    BY DEF AllThere
  <1>4. InOrder(Seen, c, s) <=>
            /\ \A i, j \in Receipts(h, c, s) : i < j => h[i].val < h[j].val
            /\ \A i, j \in DOMAIN b : i < j => b[i] < b[j]
            /\ \A i, j \in OnWire(c, s) : i < j => w[i].val < w[j].val
            /\ \A i \in Receipts(h, c, s), j \in DOMAIN b : h[i].val < b[j]
            /\ \A i \in Receipts(h, c, s), j \in OnWire(c, s) : h[i].val < w[j].val
            /\ \A i \in DOMAIN b, j \in OnWire(c, s) : b[i] < w[j].val
    BY DEF InOrder
  <1> HIDE DEF b, w, q, n, h
  <1>5. ASSUME Passes(c, s), Whole(c, s)
        PROVE  AllThere(Seen, c, s)
    <2> DEFINE All == {h[i].val : i \in Receipts(h, c, s)} \cup {b[i] : i \in DOMAIN b}
                           \cup {w[i].val : i \in OnWire(c, s)}
    <2>1. ASSUME NEW m \in 1 .. n, q[m] = c PROVE m \in All
      BY <1>1, <1>2, <1>5, <2>1 DEF NoneMissing, IsSent
    <2>2. ASSUME NEW m \in All PROVE m \in 1 .. n /\ q[m] = c
      BY <1>1, <1>2, <1>5, <2>2 DEF OnlySent, IsSent
    <2> QED
      BY <1>3, <2>1, <2>2
  <1>6. Passes(c, s) => InOrder(Seen, c, s)
    BY <1>1, <1>2, <1>4 DEF Ordered
  <1> QED
    BY <1>5, <1>6

\* Whatever is recorded, in whatever order messages arrive and whoever is asked for: until
\* it desyncs the replay has each message of a channel whose buffer no add has dropped, in
\* a buffer, on the wire or seen by the program (do_replay_recv_for_entry and rr_select).
THEOREM NothingLostCorrect ==
    ASSUME WellFormedProgram, AddsOnce
    PROVE  Spec => []NothingLost
  <1>1. FlowInv => NothingLost
    BY FlowLossless DEF FlowInv, Flow, FlowOn, Lossless, NothingLost
  <1> QED
    BY <1>1, FlowInvariant, PTL

-----------------------------------------------------------------------------
(* The end of a channel is seen once.  list is the log, events are those of an entry. *)

EndsIn(events, n) == \E e \in DOMAIN events : events[e].from = NoSender /\ events[e].index = n
OnceIn(events) ==
    \A d, e \in DOMAIN events :
        d < e /\ events[d].from = NoSender /\ events[e].from = NoSender => events[d].index # events[e].index
LogEnds(list, k, n) == k \in DOMAIN list /\ list[k].op = "select" /\ EndsIn(list[k].events, n)

HasEnd(h, n) == \E i \in DOMAIN h : Closing(h[i]) /\ h[i].index = n
EndsOnce(h) == \A i, j \in DOMAIN h : i < j /\ Closing(h[i]) /\ Closing(h[j]) => h[i].index # h[j].index

\* Who is seen to have ended is marked.
EndMarked == status # "panicked" => \A n : HasEnd(Seen, n) => n \in DOMAIN InSet /\ InSet[n].closed

\* What is recorded was seen.
EndLogged == mode = "Record" /\ open /\ status # "panicked" => \A k, n : LogEnds(log, k, n) => HasEnd(hist, n)

LogOnce(list) ==
    /\ \A k \in DOMAIN list : list[k].op = "select" => OnceIn(list[k].events)
    /\ \A k, l, n : LogEnds(list, k, n) /\ LogEnds(list, l, n) => k = l

\* What is still to be replayed has not been seen.
EndsToCome == mode = "Replay" /\ Lossless => \A k, n : k > next /\ LogEnds(log, k, n) => ~HasEnd(Seen, n)
TodoOnce ==
    /\ OnceIn(todo)
    /\ \A n : EndsIn(todo, n) => ~HasEnd(Seen, n) /\ \A k : k > next => ~LogEnds(log, k, n)

EndInv == EndsOnce(Seen) /\ EndMarked /\ EndLogged /\ LogOnce(log) /\ EndsToCome /\ TodoOnce

\* What a step does to marks, log and recorded events.
KeepsMarks ==
    status' # "panicked" =>
        status # "panicked" /\ \A n \in DOMAIN InSet : InSet[n].closed => n \in DOMAIN InSet' /\ InSet'[n].closed

Proceeds == log' = log /\ next' >= next /\ (todo' = todo \/ todo' = <<>> \/ (todo # <<>> /\ todo' = Tail(todo)))
StartsEvents ==
    /\ log' = log /\ next' = next + 1 /\ mode = "Replay" /\ Lossless
    /\ next + 1 \in DOMAIN log /\ log[next + 1].op = "select"
    /\ todo' = log[next + 1].events
    /\ Seen' = Seen
LogsOther == todo' = <<>> /\ mode = "Record" /\ \E entry \in Entry : entry.op # "select" /\ log' = Append(log, entry)
LogsEvents ==
    /\ todo' = <<>> /\ mode = "Record" /\ open /\ status # "panicked"
    /\ log' = Append(log, SelectEntry(got))
    /\ hist' = Append(hist \o got, Selected)

EndFrame == KeepsMarks /\ (Proceeds \/ StartsEvents \/ LogsOther \/ LogsEvents)

LEMMA NoEndSeen ==
    ASSUME NEW h \in Seq(ResultType), NEW obs \in ResultType, ~Closing(obs)
    PROVE  /\ EndsOnce(h) => EndsOnce(Append(h, obs))
           /\ \A n : HasEnd(Append(h, obs), n) <=> HasEnd(h, n)
  <1> DEFINE g == Append(h, obs)
             l == Len(h) + 1
  <1>1. /\ \A i \in DOMAIN h : i \in DOMAIN g /\ g[i] = h[i]
        /\ \A i \in DOMAIN g : i \in DOMAIN h \/ (i = l /\ g[i] = obs)
    OBVIOUS
  <1> HIDE DEF g, l
  <1>2. EndsOnce(h) => EndsOnce(g)
    BY <1>1 DEF EndsOnce
  <1>3. \A n : HasEnd(g, n) <=> HasEnd(h, n)
    BY <1>1 DEF HasEnd
  <1> QED
    BY <1>2, <1>3 DEF g

LEMMA OneEndSeen ==
    ASSUME NEW h \in Seq(ResultType), NEW obs \in ResultType, Closing(obs)
    PROVE  /\ EndsOnce(h) /\ ~HasEnd(h, obs.index) => EndsOnce(Append(h, obs))
           /\ \A n : HasEnd(Append(h, obs), n) <=> HasEnd(h, n) \/ n = obs.index
  <1> DEFINE g == Append(h, obs)
             l == Len(h) + 1
  <1>1. /\ \A i \in DOMAIN h : i \in DOMAIN g /\ g[i] = h[i] /\ i < l
        /\ l \in DOMAIN g /\ g[l] = obs
        /\ \A i \in DOMAIN g : i \in DOMAIN h \/ i = l
    OBVIOUS
  <1>0. l \in Nat /\ \A i \in DOMAIN h : i \in Nat
    OBVIOUS
  <1> HIDE DEF g, l
  <1>2. EndsOnce(h) /\ ~HasEnd(h, obs.index) => EndsOnce(g)
    BY <1>0, <1>1 DEF EndsOnce, HasEnd
  <1>3. \A n : HasEnd(g, n) <=> HasEnd(h, n) \/ n = obs.index
    BY <1>1 DEF HasEnd
  <1> QED
    BY <1>2, <1>3 DEF g

LEMMA LessEndSeen ==
    ASSUME NEW h \in Seq(ResultType), NEW g \in Seq(ResultType)
    PROVE  /\ EndsOnce(h \o g) => EndsOnce(h)
           /\ \A n : HasEnd(h, n) => HasEnd(h \o g, n)
  <1> DEFINE all == h \o g
  <1>1. \A i \in DOMAIN h : i \in DOMAIN all /\ all[i] = h[i]
    OBVIOUS
  <1> HIDE DEF all
  <1>2. EndsOnce(all) => EndsOnce(h)
    BY <1>1 DEF EndsOnce
  <1>3. \A n : HasEnd(h, n) => HasEnd(all, n)
    BY <1>1 DEF HasEnd
  <1> QED
    BY <1>2, <1>3 DEF all

\* What the thread sees ends once more, or not.
LEMMA SeenEnds ==
    ASSUME TypeInv, EndInv, Effect
    PROVE  /\ EndsOnce(Seen')
           /\ \A n : HasEnd(Seen', n) => HasEnd(Seen, n) \/ (EndsAt(n) /\ Ends)
           /\ Lossless' => \A n : HasEnd(Seen, n) => HasEnd(Seen', n)
  <1>1. EndsOnce(Seen) /\ Seen \in Seq(ResultType) /\ hist \in Seq(ResultType) /\ got \in Seq(ResultType)
    <2>1. hist \in Seq(ResultType) /\ got \in Seq(ResultType)
      BY TypeParts DEF TypeInv, ThreadTyped, SelectTyped
    <2> QED
      BY <2>1 DEF EndInv, Seen
  <1>2. CASE Seen' = Seen
    BY <1>1, <1>2
  <1>3. ASSUME NEW obs \in ResultType, ~Closing(obs), Seen' = Append(Seen, obs)
        PROVE  EndsOnce(Seen') /\ \A n : HasEnd(Seen', n) <=> HasEnd(Seen, n)
    BY <1>1, <1>3, NoEndSeen
  <1>4. CASE Loses /\ Seen' = hist
    BY <1>1, <1>4, LessEndSeen DEF Seen, Loses
  <1>5. CASE Ends
    <2>1. PICK i \in Nat, c \in Chan : SeesMore(Closed(i, c)) /\ EndsAt(i)
      BY <1>5 DEF Ends
    <2> DEFINE obs == Closed(i, c)
    <2>2. obs \in ResultType /\ Closing(obs) /\ obs.index = i
      BY EventTyped DEF Closing
    <2>3. Seen' = Append(Seen, obs)
      BY <2>1 DEF SeesMore
    <2> HIDE DEF obs
    <2>4. ~HasEnd(Seen, i)
      <3>1. CASE EndsIn(todo, i)
        BY <3>1 DEF EndInv, TodoOnce
      <3>2. CASE ~InSet[i].closed /\ status # "panicked"
        BY <3>2 DEF EndInv, EndMarked
      <3>3. EndsIn(todo, i) \/ (~InSet[i].closed /\ status # "panicked")
        <4>1. todo # <<>> => 1 \in DOMAIN todo
          BY TypeParts DEF TypeInv, SelectTyped
        <4> QED
          BY <2>1, <4>1 DEF EndsAt, EndsIn
      <3> QED
        BY <3>1, <3>2, <3>3
    <2> QED
      BY <1>1, <1>5, <2>1, <2>2, <2>3, <2>4, OneEndSeen
  <1>6. ASSUME Effect, ~Ends
        PROVE  \/ Seen' = Seen
               \/ \E obs \in ResultType : ~Closing(obs) /\ Seen' = Append(Seen, obs)
               \/ Loses /\ Seen' = hist
    <2>1. \A s \in Sender : s # NoSender
      BY ReaderAssumption
    <2>2. CASE ReceivesFromWire
      <3>1. PICK c \in Chan, obs \in ResultType : TakesFirst(c) /\ SeesMore(obs) /\ obs.from = Head(wire[c]).from
        BY <2>2 DEF ReceivesFromWire
      <3>2. obs.from \in Sender
        BY <3>1, FirstTyped, TypeParts DEF TypeInv, TakesFirst
      <3> QED
        BY <2>1, <3>1, <3>2 DEF SeesMore, Closing
    <2>3. CASE ReceivesFromBuffer
      BY <2>1, <2>3 DEF ReceivesFromBuffer, SeesMore, Closing
    <2>4. CASE Notes \/ Opens
      BY <2>4 DEF Notes, Opens, SeesMore, Closing
    <2>5. CASE Still \/ Fetches \/ SendsOne
      BY <2>5 DEF Still, Fetches, SendsOne
    <2>6. CASE Loses
      BY <2>6 DEF Loses
    <2> QED
      BY <1>6, <2>2, <2>3, <2>4, <2>5, <2>6 DEF Effect
  <1> QED
    BY <1>2, <1>3, <1>4, <1>5, <1>6

\* An entry is added to the log.
LEMMA LogOnceMore ==
    ASSUME NEW list \in Seq(Entry), NEW entry \in Entry, LogOnce(list),
           entry.op = "select" =>
               OnceIn(entry.events) /\ \A k, n : LogEnds(list, k, n) => ~EndsIn(entry.events, n)
    PROVE  /\ LogOnce(Append(list, entry))
           /\ \A k, n : LogEnds(Append(list, entry), k, n) =>
                 LogEnds(list, k, n) \/ (entry.op = "select" /\ EndsIn(entry.events, n))
  <1> DEFINE g == Append(list, entry)
             l == Len(list) + 1
  <1>1. /\ \A k \in DOMAIN list : k \in DOMAIN g /\ g[k] = list[k]
        /\ \A k \in DOMAIN g : k \in DOMAIN list \/ (k = l /\ g[k] = entry)
    OBVIOUS
  <1> HIDE DEF g, l
  <1>2. \A k, n : LogEnds(g, k, n) => LogEnds(list, k, n) \/ (k = l /\ entry.op = "select" /\ EndsIn(entry.events, n))
    BY <1>1 DEF LogEnds
  <1>3. \A k \in DOMAIN g : g[k].op = "select" => OnceIn(g[k].events)
    BY <1>1 DEF LogOnce
  <1>4. \A k, m, n : LogEnds(g, k, n) /\ LogEnds(g, m, n) => k = m
    BY <1>2 DEF LogOnce
  <1> QED
    BY <1>2, <1>3, <1>4 DEF LogOnce, g

\* The rest of a list of events.
LEMMA TailEnds ==
    ASSUME NEW events \in Seq(SelectEvent), events # <<>>
    PROVE  /\ OnceIn(events) => OnceIn(Tail(events))
           /\ \A n : EndsIn(Tail(events), n) => EndsIn(events, n)
           /\ OnceIn(events) /\ events[1].from = NoSender => ~EndsIn(Tail(events), events[1].index)
  <1> DEFINE g == Tail(events)
  <1>1. \A i \in DOMAIN g : i \in Nat /\ i > 0 /\ i + 1 \in DOMAIN events /\ g[i] = events[i + 1]
    OBVIOUS
  <1>2. 1 \in DOMAIN events
    OBVIOUS
  <1> HIDE DEF g
  <1>3. OnceIn(events) => OnceIn(g)
    <2> SUFFICES ASSUME OnceIn(events), NEW d \in DOMAIN g, NEW e \in DOMAIN g, d < e,
                        g[d].from = NoSender, g[e].from = NoSender
                 PROVE  g[d].index # g[e].index
      BY DEF OnceIn
    <2>1. d + 1 \in DOMAIN events /\ e + 1 \in DOMAIN events /\ d + 1 < e + 1
      BY <1>1
    <2> QED
      BY <1>1, <2>1 DEF OnceIn
  <1>4. \A n : EndsIn(g, n) => EndsIn(events, n)
    BY <1>1 DEF EndsIn
  <1>5. OnceIn(events) /\ events[1].from = NoSender => ~EndsIn(g, events[1].index)
    <2> SUFFICES ASSUME OnceIn(events), events[1].from = NoSender, NEW e \in DOMAIN g,
                        g[e].from = NoSender, g[e].index = events[1].index
                 PROVE  FALSE
      BY DEF EndsIn
    <2>1. e + 1 \in DOMAIN events /\ 1 < e + 1 /\ g[e] = events[e + 1]
      BY <1>1
    <2> QED
      BY <1>2, <2>1 DEF OnceIn
  <1> QED
    BY <1>3, <1>4, <1>5 DEF g

\* The events that a select returns, and their entry.
LEMMA EntryEnds ==
    ASSUME TypeInv, EndsOnce(hist \o got)
    PROVE  /\ SelectEntry(got) \in Entry /\ SelectEntry(got).op = "select"
           /\ OnceIn(SelectEntry(got).events)
           /\ \A n : EndsIn(SelectEntry(got).events, n) <=> HasEnd(got, n)
           /\ \A n : HasEnd(got, n) => ~HasEnd(hist, n)
  <1>1. /\ hist \in Seq(ResultType) /\ got \in Seq(ResultType)
        /\ \A k \in DOMAIN got : got[k].index \in Index /\ got[k].op = "event"
    BY TypeParts DEF TypeInv, ThreadTyped, SelectTyped, Inside
  <1> DEFINE events == SelectEntry(got).events
  <1>2. SelectEntry(got) \in Entry /\ SelectEntry(got).op = "select"
    BY <1>1, SelectEntryTyped
  <1>3. DOMAIN events = DOMAIN got
    BY DEF SelectEntry
  <1>4. \A k \in DOMAIN got : events[k].index = got[k].index /\ events[k].from = got[k].from
    BY DEF SelectEntry
  <1> HIDE DEF events
  <1> DEFINE all == hist \o got
             m == Len(hist)
  <1>5. /\ \A i \in DOMAIN hist : i \in Nat /\ i \in DOMAIN all /\ all[i] = hist[i] /\ i <= m
        /\ \A i \in DOMAIN got : i \in Nat /\ m + i \in DOMAIN all /\ all[m + i] = got[i] /\ m + i > m
        /\ m \in Nat
    BY <1>1
  <1> HIDE DEF all, m
  <1>6. OnceIn(events)
    <2> SUFFICES ASSUME NEW d \in DOMAIN got, NEW e \in DOMAIN got, d < e, got[d].from = NoSender, got[e].from = NoSender
                 PROVE  got[d].index # got[e].index
      BY <1>3, <1>4 DEF OnceIn
    <2>1. m + d < m + e /\ Closing(got[d]) /\ Closing(got[e])
      BY <1>1, <1>5 DEF Closing
    <2>2. EndsOnce(all)
      BY DEF all
    <2>3. /\ m + d \in DOMAIN all /\ all[m + d] = got[d]
          /\ m + e \in DOMAIN all /\ all[m + e] = got[e]
      BY <1>5
    <2> QED
      BY <2>1, <2>2, <2>3 DEF EndsOnce
  <1>7. \A n : EndsIn(events, n) <=> HasEnd(got, n)
    BY <1>1, <1>3, <1>4 DEF EndsIn, HasEnd, Closing
  <1>8. ASSUME NEW n, HasEnd(got, n), HasEnd(hist, n)
        PROVE  FALSE
    <2>1. PICK j \in DOMAIN got : Closing(got[j]) /\ got[j].index = n
      BY <1>8 DEF HasEnd
    <2>2. PICK i \in DOMAIN hist : Closing(hist[i]) /\ hist[i].index = n
      BY <1>8 DEF HasEnd
    <2>3. i \in DOMAIN all /\ m + j \in DOMAIN all /\ i < m + j /\ all[i] = hist[i] /\ all[m + j] = got[j]
      BY <1>5
    <2> QED
      BY <2>1, <2>2, <2>3 DEF EndsOnce, all
  <1> QED
    BY <1>2, <1>6, <1>7, <1>8 DEF events

LEMMA MarksKept ==
    ASSUME TypeInv, EndInv, Effect, KeepsMarks
    PROVE  EndMarked'
  <1>1. \A n : HasEnd(Seen', n) => HasEnd(Seen, n) \/ EndsAt(n)
    BY SeenEnds
  <1>2. \A n : EndsAt(n) => n \in DOMAIN InSet' /\ InSet'[n].closed
    BY DEF EndsAt
  <1>3. status # "panicked" => \A n : HasEnd(Seen, n) => n \in DOMAIN InSet /\ InSet[n].closed
    BY DEF EndInv, EndMarked
  <1> QED
    BY <1>1, <1>2, <1>3 DEF KeepsMarks, EndMarked

LEMMA LogEndsKept ==
    ASSUME TypeInv, TypeInv', EndInv, Base, Frame,
           Proceeds \/ StartsEvents \/ LogsOther \/ LogsEvents
    PROVE  EndLogged' /\ LogOnce(log')
  <1>1. hist \in Seq(ResultType) /\ got \in Seq(ResultType) /\ log \in Seq(Entry)
    BY TypeParts DEF TypeInv, ThreadTyped, SelectTyped, LogTyped
  <1>2. \A n : HasEnd(hist, n) => HasEnd(hist', n)
    BY DEF Frame, Extends, HasEnd
  <1>3. /\ EndsOnce(hist \o got)
        /\ LogOnce(log)
        /\ mode = "Record" /\ open /\ status # "panicked" => \A k, n : LogEnds(log, k, n) => HasEnd(hist, n)
    BY DEF EndInv, EndLogged, Seen
  <1>4. (mode = "Record" /\ open /\ status # "panicked")' => mode = "Record" /\ open /\ status # "panicked"
    BY DEF TypeInv, Modes, Base, Lossless
  <1>5. CASE log' = log
    BY <1>2, <1>3, <1>4, <1>5 DEF EndLogged
  <1>6. CASE LogsOther
    <2>1. PICK entry \in Entry : entry.op # "select" /\ log' = Append(log, entry)
      BY <1>6 DEF LogsOther
    <2>2. LogOnce(log') /\ \A k, n : LogEnds(log', k, n) => LogEnds(log, k, n)
      BY <1>1, <1>3, <2>1, LogOnceMore
    <2> QED
      BY <1>2, <1>3, <1>4, <2>2 DEF EndLogged
  <1>7. CASE LogsEvents
    <2> DEFINE entry == SelectEntry(got)
    <2>1. /\ entry \in Entry /\ entry.op = "select"
          /\ OnceIn(entry.events)
          /\ \A n : EndsIn(entry.events, n) <=> HasEnd(got, n)
          /\ \A n : HasEnd(got, n) => ~HasEnd(hist, n)
      BY <1>3, EntryEnds
    <2>2. log' = Append(log, entry) /\ hist' = Append(hist \o got, Selected)
      BY <1>7 DEF LogsEvents
    <2>3. \A k, n : LogEnds(log, k, n) => HasEnd(hist, n)
      BY <1>3, <1>7 DEF LogsEvents
    <2> HIDE DEF entry
    <2>4. LogOnce(log') /\ \A k, n : LogEnds(log', k, n) => LogEnds(log, k, n) \/ EndsIn(entry.events, n)
      BY <1>1, <1>3, <2>1, <2>2, <2>3, LogOnceMore
    <2>5. \A n : HasEnd(got, n) => HasEnd(hist', n)
      <3>1. \A i \in DOMAIN got : Len(hist) + i \in DOMAIN hist' /\ hist'[Len(hist) + i] = got[i]
        BY <1>1, <2>2, SelectedTyped, ThreeParts
      <3> QED
        BY <3>1 DEF HasEnd
    <2> QED
      BY <1>2, <2>1, <2>3, <2>4, <2>5 DEF EndLogged
  <1> QED
    BY <1>5, <1>6, <1>7 DEF Proceeds, StartsEvents

\* The log does not change while it is read, and the cursor does not go back.
LEMMA CursorMoves ==
    ASSUME TypeInv, TypeInv', Proceeds \/ StartsEvents
    PROVE  log' = log /\ \A k, n : k > next' /\ LogEnds(log', k, n) => k > next /\ LogEnds(log, k, n)
  <1>1. next \in Nat /\ next' \in Nat /\ log \in Seq(Entry)
    BY DEF TypeInv, TypeOK, ReaderTypeOK
  <1>2. log' = log /\ next' >= next
    BY <1>1 DEF Proceeds, StartsEvents
  <1>3. \A k \in DOMAIN log : k > next' => k > next
    BY <1>1, <1>2
  <1> QED
    BY <1>2, <1>3 DEF LogEnds

LEMMA EndsToComeKept ==
    ASSUME TypeInv, TypeInv', EndInv, Base, Effect,
           Proceeds \/ StartsEvents \/ LogsOther \/ LogsEvents
    PROVE  EndsToCome'
  <1> SUFFICES ASSUME mode' = "Replay", Lossless', NEW k, NEW n, k > next', LogEnds(log', k, n), HasEnd(Seen', n)
               PROVE  FALSE
    BY DEF EndsToCome
  <1>1. mode = "Replay" /\ Lossless
    BY DEF Base
  <1>2. k > next /\ LogEnds(log, k, n)
    BY <1>1, CursorMoves DEF LogsOther, LogsEvents
  <1>3. ~HasEnd(Seen, n)
    BY <1>1, <1>2 DEF EndInv, EndsToCome
  <1>4. EndsAt(n)
    BY <1>3, SeenEnds
  <1>5. todo # <<>> /\ todo[1].from = NoSender /\ todo[1].index = n
    BY <1>1, <1>4 DEF EndsAt
  <1>6. EndsIn(todo, n)
    <2>1. 1 \in DOMAIN todo
      BY <1>5, TypeParts DEF TypeInv, SelectTyped
    <2> QED
      BY <1>5, <2>1 DEF EndsIn
  <1> QED
    BY <1>2, <1>6 DEF EndInv, TodoOnce

LEMMA TodoKept ==
    ASSUME TypeInv, TypeInv', EndInv, Base, Effect,
           Proceeds \/ StartsEvents \/ LogsOther \/ LogsEvents
    PROVE  TodoOnce'
  <1>1. todo \in Seq(SelectEvent) /\ log \in Seq(Entry) /\ next \in Nat
    BY TypeParts DEF TypeInv, SelectTyped, LogTyped
  <1>2. OnceIn(todo) /\ \A n : EndsIn(todo, n) => ~HasEnd(Seen, n) /\ \A k : k > next => ~LogEnds(log, k, n)
    BY DEF EndInv, TodoOnce
  <1>3. \A n : HasEnd(Seen', n) => HasEnd(Seen, n) \/ EndsAt(n)
    BY SeenEnds
  <1>4. CASE todo' = <<>>
    BY <1>4 DEF TodoOnce, OnceIn, EndsIn
  <1>5. CASE Proceeds /\ todo' # <<>>
    <2>1. log' = log /\ \A k, n : k > next' /\ LogEnds(log, k, n) => k > next
      BY <1>5, CursorMoves
    <2>2. \A n : EndsAt(n) => todo # <<>> /\ todo[1].from = NoSender /\ todo[1].index = n /\ todo' = Tail(todo)
      BY <1>5 DEF EndsAt
    <2>3. CASE todo' = todo
      <3>1. todo' # Tail(todo)
        <4>1. todo # <<>> => Len(Tail(todo)) # Len(todo)
          BY <1>1
        <4> QED
          BY <1>5, <2>3, <4>1
      <3> QED
        BY <1>2, <1>3, <2>1, <2>2, <2>3, <3>1 DEF TodoOnce
    <2>4. CASE todo # <<>> /\ todo' = Tail(todo)
      <3>1. /\ OnceIn(todo')
            /\ \A n : EndsIn(todo', n) => EndsIn(todo, n)
            /\ todo[1].from = NoSender => ~EndsIn(todo', todo[1].index)
        BY <1>1, <1>2, <2>4, TailEnds
      <3>2. \A n : EndsIn(todo', n) => ~EndsAt(n)
        BY <2>2, <3>1
      <3> QED
        BY <1>2, <1>3, <2>1, <3>1, <3>2 DEF TodoOnce
    <2> QED
      BY <1>5, <2>3, <2>4 DEF Proceeds
  <1>6. CASE StartsEvents
    <2>1. /\ log' = log /\ next' = next + 1 /\ mode = "Replay" /\ Lossless
          /\ next + 1 \in DOMAIN log /\ log[next + 1].op = "select"
          /\ todo' = log[next + 1].events /\ Seen' = Seen
      BY <1>6 DEF StartsEvents
    <2> DEFINE l == next + 1
    <2>2. \A n : EndsIn(todo', n) => LogEnds(log, l, n)
      BY <2>1 DEF LogEnds
    <2>3. l > next /\ l \in Nat
      BY <1>1
    <2>4. next' = l
      BY <2>1
    <2>5. OnceIn(todo')
      BY <2>1 DEF EndInv, LogOnce
    <2> HIDE DEF l
    <2>6. \A n : EndsIn(todo', n) => ~HasEnd(Seen, n)
      BY <2>1, <2>2, <2>3 DEF EndInv, EndsToCome
    <2>7. ASSUME NEW n, EndsIn(todo', n), NEW k, k > l, LogEnds(log, k, n)
          PROVE  FALSE
      <3>1. k = l
        BY <2>2, <2>7 DEF EndInv, LogOnce
      <3> QED
        BY <2>3, <2>7, <3>1
    <2> QED
      BY <2>1, <2>4, <2>5, <2>6, <2>7 DEF TodoOnce
  <1> QED
    BY <1>4, <1>5, <1>6 DEF LogsOther, LogsEvents

LEMMA EndStep ==
    ASSUME TypeInv, TypeInv', EndInv, Base, Effect, Frame, EndFrame
    PROVE  EndInv'
  <1>1. EndsOnce(Seen')
    BY SeenEnds
  <1>2. EndMarked'
    BY MarksKept DEF EndFrame
  <1>3. EndLogged' /\ LogOnce(log')
    BY LogEndsKept DEF EndFrame
  <1>4. EndsToCome' /\ TodoOnce'
    BY EndsToComeKept, TodoKept DEF EndFrame
  <1> QED
    BY <1>1, <1>2, <1>3, <1>4 DEF EndInv

-----------------------------------------------------------------------------
(* What each step does to the marks, to the log and to the recorded events. *)

LEMMA SameMarks ==
    ASSUME UNCHANGED <<real, receivers>>, status' # "panicked" => status # "panicked"
    PROVE  KeepsMarks
  BY DEF KeepsMarks, InSet

LEMMA SetMarks ==
    ASSUME InSet' = InSet, status # "panicked"
    PROVE  KeepsMarks
  BY DEF KeepsMarks

LEMMA AddMarks ==
    ASSUME TypeInv, status # "panicked",
           \/ receivers = <<>> /\ receivers' = receivers
              /\ real' = Append(real, [chan |-> Op.chan, closed |-> FALSE])
           \/ real = <<>> /\ real' = real
              /\ receivers' = Append(receivers, [chan |-> Op.chan, closed |-> FALSE])
    PROVE  KeepsMarks
  <1> DEFINE r == [chan |-> Op.chan, closed |-> FALSE]
  <1>1. real \in Seq(Receiver) /\ receivers \in Seq(Receiver)
    BY TypeParts DEF TypeInv, SetTyped
  <1>2. \/ receivers = <<>> /\ receivers' = receivers /\ real' = Append(real, r)
        \/ real = <<>> /\ real' = real /\ receivers' = Append(receivers, r)
    OBVIOUS
  <1> HIDE DEF r
  <1>3. \A q \in Seq(Receiver) : \A n \in DOMAIN q : n \in DOMAIN Append(q, r) /\ Append(q, r)[n] = q[n]
    OBVIOUS
  <1>4. \A q \in Seq(Receiver) : q \o <<>> = q /\ <<>> \o q = q
    OBVIOUS
  <1>5. Append(real, r) \o <<>> = Append(real, r) /\ <<>> \o Append(receivers, r) = Append(receivers, r)
    BY <1>1
  <1>6. \A n \in DOMAIN InSet : n \in DOMAIN InSet' /\ InSet'[n] = InSet[n]
    BY <1>1, <1>2, <1>3, <1>4, <1>5 DEF InSet
  <1> QED
    BY <1>6 DEF KeepsMarks

\* One in the vector is marked, or one in the set.
LEMMA JoinDomain ==
    ASSUME NEW u \in Seq(Receiver), NEW v \in Seq(Receiver)
    PROVE  DOMAIN (u \o v) = 1 .. Len(u) + Len(v)
  OBVIOUS

LEMMA OneMark ==
    ASSUME TypeInv, NEW i, status # "panicked",
           \/ UNCHANGED real /\ i \in DOMAIN receivers /\ receivers' = [receivers EXCEPT ![i].closed = TRUE]
           \/ UNCHANGED receivers /\ i \in DOMAIN real /\ real' = [real EXCEPT ![i].closed = TRUE]
    PROVE  KeepsMarks
  <1>1. real \in Seq(Receiver) /\ receivers \in Seq(Receiver)
    BY TypeParts DEF TypeInv, SetTyped
  <1>2. /\ real' \in Seq(Receiver) /\ receivers' \in Seq(Receiver)
        /\ DOMAIN real' = DOMAIN real /\ Len(real') = Len(real)
        /\ DOMAIN receivers' = DOMAIN receivers /\ Len(receivers') = Len(receivers)
        /\ \A n \in DOMAIN real : real[n].closed => real'[n].closed
        /\ \A n \in DOMAIN receivers : receivers[n].closed => receivers'[n].closed
    <2>1. CASE UNCHANGED real /\ i \in DOMAIN receivers /\ receivers' = [receivers EXCEPT ![i].closed = TRUE]
      <3>1. /\ receivers' \in Seq(Receiver) /\ Len(receivers') = Len(receivers) /\ DOMAIN receivers' = DOMAIN receivers
            /\ \A n \in DOMAIN receivers : receivers[n].closed => receivers'[n].closed
        BY <1>1, <2>1, MarkedSet
      <3>2. real' = real
        BY <2>1
      <3> QED
        BY <1>1, <3>1, <3>2
    <2>2. CASE UNCHANGED receivers /\ i \in DOMAIN real /\ real' = [real EXCEPT ![i].closed = TRUE]
      <3>1. /\ real' \in Seq(Receiver) /\ Len(real') = Len(real) /\ DOMAIN real' = DOMAIN real
            /\ \A n \in DOMAIN real : real[n].closed => real'[n].closed
        BY <1>1, <2>2, MarkedSet
      <3>2. receivers' = receivers
        BY <2>2
      <3> QED
        BY <1>1, <3>1, <3>2
    <2> QED
      BY <2>1, <2>2
  <1>3. InSet' = real' \o receivers' /\ InSet = real \o receivers
    BY DEF InSet
  <1>4. ASSUME NEW n \in DOMAIN InSet, InSet[n].closed
        PROVE  n \in DOMAIN InSet' /\ InSet'[n].closed
    <2>1. DOMAIN InSet' = DOMAIN InSet /\ n \in 1 .. Len(real) + Len(receivers)
      <3>1. DOMAIN InSet = 1 .. Len(real) + Len(receivers) /\ n \in DOMAIN InSet
        BY <1>1, <1>3, <1>4
      <3>2. DOMAIN InSet' = 1 .. Len(real') + Len(receivers')
        BY <1>2, <1>3, JoinDomain
      <3> QED
        BY <1>2, <3>1, <3>2
    <2>2. CASE n \in DOMAIN real
      BY <1>1, <1>2, <1>3, <1>4, <2>1, <2>2
    <2>3. CASE n \notin DOMAIN real
      <3>1. n - Len(real) \in DOMAIN receivers /\ InSet[n] = receivers[n - Len(real)] /\ InSet'[n] = receivers'[n - Len(real)]
        BY <1>1, <1>2, <1>3, <2>1, <2>3
      <3> QED
        BY <1>2, <1>4, <2>1, <3>1
    <2> QED
      BY <2>2, <2>3
  <1> QED
    BY <1>4 DEF KeepsMarks

LEMMA LogProceeds ==
    ASSUME TypeInv, UNCHANGED logVars \/ TakeEntry,
           todo' = todo \/ todo' = <<>> \/ (todo # <<>> /\ todo' = Tail(todo))
    PROVE  Proceeds
  <1>1. next \in Nat
    BY TypeParts DEF TypeInv, LogTyped
  <1> QED
    BY <1>1 DEF Proceeds, logVars, TakeEntry

LEMMA LogWrites ==
    ASSUME NEW entry \in Entry, WriteEntry(entry), entry.op # "select", todo' = <<>>
    PROVE  LogsOther
  BY DEF LogsOther, WriteEntry

LEMMA CreateChannelEnds ==
    ASSUME TypeInv, CreateChannel
    PROVE  EndFrame
  <1>1. at = "idle" /\ status = "running" /\ UNCHANGED <<real, receivers, todo>> /\ created \in Nat
    BY TypeParts DEF CreateChannel, Calls, At, TypeInv, SelectTyped, setVars, selectVars
  <1>2. todo = <<>>
    BY <1>1, Quiet DEF TypeInv, At
  <1>3. KeepsMarks
    BY <1>1, SameMarks
  <1>4. EntryFor(Created) \in Entry /\ EntryFor(Created).op = "channel"
    BY <1>1, CreatedTyped
  <1>5. UNCHANGED logVars \/ TakeEntry \/ WriteEntry(EntryFor(Created))
    BY DEF CreateChannel
  <1> QED
    BY <1>1, <1>2, <1>3, <1>4, <1>5, LogProceeds, LogWrites DEF EndFrame

LEMMA AddsEnds ==
    ASSUME WellFormedProgram, TypeInv, RecordAdd \/ ReplayAdd \/ DesyncAdd
    PROVE  EndFrame
  <1>1. /\ status = "running" /\ at \in {"idle", "desync"} /\ Op.kind = "add" /\ UNCHANGED todo
        /\ UNCHANGED logVars \/ TakeEntry \/ WriteEntry(EntryFor(Added))
    BY DEF RecordAdd, ReplayAdd, DesyncAdd, Calls, At, selectVars
  <1>2. todo = <<>>
    BY <1>1, Quiet DEF TypeInv, At
  <1>3. Op.chan \in Chan
    BY <1>1, OpShape DEF TypeInv
  <1>4. EntryFor(Added) \in Entry /\ EntryFor(Added).op = "add"
    <2>1. NewIndex \in Nat \ {0}
      <3>1. Len(receivers) \in Nat /\ Len(real) \in Nat
        BY TypeParts DEF TypeInv, SetTyped
      <3> QED
        BY <3>1 DEF NewIndex
    <2> QED
      BY <1>3, <2>1, AddedTyped DEF Added
  <1>5. KeepsMarks
    <2>1. CASE RecordAdd \/ DesyncAdd
      <3>1. receivers = <<>>
        BY <2>1 DEF RecordAdd, DesyncAdd, TypeInv, Modes
      <3> QED
        BY <1>1, <2>1, <3>1, AddMarks DEF RecordAdd, DesyncAdd
    <2>2. CASE ReplayAdd
      <3>1. real = <<>>
        BY <2>2 DEF ReplayAdd, Calls, At, TypeInv, Modes
      <3> QED
        BY <1>1, <2>2, <3>1, AddMarks DEF ReplayAdd
    <2> QED
      BY <2>1, <2>2
  <1> QED
    BY <1>1, <1>2, <1>4, <1>5, LogProceeds, LogWrites DEF EndFrame

LEMMA PlainEnds ==
    ASSUME TypeInv, Desynced \/ SelectSleeps \/ RecordSelect \/ DesyncSelect \/ SelectReturns \/ DesyncSelectReturns
    PROVE  EndFrame
  <1>1. UNCHANGED <<real, receivers, todo>> /\ UNCHANGED logVars /\ status = "running"
    BY DEF Desynced, SelectSleeps, FallAsleep, RecordSelect, DesyncSelect, SelectReturns, DesyncSelectReturns,
           Calls, At, setVars, selectVars
  <1> QED
    BY <1>1, SameMarks, LogProceeds DEF EndFrame

LEMMA RecordSelectReturnsEnds ==
    ASSUME TypeInv, RecordSelectReturns
    PROVE  EndFrame
  <1>1. UNCHANGED <<real, receivers, todo>> /\ status = "running" /\ at = "select"
    BY DEF RecordSelectReturns, At, setVars
  <1>2. todo = <<>>
    BY <1>1 DEF TypeInv, Inside, At
  <1>3. KeepsMarks
    BY <1>1, SameMarks
  <1>4. CASE WriteEntry(SelectEntry(got)) /\ ReturnEvents
    <2>1. LogsEvents
      BY <1>1, <1>2, <1>4 DEF LogsEvents, WriteEntry, ReturnEvents
    <2> QED
      BY <1>3, <2>1 DEF EndFrame
  <1>5. CASE UNCHANGED logVars
    BY <1>1, <1>3, <1>5, LogProceeds DEF EndFrame
  <1> QED
    BY <1>4, <1>5 DEF RecordSelectReturns

LEMMA ReplaySelectEnds ==
    ASSUME TypeInv, ReplaySelect
    PROVE  EndFrame
  <1>1. /\ UNCHANGED <<real, receivers, got>> /\ status = "running" /\ at = "idle" /\ ~desynced
        /\ TakeEntry /\ HasEntry /\ mode = "Replay"
    BY DEF ReplaySelect, Calls, At, setVars, TakeEntry, HasEntry
  <1>2. KeepsMarks
    BY <1>1, SameMarks
  <1>3. CASE UNCHANGED todo
    BY <1>1, <1>2, <1>3, LogProceeds DEF EndFrame
  <1>4. CASE NextEntry.op = "select" /\ todo' = NextEntry.events /\ UNCHANGED hist
    <2>1. next + 1 \in DOMAIN log
      BY <1>1, NextEntryTyped DEF TypeInv
    <2>2. Lossless
      BY <1>1 DEF Lossless
    <2>3. Seen' = Seen
      BY <1>1, <1>4 DEF Seen
    <2> QED
      BY <1>1, <1>2, <1>4, <2>1, <2>2, <2>3 DEF EndFrame, StartsEvents, NextEntry, TakeEntry
  <1> QED
    BY <1>3, <1>4 DEF ReplaySelect

LEMMA EventEnds ==
    ASSUME TypeInv, EventFetch \/ EventMessage \/ EventClosed
    PROVE  EndFrame
  <1>1. Replaying /\ UNCHANGED <<real, logVars>> /\ (todo' = todo \/ todo' = Tail(todo))
    BY DEF EventFetch, EventMessage, EventClosed, ExpectsMessage, ExpectsClosed, Replayed, setVars, selectVars
  <1>2. /\ status = "running" /\ todo # <<>>
        /\ Event.index \in DOMAIN receivers
    BY <1>1, SourceTyped
  <1>3. UNCHANGED receivers \/ MarkClosed
    BY DEF EventFetch, EventMessage, EventClosed, setVars
  <1>4. KeepsMarks
    BY <1>1, <1>2, <1>3, SameMarks, OneMark DEF MarkClosed
  <1> QED
    BY <1>1, <1>2, <1>4, LogProceeds DEF EndFrame

LEMMA EventFailsEnds ==
    ASSUME TypeInv, EventClosedUnexpected \/ EventClosedExpected \/ EventTimesOut
    PROVE  EndFrame
  <1>1. Replaying /\ SelectFails /\ (UNCHANGED receivers \/ MarkClosed)
    BY DEF EventClosedUnexpected, EventClosedExpected, EventTimesOut, ExpectsMessage, ExpectsClosed
  <1>2. /\ status = "running" /\ Event.index \in DOMAIN receivers
    BY <1>1, SourceTyped
  <1>3. UNCHANGED <<real, logVars>> /\ todo' = <<>>
    BY <1>1 DEF SelectFails
  <1>4. KeepsMarks
    BY <1>1, <1>2, <1>3, SameMarks, OneMark DEF MarkClosed
  <1> QED
    BY <1>3, <1>4, LogProceeds DEF EndFrame

LEMMA MovesEnd ==
    ASSUME TypeInv, MoveReceiver \/ MoveDummy \/ MoveDone
    PROVE  EndFrame
  <1>1. UNCHANGED todo /\ status = "running" /\ (UNCHANGED logVars \/ TakeEntry)
    BY DEF MoveReceiver, MoveDummy, MoveDone, Moving, At, selectVars
  <1>2. \/ UNCHANGED <<real, receivers>>
        \/ status' = "panicked"
        \/ receivers # <<>> /\ real' = Append(real, receivers[1]) /\ receivers' = Tail(receivers)
    BY DEF MoveReceiver, MoveDummy, MoveDone, Panic
  <1>3. KeepsMarks
    <2>1. CASE status' = "panicked"
      BY <2>1 DEF KeepsMarks
    <2>2. CASE receivers # <<>> /\ real' = Append(real, receivers[1]) /\ receivers' = Tail(receivers)
      BY <1>1, <2>2, MoveSet, SetMarks, TypeParts DEF TypeInv
    <2> QED
      BY <1>1, <1>2, <2>1, <2>2, SameMarks
  <1> QED
    BY <1>1, <1>3, LogProceeds DEF EndFrame

LEMMA SetEnds ==
    ASSUME TypeInv, NEW i \in DOMAIN real, SetMessage(i) \/ SetClosed(i) \/ \E s \in Sender : Drain(i, s)
    PROVE  EndFrame
  <1>1. UNCHANGED <<todo, receivers>> /\ UNCHANGED logVars /\ status = "running"
        /\ (UNCHANGED real \/ real' = [real EXCEPT ![i].closed = TRUE])
    BY DEF SetMessage, SetClosed, Drain, At, setVars
  <1>2. KeepsMarks
    BY <1>1, SameMarks, OneMark
  <1> QED
    BY <1>1, <1>2, LogProceeds DEF EndFrame

LEMMA ReceiveEnds ==
    ASSUME WellFormedProgram, TypeInv, Receive, UNCHANGED <<setVars, selectVars, created>>
    PROVE  EndFrame
  <1>1. UNCHANGED <<real, receivers, todo>> /\ status # "panicked"
    BY DEF setVars, selectVars, Receive, RecordRecv, FallAsleep, WakeUp, ReplayRecv, ReceiveNext, ReceiveWanted,
           ReceiveFails, ReceiveAny, Calls, At
  <1>2. KeepsMarks
    BY <1>1, SameMarks
  <1>3. CASE RecordRecv
    <2>1. at = "idle" /\ status = "running" /\ Op.kind \in RecvKind
      BY <1>3 DEF RecordRecv, Calls, At
    <2>2. Op.chan \in Chan /\ todo = <<>>
      BY <2>1, OpShape, Quiet DEF TypeInv, At
    <2>3. PICK op \in RecvKind, c \in Chan : op = Op.kind /\ c = Op.chan
      BY <2>1, <2>2
    <2>4. PICK obs \in Outcomes(op, 0, c) : UNCHANGED logVars \/ WriteEntry(EntryFor(obs))
      BY <1>3, <2>3 DEF RecordRecv
    <2>5. EntryFor(obs) \in Entry /\ obs.op = op
      BY OutcomeTyped, TypeParts DEF TypeInv, ChanTyped
    <2>6. EntryFor(obs).op # "select"
      BY <2>5 DEF EntryFor, RecvKind
    <2> QED
      BY <1>1, <1>2, <2>2, <2>4, <2>5, <2>6, LogProceeds, LogWrites DEF EndFrame
  <1>4. CASE ~RecordRecv
    <2>1. UNCHANGED logVars \/ TakeEntry
      BY <1>4 DEF Receive, FallAsleep, WakeUp, ReplayRecv, ReceiveNext, ReceiveWanted, ReceiveFails, ReceiveAny
    <2> QED
      BY <1>1, <1>2, <2>1, LogProceeds DEF EndFrame
  <1> QED
    BY <1>3, <1>4

LEMMA ThreadEnds ==
    ASSUME WellFormedProgram, TypeInv, Thread
    PROVE  EndFrame
  <1>1. CASE CreateChannel \/ RecordAdd \/ ReplayAdd \/ DesyncAdd
    BY <1>1, CreateChannelEnds, AddsEnds
  <1>2. CASE Desynced \/ SelectSleeps \/ RecordSelect \/ DesyncSelect \/ SelectReturns \/ DesyncSelectReturns
    BY <1>2, PlainEnds
  <1>3. CASE RecordSelectReturns \/ ReplaySelect
    BY <1>3, RecordSelectReturnsEnds, ReplaySelectEnds
  <1>4. CASE EventFetch \/ EventMessage \/ EventClosed
    BY <1>4, EventEnds
  <1>5. CASE EventClosedUnexpected \/ EventClosedExpected \/ EventTimesOut
    BY <1>5, EventFailsEnds
  <1>6. CASE MoveReceiver \/ MoveDummy \/ MoveDone
    BY <1>6, MovesEnd
  <1>7. CASE \E i \in DOMAIN real : SetMessage(i) \/ SetClosed(i) \/ \E s \in Sender : Drain(i, s)
    BY <1>7, SetEnds
  <1>8. CASE Receive /\ UNCHANGED <<setVars, selectVars, created>>
    BY <1>8, ReceiveEnds
  <1> QED
    BY <1>1, <1>2, <1>3, <1>4, <1>5, <1>6, <1>7, <1>8 DEF Thread

LEMMA OthersEnd ==
    ASSUME TypeInv, Environment \/ UNCHANGED vars
    PROVE  EndFrame
  <1>1. UNCHANGED <<real, receivers, todo, status, log, next>>
    BY DEF Environment, Others, Send, Leave, OtherDesync, Flush, vars, readerVars,
           setVars, selectVars, threadVars, logVars
  <1>2. next \in Nat
    BY TypeParts DEF TypeInv, LogTyped
  <1>3. Proceeds
    BY <1>1, <1>2 DEF Proceeds
  <1> QED
    BY <1>1, <1>3, SameMarks DEF EndFrame

\* A new process has seen nothing.
LEMMA FreshEnds ==
    ASSUME Fresh, LogOnce(log), todo = <<>>, log = <<>> \/ mode = "Replay"
    PROVE  EndInv
  <1>1. Seen = <<>> /\ DOMAIN Seen = {} /\ DOMAIN todo = {}
    BY DEF Fresh, Seen
  <1>2. \A n : ~HasEnd(Seen, n) /\ ~EndsIn(todo, n)
    BY <1>1 DEF HasEnd, EndsIn
  <1>3. log = <<>> => \A k, n : ~LogEnds(log, k, n)
    BY DEF LogEnds
  <1> QED
    BY <1>1, <1>2, <1>3 DEF EndInv, EndsOnce, EndMarked, EndLogged, EndsToCome, TodoOnce, OnceIn

SightInv == FlowInv /\ EndInv

LEMMA SightInit ==
    ASSUME Init
    PROVE  SightInv
  <1>1. Fresh /\ log = <<>> /\ todo = <<>>
    BY DEF Init, ReaderInit, Fresh
  <1>2. LogOnce(log)
    <2>1. DOMAIN log = {}
      BY <1>1
    <2> QED
      BY <2>1 DEF LogOnce, LogEnds
  <1> QED
    BY <1>1, <1>2, FlowInit, FreshEnds DEF SightInv

LEMMA SightStep ==
    ASSUME WellFormedProgram, AddsOnce, SightInv, [Next]_vars
    PROVE  SightInv'
  <1>1. TypeInv /\ TypeInv' /\ Early /\ Adding /\ FlowInv' /\ EndInv
    BY FlowStep, TypeStep DEF SightInv, FlowInv
  <1>2. CASE Restart
    <2>1. Fresh' /\ LogOnce(log') /\ todo' = <<>> /\ mode' = "Replay"
      BY <1>1, <1>2 DEF Restart, NewProcess, Fresh, EndInv
    <2>2. Fresh /\ LogOnce(log) /\ todo = <<>> /\ mode = "Replay" => EndInv
      BY FreshEnds
    <2>3. (Fresh /\ LogOnce(log) /\ todo = <<>> /\ mode = "Replay" => EndInv)'
      BY FreshEnds, PTL
    <2> QED
      BY <1>1, <2>1, <2>3 DEF SightInv
  <1>3. CASE Thread \/ Environment \/ UNCHANGED vars
    <2>1. Done /\ EndFrame
      BY <1>1, <1>3, ThreadDone, EnvironmentDone, StutterDone, ThreadEnds, OthersEnd
    <2>2. Base \/ UNCHANGED vars
      BY <1>1, <1>3, ThreadBase, EnvironmentDone
    <2>3. UNCHANGED vars => Base
      BY DEF vars, readerVars, Base, Lossless, logVars, threadVars
    <2> QED
      BY <1>1, <2>1, <2>2, <2>3, EndStep DEF Done, SightInv
  <1> QED
    BY <1>2, <1>3 DEF Next

\* Whatever the program does, through desyncs too, it sees the messages of a sender on a
\* channel once and in the order in which they were sent, before those that are in the
\* buffer and these before those on the wire; and it sees that a channel was closed
\* once, in the recording, in the replay, and when the set underneath is asked
\* after it (move_receivers_to_set puts a dummy in its place).
THEOREM EventsInOrderCorrect ==
    ASSUME WellFormedProgram, AddsOnce
    PROVE  Spec => []EventsInOrder
  <1>1. Init => SightInv
    BY SightInit
  <1>2. SightInv /\ [Next]_vars => SightInv'
    BY SightStep
  <1>3. SightInv => EventsInOrder
    BY FlowLossless DEF SightInv, FlowInv, Flow, FlowOn, EndInv, EndsOnce, EventsInOrder
  <1> QED
    BY <1>1, <1>2, <1>3, PTL DEF Spec

-----------------------------------------------------------------------------
(* The recording and its log.  h is a history, and pos[k] says how many of its results *)
(* the first k entries of the log are for.                                              *)

\* At the i-th result the receiver of c was added after it was received from.
DroppedBefore(h, i, c) ==
    /\ \E j \in 1 .. i - 1 : h[j].op \in RecvKind /\ h[j].chan = c
    /\ \E j \in 1 .. i - 1 : IsAdd(h[j]) /\ h[j].chan = c

\* What an entry says of a result determines the rest but for the value.
WellFormed(obs) ==
    /\ obs.from = NoSender => obs.val = NoVal
    /\ obs.from # NoSender => obs.from \in Sender /\ obs.val \in Nat
    /\ obs.op = "event" => obs.error = IF obs.from = NoSender THEN "Closed" ELSE "none"

\* The i-th result of h is the first message of its sender that was not received before.
InTurn(sends, h, i) ==
    LET c == h[i].chan
        s == h[i].from
    IN  s # NoSender =>
            /\ IsSent(sends[s], h[i].val, c, h[i].val)
            /\ \A m \in 1 .. h[i].val - 1 : IsSent(sends[s], m, c, m) =>
                  \E j \in 1 .. i - 1 : IsReceipt(h, j, c, s) /\ h[j].val = m
            /\ \A j \in 1 .. i - 1 : IsReceipt(h, j, c, s) => h[j].val < h[i].val

\* The i-th result of h is what the program asked for, and in turn.
Told(p, w, sends, h, i) ==
    /\ WellFormed(h[i])
    /\ h[i].op \in RecvKind => h[i].op = Code(p, w, SubSeq(h, 1, i - 1)).kind
    /\ DroppedBefore(h, i, h[i].chan) \/ InTurn(sends, h, i)

IsEvent(obs, event) == obs.op = "event" /\ obs.index = event.index /\ obs.from = event.from

\* The entry is for the results after the m-th of h, and up to the n-th.
Span(entry, h, m, n) ==
    IF entry.op = "select"
    THEN /\ n = m + Len(entry.events) + 1
         /\ h[n] = Selected
         /\ \A e \in DOMAIN entry.events : IsEvent(h[m + e], entry.events[e])
    ELSE /\ n = m + 1
         /\ h[n].op # "event" /\ EntryFor(h[n]) = entry

IsLogOf(list, h, pos) ==
    /\ pos \in [0 .. Len(list) -> 0 .. Len(h)]
    /\ pos[0] = 0
    /\ \A k \in DOMAIN list : Span(list[k], h, pos[k - 1], pos[k])
    /\ \A k, l \in 0 .. Len(list) : k <= l => pos[k] <= pos[l]

TellsAll(h, n) == \A i \in 1 .. n : Told(setup.program, world, Sends, h, i)

Written == mode = "Record" =>
    \E pos : /\ IsLogOf(log, hist, pos)
             /\ TellsAll(hist, pos[Len(log)])
             /\ Lossless => pos[Len(log)] = Len(hist) /\ TellsAll(Seen, Len(Seen))

-----------------------------------------------------------------------------
(* How far the replay has come in the recording. *)

\* In the middle of an operation the thread has taken the entry for it.
InEntry == At("receive") \/ At("replay")
Behind == IF InEntry THEN next - 1 ELSE next
Part == IF At("replay") THEN Len(log[next].events) - Len(todo) ELSE 0

Reading ==
    /\ mode = "Replay" => next \in 0 .. Len(log)
    /\ InEntry => next \in DOMAIN log
    /\ At("receive") => log[next].op \in RecvKind /\ log[next].error = "none"
                        /\ log[next].index = 0 /\ log[next].chan = want.chan /\ log[next].from = want.from
    /\ At("replay") =>
          /\ log[next].op = "select" /\ Len(todo) <= Len(log[next].events)
          /\ \A k \in DOMAIN todo : todo[k] = log[next].events[Part + k]

Repeats(h, r) == \A i \in DOMAIN h : i \in DOMAIN r /\ h[i] = r[i]

Repetition == mode = "Replay" =>
    /\ Increasing(recorded) /\ OfAdds(recorded, recorded)
    /\ \E pos : 
          /\ IsLogOf(log, recorded, pos)
          /\ Deterministic => TellsAll(recorded, pos[Len(log)])
          /\ Deterministic /\ ~desynced /\ ~BufferDropped =>
                /\ Repeats(hist, recorded)
                /\ status # "panicked" => Repeats(Seen, recorded) /\ Len(Seen) = pos[Behind] + Part

-----------------------------------------------------------------------------
(* What a step tells the program, and what of the log it is for. *)

\* The recording.
Tells(obs) == SeesMore(obs) /\ WellFormed(obs)
Writes ==
    \/ log' = log /\ hist' = hist /\ Seen' = Seen
    \/ log' = log /\ hist' = hist /\ \E obs : Tells(obs) /\ obs.op = "event"
    \/ \E obs : /\ got = <<>> /\ hist' = Append(hist, obs) /\ Tells(obs)
                /\ obs.op \notin {"event", "select"} /\ (obs.op \in RecvKind => obs.op = Op.kind)
                /\ log' = Append(log, EntryFor(obs)) /\ EntryFor(obs) \in Entry
    \/ log' = Append(log, SelectEntry(got)) /\ SelectEntry(got) \in Entry /\ hist' = Append(Seen, Selected) /\ got' = <<>>

\* The replay.  entry is the one that is not yet done.
Agrees(obs, entry) ==
    /\ entry.op # "select"
    /\ obs.op = entry.op \/ {obs.op, entry.op} \subseteq RecvKind
    /\ obs.index = entry.index /\ obs.chan = entry.chan /\ obs.from = entry.from /\ obs.error = entry.error

RepeatsEntry ==
    \E obs : /\ got = <<>> /\ Tells(obs)
             /\ Part = 0 /\ Agrees(obs, log[Behind + 1]) /\ (obs.op \in RecvKind => obs.op = Op.kind)
             /\ Behind' = Behind + 1 /\ Part' = 0
RepeatsEvent ==
    LET entry == log[Behind + 1] IN
    /\ entry.op = "select" /\ Part + 1 \in DOMAIN entry.events
    /\ \E obs : /\ Tells(obs) /\ IsEvent(obs, entry.events[Part + 1])
                /\ obs.index \in DOMAIN InSet /\ obs.chan = InSet[obs.index].chan
    /\ Behind' = Behind /\ Part' = Part + 1
RepeatsSelect ==
    LET entry == log[Behind + 1] IN
    /\ entry.op = "select" /\ Part = Len(entry.events)
    /\ SeesMore(Selected)
    /\ Behind' = Behind + 1 /\ Part' = 0

Follows ==
    /\ ~Lossless' => log' = log /\ (mode = "Replay" /\ ~desynced' => ~desynced /\ hist' = hist)
    /\ Lossless' /\ mode = "Record" => Writes
    /\ Lossless' /\ mode = "Replay" =>
          /\ log' = log
          /\ \/ Seen' = Seen /\ Behind' = Behind /\ Part' = Part
             \/ Behind + 1 \in DOMAIN log /\ (RepeatsEntry \/ RepeatsEvent \/ RepeatsSelect)

-----------------------------------------------------------------------------
(* Histories that are the same up to some result. *)

LEMMA SamePast ==
    ASSUME NEW g \in Seq(ResultType), NEW h \in Seq(ResultType), NEW k \in Nat,
           k <= Len(g), k <= Len(h), \A i \in 1 .. k : g[i] = h[i]
    PROVE  SubSeq(g, 1, k) = SubSeq(h, 1, k)
  <1>1. /\ SubSeq(h, 1, k) \in Seq(ResultType) /\ Len(SubSeq(h, 1, k)) = k
        /\ \A i \in 1 .. k : SubSeq(h, 1, k)[i] = h[i]
    OBVIOUS
  <1>2. /\ SubSeq(g, 1, k) \in Seq(ResultType) /\ Len(SubSeq(g, 1, k)) = k
        /\ \A i \in 1 .. k : SubSeq(g, 1, k)[i] = g[i]
    OBVIOUS
  <1>3. \A i \in 1 .. Len(SubSeq(g, 1, k)) : SubSeq(g, 1, k)[i] = SubSeq(h, 1, k)[i]
    BY <1>1, <1>2
  <1> QED
    BY <1>1, <1>2, <1>3, SeqEqual

LEMMA WholePast ==
    ASSUME NEW h \in Seq(ResultType)
    PROVE  SubSeq(h, 1, Len(h)) = h
  <1>1. /\ SubSeq(h, 1, Len(h)) \in Seq(ResultType) /\ Len(SubSeq(h, 1, Len(h))) = Len(h)
        /\ \A i \in 1 .. Len(h) : SubSeq(h, 1, Len(h))[i] = h[i]
    OBVIOUS
  <1> QED
    BY <1>1, SeqEqual

LEMMA OneMore ==
    ASSUME NEW h \in Seq(ResultType), NEW obs \in ResultType, NEW g, g = Append(h, obs)
    PROVE  /\ g \in Seq(ResultType) /\ Len(g) = Len(h) + 1 /\ DOMAIN g = 1 .. Len(h) + 1
           /\ DOMAIN h = 1 .. Len(h) /\ Len(h) \in Nat
           /\ \A i \in 1 .. Len(h) : g[i] = h[i]
           /\ g[Len(h) + 1] = obs
  OBVIOUS

\* What was told stays told when the history grows.
LEMMA ToldKept ==
    ASSUME NEW p, NEW w, NEW sends, NEW g \in Seq(ResultType), NEW h \in Seq(ResultType),
           NEW i \in DOMAIN g, i \in DOMAIN h, \A j \in 1 .. i : g[j] = h[j],
           Told(p, w, sends, g, i)
    PROVE  Told(p, w, sends, h, i)
  <1>1. i \in Nat /\ i \in 1 .. i /\ i - 1 \in Nat /\ i - 1 <= Len(g) /\ i - 1 <= Len(h)
    OBVIOUS
  <1>2. g[i] = h[i] /\ \A j \in 1 .. i - 1 : g[j] = h[j]
    BY <1>1
  <1>3. SubSeq(g, 1, i - 1) = SubSeq(h, 1, i - 1)
    BY <1>1, <1>2, SamePast
  <1>4. DroppedBefore(g, i, g[i].chan) => DroppedBefore(h, i, h[i].chan)
    BY <1>2 DEF DroppedBefore
  <1>5. InTurn(sends, g, i) => InTurn(sends, h, i)
    BY <1>2 DEF InTurn, IsReceipt
  <1> QED
    BY <1>2, <1>3, <1>4, <1>5 DEF Told

LEMMA ToldOn ==
    ASSUME NEW p, NEW w, NEW sends, NEW g \in Seq(ResultType), NEW h \in Seq(ResultType),
           NEW n \in Nat, n <= Len(g), n <= Len(h), \A i \in 1 .. n : g[i] = h[i],
           \A i \in 1 .. n : Told(p, w, sends, g, i)
    PROVE  \A i \in 1 .. n : Told(p, w, sends, h, i)
  <1> SUFFICES ASSUME NEW i \in 1 .. n
               PROVE  Told(p, w, sends, h, i)
    OBVIOUS
  <1>1. i \in DOMAIN g /\ i \in DOMAIN h /\ \A j \in 1 .. i : g[j] = h[j]
    OBVIOUS
  <1> QED
    BY <1>1, ToldKept

\* The log of a history is one of every history that goes on from it.
LEMMA SpanKept ==
    ASSUME NEW entry \in Entry, NEW g, NEW h, NEW m \in Nat, NEW n \in Nat,
           \A i \in m + 1 .. n : g[i] = h[i], Span(entry, g, m, n)
    PROVE  Span(entry, h, m, n)
  <1>1. CASE entry.op = "select"
    <2>1. entry.events \in Seq(SelectEvent)
      BY <1>1, EntryShape
    <2>2. Len(entry.events) \in Nat /\ DOMAIN entry.events = 1 .. Len(entry.events)
      BY <2>1
    <2>3. n = m + Len(entry.events) + 1
      BY <1>1 DEF Span
    <2>4. n \in m + 1 .. n /\ \A e \in DOMAIN entry.events : m + e \in m + 1 .. n
      BY <2>2, <2>3
    <2> QED
      BY <1>1, <2>3, <2>4 DEF Span
  <1>2. CASE entry.op # "select"
    BY <1>2 DEF Span
  <1> QED
    BY <1>1, <1>2

LEMMA LogOfLonger ==
    ASSUME NEW list \in Seq(Entry), NEW g \in Seq(ResultType), NEW h \in Seq(ResultType), NEW pos,
           IsLogOf(list, g, pos), \A i \in DOMAIN g : i \in DOMAIN h /\ h[i] = g[i]
    PROVE  IsLogOf(list, h, pos) /\ Len(g) <= Len(h)
  <1>1. Len(g) <= Len(h)
    <2>1. Len(g) = 0 \/ Len(g) \in DOMAIN g
      OBVIOUS
    <2> QED
      BY <2>1
  <1>2. pos \in [0 .. Len(list) -> 0 .. Len(g)] /\ pos[0] = 0
        /\ (\A k \in DOMAIN list : Span(list[k], g, pos[k - 1], pos[k]))
        /\ (\A k, l \in 0 .. Len(list) : k <= l => pos[k] <= pos[l])
    BY DEF IsLogOf
  <1>3. pos \in [0 .. Len(list) -> 0 .. Len(h)]
    BY <1>1, <1>2
  <1>4. ASSUME NEW k \in DOMAIN list
        PROVE  Span(list[k], h, pos[k - 1], pos[k])
    <2>1. k - 1 \in 0 .. Len(list) /\ k \in 0 .. Len(list) /\ list[k] \in Entry
      OBVIOUS
    <2>2. pos[k - 1] \in Nat /\ pos[k] \in Nat /\ pos[k] <= Len(g)
      BY <1>2, <2>1
    <2>3. \A i \in pos[k - 1] + 1 .. pos[k] : g[i] = h[i]
      BY <2>2
    <2>4. Span(list[k], g, pos[k - 1], pos[k])
      BY <1>2
    <2> QED
      BY <2>1, <2>2, <2>3, <2>4, SpanKept
  <1> QED
    BY <1>1, <1>2, <1>3, <1>4 DEF IsLogOf

\* One entry more, for all that is new in the history.
LEMMA LogOfMore ==
    ASSUME NEW list \in Seq(Entry), NEW entry \in Entry, NEW g \in Seq(ResultType), NEW h \in Seq(ResultType),
           NEW pos, IsLogOf(list, g, pos), pos[Len(list)] = Len(g),
           \A i \in DOMAIN g : i \in DOMAIN h /\ h[i] = g[i], Span(entry, h, Len(g), Len(h))
    PROVE  \E places : IsLogOf(Append(list, entry), h, places) /\ places[Len(Append(list, entry))] = Len(h)
  <1> DEFINE m == Len(list)
             all == Append(list, entry)
             places == [k \in 0 .. m + 1 |-> IF k = m + 1 THEN Len(h) ELSE pos[k]]
  <1>1. IsLogOf(list, h, pos) /\ Len(g) <= Len(h)
    BY LogOfLonger
  <1>2. /\ all \in Seq(Entry) /\ Len(all) = m + 1 /\ DOMAIN all = 1 .. m + 1 /\ m \in Nat /\ DOMAIN list = 1 .. m
        /\ all[m + 1] = entry /\ \A k \in 1 .. m : all[k] = list[k]
    OBVIOUS
  <1>3. Len(h) \in Nat /\ Len(g) \in Nat
    OBVIOUS
  <1> HIDE DEF all, m
  <1>4. pos \in [0 .. m -> 0 .. Len(h)] /\ pos[0] = 0
        /\ (\A k \in DOMAIN list : Span(list[k], h, pos[k - 1], pos[k]))
        /\ (\A k, l \in 0 .. m : k <= l => pos[k] <= pos[l])
    BY <1>1 DEF IsLogOf, m
  <1>5. pos[m] = Len(g)
    BY DEF m
  <1>6. /\ places \in [0 .. m + 1 -> 0 .. Len(h)] /\ places[0] = 0
        /\ places[m + 1] = Len(h) /\ \A k \in 0 .. m : places[k] = pos[k]
    BY <1>2, <1>3, <1>4
  <1> HIDE DEF places
  <1>7. ASSUME NEW k \in DOMAIN all
        PROVE  Span(all[k], h, places[k - 1], places[k])
    <2>1. CASE k = m + 1
      <3>1. k - 1 = m /\ m \in 0 .. m
        BY <1>2, <2>1
      <3> QED
        BY <1>2, <1>5, <1>6, <2>1, <3>1
    <2>2. CASE k \in 1 .. m
      <3>1. k - 1 \in 0 .. m /\ k \in 0 .. m
        BY <1>2, <2>2
      <3> QED
        BY <1>2, <1>4, <1>6, <2>2, <3>1
    <2> QED
      BY <1>2, <2>1, <2>2
  <1>8. ASSUME NEW k \in 0 .. m + 1, NEW l \in 0 .. m + 1, k <= l
        PROVE  places[k] <= places[l]
    <2>1. CASE l = m + 1
      BY <1>2, <1>3, <1>6, <2>1
    <2>2. CASE l \in 0 .. m
      <3>1. k \in 0 .. m
        BY <1>2, <1>8, <2>2
      <3> QED
        BY <1>4, <1>6, <1>8, <2>2, <3>1
    <2> QED
      BY <1>2, <2>1, <2>2
  <1>9. IsLogOf(all, h, places) /\ places[Len(all)] = Len(h)
    BY <1>2, <1>6, <1>7, <1>8 DEF IsLogOf
  <1> QED
    BY <1>9 DEF all

LEMMA FirstInTurn ==
    ASSUME NEW sends, NEW n \in Nat, NEW c, NEW s, NEW h \in Seq(ResultType), NEW b \in Seq(Nat),
           NEW w \in Seq(Message),
           InFlow(sends[s], n, c, s, h, b, w), NoneMissing(sends[s], n, c, s, h, b, w),
           NEW obs \in ResultType, obs.chan = c, obs.from = s,
           \/ b # <<>> /\ obs.val = Head(b)
           \/ b = <<>> /\ w # <<>> /\ Head(w).from = s /\ obs.val = Head(w).val
    PROVE  InTurn(sends, Append(h, obs), Len(h) + 1)
  <1> DEFINE q == sends[s]
             v == obs.val
             g == Append(h, obs)
             l == Len(h) + 1
  <1>1. /\ IsSent(q, n, c, v)
        /\ \A i \in DOMAIN h : IsReceipt(h, i, c, s) => h[i].val < v
        /\ \A j \in DOMAIN b : v <= b[j]
        /\ \A j \in DOMAIN w : w[j].from = s => v <= w[j].val
    <2>1. CASE b # <<>> /\ v = Head(b)
      <3>1. 1 \in DOMAIN b /\ v = b[1] /\ v \in Nat
        BY <2>1
      <3>2. \A j \in DOMAIN b : j = 1 \/ 1 < j
        OBVIOUS
      <3>3. \A j \in DOMAIN b : b[j] \in Nat
        OBVIOUS
      <3>4. \A j \in DOMAIN w : w[j].val \in Nat
        <4>1. \A j \in DOMAIN w : w[j] \in Message
          OBVIOUS
        <4> QED
          BY <4>1 DEF Message
      <3>5. \A j \in DOMAIN b : v <= b[j]
        BY <3>1, <3>2, <3>3 DEF InFlow, Ordered
      <3>6. \A j \in DOMAIN w : w[j].from = s => v <= w[j].val
        BY <3>1, <3>4 DEF InFlow, Ordered
      <3> QED
        BY <3>1, <3>5, <3>6 DEF InFlow, Ordered, OnlySent
    <2>2. CASE b = <<>> /\ w # <<>> /\ Head(w).from = s /\ v = Head(w).val
      <3>1. 1 \in DOMAIN w /\ w[1].from = s /\ v = w[1].val
        BY <2>2
      <3>2. \A j \in DOMAIN w : j = 1 \/ 1 < j
        OBVIOUS
      <3>3. \A j \in DOMAIN w : w[j].val \in Nat
        <4>1. \A j \in DOMAIN w : w[j] \in Message
          OBVIOUS
        <4> QED
          BY <4>1 DEF Message
      <3>4. \A j \in DOMAIN w : w[j].from = s => v <= w[j].val
        BY <3>1, <3>2, <3>3 DEF InFlow, Ordered
      <3>5. \A j \in DOMAIN b : v <= b[j]
        BY <2>2
      <3> QED
        BY <3>1, <3>4, <3>5 DEF InFlow, Ordered, OnlySent
    <2> QED
      BY <2>1, <2>2
  <1>2. /\ g[l] = obs /\ DOMAIN h = 1 .. l - 1 /\ l \in Nat
        /\ \A j \in 1 .. l - 1 : g[j] = h[j]
    BY OneMore
  <1> HIDE DEF g, l
  <1>3. \A j \in 1 .. l - 1 : IsReceipt(g, j, c, s) <=> IsReceipt(h, j, c, s)
    BY <1>2 DEF IsReceipt
  <1>4. v \in 1 .. n /\ v \in Nat /\ IsSent(q, v, c, v)
    BY <1>1 DEF IsSent
  <1>5. ASSUME NEW m \in 1 .. v - 1, IsSent(q, m, c, m)
        PROVE  \E j \in 1 .. l - 1 : IsReceipt(g, j, c, s) /\ g[j].val = m
    <2>1. m \in 1 .. n /\ m < v /\ IsSent(q, n, c, m)
      BY <1>4, <1>5 DEF IsSent
    <2>2. \/ \E i \in DOMAIN h : IsReceipt(h, i, c, s) /\ h[i].val = m
          \/ \E i \in DOMAIN b : b[i] = m
          \/ \E i \in DOMAIN w : w[i].from = s /\ w[i].val = m
      BY <2>1 DEF NoneMissing
    <2>3. ~\E i \in DOMAIN b : b[i] = m
      BY <1>1, <1>4, <2>1
    <2>4. ~\E i \in DOMAIN w : w[i].from = s /\ w[i].val = m
      BY <1>1, <1>4, <2>1
    <2> QED
      BY <1>2, <1>3, <2>2, <2>3, <2>4
  <1>6. \A j \in 1 .. l - 1 : IsReceipt(g, j, c, s) => g[j].val < v
    BY <1>1, <1>2, <1>3
  <1>7. g[l].chan = c /\ g[l].from = s /\ g[l].val = v
    BY <1>2
  <1>8. InTurn(sends, g, l)
    BY <1>4, <1>5, <1>6, <1>7 DEF InTurn
  <1> QED
    BY <1>8 DEF g, l

LEMMA SameInTurn ==
    ASSUME NEW sends, NEW g \in Seq(ResultType), NEW h \in Seq(ResultType),
           NEW i \in DOMAIN g, i \in DOMAIN h, \A j \in 1 .. i - 1 : g[j] = h[j],
           g[i].chan = h[i].chan, g[i].from = h[i].from, g[i].from # NoSender,
           g[i].val \in Nat, h[i].val \in Nat,
           InTurn(sends, g, i), InTurn(sends, h, i)
    PROVE  g[i].val = h[i].val
  <1> DEFINE c == g[i].chan
             s == g[i].from
             u == g[i].val
             v == h[i].val
  <1>1. /\ IsSent(sends[s], u, c, u) /\ IsSent(sends[s], v, c, v)
        /\ \A m \in 1 .. u - 1 : IsSent(sends[s], m, c, m) =>
              \E j \in 1 .. i - 1 : IsReceipt(g, j, c, s) /\ g[j].val = m
        /\ \A j \in 1 .. i - 1 : IsReceipt(g, j, c, s) => g[j].val < u
        /\ \A m \in 1 .. v - 1 : IsSent(sends[s], m, c, m) =>
              \E j \in 1 .. i - 1 : IsReceipt(h, j, c, s) /\ h[j].val = m
        /\ \A j \in 1 .. i - 1 : IsReceipt(h, j, c, s) => h[j].val < v
    BY DEF InTurn
  <1>2. \A j \in 1 .. i - 1 : IsReceipt(g, j, c, s) <=> IsReceipt(h, j, c, s)
    BY DEF IsReceipt
  <1> HIDE DEF c, s, u, v
  <1>3. u \in Nat /\ v \in Nat /\ u > 0 /\ v > 0
    BY <1>1 DEF IsSent, u, v
  <1>4. ~(u < v)
    <2> SUFFICES ASSUME u < v PROVE FALSE
      OBVIOUS
    <2>1. u \in 1 .. v - 1
      BY <1>3
    <2>2. PICK j \in 1 .. i - 1 : IsReceipt(h, j, c, s) /\ h[j].val = u
      BY <1>1, <2>1
    <2>3. g[j].val < u /\ g[j].val = u
      BY <1>1, <1>2, <2>2
    <2> QED
      BY <1>3, <2>3
  <1>5. ~(v < u)
    <2> SUFFICES ASSUME v < u PROVE FALSE
      OBVIOUS
    <2>1. v \in 1 .. u - 1
      BY <1>3
    <2>2. PICK j \in 1 .. i - 1 : IsReceipt(g, j, c, s) /\ g[j].val = v
      BY <1>1, <2>1
    <2>3. h[j].val < v /\ h[j].val = v
      BY <1>1, <1>2, <2>2
    <2> QED
      BY <1>3, <2>3
  <1>6. u = v
    BY <1>3, <1>4, <1>5
  <1> QED
    BY <1>6 DEF u, v

LEMMA SameResult ==
    ASSUME NEW a \in ResultType, NEW b \in ResultType,
           a.op = b.op, a.index = b.index, a.chan = b.chan, a.from = b.from, a.val = b.val,
           a.error = b.error
    PROVE  a = b
  <1>1. \A x \in ResultType : x = [op |-> x.op, index |-> x.index, chan |-> x.chan,
                                   from |-> x.from, val |-> x.val, error |-> x.error]
    BY DEF ResultType
  <1> QED
    BY <1>1

\* What the program asks for after the same past is the same.
LEMMA SamePastOfRepeat ==
    ASSUME NEW g \in Seq(ResultType), NEW r \in Seq(ResultType), Repeats(g, r), Len(g) + 1 \in DOMAIN r
    PROVE  (\A i \in 1 .. Len(g) : g[i] = r[i]) /\ SubSeq(r, 1, (Len(g) + 1) - 1) = g
  <1>1. Len(g) \in Nat /\ Len(g) <= Len(r) /\ \A i \in 1 .. Len(g) : g[i] = r[i]
    BY DEF Repeats
  <1>2. SubSeq(r, 1, Len(g)) = SubSeq(g, 1, Len(g))
    BY <1>1, SamePast
  <1>3. (Len(g) + 1) - 1 = Len(g)
    BY <1>1
  <1> QED
    BY <1>1, <1>2, <1>3, WholePast

LEMMA RepeatsMore ==
    ASSUME NEW g \in Seq(ResultType), NEW r \in Seq(ResultType), Repeats(g, r), Len(g) + 1 \in DOMAIN r
    PROVE  Repeats(Append(g, r[Len(g) + 1]), r)
  <1>1. r[Len(g) + 1] \in ResultType
    OBVIOUS
  <1>2. PICK obs \in ResultType : obs = r[Len(g) + 1]
    BY <1>1
  <1> DEFINE f == Append(g, obs)
  <1>3. /\ DOMAIN f = 1 .. Len(g) + 1 /\ DOMAIN g = 1 .. Len(g) /\ Len(g) \in Nat
        /\ (\A i \in 1 .. Len(g) : f[i] = g[i]) /\ f[Len(g) + 1] = obs
    BY OneMore
  <1> HIDE DEF f
  <1>4. Repeats(f, r)
    BY <1>2, <1>3 DEF Repeats
  <1> QED
    BY <1>2, <1>4 DEF f

\* A result that agrees with the recorded one is the recorded one: the message of a sender
\* that is in turn is the same after the same past.
LEMMA SameTold ==
    ASSUME NEW p, NEW w, NEW sends, NEW g \in Seq(ResultType), NEW r \in Seq(ResultType),
           Repeats(g, r), Len(g) + 1 \in DOMAIN r, Told(p, w, sends, r, Len(g) + 1),
           NEW obs \in ResultType, WellFormed(obs), InTurn(sends, Append(g, obs), Len(g) + 1),
           obs.from # NoSender => ~DroppedBefore(r, Len(g) + 1, obs.chan),
           obs.op = r[Len(g) + 1].op, obs.index = r[Len(g) + 1].index, obs.chan = r[Len(g) + 1].chan,
           obs.from = r[Len(g) + 1].from, obs.error = r[Len(g) + 1].error
    PROVE  obs = r[Len(g) + 1] /\ Repeats(Append(g, obs), r)
  <1> DEFINE f == Append(g, obs)
             l == Len(g) + 1
             old == r[l]
  <1>1. /\ f \in Seq(ResultType) /\ l \in DOMAIN f /\ f[l] = obs /\ l \in Nat
        /\ \A i \in 1 .. l - 1 : f[i] = g[i]
    BY OneMore
  <1>2. \A i \in 1 .. l - 1 : g[i] = r[i]
    BY SamePastOfRepeat
  <1>3. old \in ResultType /\ WellFormed(old) /\ InTurn(sends, r, l)
    BY DEF Told, InTurn
  <1>4. l \in DOMAIN r /\ InTurn(sends, f, l)
    OBVIOUS
  <1>5. /\ obs.op = old.op /\ obs.index = old.index /\ obs.chan = old.chan
        /\ obs.from = old.from /\ obs.error = old.error /\ old = r[l]
    OBVIOUS
  <1> HIDE DEF f, l, old
  <1>6. obs.val = old.val
    <2>1. CASE obs.from = NoSender
      BY <1>3, <1>5, <2>1 DEF WellFormed
    <2>2. CASE obs.from # NoSender
      <3>1. obs.val \in Nat /\ old.val \in Nat
        BY <1>3, <1>5, <2>2 DEF WellFormed
      <3>2. \A j \in 1 .. l - 1 : f[j] = r[j]
        BY <1>1, <1>2
      <3> QED
        BY <1>1, <1>3, <1>4, <1>5, <2>2, <3>1, <3>2, SameInTurn
    <2> QED
      BY <2>1, <2>2
  <1>7. obs = old
    BY <1>3, <1>5, <1>6, SameResult
  <1> QED
    BY <1>7, RepeatsMore DEF old, l

\* The results that an entry is for, one after the other.
LEMMA EntryResult ==
    ASSUME NEW list \in Seq(Entry), NEW r \in Seq(ResultType), NEW pos, IsLogOf(list, r, pos),
           NEW k \in Nat, k + 1 \in DOMAIN list
    PROVE  /\ list[k + 1].op # "select" =>
                 pos[k] + 1 = pos[k + 1] /\ r[pos[k + 1]].op # "event" /\ EntryFor(r[pos[k + 1]]) = list[k + 1]
           /\ list[k + 1].op = "select" =>
                 /\ pos[k] + Len(list[k + 1].events) + 1 = pos[k + 1]
                 /\ r[pos[k + 1]] = Selected
                 /\ \A e \in DOMAIN list[k + 1].events : IsEvent(r[pos[k] + e], list[k + 1].events[e])
           /\ pos[k] \in Nat /\ pos[k + 1] \in Nat /\ pos[k + 1] <= pos[Len(list)]
           /\ pos[Len(list)] \in Nat /\ pos[Len(list)] <= Len(r)
  <1>1. /\ (k + 1) - 1 = k /\ k \in 0 .. Len(list) /\ k + 1 \in 0 .. Len(list) /\ Len(list) \in 0 .. Len(list)
        /\ k + 1 <= Len(list) /\ Len(r) \in Nat
    OBVIOUS
  <1>2. Span(list[k + 1], r, pos[k], pos[k + 1])
    BY <1>1 DEF IsLogOf
  <1>3. /\ pos[k + 1] <= pos[Len(list)]
        /\ pos[k] \in 0 .. Len(r) /\ pos[k + 1] \in 0 .. Len(r) /\ pos[Len(list)] \in 0 .. Len(r)
    BY <1>1 DEF IsLogOf
  <1>4. /\ list[k + 1].op # "select" =>
                 pos[k] + 1 = pos[k + 1] /\ r[pos[k + 1]].op # "event" /\ EntryFor(r[pos[k + 1]]) = list[k + 1]
        /\ list[k + 1].op = "select" =>
                 /\ pos[k] + Len(list[k + 1].events) + 1 = pos[k + 1]
                 /\ r[pos[k + 1]] = Selected
                 /\ \A e \in DOMAIN list[k + 1].events : IsEvent(r[pos[k] + e], list[k + 1].events[e])
    BY <1>2 DEF Span
  <1> QED
    BY <1>1, <1>3, <1>4
-----------------------------------------------------------------------------
(* What a step shows the program is in turn. *)

LEMMA SameDropped ==
    ASSUME NEW g, NEW h, NEW n \in Nat, NEW c, \A j \in 1 .. n - 1 : g[j] = h[j]
    PROVE  DroppedBefore(g, n, c) <=> DroppedBefore(h, n, c)
  BY DEF DroppedBefore

LEMMA SeenSplit ==
    ASSUME TypeInv
    PROVE  /\ hist \in Seq(ResultType) /\ got \in Seq(ResultType) /\ Seen \in Seq(ResultType)
           /\ Len(Seen) = Len(hist) + Len(got) /\ Len(hist) \in Nat /\ Len(got) \in Nat
           /\ \A i \in 1 .. Len(hist) : Seen[i] = hist[i]
           /\ \A i \in 1 .. Len(got) : Seen[Len(hist) + i] = got[i]
           /\ \A i \in 1 .. Len(Seen) :
                 i \in 1 .. Len(hist) \/ (i - Len(hist) \in 1 .. Len(got) /\ Seen[i] = got[i - Len(hist)] /\ Seen[i].op = "event")
  <1>1. hist \in Seq(ResultType) /\ got \in Seq(ResultType)
    BY TypeParts DEF TypeInv, ThreadTyped, SelectTyped
  <1>2. \A k \in DOMAIN got : got[k].op = "event"
    BY DEF TypeInv, Inside
  <1>3. /\ Seen \in Seq(ResultType) /\ Len(Seen) = Len(hist) + Len(got)
        /\ \A i \in 1 .. Len(hist) : Seen[i] = hist[i]
        /\ \A i \in 1 .. Len(got) : Seen[Len(hist) + i] = got[i]
    BY <1>1 DEF Seen
  <1>4. ASSUME NEW i \in 1 .. Len(Seen), i \notin 1 .. Len(hist)
        PROVE  i - Len(hist) \in 1 .. Len(got) /\ Seen[i] = got[i - Len(hist)] /\ Seen[i].op = "event"
    <2>1. i - Len(hist) \in 1 .. Len(got) /\ Len(hist) + (i - Len(hist)) = i
      BY <1>1, <1>3, <1>4
    <2> QED
      BY <1>2, <1>3, <2>1
  <1> QED
    BY <1>1, <1>3, <1>4

LEMMA DroppedSoFar ==
    ASSUME TypeInv, NEW c
    PROVE  Dropped(c) <=> DroppedBefore(Seen, Len(Seen) + 1, c)
  <1>1. /\ Len(Seen) \in Nat /\ Len(hist) \in Nat /\ (Len(Seen) + 1) - 1 = Len(Seen) /\ DOMAIN hist = 1 .. Len(hist)
        /\ Len(hist) <= Len(Seen)
        /\ \A i \in 1 .. Len(hist) : Seen[i] = hist[i]
        /\ \A i \in 1 .. Len(Seen) : i \in 1 .. Len(hist) \/ Seen[i].op = "event"
    BY SeenSplit
  <1>2. \A i \in 1 .. Len(hist) : i \in 1 .. Len(Seen)
    BY <1>1
  <1>3. "event" \notin RecvKind /\ \A e : IsAdd(e) => e.op # "event"
    BY DEF RecvKind, IsAdd
  <1>4. ReceivedFrom(c) <=> \E j \in 1 .. Len(Seen) : Seen[j].op \in RecvKind /\ Seen[j].chan = c
    BY <1>1, <1>2, <1>3 DEF ReceivedFrom
  <1>5. AddedToSet(c) <=> \E j \in 1 .. Len(Seen) : IsAdd(Seen[j]) /\ Seen[j].chan = c
    BY <1>1, <1>2, <1>3 DEF AddedToSet, Adds, IsAdd
  <1> QED
    BY <1>1, <1>4, <1>5 DEF Dropped, DroppedBefore

\* A step shows one result, or none.
LEMMA OneResult ==
    ASSUME TypeInv, NEW obs, SeesMore(obs)
    PROVE  /\ obs \in ResultType /\ Seen \in Seq(ResultType) /\ Seen' = Append(Seen, obs)
           /\ Seen' # Seen /\ Seen' # hist
           /\ \A other : SeesMore(other) => other = obs
  <1>1. Seen \in Seq(ResultType) /\ hist \in Seq(ResultType) /\ Len(hist) <= Len(Seen)
    BY SeenSplit
  <1>2. \A other : SeesMore(other) => other \in ResultType /\ Seen' = Append(Seen, other)
    BY DEF SeesMore
  <1>3. \A other \in ResultType :
            Len(Append(Seen, other)) = Len(Seen) + 1 /\ Append(Seen, other)[Len(Seen) + 1] = other
    BY <1>1
  <1>4. Seen' # Seen /\ Seen' # hist
    <2>1. Len(Seen') = Len(Seen) + 1
      BY <1>2, <1>3
    <2> QED
      BY <1>1, <2>1
  <1>5. obs \in ResultType /\ Seen' = Append(Seen, obs)
    BY <1>2
  <1>6. ASSUME NEW other, SeesMore(other) PROVE other = obs
    BY <1>2, <1>3, <1>5, <1>6
  <1> QED
    BY <1>1, <1>4, <1>5, <1>6

LEMMA StepInTurn ==
    ASSUME TypeInv, Flow, Effect, Lossless, NEW obs, SeesMore(obs)
    PROVE  /\ Dropped(obs.chan) \/ InTurn(Sends, Seen', Len(Seen) + 1)
           /\ obs.from # NoSender => obs.chan \in Chan
  <1>1. /\ obs \in ResultType /\ Seen \in Seq(ResultType) /\ Seen' = Append(Seen, obs)
        /\ Seen' # Seen /\ Seen' # hist
        /\ \A other : SeesMore(other) => other = obs
    BY OneResult
  <1>2. Seen'[Len(Seen) + 1] = obs
    BY <1>1
  <1>3. CASE obs.from = NoSender
    BY <1>2, <1>3 DEF InTurn
  <1>4. ASSUME NEW c \in Chan, NEW s \in Sender, obs.chan = c, obs.from = s,
               \/ buffer[c][s] # <<>> /\ obs.val = Head(buffer[c][s])
               \/ buffer[c][s] = <<>> /\ wire[c] # <<>> /\ Head(wire[c]).from = s /\ obs.val = Head(wire[c]).val
        PROVE  /\ Dropped(obs.chan) \/ InTurn(Sends, Seen', Len(Seen) + 1)
               /\ obs.from # NoSender => obs.chan \in Chan
    <2> SUFFICES ASSUME ~Dropped(c) PROVE InTurn(Sends, Seen', Len(Seen) + 1)
      BY <1>4
    <2>1. Passes(c, s) /\ Whole(c, s)
      BY DEF Flow, FlowOn
    <2>2. /\ sent[s] \in Nat /\ buffer[c][s] \in Seq(Nat) /\ wire[c] \in Seq(Message)
      BY FlowTyped DEF TypeInv
    <2> DEFINE b == buffer[c][s]
               x == wire[c]
               n == sent[s]
               q == Sends
               h == Seen
    <2>3. InFlow(q[s], n, c, s, h, b, x) /\ NoneMissing(q[s], n, c, s, h, b, x)
      BY <2>1 DEF Passes, Whole
    <2>4. /\ n \in Nat /\ b \in Seq(Nat) /\ x \in Seq(Message) /\ h \in Seq(ResultType)
          /\ \/ b # <<>> /\ obs.val = Head(b)
             \/ b = <<>> /\ x # <<>> /\ Head(x).from = s /\ obs.val = Head(x).val
      BY <1>1, <1>4, <2>2
    <2> HIDE DEF b, x, n, q, h
    <2>5. InTurn(q, Append(h, obs), Len(h) + 1)
      BY <1>1, <1>4, <2>3, <2>4, FirstInTurn
    <2> QED
      BY <1>1, <2>5 DEF q, h
  <1>5. CASE Notes \/ Ends
    <2>1. Notes => obs.from = NoSender
      BY <1>1 DEF Notes
    <2>2. Ends => \E i \in Nat, c \in Chan : obs = Closed(i, c)
      BY <1>1 DEF Ends
    <2>3. \A i \in Nat, c \in Chan : Closed(i, c).from = NoSender
      BY DEF Closed, Failure, Result
    <2> QED
      BY <1>3, <1>5, <2>1, <2>2, <2>3
  <1>6. CASE Opens
    <2>1. obs.from = NoSender
      BY <1>1, <1>6 DEF Opens
    <2> QED
      BY <1>3, <2>1
  <1>7. CASE ReceivesFromWire
    <2>1. PICK c \in Chan : /\ \A s \in Sender : buffer[c][s] = <<>>
                            /\ wire[c] # <<>>
                            /\ obs.chan = c /\ obs.from = Head(wire[c]).from /\ obs.val = Head(wire[c]).val
      BY <1>1, <1>7 DEF ReceivesFromWire, TakesFirst
    <2>3. Head(wire[c]).from \in Sender
      BY <2>1, FirstTyped, TypeParts DEF TypeInv
    <2> QED
      BY <1>4, <2>1, <2>3
  <1>8. CASE ReceivesFromBuffer
    <2>1. PICK c \in Chan, s \in Sender :
              buffer[c][s] # <<>> /\ obs.chan = c /\ obs.from = s /\ obs.val = Head(buffer[c][s])
      BY <1>1, <1>8 DEF ReceivesFromBuffer, TakeFromBuffer
    <2> QED
      BY <1>4, <2>1
  <1>9. CASE Still \/ Loses \/ Fetches \/ SendsOne
    BY <1>1, <1>9 DEF Still, Loses, Fetches, SendsOne
  <1> QED
    BY <1>5, <1>6, <1>7, <1>8, <1>9 DEF Effect


\* What a step shows is told, if all before it is.
LEMMA NewTold ==
    ASSUME TypeInv, Flow, Effect, Lossless, NEW obs, Tells(obs),
           obs.op \in RecvKind => got = <<>> /\ obs.op = Op.kind,
           TellsAll(Seen, Len(Seen))
    PROVE  /\ Seen' \in Seq(ResultType) /\ Len(Seen') = Len(Seen) + 1
           /\ \A i \in 1 .. Len(Seen') : Told(setup.program, world, Sends, Seen', i)
  <1> DEFINE p == setup.program
             w == world
             q == Sends
             h == Seen
             l == Len(Seen) + 1
  <1>1. SeesMore(obs) /\ WellFormed(obs)
    BY DEF Tells
  <1>2. obs \in ResultType /\ h \in Seq(ResultType) /\ Seen' = Append(h, obs)
    BY <1>1, OneResult
  <1>3. PICK f : f = Seen'
    OBVIOUS
  <1>4. Dropped(obs.chan) \/ InTurn(q, f, l)
    BY <1>1, <1>3, StepInTurn
  <1>5. Dropped(obs.chan) => DroppedBefore(h, l, obs.chan)
    BY DroppedSoFar
  <1>6. \A i \in 1 .. Len(h) : Told(p, w, q, h, i)
    BY DEF TellsAll
  <1>7. obs.op \in RecvKind => obs.op = Code(p, w, h).kind
    BY SeenParts DEF Op, TypeInv
  <1>8. l = Len(h) + 1 /\ f = Append(h, obs)
    BY <1>2, <1>3
  <1> HIDE DEF p, w, q, h, l
  <1>9. /\ f \in Seq(ResultType) /\ Len(f) = l /\ DOMAIN f = 1 .. l /\ DOMAIN h = 1 .. l - 1 /\ Len(h) = l - 1
        /\ l \in Nat /\ f[l] = obs /\ (l - 1) \in Nat
        /\ \A i \in 1 .. l - 1 : f[i] = h[i]
    BY <1>2, <1>8, OneMore
  <1>10. \A i \in 1 .. l - 1 : Told(p, w, q, f, i)
    <2>1. /\ l - 1 <= Len(h) /\ l - 1 <= Len(f) /\ (\A i \in 1 .. l - 1 : h[i] = f[i])
          /\ \A i \in 1 .. l - 1 : Told(p, w, q, h, i)
      BY <1>6, <1>9
    <2> QED
      BY <1>2, <1>9, <2>1, ToldOn
  <1>11. Told(p, w, q, f, l)
    <2>1. SubSeq(f, 1, l - 1) = h
      <3>1. l - 1 <= Len(f) /\ l - 1 <= Len(h)
        BY <1>9
      <3>2. SubSeq(f, 1, l - 1) = SubSeq(h, 1, l - 1)
        BY <1>2, <1>9, <3>1, SamePast
      <3> QED
        BY <1>2, <1>9, <3>2, WholePast
    <2>2. DroppedBefore(f, l, f[l].chan) \/ InTurn(q, f, l)
      BY <1>4, <1>5, <1>9, SameDropped
    <2> QED
      BY <1>1, <1>7, <1>9, <2>1, <2>2 DEF Told
  <1>12. \A i \in 1 .. l : i \in 1 .. l - 1 \/ i = l
    BY <1>9
  <1>13. \A i \in 1 .. Len(f) : Told(p, w, q, f, i)
    BY <1>9, <1>10, <1>11, <1>12
  <1>14. Len(f) = Len(h) + 1
    BY <1>9
  <1> QED
    BY <1>3, <1>9, <1>13, <1>14 DEF p, w, q, h

\* The entry of a select is for the events that it returned.
LEMMA SpanOfSelect ==
    ASSUME NEW m \in Nat, NEW g \in Seq(ResultType), NEW h,
           \A e \in DOMAIN g : h[m + e] = g[e] /\ g[e].op = "event", h[m + Len(g) + 1] = Selected
    PROVE  Span(SelectEntry(g), h, m, m + Len(g) + 1)
  <1> DEFINE entry == SelectEntry(g)
  <1>1. /\ entry.op = "select" /\ Len(entry.events) = Len(g) /\ DOMAIN entry.events = DOMAIN g
        /\ \A e \in DOMAIN g : entry.events[e].index = g[e].index /\ entry.events[e].from = g[e].from
    BY DEF SelectEntry
  <1> HIDE DEF entry
  <1>2. Span(entry, h, m, m + Len(g) + 1)
    BY <1>1 DEF Span, IsEvent
  <1> QED
    BY <1>2 DEF entry

LEMMA StepWritten ==
    ASSUME TypeInv, TypeInv', Flow, Effect, Frame, UNCHANGED runVars, mode' = mode, Follows, Written
    PROVE  Written'
  <1> DEFINE p == setup.program
             w == world
             q == Sends
             list == log
             list2 == log'
             g == hist
             h == hist'
             f == Seen'
  <1> SUFFICES ASSUME mode = "Record"
               PROVE  \E pos : /\ IsLogOf(list2, h, pos)
                               /\ \A i \in 1 .. pos[Len(list2)] : Told(p, w, q, h, i)
                               /\ Lossless' => /\ pos[Len(list2)] = Len(h)
                                               /\ \A i \in 1 .. Len(f) : Told(p, w, q, f, i)
    BY DEF Written, TellsAll, runVars, Sends
  <1>1. PICK pos : /\ IsLogOf(list, g, pos)
                   /\ \A i \in 1 .. pos[Len(list)] : Told(p, w, q, g, i)
                   /\ Lossless => pos[Len(list)] = Len(g) /\ TellsAll(Seen, Len(Seen))
    BY DEF Written, TellsAll
  <1>2. g \in Seq(ResultType) /\ h \in Seq(ResultType) /\ list \in Seq(Entry)
        /\ \A i \in DOMAIN g : i \in DOMAIN h /\ h[i] = g[i]
    BY TypeParts DEF TypeInv, ThreadTyped, LogTyped, Frame, Extends
  <1>3. ASSUME list2 = list
        PROVE  IsLogOf(list2, h, pos) /\ \A i \in 1 .. pos[Len(list2)] : Told(p, w, q, h, i)
    <2> HIDE DEF g, h, list, list2, p, w, q, f
    <2>1. IsLogOf(list, h, pos) /\ Len(g) <= Len(h)
      BY <1>1, <1>2, LogOfLonger
    <2>2. pos[Len(list)] \in Nat /\ pos[Len(list)] <= Len(g) /\ Len(g) \in Nat /\ Len(h) \in Nat
      BY <1>1, <1>2 DEF IsLogOf
    <2>3. pos[Len(list)] <= Len(h) /\ \A i \in 1 .. pos[Len(list)] : g[i] = h[i]
      BY <1>2, <2>1, <2>2
    <2>4. \A i \in 1 .. pos[Len(list)] : Told(p, w, q, h, i)
      BY <1>1, <1>2, <2>2, <2>3, ToldOn
    <2> QED
      BY <1>3, <2>1, <2>4
  <1>4. CASE ~Lossless'
    <2>1. list2 = list
      BY <1>4 DEF Follows
    <2> QED
      BY <1>3, <1>4, <2>1
  <1>5. ASSUME Lossless', NEW obs, Tells(obs), obs.op \in RecvKind => got = <<>> /\ obs.op = Op.kind
        PROVE  /\ f \in Seq(ResultType) /\ f = Append(Seen, obs)
               /\ \A i \in 1 .. Len(f) : Told(p, w, q, f, i)
    <2>1. Lossless /\ TellsAll(Seen, Len(Seen))
      BY <1>1, <1>5 DEF Frame
    <2> QED
      BY <1>5, <2>1, NewTold DEF Tells, SeesMore
  <1>6. ASSUME Lossless', NEW entry \in Entry, list2 = Append(list, entry), f = h,
               \A i \in 1 .. Len(f) : Told(p, w, q, f, i),
               Span(entry, h, Len(g), Len(h))
        PROVE  \E places : /\ IsLogOf(list2, h, places)
                           /\ \A i \in 1 .. places[Len(list2)] : Told(p, w, q, h, i)
                           /\ places[Len(list2)] = Len(h)
    <2>1. pos[Len(list)] = Len(g)
      BY <1>1, <1>6 DEF Frame
    <2> HIDE DEF g, h, list, list2, p, w, q, f
    <2>2. PICK places : IsLogOf(Append(list, entry), h, places) /\ places[Len(Append(list, entry))] = Len(h)
      BY <1>1, <1>2, <1>6, <2>1, LogOfMore
    <2> QED
      BY <1>6, <2>2
  <1>7. CASE Lossless'
    <2>1. Writes /\ Lossless
      BY <1>7 DEF Follows, Frame
    <2>2. CASE log' = log /\ hist' = hist /\ Seen' = Seen
      <3>1. \A i \in 1 .. Len(f) : Told(p, w, q, f, i)
        BY <1>1, <2>1, <2>2 DEF TellsAll
      <3> QED
        BY <1>1, <1>3, <2>1, <2>2, <3>1
    <2>3. CASE log' = log /\ hist' = hist /\ \E obs : Tells(obs) /\ obs.op = "event"
      <3>1. PICK obs : Tells(obs) /\ obs.op = "event"
        BY <2>3
      <3>2. obs.op \notin RecvKind
        BY <3>1 DEF RecvKind
      <3>3. \A i \in 1 .. Len(f) : Told(p, w, q, f, i)
        BY <1>5, <1>7, <3>1, <3>2
      <3> QED
        BY <1>1, <1>3, <2>1, <2>3, <3>3
    <2>4. ASSUME NEW obs, got = <<>>, hist' = Append(hist, obs), Tells(obs), obs.op \notin {"event", "select"},
                 obs.op \in RecvKind => obs.op = Op.kind,
                 log' = Append(log, EntryFor(obs)), EntryFor(obs) \in Entry
          PROVE  \E places : /\ IsLogOf(list2, h, places)
                             /\ \A i \in 1 .. places[Len(list2)] : Told(p, w, q, h, i)
                             /\ places[Len(list2)] = Len(h)
      <3>1. f = h /\ \A i \in 1 .. Len(f) : Told(p, w, q, f, i)
        BY <1>5, <1>7, <2>4, SeenParts DEF TypeInv
      <3>2. Len(h) = Len(g) + 1 /\ h[Len(h)] = obs
        BY <1>2, <2>4 DEF Tells, SeesMore
      <3>3. EntryFor(obs).op = obs.op
        BY DEF EntryFor
      <3>4. Span(EntryFor(obs), h, Len(g), Len(h))
        BY <2>4, <3>2, <3>3 DEF Span
      <3> QED
        BY <1>6, <1>7, <2>4, <3>1, <3>4
    <2>5. CASE log' = Append(log, SelectEntry(got)) /\ SelectEntry(got) \in Entry
               /\ hist' = Append(Seen, Selected) /\ got' = <<>>
      <3>1. Tells(Selected) /\ Selected.op \notin RecvKind
        <4>1. Seen' = hist'
          BY <1>2, <2>5, SeenParts DEF TypeInv
        <4>2. WellFormed(Selected) /\ Selected.op = "select"
          BY DEF WellFormed, Selected, Failure, Result
        <4> QED
          BY <2>5, <4>1, <4>2, SelectedTyped DEF Tells, SeesMore, RecvKind
      <3>2. f = h /\ \A i \in 1 .. Len(f) : Told(p, w, q, f, i)
        BY <1>5, <1>7, <2>5, <3>1
      <3>3. Span(SelectEntry(got), h, Len(g), Len(h))
        <4>1. /\ Seen \in Seq(ResultType) /\ Len(Seen) = Len(g) + Len(got) /\ Len(g) \in Nat /\ Len(got) \in Nat
              /\ got \in Seq(ResultType)
              /\ \A i \in 1 .. Len(got) : Seen[Len(g) + i] = got[i]
          BY SeenSplit
        <4>2. \A e \in DOMAIN got : got[e].op = "event"
          BY DEF TypeInv, Inside
        <4>3. Len(h) = Len(g) + Len(got) + 1 /\ h[Len(h)] = Selected
              /\ \A i \in 1 .. Len(Seen) : h[i] = Seen[i]
          <5>1. h = Append(Seen, Selected) /\ Selected \in ResultType
            BY <2>5, SelectedTyped
          <5>2. PICK x : x = h
            OBVIOUS
          <5>3. /\ Len(x) = Len(Seen) + 1 /\ x[Len(Seen) + 1] = Selected
                /\ \A i \in 1 .. Len(Seen) : x[i] = Seen[i]
            BY <4>1, <5>1, <5>2, OneMore
          <5> QED
            BY <4>1, <5>2, <5>3
        <4>4. \A e \in DOMAIN got : h[Len(g) + e] = got[e]
          <5>1. \A e \in DOMAIN got : e \in 1 .. Len(got) /\ Len(g) + e \in 1 .. Len(Seen)
            BY <4>1
          <5> QED
            BY <4>1, <4>3, <5>1
        <4>5. h[Len(g) + Len(got) + 1] = Selected
          BY <4>3
        <4>6. PICK x : x = h
          OBVIOUS
        <4>7. Span(SelectEntry(got), x, Len(g), Len(g) + Len(got) + 1)
          BY <4>1, <4>2, <4>4, <4>5, <4>6, SpanOfSelect
        <4> QED
          BY <4>3, <4>6, <4>7
      <3> QED
        BY <1>6, <1>7, <2>5, <3>2, <3>3
    <2>6. CASE \E obs : /\ got = <<>> /\ hist' = Append(hist, obs) /\ Tells(obs)
                         /\ obs.op \notin {"event", "select"} /\ (obs.op \in RecvKind => obs.op = Op.kind)
                         /\ log' = Append(log, EntryFor(obs)) /\ EntryFor(obs) \in Entry
      <3>1. PICK obs : /\ got = <<>> /\ hist' = Append(hist, obs) /\ Tells(obs)
                       /\ obs.op \notin {"event", "select"} /\ (obs.op \in RecvKind => obs.op = Op.kind)
                       /\ log' = Append(log, EntryFor(obs)) /\ EntryFor(obs) \in Entry
        BY <2>6
      <3>2. f = h /\ \A i \in 1 .. Len(f) : Told(p, w, q, f, i)
        BY <1>5, <1>7, <3>1, SeenParts DEF TypeInv
      <3> QED
        BY <2>4, <3>1, <3>2
    <2> QED
      BY <2>1, <2>2, <2>3, <2>5, <2>6 DEF Writes
  <1> QED
    BY <1>4, <1>7

-----------------------------------------------------------------------------
(* What agrees with the entry repeats the recording: g is what was shown before, k how
   many entries it is for. *)

LEMMA EntryRepeats ==
    ASSUME NEW g \in Seq(ResultType), NEW r \in Seq(ResultType), NEW pos,
           log \in Seq(Entry), IsLogOf(log, r, pos), Repeats(g, r), TellsAll(r, pos[Len(log)]),
           NEW k \in Nat, k + 1 \in DOMAIN log, Len(g) = pos[k],
           NEW obs \in ResultType, WellFormed(obs), Agrees(obs, log[k + 1]),
           obs.op \in RecvKind => obs.op = Code(setup.program, world, g).kind,
           InTurn(Sends, Append(g, obs), Len(g) + 1),
           obs.from # NoSender => ~DroppedBefore(g, Len(g) + 1, obs.chan)
    PROVE  Repeats(Append(g, obs), r) /\ Len(Append(g, obs)) = pos[k + 1]
  <1> DEFINE l == Len(g) + 1
             old == r[Len(g) + 1]
             entry == log[k + 1]
  <1>1. Len(g) \in Nat /\ l \in Nat /\ entry.op # "select"
    BY DEF Agrees
  <1>2. /\ l = pos[k + 1] /\ EntryFor(old) = entry
        /\ pos[k] \in Nat /\ pos[k + 1] \in Nat
        /\ pos[k + 1] <= pos[Len(log)] /\ pos[Len(log)] \in Nat /\ pos[Len(log)] <= Len(r)
    BY <1>1, EntryResult
  <1>3. l \in DOMAIN r /\ l \in 1 .. pos[Len(log)]
    BY <1>1, <1>2
  <1>4. old \in ResultType /\ Told(setup.program, world, Sends, r, l)
    BY <1>3 DEF TellsAll
  <1>5. (\A i \in 1 .. l - 1 : g[i] = r[i]) /\ SubSeq(r, 1, l - 1) = g
    BY <1>3, SamePastOfRepeat
  <1>6. obs.index = old.index /\ obs.chan = old.chan /\ obs.from = old.from /\ obs.error = old.error
        /\ (obs.op = old.op \/ {obs.op, old.op} \subseteq RecvKind)
    BY <1>2 DEF Agrees, EntryFor
  <1>7. old.op \in RecvKind => old.op = Code(setup.program, world, g).kind
    BY <1>4, <1>5 DEF Told
  <1>8. obs.op = old.op
    BY <1>6, <1>7
  <1>9. obs.from # NoSender => ~DroppedBefore(r, l, obs.chan)
    BY <1>1, <1>5, SameDropped
  <1>10. Repeats(Append(g, obs), r)
    BY <1>3, <1>4, <1>6, <1>8, <1>9, SameTold
  <1> QED
    BY <1>2, <1>10, OneMore

LEMMA WithinEntry ==
    ASSUME NEW l \in Nat, NEW a \in Nat, NEW m \in Nat, NEW n \in Nat, NEW b \in Nat,
           l = a + m, m + 1 <= n, a + n + 1 = b
    PROVE  l + 1 = a + (m + 1) /\ l + 1 <= b /\ l + 1 >= 1 /\ l + 1 \in Nat
  OBVIOUS

LEMMA EventRepeats ==
    ASSUME NEW g \in Seq(ResultType), NEW r \in Seq(ResultType), NEW pos,
           log \in Seq(Entry), IsLogOf(log, r, pos), Repeats(g, r), TellsAll(r, pos[Len(log)]),
           NEW k \in Nat, k + 1 \in DOMAIN log, log[k + 1].op = "select",
           NEW m \in Nat, m + 1 \in DOMAIN log[k + 1].events, Len(g) = pos[k] + m,
           NEW obs \in ResultType, WellFormed(obs), IsEvent(obs, log[k + 1].events[m + 1]),
           \A i \in DOMAIN r : r[i].op = "event" /\ r[i].index = obs.index => r[i].chan = obs.chan,
           InTurn(Sends, Append(g, obs), Len(g) + 1),
           obs.from # NoSender => ~DroppedBefore(g, Len(g) + 1, obs.chan)
    PROVE  Repeats(Append(g, obs), r) /\ Len(Append(g, obs)) = pos[k] + (m + 1)
  <1> DEFINE l == Len(g) + 1
             old == r[Len(g) + 1]
             event == log[k + 1].events[m + 1]
  <1>1. Len(g) \in Nat
    OBVIOUS
  <1>2. log[k + 1].events \in Seq(SelectEvent)
    BY EntryShape
  <1>3. m + 1 <= Len(log[k + 1].events)
    BY <1>2
  <1>4. /\ pos[k] + Len(log[k + 1].events) + 1 = pos[k + 1]
        /\ IsEvent(r[pos[k] + (m + 1)], event)
        /\ pos[k] \in Nat /\ pos[k + 1] \in Nat
        /\ pos[k + 1] <= pos[Len(log)] /\ pos[Len(log)] \in Nat /\ pos[Len(log)] <= Len(r)
    <2>1. /\ pos[k] + Len(log[k + 1].events) + 1 = pos[k + 1]
          /\ \A e \in DOMAIN log[k + 1].events : IsEvent(r[pos[k] + e], log[k + 1].events[e])
      BY EntryResult
    <2>2. /\ pos[k] \in Nat /\ pos[k + 1] \in Nat
          /\ pos[k + 1] <= pos[Len(log)] /\ pos[Len(log)] \in Nat /\ pos[Len(log)] <= Len(r)
      BY EntryResult
    <2>3. IsEvent(r[pos[k] + (m + 1)], event)
      BY <2>1
    <2> QED
      BY <2>1, <2>2, <2>3
  <1>5. l = pos[k] + (m + 1) /\ l \in Nat /\ l <= pos[k + 1] /\ l >= 1
    <2>1. Len(log[k + 1].events) \in Nat
      BY <1>2
    <2> DEFINE a == pos[k]
               b == pos[k + 1]
               n == Len(log[k + 1].events)
               o == Len(g)
    <2>2. /\ o \in Nat /\ a \in Nat /\ b \in Nat /\ n \in Nat
          /\ o = a + m /\ m + 1 <= n /\ a + n + 1 = b
      BY <1>1, <1>3, <1>4, <2>1, Zenon
    <2> HIDE DEF a, b, n, o
    <2>3. o + 1 = a + (m + 1) /\ o + 1 <= b /\ o + 1 >= 1 /\ o + 1 \in Nat
      BY <2>2, WithinEntry
    <2> QED
      BY <2>3 DEF a, b, o
  <1>6. IsEvent(old, event)
    BY <1>4, <1>5
  <1>7. l \in DOMAIN r /\ l \in 1 .. pos[Len(log)]
    <2>1. PICK b \in Nat, n \in Nat : b = pos[k + 1] /\ n = pos[Len(log)] /\ b <= n /\ n <= Len(r)
      BY <1>4
    <2>2. PICK i \in Nat : i = l
      BY <1>5
    <2>3. i <= b /\ i >= 1
      BY <1>5, <2>1, <2>2
    <2>4. i \in DOMAIN r /\ i \in 1 .. n
      BY <2>1, <2>2, <2>3
    <2> QED
      BY <2>1, <2>2, <2>4
  <1>8. old \in ResultType /\ Told(setup.program, world, Sends, r, l)
    BY <1>7 DEF TellsAll
  <1>9. \A i \in 1 .. l - 1 : g[i] = r[i]
    BY <1>7, SamePastOfRepeat
  <1>10. obs.op = old.op /\ obs.index = old.index /\ obs.from = old.from
    BY <1>6 DEF IsEvent
  <1>11. obs.error = old.error
    BY <1>6, <1>8, <1>10 DEF Told, WellFormed, IsEvent
  <1>12. obs.chan = old.chan
    BY <1>6, <1>7, <1>10 DEF IsEvent
  <1>13. obs.from # NoSender => ~DroppedBefore(r, l, obs.chan)
    BY <1>5, <1>9, SameDropped
  <1>14. Repeats(Append(g, obs), r)
    BY <1>7, <1>8, <1>10, <1>11, <1>12, <1>13, SameTold
  <1> QED
    BY <1>5, <1>14, OneMore

LEMMA SelectRepeats ==
    ASSUME NEW g \in Seq(ResultType), NEW r \in Seq(ResultType),
           NEW list \in Seq(Entry), NEW pos, IsLogOf(list, r, pos), Repeats(g, r),
           NEW k \in Nat, k + 1 \in DOMAIN list, list[k + 1].op = "select",
           Len(g) = pos[k] + Len(list[k + 1].events)
    PROVE  Repeats(Append(g, Selected), r) /\ Len(Append(g, Selected)) = pos[k + 1]
  <1>1. Len(g) \in Nat
    OBVIOUS
  <1>2. /\ pos[k] + Len(list[k + 1].events) + 1 = pos[k + 1]
        /\ r[pos[k + 1]] = Selected
        /\ pos[k] \in Nat /\ pos[k + 1] \in Nat
        /\ pos[k + 1] <= pos[Len(list)] /\ pos[Len(list)] \in Nat /\ pos[Len(list)] <= Len(r)
    <2>1. pos[k] + Len(list[k + 1].events) + 1 = pos[k + 1] /\ r[pos[k + 1]] = Selected
      BY EntryResult
    <2>2. /\ pos[k] \in Nat /\ pos[k + 1] \in Nat
          /\ pos[k + 1] <= pos[Len(list)] /\ pos[Len(list)] \in Nat /\ pos[Len(list)] <= Len(r)
      BY EntryResult
    <2> QED
      BY <2>1, <2>2
  <1>3. Len(g) + 1 = pos[k + 1]
    <2>1. list[k + 1].events \in Seq(SelectEvent)
      BY EntryShape
    <2>2. Len(list[k + 1].events) \in Nat
      BY <2>1
    <2> QED
      BY <1>1, <1>2, <2>2
  <1>4. Len(g) + 1 \in DOMAIN r
    BY <1>1, <1>2, <1>3
  <1>5. Repeats(Append(g, Selected), r)
    BY <1>2, <1>3, <1>4, RepeatsMore
  <1> QED
    BY <1>3, <1>5, SelectedTyped, OneMore

-----------------------------------------------------------------------------
(* The replay. *)

LEMMA HistSeen == TypeInv => \A i \in DOMAIN hist : i \in DOMAIN Seen /\ Seen[i] = hist[i]
  <1> SUFFICES ASSUME TypeInv PROVE \A i \in DOMAIN hist : i \in DOMAIN Seen /\ Seen[i] = hist[i]
    OBVIOUS
  <1>1. /\ hist \in Seq(ResultType) /\ Seen \in Seq(ResultType)
        /\ Len(Seen) = Len(hist) + Len(got) /\ Len(hist) \in Nat /\ Len(got) \in Nat
        /\ \A i \in 1 .. Len(hist) : Seen[i] = hist[i]
    BY SeenSplit
  <1> QED
    BY <1>1

LEMMA CursorTyped ==
    ASSUME TypeInv, Reading, mode = "Replay"
    PROVE  Behind \in Nat /\ Part \in Nat
  <1>1. next \in Nat /\ log \in Seq(Entry) /\ todo \in Seq(SelectEvent)
    BY TypeParts DEF TypeInv, LogTyped, SelectTyped
  <1>2. Behind \in Nat
    BY <1>1 DEF Reading, Behind
  <1>3. Part \in Nat
    <2>1. CASE At("replay")
      <3>1. next \in DOMAIN log /\ log[next].op = "select" /\ Len(todo) <= Len(log[next].events)
        BY <2>1 DEF Reading, InEntry
      <3>2. log[next].events \in Seq(SelectEvent)
        BY <1>1, <3>1, EntryShape
      <3>3. Len(log[next].events) \in Nat /\ Len(todo) \in Nat
        BY <1>1, <3>2
      <3> QED
        BY <2>1, <3>1, <3>3 DEF Part
    <2> QED
      BY <2>1 DEF Part
  <1> QED
    BY <1>2, <1>3

\* The channel of an event is known from its index: what was added is in the recording.
LEMMA ChannelOfEvent ==
    ASSUME TypeInv, status # "panicked", NEW r \in Seq(ResultType),
           Increasing(r), OfAdds(r, r), Repeats(hist, r),
           NEW obs \in ResultType, obs.index \in DOMAIN InSet, obs.chan = InSet[obs.index].chan
    PROVE  \A k \in DOMAIN r : r[k].op = "event" /\ r[k].index = obs.index => r[k].chan = obs.chan
  <1> SUFFICES ASSUME NEW k \in DOMAIN r, r[k].op = "event", r[k].index = obs.index
               PROVE  r[k].chan = obs.chan
    OBVIOUS
  <1>1. Numbered(hist, InSet)
    BY DEF TypeInv, HistIndexed
  <1>2. PICK i \in DOMAIN hist : IsAdd(hist[i]) /\ hist[i].index = obs.index
    BY <1>1 DEF Numbered
  <1>3. hist[i].chan = obs.chan /\ i \in DOMAIN r /\ r[i] = hist[i]
    BY <1>1, <1>2 DEF Numbered, Repeats
  <1>4. PICK j \in DOMAIN r : IsAdd(r[j]) /\ r[j].index = r[k].index /\ r[j].chan = r[k].chan
    BY DEF OfAdds
  <1>5. i = j
    <2>1. r[i].index \in Nat /\ r[j].index = r[i].index /\ i \in Nat /\ j \in Nat
      <3>1. r[i] \in ResultType
        BY <1>3
      <3> QED
        BY <1>2, <1>3, <1>4, <3>1 DEF ResultType
    <2>2. ~(i < j) /\ ~(j < i)
      BY <1>2, <1>3, <1>4, <2>1 DEF Increasing
    <2> QED
      BY <2>1, <2>2
  <1> QED
    BY <1>3, <1>4, <1>5

\* A step that loses nothing, in the replay of a deterministic program.
LEMMA StepRepeats ==
    ASSUME TypeInv, TypeInv', Flow, Effect, Frame, mode = "Replay", mode' = mode, Follows, Reading,
           Lossless', ~BufferDropped,
           NEW r \in Seq(ResultType), NEW pos, IsLogOf(log, r, pos), TellsAll(r, pos[Len(log)]),
           Increasing(r), OfAdds(r, r), Repeats(hist, r), Repeats(Seen, r), Len(Seen) = pos[Behind] + Part
    PROVE  Repeats(Seen', r) /\ Len(Seen') = pos[Behind'] + Part'
  <1> DEFINE g == Seen
             k == Behind
             m == Part
             f == Seen'
  <1>1. Lossless /\ status # "panicked"
    BY DEF Frame, Lossless
  <1>2. /\ g \in Seq(ResultType) /\ log \in Seq(Entry) /\ k \in Nat /\ m \in Nat
    BY SeenSplit, CursorTyped, TypeParts DEF TypeInv, LogTyped
  <1>3. ASSUME NEW obs, Tells(obs)
        PROVE  /\ obs \in ResultType /\ WellFormed(obs) /\ f = Append(g, obs)
               /\ InTurn(Sends, Append(g, obs), Len(g) + 1) \/ obs.from = NoSender
               /\ obs.from # NoSender => ~DroppedBefore(g, Len(g) + 1, obs.chan)
    <2>1. SeesMore(obs) /\ WellFormed(obs)
      BY <1>3 DEF Tells
    <2>2. obs \in ResultType /\ f = Append(g, obs)
      BY <2>1 DEF SeesMore
    <2>3. Dropped(obs.chan) \/ InTurn(Sends, f, Len(g) + 1)
      BY <1>1, <2>1, StepInTurn
    <2>4. obs.from # NoSender => ~Dropped(obs.chan)
      BY <1>1, <2>1, StepInTurn DEF BufferDropped
    <2>5. ~Dropped(obs.chan) => ~DroppedBefore(g, Len(g) + 1, obs.chan)
      BY DroppedSoFar
    <2> QED
      BY <2>1, <2>2, <2>3, <2>4, <2>5
  <1>4. ASSUME NEW obs, Tells(obs)
        PROVE  InTurn(Sends, Append(g, obs), Len(g) + 1)
    <2>1. CASE obs.from # NoSender
      BY <1>3, <1>4, <2>1
    <2>2. CASE obs.from = NoSender
      <3>1. Append(g, obs)[Len(g) + 1] = obs
        BY <1>2, <1>3, <1>4, OneMore
      <3> QED
        BY <2>2, <3>1 DEF InTurn
    <2> QED
      BY <2>1, <2>2
  <1>5. CASE Seen' = Seen /\ Behind' = Behind /\ Part' = Part
    BY <1>5
  <1>6. CASE k + 1 \in DOMAIN log /\ RepeatsEntry
    <2>1. PICK obs : /\ got = <<>> /\ Tells(obs)
                     /\ m = 0 /\ Agrees(obs, log[k + 1]) /\ (obs.op \in RecvKind => obs.op = Op.kind)
                     /\ Behind' = k + 1 /\ Part' = 0
      BY <1>6 DEF RepeatsEntry
    <2>2. obs.op \in RecvKind => obs.op = Code(setup.program, world, g).kind
      BY <2>1, SeenParts DEF Op, TypeInv
    <2>3. /\ obs \in ResultType /\ WellFormed(obs) /\ f = Append(g, obs)
          /\ InTurn(Sends, Append(g, obs), Len(g) + 1)
          /\ obs.from # NoSender => ~DroppedBefore(g, Len(g) + 1, obs.chan)
      BY <1>3, <1>4, <2>1
    <2>4. IsLogOf(log, r, pos) /\ Repeats(g, r) /\ k + 1 \in DOMAIN log /\ Agrees(obs, log[k + 1]) /\ Len(g) = pos[k] + 0
      BY <1>6, <2>1
    <2>5. Behind' = k + 1 /\ Part' = 0
      BY <2>1
    <2> HIDE DEF g, k, m, f
    <2>6. pos[k] \in Nat /\ pos[k + 1] \in Nat
      BY <1>2, <2>4, EntryResult
    <2>7. Len(g) = pos[k]
      BY <2>4, <2>6
    <2>8. Repeats(Append(g, obs), r) /\ Len(Append(g, obs)) = pos[k + 1]
      <3>1. /\ g \in Seq(ResultType) /\ log \in Seq(Entry) /\ k \in Nat
            /\ IsLogOf(log, r, pos) /\ Repeats(g, r) /\ k + 1 \in DOMAIN log /\ Len(g) = pos[k]
        BY <1>2, <2>4, <2>7
      <3>2. /\ obs \in ResultType /\ WellFormed(obs) /\ Agrees(obs, log[k + 1])
            /\ (obs.op \in RecvKind => obs.op = Code(setup.program, world, g).kind)
            /\ InTurn(Sends, Append(g, obs), Len(g) + 1)
            /\ (obs.from # NoSender => ~DroppedBefore(g, Len(g) + 1, obs.chan))
        BY <2>2, <2>3, <2>4
      <3> QED
        BY <3>1, <3>2, EntryRepeats
    <2>9. Repeats(f, r) /\ Len(f) = pos[Behind'] + Part'
      BY <2>3, <2>5, <2>6, <2>8
    <2> QED
      BY <2>9 DEF f
  <1>7. CASE k + 1 \in DOMAIN log /\ RepeatsEvent
    <2>1. PICK obs : /\ Tells(obs) /\ IsEvent(obs, log[k + 1].events[m + 1])
                     /\ obs.index \in DOMAIN InSet /\ obs.chan = InSet[obs.index].chan
      BY <1>7 DEF RepeatsEvent
    <2>2. log[k + 1].op = "select" /\ m + 1 \in DOMAIN log[k + 1].events /\ Behind' = k /\ Part' = m + 1
      BY <1>7 DEF RepeatsEvent
    <2>3. /\ obs \in ResultType /\ WellFormed(obs) /\ f = Append(g, obs)
          /\ InTurn(Sends, Append(g, obs), Len(g) + 1)
          /\ obs.from # NoSender => ~DroppedBefore(g, Len(g) + 1, obs.chan)
      BY <1>3, <1>4, <2>1
    <2>4. /\ IsLogOf(log, r, pos) /\ Repeats(g, r) /\ k + 1 \in DOMAIN log
          /\ Len(g) = pos[k] + m /\ IsEvent(obs, log[k + 1].events[m + 1])
      BY <1>7, <2>1
    <2>5. \A i \in DOMAIN r : r[i].op = "event" /\ r[i].index = obs.index => r[i].chan = obs.chan
      BY <1>1, <2>1, <2>3, ChannelOfEvent
    <2> HIDE DEF g, k, m, f
    <2>6. Repeats(Append(g, obs), r) /\ Len(Append(g, obs)) = pos[k] + (m + 1)
      <3>1. /\ g \in Seq(ResultType) /\ log \in Seq(Entry) /\ k \in Nat /\ m \in Nat
            /\ IsLogOf(log, r, pos) /\ Repeats(g, r) /\ k + 1 \in DOMAIN log /\ Len(g) = pos[k] + m
            /\ log[k + 1].op = "select" /\ m + 1 \in DOMAIN log[k + 1].events
        BY <1>2, <2>2, <2>4
      <3>2. /\ obs \in ResultType /\ WellFormed(obs) /\ IsEvent(obs, log[k + 1].events[m + 1])
            /\ (\A i \in DOMAIN r : r[i].op = "event" /\ r[i].index = obs.index => r[i].chan = obs.chan)
            /\ InTurn(Sends, Append(g, obs), Len(g) + 1)
            /\ (obs.from # NoSender => ~DroppedBefore(g, Len(g) + 1, obs.chan))
        BY <2>3, <2>4, <2>5
      <3> QED
        BY <3>1, <3>2, EventRepeats
    <2>7. Repeats(f, r) /\ Len(f) = pos[Behind'] + Part'
      BY <2>2, <2>3, <2>6
    <2> QED
      BY <2>7 DEF f
  <1>8. CASE k + 1 \in DOMAIN log /\ RepeatsSelect
    <2>1. /\ log[k + 1].op = "select" /\ m = Len(log[k + 1].events)
          /\ f = Append(g, Selected) /\ Behind' = k + 1 /\ Part' = 0
      BY <1>8 DEF RepeatsSelect, SeesMore
    <2>2. IsLogOf(log, r, pos) /\ Repeats(g, r) /\ k + 1 \in DOMAIN log /\ Len(g) = pos[k] + m
      BY <1>8
    <2> HIDE DEF g, k, m, f
    <2>3. Repeats(Append(g, Selected), r) /\ Len(Append(g, Selected)) = pos[k + 1] /\ pos[k + 1] \in Nat
      BY <1>2, <2>1, <2>2, SelectRepeats, EntryResult
    <2>4. Repeats(f, r) /\ Len(f) = pos[Behind'] + Part'
      BY <2>1, <2>3
    <2> QED
      BY <2>4 DEF f
  <1> QED
    BY <1>5, <1>6, <1>7, <1>8 DEF Follows

LEMMA StepRepetition ==
    ASSUME TypeInv, TypeInv', Flow, Effect, Frame, UNCHANGED runVars, mode' = mode, Follows, Reading, Repetition
    PROVE  Repetition'
  <1> DEFINE r == recorded
  <1> SUFFICES ASSUME mode = "Replay"
               PROVE  /\ Increasing(r') /\ OfAdds(r', r')
                      /\ \E pos : 
                            /\ IsLogOf(log', r', pos)
                            /\ Deterministic' => TellsAll(r, pos[Len(log)])'
                            /\ Deterministic' /\ ~desynced' /\ ~BufferDropped' =>
                                  /\ Repeats(hist', r')
                                  /\ status' # "panicked" =>
                                        Repeats(Seen', r') /\ Len(Seen') = pos[Behind'] + Part'
    BY DEF Repetition
  <1>1. /\ Increasing(r) /\ OfAdds(r, r) /\ r' = r /\ log' = log /\ (Deterministic' <=> Deterministic)
        /\ setup' = setup /\ world' = world
    BY DEF Repetition, Follows, runVars, Deterministic, World
  <1>2. PICK pos : /\ IsLogOf(log, r, pos)
                   /\ Deterministic => TellsAll(r, pos[Len(log)])
                   /\ Deterministic /\ ~desynced /\ ~BufferDropped =>
                         /\ Repeats(hist, r)
                         /\ status # "panicked" => Repeats(Seen, r) /\ Len(Seen) = pos[Behind] + Part
    BY DEF Repetition
  <1>3. Deterministic' => TellsAll(r, pos[Len(log)])'
    BY <1>1, <1>2 DEF TellsAll, Sends
  <1>4. ASSUME Deterministic, ~desynced', ~BufferDropped'
        PROVE  /\ Repeats(hist', r)
               /\ status' # "panicked" => Repeats(Seen', r) /\ Len(Seen') = pos[Behind'] + Part'
    <2>1. ~BufferDropped
      BY <1>4 DEF Frame, BufferDropped
    <2>2. CASE ~Lossless'
      <3>1. hist' = hist /\ ~desynced /\ status' = "panicked"
        BY <1>4, <2>2 DEF Follows, Lossless
      <3> QED
        BY <1>2, <1>4, <2>1, <3>1
    <2>3. CASE Lossless'
      <3>1. Lossless /\ status # "panicked" /\ ~desynced
        BY <2>3 DEF Frame, Lossless
      <3>2. Repeats(hist, r) /\ Repeats(Seen, r) /\ Len(Seen) = pos[Behind] + Part
        BY <1>2, <1>4, <2>1, <3>1
      <3>3. r \in Seq(ResultType)
        BY TypeParts DEF TypeInv, RunTyped
      <3>4. Repeats(Seen', r) /\ Len(Seen') = pos[Behind'] + Part'
        BY <1>1, <1>2, <1>4, <2>1, <2>3, <3>2, <3>3, StepRepeats
      <3>5. \A i \in DOMAIN hist' : i \in DOMAIN Seen' /\ Seen'[i] = hist'[i]
        <4>1. (TypeInv => \A i \in DOMAIN hist : i \in DOMAIN Seen /\ Seen[i] = hist[i])'
          BY HistSeen, PTL
        <4> QED
          BY <4>1
      <3> QED
        BY <3>4, <3>5 DEF Repeats
    <2> QED
      BY <2>2, <2>3
  <1> QED
    BY <1>1, <1>2, <1>3, <1>4

-----------------------------------------------------------------------------
(* What the kinds of steps do with the log. *)

Reads == Follows /\ Reading'

\* The thread is not in an operation that it has taken an entry for.
LEMMA OutReads ==
    ASSUME TypeInv, Reading, UNCHANGED logVars \/ TakeEntry \/ mode' = "Record", ~InEntry'
    PROVE  Reading'
  <1>1. next \in Nat /\ log \in Seq(Entry)
    BY TypeParts DEF TypeInv, LogTyped
  <1>2. mode' = "Replay" => next' \in 0 .. Len(log')
    <2>1. CASE UNCHANGED logVars
      BY <2>1 DEF Reading, logVars
    <2>2. CASE TakeEntry
      BY <1>1, <2>2 DEF TakeEntry, HasEntry
    <2> QED
      BY <2>1, <2>2
  <1>3. ~At("receive")' /\ ~At("replay")'
    BY DEF InEntry
  <1> QED
    BY <1>2, <1>3 DEF Reading, InEntry

\* The thread panics, or desyncs.
LEMMA LossReads ==
    ASSUME TypeInv, Reading, UNCHANGED logVars \/ TakeEntry,
           HandleDesync \/ (Panic /\ UNCHANGED desynced)
    PROVE  Reads
  <1>1. ~Lossless' /\ ~InEntry' /\ (~desynced' => ~desynced /\ hist' = hist)
    BY DEF HandleDesync, Panic, Lossless, InEntry, At
  <1>2. log' = log
    BY DEF logVars, TakeEntry
  <1> QED
    BY <1>1, <1>2, OutReads DEF Reads, Follows

\* The program has desynced.
LEMMA DesyncedReads ==
    ASSUME TypeInv, Reading, UNCHANGED logVars \/ TakeEntry, desynced, desynced', ~InEntry'
    PROVE  Reads
  <1>1. ~Lossless' /\ log' = log
    BY DEF Lossless, logVars, TakeEntry
  <1> QED
    BY <1>1, OutReads DEF Reads, Follows

\* The thread tells nothing, and stays where it is.
LEMMA QuietReads ==
    ASSUME TypeInv, Reading, log' = log, next' = next, mode' = mode, hist' = hist, got' = got, desynced => desynced',
           UNCHANGED <<status, at, want, todo>> \/ (~InEntry /\ ~InEntry')
    PROVE  Reads
  <1>1. Seen' = Seen
    BY DEF Seen
  <1>2. Behind' = Behind /\ Part' = Part /\ Reading'
    <2>1. CASE UNCHANGED <<status, at, want, todo>>
      <3>1. InEntry' = InEntry /\ At("receive")' = At("receive") /\ At("replay")' = At("replay")
        BY <2>1 DEF InEntry, At
      <3>2. Behind' = Behind /\ Part' = Part
        BY <2>1, <3>1 DEF Behind, Part
      <3> QED
        BY <2>1, <3>1, <3>2 DEF Reading
    <2>2. CASE ~InEntry /\ ~InEntry'
      <3>1. ~At("receive")' /\ ~At("replay")' /\ ~At("replay")
        BY <2>2 DEF InEntry
      <3>2. Behind' = Behind /\ Part' = Part
        BY <2>2, <3>1 DEF Behind, Part
      <3> QED
        BY <2>2, <3>1, <3>2 DEF Reading
    <2> QED
      BY <2>1, <2>2
  <1>3. Follows
    BY <1>1, <1>2 DEF Follows, Writes
  <1> QED
    BY <1>2, <1>3 DEF Reads

\* An operation that is one step writes its entry or takes it.
LEMMA OperationReads ==
    ASSUME TypeInv, TypeInv', Reading, At("idle"), UNCHANGED desynced, got' = got,
           NEW obs \in ResultType, WellFormed(obs), obs.op \notin {"event", "select"}, EntryFor(obs) \in Entry,
           obs.op \in RecvKind => obs.op = Op.kind,
           \/ WriteEntry(EntryFor(obs)) /\ Return(obs)
           \/ TakeEntry /\ Agrees(obs, NextEntry) /\ Return(obs)
    PROVE  Reads
  <1>1. at = "idle" /\ status = "running" /\ got = <<>> /\ ~InEntry
    BY Quiet DEF TypeInv, At, InEntry
  <1>2. hist' = Append(hist, obs) /\ at' = "idle" /\ status' = "running" /\ ~InEntry'
    BY <1>1 DEF Return, InEntry, At
  <1>3. Tells(obs)
    BY <1>1, <1>2, SeenParts DEF TypeInv, Tells
  <1>4. CASE WriteEntry(EntryFor(obs))
    <2>1. mode = "Record" /\ mode' = "Record" /\ open /\ open' /\ log' = Append(log, EntryFor(obs))
      BY <1>4 DEF WriteEntry
    <2>2. ~desynced
      BY <2>1 DEF TypeInv, Modes
    <2>3. Lossless' /\ Writes
      BY <1>1, <1>2, <1>3, <2>1, <2>2 DEF Lossless, Writes
    <2>4. Reading'
      BY <1>2, <2>1, OutReads
    <2> QED
      BY <2>1, <2>3, <2>4 DEF Reads, Follows
  <1>5. CASE TakeEntry /\ Agrees(obs, NextEntry)
    <2>1. /\ mode = "Replay" /\ next' = next + 1 /\ log' = log
          /\ next + 1 \in DOMAIN log /\ NextEntry = log[next + 1]
      BY <1>5, NextEntryTyped DEF TypeInv, TakeEntry, HasEntry, NextEntry
    <2>2. Behind = next /\ Behind' = next + 1 /\ Part = 0 /\ Part' = 0
      BY <1>1, <1>2, <2>1 DEF Behind, Part, InEntry
    <2>3. RepeatsEntry /\ Behind + 1 \in DOMAIN log
      BY <1>1, <1>3, <1>5, <2>1, <2>2 DEF RepeatsEntry
    <2>4. Reading'
      BY <1>2, <1>5, OutReads
    <2>5. Lossless' \/ desynced'
      BY <1>2, <2>1, <1>5 DEF Lossless, TakeEntry
    <2> QED
      BY <2>1, <2>3, <2>4, <2>5 DEF Reads, Follows
  <1> QED
    BY <1>4, <1>5

\* A result without a message.
LEMMA FailureFormed ==
    ASSUME NEW op, NEW index, NEW c, NEW error, op # "event"
    PROVE  WellFormed(Failure(op, index, c, error))
  BY DEF WellFormed, Failure, Result

\* The entry for the result itself.
LEMMA OwnEntry ==
    ASSUME NEW obs, obs.op # "select"
    PROVE  Agrees(obs, EntryFor(obs))
  BY DEF Agrees, EntryFor

LEMMA CreateChannelReads ==
    ASSUME TypeInv, TypeInv', Reading, CreateChannel
    PROVE  Reads
  <1>1. At("idle") /\ UNCHANGED desynced /\ got' = got /\ created \in Nat
    BY TypeParts DEF CreateChannel, Calls, TypeInv, SelectTyped, selectVars
  <1>2. Created \in ResultType /\ Created.op = "channel" /\ EntryFor(Created) \in Entry
    BY <1>1, CreatedTyped
  <1>3. WellFormed(Created) /\ Created.op \notin RecvKind /\ Agrees(Created, EntryFor(Created))
    BY <1>2, FailureFormed, OwnEntry DEF Created, RecvKind
  <1>4. PICK obs : obs = Created
    OBVIOUS
  <1>5. CASE \/ WriteEntry(EntryFor(Created)) /\ Return(Created)
             \/ TakeEntry /\ NextEntry = EntryFor(Created) /\ Return(Created)
    BY <1>1, <1>2, <1>3, <1>4, <1>5, OperationReads
  <1>6. CASE Panic /\ (UNCHANGED logVars \/ TakeEntry)
    BY <1>1, <1>6, LossReads
  <1> QED
    BY <1>5, <1>6 DEF CreateChannel

LEMMA AddsReads ==
    ASSUME WellFormedProgram, TypeInv, TypeInv', Reading, RecordAdd \/ ReplayAdd \/ DesyncAdd
    PROVE  Reads
  <1>1. CASE DesyncAdd
    <2>1. desynced /\ desynced' /\ UNCHANGED logVars /\ ~InEntry'
      BY <1>1 DEF DesyncAdd, TypeInv, Modes, Return, InEntry, At
    <2> QED
      BY <2>1, DesyncedReads
  <1>2. CASE RecordAdd \/ ReplayAdd
    <2>1. At("idle") /\ UNCHANGED desynced /\ got' = got /\ Op.kind = "add"
      BY <1>2 DEF RecordAdd, ReplayAdd, Calls, selectVars
    <2>2. /\ Added \in ResultType /\ EntryFor(Added) \in Entry /\ Added.op = "add"
      <3>1. Op.chan \in Chan
        BY <2>1, OpShape DEF TypeInv
      <3>2. NewIndex \in Nat \ {0}
        <4>1. Len(receivers) \in Nat /\ Len(real) \in Nat
          BY TypeParts DEF TypeInv, SetTyped
        <4> QED
          BY <4>1 DEF NewIndex
      <3> QED
        BY <3>1, <3>2, AddedTyped DEF Added
    <2>3. WellFormed(Added) /\ Added.op \notin RecvKind /\ Agrees(Added, EntryFor(Added))
      BY <2>2, FailureFormed, OwnEntry DEF Added, RecvKind
    <2>4. CASE \/ WriteEntry(EntryFor(Added)) /\ Return(Added)
               \/ TakeEntry /\ NextEntry = EntryFor(Added) /\ Return(Added)
      BY <2>1, <2>2, <2>3, <2>4, OperationReads
    <2>5. CASE Panic /\ (UNCHANGED logVars \/ TakeEntry)
      BY <2>1, <2>5, LossReads
    <2> QED
      BY <1>2, <2>4, <2>5 DEF RecordAdd, ReplayAdd
  <1> QED
    BY <1>1, <1>2

LEMMA PlainReads ==
    ASSUME TypeInv, Reading,
           Desynced \/ SelectSleeps \/ RecordSelect \/ MoveReceiver \/ MoveDummy \/ MoveDone \/ DesyncSelect
    PROVE  Reads
  <1>1. CASE Desynced
    BY <1>1, LossReads DEF Desynced
  <1>2. CASE SelectSleeps
    <2>1. /\ UNCHANGED logVars /\ hist' = hist /\ got' = got /\ UNCHANGED desynced /\ ~InEntry /\ ~InEntry'
      BY <1>2 DEF SelectSleeps, FallAsleep, Calls, InEntry, At, selectVars
    <2> QED
      BY <2>1, QuietReads DEF logVars
  <1>3. CASE RecordSelect
    <2>1. /\ UNCHANGED logVars /\ hist' = hist /\ got' = got /\ UNCHANGED desynced /\ ~InEntry /\ ~InEntry'
      BY <1>3 DEF RecordSelect, Calls, InEntry, At, selectVars
    <2> QED
      BY <2>1, QuietReads DEF logVars
  <1>4. CASE MoveReceiver \/ MoveDummy \/ MoveDone
    <2>1. At("desync") /\ UNCHANGED desynced /\ (UNCHANGED logVars \/ TakeEntry) /\ at' = at
      BY <1>4 DEF MoveReceiver, MoveDummy, MoveDone, Moving, Panic, threadVars
    <2>2. desynced /\ ~InEntry'
      BY <2>1 DEF TypeInv, Modes, At, InEntry
    <2> QED
      BY <2>1, <2>2, DesyncedReads
  <1>5. CASE DesyncSelect
    <2>1. desynced /\ UNCHANGED desynced /\ UNCHANGED logVars /\ ~InEntry'
      BY <1>5 DEF DesyncSelect, TypeInv, Modes, At, InEntry
    <2> QED
      BY <2>1, DesyncedReads
  <1> QED
    BY <1>1, <1>2, <1>3, <1>4, <1>5

LEMMA ReturnsReads ==
    ASSUME TypeInv, TypeInv', Reading, RecordSelectReturns \/ DesyncSelectReturns
    PROVE  Reads
  <1>1. CASE DesyncSelectReturns
    <2>1. desynced /\ UNCHANGED desynced /\ UNCHANGED logVars /\ ~InEntry'
      BY <1>1 DEF DesyncSelectReturns, ReturnEvents, TypeInv, Modes, At, InEntry
    <2> QED
      BY <2>1, DesyncedReads
  <1>2. CASE WriteEntry(SelectEntry(got)) /\ ReturnEvents /\ RecordSelectReturns
    <2>1. /\ mode = "Record" /\ mode' = "Record" /\ open /\ open' /\ log' = Append(log, SelectEntry(got))
          /\ ~desynced /\ ~desynced' /\ status' = "running" /\ ~InEntry'
      BY <1>2 DEF WriteEntry, RecordSelectReturns, ReturnEvents, InEntry, At
    <2>2. SelectEntry(got) \in Entry
      <3>1. got \in Seq(ResultType) /\ \A k \in DOMAIN got : got[k].index \in Index
        BY TypeParts DEF TypeInv, SelectTyped, Inside
      <3> QED
        BY <3>1, SelectEntryTyped
    <2>3. hist' = Append(Seen, Selected) /\ got' = <<>>
      BY <1>2 DEF ReturnEvents, Seen
    <2>4. Lossless' /\ Writes
      BY <2>1, <2>2, <2>3 DEF Lossless, Writes
    <2>5. Reading'
      BY <2>1, OutReads
    <2> QED
      BY <2>1, <2>4, <2>5 DEF Reads, Follows
  <1>3. CASE Panic /\ UNCHANGED logVars /\ RecordSelectReturns
    BY <1>3, LossReads DEF RecordSelectReturns
  <1> QED
    BY <1>1, <1>2, <1>3 DEF RecordSelectReturns

\* The replay takes the entry of a select.
LEMMA ReplaySelectReads ==
    ASSUME TypeInv, TypeInv', Reading, ReplaySelect
    PROVE  Reads
  <1>1. CASE HandleDesync
    BY <1>1, LossReads DEF ReplaySelect
  <1>2. CASE NextEntry.op = "select" /\ todo' = NextEntry.events /\ at' = "replay" /\ UNCHANGED <<status, want, hist, desynced>>
    <2>1. /\ status = "running" /\ at = "idle" /\ got' = got /\ mode = "Replay" /\ mode' = "Replay"
          /\ next' = next + 1 /\ log' = log /\ HasEntry
      BY DEF ReplaySelect, Calls, At, TakeEntry, HasEntry
    <2>2. next + 1 \in DOMAIN log /\ NextEntry = log[next + 1] /\ NextEntry \in Entry
      BY <2>1, NextEntryTyped DEF TypeInv, NextEntry
    <2>3. PICK events \in Seq(SelectEvent) : events = NextEntry.events
      BY <1>2, <2>2, EntryShape
    <2>4. todo' = events /\ log'[next'].events = events
      BY <1>2, <2>1, <2>2, <2>3
    <2>5. next \in Nat /\ Len(events) \in Nat
      BY TypeParts DEF TypeInv, LogTyped
    <2>6. At("replay")' /\ ~At("receive")' /\ InEntry' /\ ~InEntry /\ ~At("replay")
      BY <1>2, <2>1 DEF At, InEntry
    <2>7. Part' = 0 /\ Part = 0 /\ Behind' = Behind
      BY <2>1, <2>4, <2>5, <2>6 DEF Part, Behind
    <2>8. Seen' = Seen
      BY <1>2, <2>1 DEF Seen
    <2>9. Follows
      BY <1>2, <2>1, <2>7, <2>8 DEF Follows
    <2>10. Reading'
      <3>1. next' \in DOMAIN log' /\ log'[next'].op = "select" /\ next' \in 0 .. Len(log')
        <4>1. log \in Seq(Entry)
          BY TypeParts DEF TypeInv, LogTyped
        <4> QED
          BY <1>2, <2>1, <2>2, <4>1
      <3>2. Len(todo') <= Len(log'[next'].events)
        BY <2>4, <2>5
      <3>3. \A k \in DOMAIN todo' : todo'[k] = log'[next'].events[Part' + k]
        <4>1. \A k \in DOMAIN events : 0 + k = k
          OBVIOUS
        <4> QED
          BY <2>4, <2>7, <4>1
      <3> QED
        BY <2>6, <3>1, <3>2, <3>3 DEF Reading
    <2> QED
      BY <2>9, <2>10 DEF Reads
  <1> QED
    BY <1>1, <1>2 DEF ReplaySelect

-----------------------------------------------------------------------------
(* The events. *)

\* Select is done with the first of the events that are left.
LEMMA EventReads ==
    ASSUME TypeInv, TypeInv', Reading, Replaying, UNCHANGED <<logVars, threadVars, desynced>>,
           todo' = Tail(todo), NEW obs, got' = Append(got, obs), obs \in ResultType, WellFormed(obs),
           obs.op = "event", obs.index = Event.index, obs.from = Event.from, obs.chan = Source
    PROVE  Reads
  <1>1. /\ at = "replay" /\ status = "running" /\ mode = "Replay" /\ todo # <<>>
        /\ Event.index \in DOMAIN InSet /\ InSet[Event.index].chan = Source
    BY SourceTyped
  <1>2. /\ at' = at /\ status' = status /\ mode' = mode /\ next' = next /\ log' = log /\ hist' = hist
    BY DEF threadVars, logVars
  <1>3. At("replay") /\ At("replay")' /\ InEntry /\ InEntry' /\ ~At("receive")'
    BY <1>1, <1>2 DEF At, InEntry
  <1>4. /\ next \in DOMAIN log /\ next \in 0 .. Len(log) /\ log[next].op = "select"
        /\ Len(todo) <= Len(log[next].events)
        /\ \A k \in DOMAIN todo : todo[k] = log[next].events[Part + k]
    BY <1>1, <1>3 DEF Reading
  <1>5. next \in Nat /\ log \in Seq(Entry) /\ todo \in Seq(SelectEvent)
    BY TypeParts DEF TypeInv, LogTyped, SelectTyped
  <1>6. PICK events \in Seq(SelectEvent) : events = log[next].events
    BY <1>4, <1>5, EntryShape
  <1> DEFINE n == Len(todo)
  <1>7. /\ Len(events) \in Nat /\ n \in Nat \ {0} /\ Tail(todo) \in Seq(SelectEvent)
        /\ Len(Tail(todo)) = n - 1 /\ \A k \in 1 .. n - 1 : Tail(todo)[k] = todo[k + 1] /\ k + 1 \in DOMAIN todo
        /\ 1 \in DOMAIN todo
    BY <1>1, <1>5
  <1>8. Part = Len(events) - n /\ Part' = Len(events) - (n - 1) /\ n <= Len(events)
    BY <1>2, <1>3, <1>4, <1>6, <1>7 DEF Part
  <1> HIDE DEF n
  <1>9. Part \in Nat /\ Part' = Part + 1 /\ Part + 1 \in DOMAIN events
    BY <1>7, <1>8
  <1>10. Reading'
    <2>1. \A k \in DOMAIN todo' : todo'[k] = events[Part' + k]
      <3> SUFFICES ASSUME NEW k \in DOMAIN Tail(todo)
                   PROVE  Tail(todo)[k] = events[Part' + k]
        OBVIOUS
      <3>1. k \in 1 .. n - 1
        BY <1>7
      <3>2. Tail(todo)[k] = events[Part + (k + 1)]
        BY <1>4, <1>6, <1>7, <3>1
      <3>3. Part + (k + 1) = Part' + k
        BY <1>7, <1>9, <3>1
      <3> QED
        BY <3>2, <3>3
    <2>2. Len(todo') <= Len(events)
      BY <1>7, <1>8
    <2> QED
      BY <1>2, <1>3, <1>4, <1>6, <2>1, <2>2 DEF Reading
  <1>11. Behind' = Behind /\ Behind + 1 = next
    BY <1>2, <1>3, <1>5 DEF Behind
  <1>12. Tells(obs)
    BY <1>2, SeenParts DEF TypeInv, Tells
  <1>13. todo[1] = events[Part + 1]
    BY <1>4, <1>6, <1>7
  <1>14. IsEvent(obs, events[Part + 1])
    BY <1>13 DEF IsEvent, Event
  <1>15. RepeatsEvent /\ Behind + 1 \in DOMAIN log
    BY <1>1, <1>4, <1>6, <1>9, <1>11, <1>12, <1>14 DEF RepeatsEvent
  <1>16. Follows
    BY <1>1, <1>2, <1>15 DEF Follows
  <1> QED
    BY <1>10, <1>16 DEF Reads

LEMMA EventsReads ==
    ASSUME TypeInv, TypeInv', Reading, EventFetch \/ EventMessage \/ EventClosed
    PROVE  Reads
  <1>1. CASE EventFetch
    <2>1. UNCHANGED <<logVars, threadVars, desynced, todo, got>>
      BY <1>1 DEF EventFetch, selectVars
    <2> QED
      BY <2>1, QuietReads DEF logVars, threadVars
  <1>2. CASE EventMessage
    <2> DEFINE i == Event.index
               c == Source
               s == Event.from
               obs == Result("event", i, c, s, Head(buffer[c][s]), "none")
    <2>1. /\ Replaying /\ s # NoSender /\ TakeFromBuffer(c, s) /\ todo' = Tail(todo) /\ got' = Append(got, obs)
          /\ UNCHANGED <<logVars, threadVars, desynced>>
      BY <1>2 DEF EventMessage, ExpectsMessage, Received, Replayed
    <2>2. i \in Nat /\ c \in Chan /\ s \in Sender
      BY <2>1, SourceTyped
    <2>3. i = Event.index /\ c = Source /\ s = Event.from
      OBVIOUS
    <2> HIDE DEF i, c, s
    <2>4. buffer[c][s] # <<>> /\ "event" \in Kinds /\ buffer[c][s] \in Seq(Nat)
      BY <2>1, <2>2, FlowTyped DEF TypeInv, TakeFromBuffer, Kinds
    <2>5. Head(buffer[c][s]) \in Nat
      BY <2>4
    <2>6. obs \in ResultType
      BY <2>2, <2>4, <2>5, MessageTyped
    <2>7. /\ obs.op = "event" /\ obs.index = i /\ obs.chan = c /\ obs.from = s
          /\ obs.val = Head(buffer[c][s]) /\ obs.error = "none"
      BY DEF Result
    <2>8. WellFormed(obs)
      BY <2>1, <2>2, <2>5, <2>7 DEF WellFormed
    <2> HIDE DEF obs
    <2> QED
      BY <2>1, <2>3, <2>6, <2>7, <2>8, EventReads
  <1>3. CASE EventClosed
    <2> DEFINE obs == Closed(Event.index, Source)
    <2>1. /\ Replaying /\ Event.from = NoSender /\ todo' = Tail(todo) /\ got' = Append(got, obs)
          /\ UNCHANGED <<logVars, threadVars, desynced>>
      BY <1>3 DEF EventClosed, ExpectsClosed, Replayed
    <2>2. Event.index \in Nat /\ Source \in Chan
      BY <2>1, SourceTyped
    <2>3. obs \in ResultType /\ obs.op = "event" /\ obs.index = Event.index /\ obs.chan = Source /\ obs.from = NoSender
      BY <2>2, EventTyped
    <2>4. WellFormed(obs)
      BY ReaderAssumption DEF WellFormed, Closed, Failure, Result
    <2> HIDE DEF obs
    <2> QED
      BY <2>1, <2>3, <2>4, EventReads
  <1> QED
    BY <1>1, <1>2, <1>3

LEMMA EventFailsReads ==
    ASSUME TypeInv, Reading, EventClosedUnexpected \/ EventClosedExpected \/ EventTimesOut
    PROVE  Reads
  <1>1. SelectFails
    BY DEF EventClosedUnexpected, EventClosedExpected, EventTimesOut
  <1> QED
    BY <1>1, LossReads DEF SelectFails

LEMMA SelectReturnsReads ==
    ASSUME TypeInv, TypeInv', Reading, SelectReturns
    PROVE  Reads
  <1>1. /\ At("replay") /\ todo = <<>> /\ ReturnEvents /\ UNCHANGED <<logVars, desynced>>
        /\ at' = "idle" /\ status' = status /\ status = "running"
    BY DEF SelectReturns, ReturnEvents, At
  <1>2. InEntry /\ ~InEntry' /\ mode = "Replay" /\ mode' = mode /\ next' = next /\ log' = log /\ ~At("replay")'
    BY <1>1, TypeParts DEF InEntry, At, TypeInv, Modes, LogTyped, logVars
  <1>3. next \in DOMAIN log /\ log[next].op = "select" /\ next \in Nat /\ log \in Seq(Entry)
    BY <1>1, <1>2, TypeParts DEF Reading, TypeInv, LogTyped
  <1>4. Part = Len(log[next].events) /\ Part' = 0 /\ Behind + 1 = next /\ Behind' = next
    <2>1. log[next].events \in Seq(SelectEvent)
      BY <1>3, EntryShape
    <2>2. Len(log[next].events) \in Nat /\ Len(todo) = 0
      BY <1>1, <2>1
    <2> QED
      BY <1>1, <1>2, <1>3, <2>2 DEF Part, Behind
  <1>5. SeesMore(Selected)
    BY <1>1, SeenParts DEF TypeInv
  <1>6. RepeatsSelect
    BY <1>3, <1>4, <1>5 DEF RepeatsSelect
  <1>7. Follows
    <2>1. Lossless' \/ desynced'
      BY <1>1, <1>2 DEF Lossless
    <2> QED
      BY <1>2, <1>3, <1>4, <1>6, <2>1 DEF Follows
  <1>8. Reading'
    BY <1>1, <1>2, OutReads
  <1> QED
    BY <1>7, <1>8 DEF Reads

\* The set underneath reports an event, in the recording or after a desync.
LEMMA SetReads ==
    ASSUME TypeInv, TypeInv', Reading, At("select"), UNCHANGED <<logVars, threadVars, desynced>>,
           NEW obs, got' = Append(got, obs), obs \in ResultType, WellFormed(obs), obs.op = "event"
    PROVE  Reads
  <1>1. ~InEntry' /\ hist' = hist /\ mode' = mode /\ log' = log
    BY DEF At, InEntry, threadVars, logVars
  <1>2. CASE mode = "Replay"
    <2>1. desynced
      BY <1>2 DEF TypeInv, Modes
    <2> QED
      BY <1>1, <2>1, DesyncedReads
  <1>3. CASE mode = "Record"
    <2>1. Tells(obs)
      BY <1>1, SeenParts DEF TypeInv, Tells
    <2>2. Follows
      BY <1>1, <1>3, <2>1 DEF Follows, Writes
    <2>3. Reading'
      BY <1>1, OutReads
    <2> QED
      BY <2>2, <2>3 DEF Reads
  <1> QED
    BY <1>2, <1>3, TypeParts DEF TypeInv, LogTyped

LEMMA SetsReads ==
    ASSUME TypeInv, TypeInv', Reading, NEW i \in DOMAIN real,
           SetMessage(i) \/ SetClosed(i) \/ \E s \in Sender : Drain(i, s)
    PROVE  Reads
  <1>0. i \in Nat /\ real[i].chan \in Chan
    BY RealTyped
  <1>1. CASE SetMessage(i)
    <2> DEFINE c == real[i].chan
               s == Head(wire[c]).from
               val == Head(wire[c]).val
               obs == Result("event", i, c, s, val, "none")
    <2>1. /\ At("select") /\ wire[c] # <<>> /\ got' = Append(got, obs)
          /\ UNCHANGED <<logVars, threadVars, desynced>>
      BY <1>1 DEF SetMessage, Received
    <2>2. c \in Chan /\ s \in Sender /\ val \in Nat
      BY <1>0, <2>1, FirstTyped, TypeParts DEF TypeInv
    <2> HIDE DEF c, s, val
    <2>3. obs \in ResultType
      <3>1. "event" \in Kinds
        BY DEF Kinds
      <3> QED
        BY <1>0, <2>2, <3>1, MessageTyped
    <2>4. obs.op = "event" /\ WellFormed(obs)
      BY <2>2, ReaderAssumption DEF WellFormed, Result
    <2> HIDE DEF obs
    <2> QED
      BY <2>1, <2>3, <2>4, SetReads
  <1>2. CASE SetClosed(i)
    <2> DEFINE obs == Closed(i, real[i].chan)
    <2>1. At("select") /\ got' = Append(got, obs) /\ UNCHANGED <<logVars, threadVars, desynced>>
      BY <1>2 DEF SetClosed
    <2>2. obs \in ResultType /\ obs.op = "event"
      BY <1>0, EventTyped
    <2>3. WellFormed(obs)
      BY ReaderAssumption DEF WellFormed, Closed, Failure, Result
    <2> HIDE DEF obs
    <2> QED
      BY <2>1, <2>2, <2>3, SetReads
  <1>3. CASE \E s \in Sender : Drain(i, s)
    <2>1. At("drain") /\ UNCHANGED <<logVars, threadVars, desynced>>
      BY <1>3 DEF Drain
    <2>2. desynced /\ ~InEntry'
      BY <2>1 DEF TypeInv, Modes, At, InEntry, threadVars
    <2> QED
      BY <2>1, <2>2, DesyncedReads
  <1> QED
    BY <1>1, <1>2, <1>3

-----------------------------------------------------------------------------
(* Receives. *)

LEMMA RecordRecvReads ==
    ASSUME WellFormedProgram, TypeInv, TypeInv', Reading, RecordRecv, UNCHANGED selectVars
    PROVE  Reads
  <1>1. mode = "Record" /\ At("idle") /\ Op.kind \in RecvKind /\ got' = got
    BY DEF RecordRecv, Calls, selectVars
  <1>2. PICK op \in RecvKind, c \in Chan : op = Op.kind /\ c = Op.chan
    BY <1>1, OpShape DEF TypeInv
  <1>3. PICK obs \in Outcomes(op, 0, c) :
            \/ WriteEntry(EntryFor(obs)) /\ Return(obs) /\ UNCHANGED desynced
            \/ CannotWrite /\ HandleDesync /\ UNCHANGED logVars
    BY <1>2 DEF RecordRecv
  <1>4. /\ obs \in ResultType /\ obs.op = op /\ EntryFor(obs) \in Entry
        /\ \/ wire[c] # <<>> /\ obs.from = Head(wire[c]).from /\ obs.val = Head(wire[c]).val
           \/ obs.error # "none" /\ obs.from = NoSender
    BY OutcomeTyped, TypeParts DEF TypeInv, ChanTyped
  <1>5. WellFormed(obs)
    <2>1. CASE wire[c] # <<>>
      <3>1. Head(wire[c]).from \in Sender /\ Head(wire[c]).val \in Nat
        BY <2>1, FirstTyped, TypeParts DEF TypeInv
      <3>2. obs = Result(op, 0, c, Head(wire[c]).from, Head(wire[c]).val, "none")
        BY <2>1 DEF Outcomes
      <3>3. obs.from \in Sender /\ obs.val \in Nat
        BY <3>1, <3>2 DEF Result
      <3> QED
        BY <1>4, <3>3, ReaderAssumption DEF WellFormed, RecvKind
    <2>2. CASE wire[c] = <<>>
      <3>1. \E error : obs = Failure(op, 0, c, error)
        BY <2>2 DEF Outcomes
      <3>2. op # "event"
        BY DEF RecvKind
      <3> QED
        BY <3>1, <3>2, FailureFormed
    <2> QED
      BY <2>1, <2>2
  <1>6. CASE WriteEntry(EntryFor(obs)) /\ Return(obs) /\ UNCHANGED desynced
    <2>1. obs.op \notin {"event", "select"} /\ obs.op = Op.kind
      BY <1>2, <1>4 DEF RecvKind
    <2> QED
      BY <1>1, <1>4, <1>5, <1>6, <2>1, OperationReads
  <1>7. CASE HandleDesync /\ UNCHANGED logVars
    BY <1>7, LossReads
  <1> QED
    BY <1>3, <1>6, <1>7

LEMMA ReplayRecvReads ==
    ASSUME WellFormedProgram, TypeInv, TypeInv', Reading, ReplayRecv, UNCHANGED selectVars
    PROVE  Reads
  <1>1. /\ at = "idle" /\ status = "running" /\ Op.kind \in RecvKind /\ got' = got
        /\ TakeEntry /\ HasEntry /\ mode = "Replay" /\ mode' = "Replay" /\ next' = next + 1 /\ log' = log
    BY DEF ReplayRecv, Calls, At, selectVars, TakeEntry, HasEntry
  <1>2. NextEntry \in Entry /\ next + 1 \in DOMAIN log /\ NextEntry = log[next + 1] /\ next \in Nat
    BY <1>1, NextEntryTyped, TypeParts DEF TypeInv, NextEntry, LogTyped
  <1>3. PICK op \in RecvKind, c \in Chan : op = Op.kind /\ c = Op.chan
    BY <1>1, OpShape DEF TypeInv
  <1>4. EntryFits => NextEntry.op \in RecvKind /\ NextEntry.chan = c /\ NextEntry \in RecvEntry /\ NextEntry.index = 0
    BY <1>2, <1>3, EntryShape DEF EntryFits, RecvEntry, ReceiptOf
  <1>5. CASE HandleDesync
    BY <1>1, <1>5, LossReads
  <1>6. CASE EntryFits /\ NextEntry.error # "none" /\ Return(Failure(op, 0, c, NextEntry.error)) /\ UNCHANGED desynced
    <2>1. NextEntry.from = NoSender /\ NextEntry.error \in {"Disconnected", "Empty"}
      BY <1>2, <1>4, <1>6, EntryShape
    <2>2. PICK error \in {"Disconnected", "Empty"} : error = NextEntry.error
      BY <2>1
    <2> DEFINE obs == Failure(op, 0, c, error)
    <2>3. /\ obs \in ResultType /\ obs.op = op
      <3>1. op \in Kinds /\ 0 \in Nat /\ c \in Chan \cup {NoChan} /\ error \in {"none", "Disconnected", "Empty", "Closed"}
        BY DEF Kinds
      <3> QED
        BY <3>1, FailureTyped
    <2>4. EntryFor(obs) \in Entry
      <3>1. EntryFor(obs) = [op |-> op, index |-> 0, chan |-> c, from |-> NoSender, error |-> error]
        BY DEF EntryFor, Failure, Result
      <3> QED
        BY <3>1, RecvEntryTyped
    <2>5. WellFormed(obs) /\ op \notin {"event", "select"}
      BY FailureFormed DEF RecvKind
    <2>6. Agrees(obs, NextEntry)
      <3>1. obs.op = op /\ obs.index = 0 /\ obs.chan = c /\ obs.from = NoSender /\ obs.error = error
        BY DEF Failure, Result
      <3>2. NextEntry.op # "select"
        BY <1>4, <1>6 DEF RecvKind
      <3> QED
        BY <1>4, <1>6, <2>1, <2>2, <3>1, <3>2 DEF Agrees
    <2>7. Return(obs) /\ At("idle") /\ UNCHANGED desynced
      BY <1>1, <1>6, <2>2 DEF At
    <2> HIDE DEF obs
    <2> QED
      BY <1>1, <1>3, <2>3, <2>4, <2>5, <2>6, <2>7, OperationReads
  <1>7. CASE /\ EntryFits /\ NextEntry.error = "none"
             /\ want' = [chan |-> c, from |-> NextEntry.from] /\ at' = "receive" /\ UNCHANGED <<status, hist, desynced>>
    <2>1. At("receive")' /\ ~At("replay")' /\ InEntry' /\ ~InEntry /\ ~At("replay")
      BY <1>1, <1>7 DEF At, InEntry
    <2>2. Part' = 0 /\ Part = 0 /\ Behind' = Behind /\ Seen' = Seen
      BY <1>1, <1>2, <1>7, <2>1 DEF Part, Behind, Seen
    <2>3. Follows
      BY <1>1, <1>7, <2>2 DEF Follows
    <2>4. next' \in DOMAIN log' /\ next' \in 0 .. Len(log') /\ log'[next'] = NextEntry
      <3>1. log \in Seq(Entry)
        BY TypeParts DEF TypeInv, LogTyped
      <3> QED
        BY <1>1, <1>2, <3>1
    <2>5. want'.chan = c /\ want'.from = NextEntry.from
      BY <1>7
    <2>6. Reading'
      BY <1>4, <1>7, <2>1, <2>4, <2>5 DEF Reading
    <2> QED
      BY <2>3, <2>6 DEF Reads
  <1> QED
    BY <1>3, <1>5, <1>6, <1>7 DEF ReplayRecv

LEMMA ReceiveWantedReads ==
    ASSUME TypeInv, TypeInv', Reading, ReceiveWanted, UNCHANGED selectVars
    PROVE  Reads
  <1>1. At("receive") /\ got' = got /\ UNCHANGED <<logVars, desynced>> /\ todo' = todo
    BY DEF ReceiveWanted, selectVars
  <1>2. /\ want.chan \in Chan /\ want.from \in Sender /\ Op.kind \in RecvKind /\ mode = "Replay" /\ got = <<>>
        /\ at = "receive" /\ status = "running"
    BY <1>1, Receiving
  <1>3. PICK op \in RecvKind, c \in Chan, s \in Sender : op = Op.kind /\ c = want.chan /\ s = want.from
    BY <1>2
  <1> DEFINE obs == Buffered(op, 0, c, s)
  <1>4. TakeFromBuffer(c, s) /\ Return(obs)
    BY <1>3 DEF ReceiveWanted
  <1>5. obs \in ResultType /\ Head(buffer[c][s]) \in Nat
    <2>1. buffer[c][s] # <<>> /\ 0 \in Nat /\ op \in Kinds
      BY <1>4 DEF TakeFromBuffer, Kinds
    <2>2. obs \in ResultType
      BY <2>1, BufferedTyped, TypeParts DEF TypeInv, ChanTyped, Buffered
    <2>3. buffer[c][s] \in Seq(Nat)
      BY FlowTyped DEF TypeInv
    <2> QED
      BY <2>1, <2>2, <2>3
  <1>6. /\ obs.op = op /\ obs.index = 0 /\ obs.chan = c /\ obs.from = s /\ obs.error = "none"
        /\ obs.val = Head(buffer[c][s])
    BY DEF Buffered, Result
  <1> HIDE DEF obs
  <1>7. hist' = Append(hist, obs) /\ at' = "idle" /\ status' = "running" /\ obs.op # "event"
    BY <1>2, <1>4, <1>6 DEF Return, RecvKind
  <1>8. Tells(obs)
    <2>1. SeesMore(obs)
      BY <1>1, <1>2, <1>5, <1>7, SeenParts DEF TypeInv
    <2>2. WellFormed(obs)
      BY <1>5, <1>6, <1>7, ReaderAssumption DEF WellFormed
    <2> QED
      BY <2>1, <2>2 DEF Tells
  <1>9. /\ InEntry /\ ~InEntry' /\ ~At("replay") /\ ~At("replay")' /\ next' = next /\ log' = log /\ mode' = mode
    BY <1>1, <1>2, <1>7 DEF InEntry, At, logVars
  <1>10. /\ next \in DOMAIN log /\ log[next].op \in RecvKind /\ log[next].error = "none"
         /\ log[next].index = 0 /\ log[next].chan = c /\ log[next].from = s
         /\ next \in Nat /\ log \in Seq(Entry)
    BY <1>1, <1>3, <1>9, TypeParts DEF Reading, TypeInv, LogTyped
  <1>11. Part = 0 /\ Part' = 0 /\ Behind + 1 = next /\ Behind' = next
    BY <1>9, <1>10 DEF Part, Behind
  <1>12. Agrees(obs, log[next])
    BY <1>6, <1>10 DEF Agrees, RecvKind
  <1>13. RepeatsEntry
    BY <1>2, <1>3, <1>6, <1>8, <1>11, <1>12 DEF RepeatsEntry
  <1>14. Lossless' \/ desynced'
    BY <1>2, <1>7, <1>9 DEF Lossless
  <1>15. Follows
    BY <1>2, <1>9, <1>10, <1>11, <1>13, <1>14 DEF Follows
  <1>16. Reading'
    BY <1>1, <1>9, OutReads
  <1> QED
    BY <1>15, <1>16 DEF Reads

LEMMA ReceiveReads ==
    ASSUME WellFormedProgram, TypeInv, TypeInv', Reading, Receive, UNCHANGED <<setVars, selectVars, created>>
    PROVE  Reads
  <1>0. UNCHANGED selectVars /\ got' = got /\ todo' = todo
    BY DEF selectVars
  <1>1. CASE RecordRecv \/ ReplayRecv \/ ReceiveWanted
    BY <1>0, <1>1, RecordRecvReads, ReplayRecvReads, ReceiveWantedReads
  <1>2. CASE FallAsleep(RecvKind)
    <2>1. /\ UNCHANGED logVars /\ hist' = hist /\ UNCHANGED desynced /\ ~InEntry /\ ~InEntry'
      BY <1>2 DEF FallAsleep, Calls, InEntry, At
    <2> QED
      BY <1>0, <2>1, QuietReads DEF logVars
  <1>3. CASE WakeUp \/ ReceiveFails
    BY <1>3, LossReads DEF WakeUp, ReceiveFails
  <1>4. CASE ReceiveNext
    BY <1>0, <1>4, QuietReads DEF ReceiveNext, logVars, threadVars
  <1>5. CASE ReceiveAny
    <2>1. At("desync") /\ UNCHANGED <<logVars, desynced>> /\ at' = "idle"
      BY <1>5 DEF ReceiveAny, Return
    <2>2. desynced /\ ~InEntry'
      BY <2>1 DEF TypeInv, Modes, InEntry, At
    <2> QED
      BY <2>1, <2>2, DesyncedReads
  <1> QED
    BY <1>1, <1>2, <1>3, <1>4, <1>5 DEF Receive

LEMMA ThreadReads ==
    ASSUME WellFormedProgram, TypeInv, TypeInv', Reading, Thread
    PROVE  Reads
  <1>1. CASE CreateChannel \/ RecordAdd \/ ReplayAdd \/ DesyncAdd
    BY <1>1, CreateChannelReads, AddsReads
  <1>2. CASE Desynced \/ SelectSleeps \/ RecordSelect \/ MoveReceiver \/ MoveDummy \/ MoveDone \/ DesyncSelect
    BY <1>2, PlainReads
  <1>3. CASE RecordSelectReturns \/ DesyncSelectReturns \/ ReplaySelect \/ SelectReturns
    BY <1>3, ReturnsReads, ReplaySelectReads, SelectReturnsReads
  <1>4. CASE EventFetch \/ EventMessage \/ EventClosed
    BY <1>4, EventsReads
  <1>5. CASE EventClosedUnexpected \/ EventClosedExpected \/ EventTimesOut
    BY <1>5, EventFailsReads
  <1>6. CASE \E i \in DOMAIN real : SetMessage(i) \/ SetClosed(i) \/ \E s \in Sender : Drain(i, s)
    BY <1>6, SetsReads
  <1>7. CASE Receive /\ UNCHANGED <<setVars, selectVars, created>>
    BY <1>7, ReceiveReads
  <1> QED
    BY <1>1, <1>2, <1>3, <1>4, <1>5, <1>6, <1>7 DEF Thread

LEMMA OthersRead ==
    ASSUME TypeInv, Reading, Environment \/ UNCHANGED vars
    PROVE  Reads
  <1> DEFINE Same == /\ log' = log /\ next' = next /\ mode' = mode /\ hist' = hist /\ got' = got
                     /\ desynced => desynced'
                     /\ UNCHANGED <<status, at, want, todo>>
  <1>1. CASE UNCHANGED vars
    <2>1. Same
      BY <1>1 DEF vars, readerVars, selectVars, threadVars, logVars
    <2> QED
      BY <2>1, QuietReads
  <1>2. CASE Environment
    <2>1. got' = got /\ todo' = todo /\ Others
      BY <1>2 DEF Environment, selectVars
    <2>2. CASE \E s \in Sender : Send(s) \/ Leave(s)
      <3>1. UNCHANGED <<logVars, threadVars, desynced>>
        BY <2>2 DEF Send, Leave
      <3> QED
        BY <2>1, <3>1, QuietReads DEF logVars, threadVars
    <2>3. CASE OtherDesync
      <3>1. UNCHANGED <<logVars, threadVars>> /\ ~desynced
        BY <2>3 DEF OtherDesync
      <3> QED
        BY <2>1, <3>1, QuietReads DEF logVars, threadVars
    <2>4. CASE Flush
      <3>1. UNCHANGED <<mode, log, next, threadVars, desynced>>
        BY <2>4 DEF Flush
      <3> QED
        BY <2>1, <3>1, QuietReads DEF threadVars
    <2> QED
      BY <2>1, <2>2, <2>3, <2>4 DEF Others
  <1> QED
    BY <1>1, <1>2

-----------------------------------------------------------------------------
FaithInv == FlowInv /\ Reading /\ Written /\ Repetition

LEMMA FaithInit ==
    ASSUME Init
    PROVE  FaithInv
  <1>1. mode = "Record" /\ log = <<>> /\ next = 0 /\ at = "idle" /\ hist = <<>> /\ got = <<>>
    BY DEF Init, ReaderInit
  <1>2. Reading /\ Repetition
    BY <1>1 DEF Reading, Repetition, InEntry, At
  <1>3. Written
    <2> DEFINE pos == [k \in 0 .. 0 |-> 0]
    <2>1. Len(log) = 0 /\ DOMAIN log = {} /\ Len(hist) = 0 /\ Seen = <<>> /\ Len(Seen) = 0
      BY <1>1 DEF Seen
    <2>2. 0 .. 0 = {0} /\ 1 .. 0 = {} /\ pos[0] = 0
      OBVIOUS
    <2>3. IsLogOf(log, hist, pos)
      BY <2>1, <2>2 DEF IsLogOf
    <2>4. TellsAll(hist, 0) /\ TellsAll(Seen, 0)
      BY <2>2 DEF TellsAll
    <2> HIDE DEF pos
    <2> QED
      BY <2>1, <2>2, <2>3, <2>4 DEF Written
  <1> QED
    BY <1>2, <1>3, FlowInit DEF FaithInv

\* The recording is over, and the replay has its log.
LEMMA RestartRepeats ==
    ASSUME TypeInv, Written, Restart
    PROVE  Reading' /\ Written' /\ Repetition'
  <1>1. /\ mode = "Record" /\ mode' = "Replay" /\ recorded' = hist /\ at' = "idle"
        /\ hist' = <<>> /\ got' = <<>> /\ log' = log /\ setup' = setup /\ world' \in World /\ next' = next
    BY DEF Restart, NewProcess
  <1>2. next' = 0 /\ world \in World /\ log \in Seq(Entry)
    BY <1>1, TypeParts DEF TypeInv, Modes, RunTyped, LogTyped
  <1>3. Written' /\ ~InEntry' /\ Seen' = <<>> /\ Behind' = 0 /\ Part' = 0
    BY <1>1, <1>2 DEF Written, InEntry, At, Seen, Behind, Part
  <1>4. Reading'
    <2>1. 0 \in 0 .. Len(log)
      BY <1>2
    <2> QED
      BY <1>1, <1>2, <1>3, <2>1 DEF Reading, InEntry
  <1>5. PICK pos : IsLogOf(log, hist, pos) /\ TellsAll(hist, pos[Len(log)])
    BY <1>1 DEF Written
  <1>6. Increasing(recorded') /\ OfAdds(recorded', recorded')
    BY <1>1 DEF TypeInv, HistIndexed
  <1>7. IsLogOf(log', recorded', pos) /\ pos[0] = 0
    BY <1>1, <1>5 DEF IsLogOf
  <1>8. (Deterministic => TellsAll(recorded, pos[Len(log)]))'
    <2>1. Deterministic' => world' = world
      BY <1>1, <1>2 DEF Deterministic, World
    <2> QED
      BY <1>1, <1>5, <2>1 DEF TellsAll, Sends
  <1>9. Repeats(hist', recorded') /\ Repeats(Seen', recorded') /\ Len(Seen') = pos[Behind'] + Part'
    BY <1>1, <1>3, <1>7 DEF Repeats
  <1>10. Repetition'
    <2>1. Increasing(recorded)' /\ OfAdds(recorded, recorded)' /\ IsLogOf(log, recorded, pos)'
          /\ Repeats(hist, recorded)' /\ (Repeats(Seen, recorded) /\ Len(Seen) = pos[Behind] + Part)'
      BY <1>6, <1>7, <1>9
    <2> QED
      BY <1>8, <2>1 DEF Repetition
  <1> QED
    BY <1>3, <1>4, <1>10

LEMMA FaithStep ==
    ASSUME WellFormedProgram, AddsOnce, FaithInv, [Next]_vars
    PROVE  FaithInv'
  <1>1. TypeInv /\ TypeInv' /\ Early /\ Adding /\ Flow /\ FlowInv' /\ Reading /\ Written /\ Repetition
    BY FlowStep, TypeStep DEF FaithInv, FlowInv
  <1>2. CASE Restart
    BY <1>1, <1>2, RestartRepeats DEF FaithInv
  <1>3. CASE Thread \/ Environment \/ UNCHANGED vars
    <2>1. Effect /\ Frame
      BY <1>1, <1>3, ThreadDone, EnvironmentDone, StutterDone DEF Done
    <2>2. UNCHANGED runVars /\ mode' = mode
      BY <1>1, <1>3, ThreadBase, EnvironmentDone DEF Base, vars, readerVars, logVars
    <2>3. Follows /\ Reading'
      BY <1>1, <1>3, ThreadReads, OthersRead DEF Reads
    <2> QED
      BY <1>1, <2>1, <2>2, <2>3, StepWritten, StepRepetition DEF FaithInv
  <1> QED
    BY <1>2, <1>3 DEF Next

\* As long as a replay of a deterministic program has not desynced, the program gets from
\* add, select, recv, try_recv and channel() what it got in the recording, result after
\* result: the same indices, the same events of each select in the same order with the
\* same messages, and the same failures; wherever the flush has cut the log off, and
\* unless a receiver with messages in its buffer was added (rr_select, do_select, do_add
\* and do_replay_recv_for_entry).
THEOREM SelectIsFaithfulCorrect ==
    ASSUME WellFormedProgram, AddsOnce
    PROVE  Spec => []SelectIsFaithful
  <1>1. Init => FaithInv
    BY FaithInit
  <1>2. FaithInv /\ [Next]_vars => FaithInv'
    BY FaithStep
  <1>3. FaithInv => SelectIsFaithful
    BY DEF FaithInv, Repetition, Repeats, SelectIsFaithful
  <1> QED
    BY <1>1, <1>2, <1>3, PTL DEF Spec
=============================================================================
