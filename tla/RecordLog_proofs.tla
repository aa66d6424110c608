--------------------------- MODULE RecordLog_proofs ---------------------------
(***************************************************************************)
(* Facts about the operations of the record log, about prefixes and about  *)
(* counting, for the proofs about the modules that are built on it.        *)
(***************************************************************************)
EXTENDS RecordLog, SequencesExt, SequenceTheorems, FiniteSetTheorems, TLAPS

-----------------------------------------------------------------------------
(* Types *)

ThreadLogStep(id) ==
    \/ InitEventSender(id)
    \/ \E entry \in Entry : WriteEvent(id, entry)
    \/ InitEventReceiver(id)
    \/ EventReceiverPanics(id)
    \/ GetLogEntry(id)

LogStep == (\E id \in Id : ThreadLogStep(id)) \/ TakeRecorder \/ Flush \/ StartReplay

\* The log starts out well typed, whatever the set of ids.
LEMMA LogInitTyped == LogInit => LogTypeOK
  <1> SUFFICES ASSUME LogInit PROVE LogTypeOK
    OBVIOUS
  <1>1. NoEntries \in [Id -> Seq(Entry)]
    BY DEF NoEntries
  <1>2. next \in [Id -> Nat]
    BY DEF LogInit
  <1> QED
    BY <1>1, <1>2 DEF LogInit, LogTypeOK

\* Every operation of the log leaves it well typed.
LEMMA LogStepTyped ==
    ASSUME LogTypeOK, LogStep \/ UNCHANGED logVars
    PROVE  LogTypeOK'
  <1> USE DEF LogTypeOK
  <1>1. CASE UNCHANGED logVars
    BY <1>1 DEF logVars, recordVars, replayVars
  <1>2. ASSUME NEW id \in Id, InitEventSender(id) PROVE LogTypeOK'
    BY <1>2 DEF InitEventSender, replayVars
  <1>3. ASSUME NEW id \in Id, NEW entry \in Entry, WriteEvent(id, entry) PROVE LogTypeOK'
    <2>1. channel' \in [Id -> Seq(Entry)]
      BY <1>3 DEF WriteEvent
    <2> QED
      BY <2>1, <1>3 DEF WriteEvent, replayVars
  <1>4. ASSUME NEW id \in Id, InitEventReceiver(id) PROVE LogTypeOK'
    BY <1>4 DEF InitEventReceiver, recordVars
  <1>5. ASSUME NEW id \in Id, EventReceiverPanics(id) PROVE LogTypeOK'
    BY <1>5 DEF EventReceiverPanics, recordVars
  <1>6. ASSUME NEW id \in Id, GetLogEntry(id) PROVE LogTypeOK'
    BY <1>6 DEF GetLogEntry, recordVars
  <1>7. CASE TakeRecorder
    BY <1>7 DEF TakeRecorder, replayVars
  <1>8. ASSUME NEW id \in Id, CollectEntry(id) PROVE LogTypeOK'
    <2>1. Head(channel[id]) \in Entry /\ Tail(channel[id]) \in Seq(Entry)
      BY <1>8 DEF CollectEntry
    <2>2. log' \in [Id -> Seq(Entry)] /\ channel' \in [Id -> Seq(Entry)]
      BY <2>1, <1>8 DEF CollectEntry
    <2> QED
      BY <2>2, <1>8 DEF CollectEntry, replayVars
  <1>9. CASE DropReceiver
    <2>1. channel' \in [Id -> Seq(Entry)]
      BY <1>9 DEF DropReceiver
    <2> QED
      BY <2>1, <1>9 DEF DropReceiver, replayVars
  <1>10. CASE WriteFile
    BY <1>10 DEF WriteFile, replayVars
  <1>12. ASSUME NEW id \in Id, CollectEntries(id) PROVE LogTypeOK'
    BY <1>12 DEF CollectEntries, replayVars
  <1>11. CASE StartReplay
    <2>1. NoEntries \in [Id -> Seq(Entry)]
      BY DEF NoEntries
    <2> QED
      BY <2>1, <1>11 DEF StartReplay
  <1> QED
    BY <1>1, <1>2, <1>3, <1>4, <1>5, <1>6, <1>7, <1>8, <1>9, <1>10, <1>11, <1>12
    DEF LogStep, ThreadLogStep, Flush

-----------------------------------------------------------------------------
(* The flush *)

\* The flush goes through the map once: at most the id that it drains is both in
\* the map and among the saved, and no other has a list before it is saved.
DrainedOnce ==
    /\ recorder = "live" => saved = {} /\ draining = NoId
    /\ recorder = "taken" => draining = NoId /\ open = {}
    /\ draining # NoId => draining \in open
    /\ \A id \in Id : id \in open /\ id \in saved => id = draining
    /\ \A id \in Id : id \notin saved /\ id # draining => log[id] = <<>>
    /\ mode = "Replay" => recorder = "taken"

LEMMA LogInitDrained == LogInit => DrainedOnce
  BY DEF LogInit, DrainedOnce, NoEntries

LEMMA LogStepDrained ==
    ASSUME LogTypeOK, DrainedOnce, LogStep \/ UNCHANGED logVars
    PROVE  DrainedOnce'
  <1> USE NoIdAssumption DEF DrainedOnce, LogTypeOK
  <1>1. CASE UNCHANGED logVars
    BY <1>1 DEF logVars, recordVars, replayVars
  <1>2. ASSUME NEW id \in Id, InitEventSender(id) PROVE DrainedOnce'
    BY <1>2 DEF InitEventSender
  <1>3. ASSUME NEW id \in Id, NEW entry \in Entry, WriteEvent(id, entry) PROVE DrainedOnce'
    BY <1>3 DEF WriteEvent
  <1>4. ASSUME NEW id \in Id, InitEventReceiver(id) \/ EventReceiverPanics(id) \/ GetLogEntry(id)
        PROVE  DrainedOnce'
    BY <1>4 DEF InitEventReceiver, EventReceiverPanics, GetLogEntry, recordVars
  <1>5. CASE TakeRecorder
    BY <1>5 DEF TakeRecorder
  <1>6. ASSUME NEW id \in Id, CollectEntry(id) PROVE DrainedOnce'
    BY <1>6 DEF CollectEntry
  <1>9. ASSUME NEW id \in Id, CollectEntries(id) PROVE DrainedOnce'
    BY <1>9 DEF CollectEntries
  <1>7. CASE DropReceiver
    BY <1>7 DEF DropReceiver
  <1>8. CASE WriteFile \/ StartReplay
    BY <1>8 DEF WriteFile, StartReplay
  <1> QED
    BY <1>1, <1>2, <1>3, <1>4, <1>5, <1>6, <1>7, <1>8, <1>9 DEF LogStep, ThreadLogStep, Flush

-----------------------------------------------------------------------------
(* What an event channel carries *)

\* What has been taken out of a channel, and what is still in it.
Carried(id) == log[id] \o channel[id]

LEMMA ConcatStarts ==
    ASSUME NEW S, NEW s \in Seq(S), NEW t \in Seq(S)
    PROVE  /\ s \o t \in Seq(S)
           /\ Len(s) <= Len(s \o t)
           /\ \A i \in 1 .. Len(s) : (s \o t)[i] = s[i]
  <1> DEFINE both == s \o t
  <1>1. Len(s) \in Nat /\ Len(t) \in Nat
    OBVIOUS
  <1>2. /\ both \in Seq(S)
        /\ Len(both) = Len(s) + Len(t)
        /\ \A i \in 1 .. Len(s) + Len(t) : both[i] = IF i <= Len(s) THEN s[i] ELSE t[i - Len(s)]
    BY ConcatProperties
  <1> HIDE DEF both
  <1>3. Len(s) <= Len(both) /\ \A i \in 1 .. Len(s) : both[i] = s[i]
    BY <1>1, <1>2
  <1> QED
    BY <1>2, <1>3 DEF both

LEMMA CarriedTyped ==
    ASSUME LogTypeOK, NEW id \in Id
    PROVE  /\ Carried(id) \in Seq(Entry)
           /\ log[id] \in Seq(Entry) /\ channel[id] \in Seq(Entry)
           /\ Len(log[id]) <= Len(Carried(id))
           /\ \A i \in 1 .. Len(log[id]) : Carried(id)[i] = log[id][i]
  <1>1. log[id] \in Seq(Entry) /\ channel[id] \in Seq(Entry)
    BY DEF LogTypeOK
  <1> QED
    BY <1>1, ConcatStarts DEF Carried

LEMMA NothingCarried ==
    ASSUME LogTypeOK, NEW id \in Id
    PROVE  /\ log[id] = <<>> => Carried(id) = channel[id]
           /\ channel[id] = <<>> => Carried(id) = log[id]
  BY CarriedTyped, ConcatEmptySeq DEF Carried

\* The head of the second of two sequences may go to the end of the first.
LEMMA HeadToFirst ==
    ASSUME NEW S, NEW s \in Seq(S), NEW t \in Seq(S), t # <<>>
    PROVE  Append(s, Head(t)) \o Tail(t) = s \o t
  <1> DEFINE e == Head(t)
             r == Tail(t)
  <1>1. e \in S /\ r \in Seq(S) /\ <<e>> \in Seq(S) /\ Len(r) \in Nat
        /\ Len(t) = Len(r) + 1 /\ t[1] = e /\ \A i \in 1 .. Len(r) : r[i] = t[i + 1]
    BY HeadTailProperties, LenProperties
  <1>2. t = <<e>> \o r
    <2>1. /\ <<e>> \o r \in Seq(S) /\ Len(<<e>>) = 1 /\ <<e>>[1] = e
          /\ Len(<<e>> \o r) = 1 + Len(r)
          /\ \A i \in 1 .. 1 + Len(r) : (<<e>> \o r)[i] = IF i <= 1 THEN e ELSE r[i - 1]
      <3>1. Len(<<e>>) = 1 /\ <<e>>[1] = e
        OBVIOUS
      <3> QED
        BY <1>1, <3>1, ConcatProperties
    <2> DEFINE u == <<e>> \o r
    <2> HIDE DEF e, r, u
    <2>2. /\ u \in Seq(S) /\ Len(u) = 1 + Len(r)
          /\ \A i \in 1 .. 1 + Len(r) : u[i] = IF i <= 1 THEN e ELSE r[i - 1]
      BY <2>1 DEF u
    <2>3. ASSUME NEW i \in 1 .. Len(t) PROVE t[i] = u[i]
      <3>1. CASE i = 1
        BY <1>1, <2>2, <3>1
      <3>2. CASE i # 1
        <4>1. i - 1 \in 1 .. Len(r) /\ (i - 1) + 1 = i
          BY <1>1, <3>2
        <4>2. u[i] = r[i - 1]
          BY <1>1, <2>2, <3>2, <4>1
        <4> QED
          BY <1>1, <4>1, <4>2
      <3> QED
        BY <3>1, <3>2
    <2>4. t = u
      BY <1>1, <2>2, <2>3, SeqEqual
    <2> QED
      BY <2>4 DEF u
  <1>3. Append(s, e) = s \o <<e>>
    BY <1>1, AppendIsConcat
  <1> HIDE DEF e, r
  <1>4. (s \o <<e>>) \o r = s \o t
    BY <1>1, <1>2, ConcatAssociative
  <1> QED
    BY <1>3, <1>4 DEF e, r

\* An entry that is written is carried after all the others.
LEMMA CarriedWrite ==
    ASSUME LogTypeOK, NEW id \in Id, NEW entry \in Entry,
           channel'[id] = Append(channel[id], entry), log'[id] = log[id]
    PROVE  Carried(id)' = Append(Carried(id), entry)
  <1>1. log[id] \in Seq(Entry) /\ channel[id] \in Seq(Entry)
    BY DEF LogTypeOK
  <1>2. /\ Carried(id) \in Seq(Entry) /\ <<entry>> \in Seq(Entry)
        /\ Carried(id) = log[id] \o channel[id] /\ Carried(id)' = log[id] \o channel'[id]
    BY <1>1, ConcatProperties DEF Carried
  <1>3. /\ channel'[id] = channel[id] \o <<entry>>
        /\ Append(Carried(id), entry) = Carried(id) \o <<entry>>
    BY <1>1, <1>2, AppendIsConcat
  <1> DEFINE l == log[id]
             c == channel[id]
             e == <<entry>>
  <1>4. l \in Seq(Entry) /\ c \in Seq(Entry) /\ e \in Seq(Entry)
    BY <1>1, <1>2
  <1> HIDE DEF l, c, e
  <1>5. (l \o c) \o e = l \o (c \o e)
    BY <1>4, ConcatAssociative
  <1> QED
    BY <1>2, <1>3, <1>5 DEF l, c, e

\* The drain moves entries, one at a time, and changes none.
LEMMA CarriedCollect ==
    ASSUME LogTypeOK, NEW id \in Id, CollectEntry(id)
    PROVE  /\ \A u \in Id : Carried(u)' = Carried(u)
           /\ log'[id] \in Seq(Entry)
           /\ Len(log'[id]) <= Len(Carried(id))
           /\ \A i \in 1 .. Len(log'[id]) : Carried(id)[i] = log'[id][i]
  <1> DEFINE l == log'[id]
             c == channel'[id]
  <1>1. /\ channel[id] # <<>> /\ log[id] \in Seq(Entry) /\ channel[id] \in Seq(Entry)
        /\ l = Append(log[id], Head(channel[id]))
        /\ c = Tail(channel[id])
    BY DEF CollectEntry, LogTypeOK
  <1>2. l \o c = Carried(id)
    BY <1>1, HeadToFirst DEF Carried
  <1>3. l \in Seq(Entry) /\ c \in Seq(Entry)
    BY <1>1
  <1> HIDE DEF l, c
  <1>4. Len(l) <= Len(Carried(id)) /\ \A i \in 1 .. Len(l) : Carried(id)[i] = l[i]
    BY <1>2, <1>3, ConcatStarts
  <1>5. \A u \in Id \ {id} : Carried(u)' = Carried(u)
    BY DEF CollectEntry, LogTypeOK, Carried
  <1>6. Carried(id)' = Carried(id)
    BY <1>2 DEF Carried, l, c
  <1> QED
    BY <1>3, <1>4, <1>5, <1>6 DEF l

-----------------------------------------------------------------------------
(* Prefixes *)

LEMMA PrefixPointwise ==
    ASSUME NEW S, NEW s \in Seq(S), NEW t \in Seq(S)
    PROVE  IsPrefix(s, t) <=> /\ Len(s) <= Len(t)
                              /\ \A i \in 1 .. Len(s) : s[i] = t[i]
  <1>1. ASSUME Len(s) <= Len(t)
        PROVE  SubSeq(s, 1, Len(s)) = SubSeq(t, 1, Len(s)) <=>
                   \A i \in 1 .. Len(s) : s[i] = t[i]
    <2>1. /\ Len(s) \in Nat /\ Len(t) \in Nat
          /\ \A i \in 1 .. Len(s) : s[i] \in S /\ t[i] \in S
      BY <1>1
    <2>2. /\ SubSeq(s, 1, Len(s)) \in Seq(S)
          /\ Len(SubSeq(s, 1, Len(s))) = Len(s)
          /\ \A i \in 1 .. Len(s) : SubSeq(s, 1, Len(s))[i] = s[i]
      BY <2>1
    <2>3. /\ SubSeq(t, 1, Len(s)) \in Seq(S)
          /\ Len(SubSeq(t, 1, Len(s))) = Len(s)
          /\ \A i \in 1 .. Len(s) : SubSeq(t, 1, Len(s))[i] = t[i]
      BY <1>1, <2>1
    <2> QED
      BY <2>1, <2>2, <2>3, SeqEqual
  <1> QED
    BY <1>1 DEF IsPrefix

LEMMA PrefixReflexive ==
    ASSUME NEW S, NEW s \in Seq(S)
    PROVE  IsPrefix(s, s)
  BY PrefixPointwise

LEMMA PrefixEmpty ==
    ASSUME NEW S, NEW s \in Seq(S)
    PROVE  IsPrefix(<<>>, s)
  <1> DEFINE e == <<>>
  <1>1. e \in Seq(S) /\ Len(e) = 0 /\ Len(s) \in Nat
    OBVIOUS
  <1>2. Len(e) <= Len(s) /\ \A i \in 1 .. Len(e) : e[i] = s[i]
    BY <1>1
  <1> HIDE DEF e
  <1>3. IsPrefix(e, s)
    BY <1>1, <1>2, PrefixPointwise
  <1> QED
    BY <1>3 DEF e

LEMMA PrefixTransitive ==
    ASSUME NEW S, NEW r \in Seq(S), NEW s \in Seq(S), NEW t \in Seq(S),
           IsPrefix(r, s), IsPrefix(s, t)
    PROVE  IsPrefix(r, t)
  <1>1. /\ Len(r) <= Len(s) /\ \A i \in 1 .. Len(r) : r[i] = s[i]
        /\ Len(s) <= Len(t) /\ \A i \in 1 .. Len(s) : s[i] = t[i]
    BY PrefixPointwise
  <1>2. Len(r) <= Len(t) /\ \A i \in 1 .. Len(r) : r[i] = t[i]
    BY <1>1
  <1> QED
    BY <1>2, PrefixPointwise

LEMMA PrefixOfAppend ==
    ASSUME NEW S, NEW s \in Seq(S), NEW t \in Seq(S), NEW e \in S, IsPrefix(s, t)
    PROVE  IsPrefix(s, Append(t, e))
  <1>1. /\ Append(t, e) \in Seq(S) /\ Len(Append(t, e)) = Len(t) + 1
        /\ \A i \in 1 .. Len(t) : Append(t, e)[i] = t[i]
    OBVIOUS
  <1>2. Len(s) <= Len(t) /\ \A i \in 1 .. Len(s) : s[i] = t[i]
    BY PrefixPointwise
  <1>3. Len(s) <= Len(Append(t, e)) /\ \A i \in 1 .. Len(s) : s[i] = Append(t, e)[i]
    BY <1>1, <1>2
  <1> QED
    BY <1>1, <1>3, PrefixPointwise

\* A prefix that takes one more element is a prefix.
LEMMA PrefixTakesNext ==
    ASSUME NEW S, NEW s \in Seq(S), NEW t \in Seq(S), IsPrefix(s, t), Len(s) < Len(t)
    PROVE  IsPrefix(Append(s, t[Len(s) + 1]), t)
  <1> DEFINE e == t[Len(s) + 1]
             u == Append(s, e)
  <1>1. e \in S
    OBVIOUS
  <1>2. /\ u \in Seq(S) /\ Len(u) = Len(s) + 1 /\ u[Len(s) + 1] = e
        /\ \A i \in 1 .. Len(s) : u[i] = s[i]
    BY <1>1
  <1>3. Len(s) <= Len(t) /\ \A i \in 1 .. Len(s) : s[i] = t[i]
    BY PrefixPointwise
  <1>4. Len(u) <= Len(t) /\ \A i \in 1 .. Len(u) : u[i] = t[i]
    BY <1>2, <1>3
  <1> HIDE DEF u
  <1> QED
    BY <1>2, <1>4, PrefixPointwise DEF u

-----------------------------------------------------------------------------
(* Counting *)

\* How many elements a set of positions has before the i-th position.
Before(S, i) == Cardinality({j \in 1 .. i - 1 : j \in S})

LEMMA BeforeType ==
    ASSUME NEW S, NEW i \in Nat
    PROVE  Before(S, i) \in Nat /\ IsFiniteSet({j \in 1 .. i - 1 : j \in S})
  <1>1. IsFiniteSet(1 .. i - 1)
    BY FS_Interval
  <1>2. IsFiniteSet({j \in 1 .. i - 1 : j \in S})
    BY <1>1, FS_Subset
  <1> QED
    BY <1>2, FS_CardinalityType DEF Before

\* Nothing comes before the first position.
LEMMA BeforeFirst ==
    ASSUME NEW S
    PROVE  Before(S, 1) = 0
  <1>1. {j \in 1 .. 1 - 1 : j \in S} = {}
    OBVIOUS
  <1> QED
    BY <1>1, FS_EmptySet DEF Before

\* The next position counts this one, when it is in the set.
LEMMA BeforeNext ==
    ASSUME NEW S, NEW i \in Nat \ {0}
    PROVE  Before(S, i + 1) = Before(S, i) + (IF i \in S THEN 1 ELSE 0)
  <1> DEFINE P == {j \in 1 .. i - 1 : j \in S}
  <1>1. IsFiniteSet(P) /\ Cardinality(P) \in Nat
    BY BeforeType DEF Before
  <1>2. CASE i \in S
    <2>1. {j \in 1 .. (i + 1) - 1 : j \in S} = P \cup {i} /\ i \notin P
      BY <1>2
    <2> QED
      BY <1>1, <1>2, <2>1, FS_AddElement DEF Before
  <1>3. CASE i \notin S
    <2>1. {j \in 1 .. (i + 1) - 1 : j \in S} = P
      BY <1>3
    <2> QED
      BY <1>1, <1>3, <2>1 DEF Before
  <1> QED
    BY <1>2, <1>3

LEMMA BeforeMonotone ==
    ASSUME NEW S, NEW i \in Nat, NEW k \in Nat, i <= k
    PROVE  Before(S, i) <= Before(S, k)
  <1> DEFINE P == {j \in 1 .. i - 1 : j \in S}
             Q == {j \in 1 .. k - 1 : j \in S}
  <1>1. IsFiniteSet(Q) /\ P \in SUBSET Q
    <2>1. IsFiniteSet(Q)
      BY BeforeType
    <2>2. P \in SUBSET Q
      OBVIOUS
    <2> QED
      BY <2>1, <2>2
  <1>2. Cardinality(P) <= Cardinality(Q)
    BY <1>1, FS_Subset
  <1> QED
    BY <1>2 DEF Before

LEMMA BeforeIncreases ==
    ASSUME NEW S, NEW i \in Nat \ {0}, NEW k \in Nat, i \in S, i < k
    PROVE  Before(S, i) < Before(S, k)
  <1>1. Before(S, i + 1) = Before(S, i) + 1
    BY BeforeNext
  <1>2. Before(S, i + 1) <= Before(S, k)
    BY BeforeMonotone
  <1>3. Before(S, i) \in Nat /\ Before(S, k) \in Nat
    BY BeforeType
  <1> QED
    BY <1>1, <1>2, <1>3

\* The positions of a set are told apart by how many come before them.
LEMMA BeforeInjective ==
    ASSUME NEW S, NEW i \in Nat \ {0}, NEW k \in Nat \ {0}, i \in S, k \in S,
           Before(S, i) = Before(S, k)
    PROVE  i = k
  <1>1. Before(S, i) \in Nat /\ Before(S, k) \in Nat
    BY BeforeType
  <1>2. ~(i < k)
    BY <1>1, BeforeIncreases
  <1>3. ~(k < i)
    BY <1>1, BeforeIncreases
  <1> QED
    BY <1>2, <1>3

\* Positions further on do not count.
LEMMA BeforeAgrees ==
    ASSUME NEW S, NEW T, NEW i \in Nat, \A j \in 1 .. i - 1 : j \in S <=> j \in T
    PROVE  Before(S, i) = Before(T, i)
  <1>1. {j \in 1 .. i - 1 : j \in S} = {j \in 1 .. i - 1 : j \in T}
    OBVIOUS
  <1> QED
    BY <1>1 DEF Before

\* One more position, in the set or not.
LEMMA BeforeGrows ==
    ASSUME NEW n \in Nat, NEW S, NEW T, \A j \in 1 .. n : j \in S <=> j \in T
    PROVE  /\ \A i \in 0 .. n + 1 : Before(T, i) = Before(S, i)
           /\ Before(T, n + 2) = Before(S, n + 1) + (IF n + 1 \in T THEN 1 ELSE 0)
  <1>1. ASSUME NEW i \in 0 .. n + 1 PROVE Before(T, i) = Before(S, i)
    <2>1. \A j \in 1 .. i - 1 : j \in T <=> j \in S
      OBVIOUS
    <2> QED
      BY <2>1, BeforeAgrees
  <1>2. Before(T, n + 2) = Before(T, n + 1) + (IF n + 1 \in T THEN 1 ELSE 0)
    <2>1. n + 1 \in Nat \ {0} /\ n + 2 = (n + 1) + 1
      OBVIOUS
    <2> QED
      BY <2>1, BeforeNext
  <1> QED
    BY <1>1, <1>2

\* The first position goes: those behind it move up by one.
LEMMA BeforeShifted ==
    ASSUME NEW S, NEW T, \A j \in Nat \ {0} : j \in T <=> j + 1 \in S, NEW i \in Nat \ {0}
    PROVE  Before(S, i + 1) = Before(T, i) + (IF 1 \in S THEN 1 ELSE 0)
  <1> DEFINE Q == {j \in 1 .. i - 1 : j \in T}
             R == {j \in 2 .. i : j \in S}
             P == {j \in 1 .. (i + 1) - 1 : j \in S}
             f == [j \in Q |-> j + 1]
  <1>1. IsFiniteSet(Q) /\ Cardinality(Q) \in Nat
    BY BeforeType DEF Before
  <1>2. f \in Bijection(Q, R)
    <2>1. f \in [Q -> R]
      OBVIOUS
    <2>2. \A a, b \in Q : f[a] = f[b] => a = b
      OBVIOUS
    <2>3. \A r \in R : \E a \in Q : f[a] = r
      <3> TAKE r \in R
      <3>1. r - 1 \in Q /\ f[r - 1] = r
        <4>1. r - 1 \in Nat \ {0} /\ (r - 1) + 1 = r
          OBVIOUS
        <4> QED
          BY <4>1
      <3> QED
        BY <3>1
    <2> HIDE DEF Q, R, f
    <2>4. f \in Injection(Q, R)
      BY <2>1, <2>2 DEF Injection, IsInjective
    <2>5. f \in Surjection(Q, R)
      BY <2>1, <2>3 DEF Surjection
    <2> QED
      BY <2>4, <2>5 DEF Bijection
  <1>3. IsFiniteSet(R) /\ Cardinality(R) = Cardinality(Q)
    BY <1>1, <1>2, FS_Bijection DEF ExistsBijection
  <1>4. CASE 1 \in S
    <2>1. P = R \cup {1} /\ 1 \notin R
      BY <1>4
    <2>2. Cardinality(P) = Cardinality(R) + 1
      BY <1>3, <2>1, FS_AddElement
    <2> QED
      BY <1>3, <1>4, <2>2 DEF Before
  <1>5. CASE 1 \notin S
    <2>1. P = R
      BY <1>5
    <2> QED
      BY <1>1, <1>3, <1>5, <2>1 DEF Before
  <1> QED
    BY <1>4, <1>5
=============================================================================
