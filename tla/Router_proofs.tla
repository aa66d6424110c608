---------------------------- MODULE Router_proofs ----------------------------
(***************************************************************************)
(* Proofs about Router, for any number of threads and routes: calls do not *)
(* mix, the router is woken up once for each message, no message to a      *)
(* route is skipped or handled twice, every route that was added before a  *)
(* shutdown is known to the router, and it has a handler for all that it   *)
(* gets.  (That shutdown returns is checked by TLC.)                       *)
(***************************************************************************)
EXTENDS Router, FiniteSetTheorems, TLAPS

-----------------------------------------------------------------------------
(* Batches. *)

Distinct(b) == \A i, j \in DOMAIN b : b[i].id = b[j].id => i = j
Batch == {b \in Seq(Report) : Distinct(b) /\ \A i \in DOMAIN b : b[i].n <= b[i].upto /\ ~IsEmpty(b[i])}

\* What Left is, whichever report it picks.
LEMMA LeftOfReport ==
  ASSUME NEW b, Distinct(b), NEW k \in DOMAIN b
  PROVE  Left(b, b[k].id) = b[k].upto - b[k].n
  <1> DEFINE mine == {i \in DOMAIN b : b[i].id = b[k].id}
  <1>1. mine = {k}
    BY DEF Distinct
  <1>2. (CHOOSE j \in mine : TRUE) = k
    BY <1>1
  <1> QED
    BY <1>1, <1>2 DEF Left

LEMMA LeftOfNone ==
  ASSUME NEW b, NEW id, \A k \in DOMAIN b : b[k].id # id
  PROVE  Left(b, id) = 0
  BY DEF Left

\* Dropping the first report.
LEMMA TailOfBatch ==
  ASSUME NEW b \in Batch, b # <<>>
  PROVE  /\ Tail(b) \in Batch
         /\ DOMAIN Tail(b) = 1 .. Len(b) - 1
         /\ \A k \in DOMAIN Tail(b) : Tail(b)[k] = b[k + 1] /\ k + 1 \in DOMAIN b
         /\ \A id : Left(Tail(b), id) = IF id = b[1].id THEN 0 ELSE Left(b, id)
  <1> DEFINE t == Tail(b)
  <1>1. /\ b \in Seq(Report) /\ Distinct(b) /\ DOMAIN b = 1 .. Len(b) /\ Len(b) \in Nat \ {0}
        /\ \A i \in DOMAIN b : b[i].n <= b[i].upto /\ ~IsEmpty(b[i])
    BY DEF Batch
  <1>2. /\ t \in Seq(Report) /\ DOMAIN t = 1 .. Len(b) - 1
        /\ \A k \in DOMAIN t : t[k] = b[k + 1] /\ k + 1 \in DOMAIN b
    BY <1>1
  <1>3. Distinct(t)
    BY <1>1, <1>2 DEF Distinct
  <1>4. t \in Batch
    BY <1>1, <1>2, <1>3 DEF Batch
  <1>5. ASSUME NEW id PROVE Left(t, id) = IF id = b[1].id THEN 0 ELSE Left(b, id)
    <2>1. CASE id = b[1].id
      <3>1. \A k \in DOMAIN t : t[k].id # id
        BY <1>1, <1>2, <2>1 DEF Distinct
      <3> QED
        BY <2>1, <3>1, LeftOfNone
    <2>2. CASE id # b[1].id /\ \E k \in DOMAIN t : t[k].id = id
      <3>1. PICK k \in DOMAIN t : t[k].id = id
        BY <2>2
      <3>2. Left(t, id) = t[k].upto - t[k].n
        BY <1>3, <3>1, LeftOfReport
      <3>3. k + 1 \in DOMAIN b /\ b[k + 1] = t[k]
        BY <1>2
      <3>4. Left(b, id) = b[k + 1].upto - b[k + 1].n
        BY <1>1, <3>1, <3>3, LeftOfReport
      <3> QED
        BY <2>2, <3>2, <3>3, <3>4
    <2>3. CASE id # b[1].id /\ \A k \in DOMAIN t : t[k].id # id
      <3>1. \A k \in DOMAIN b : b[k].id # id
        <4> SUFFICES ASSUME NEW k \in DOMAIN b, k # 1 PROVE b[k].id # id
          BY <2>3
        <4>1. k - 1 \in DOMAIN t /\ t[k - 1] = b[k]
          BY <1>1, <1>2
        <4> QED
          BY <2>3, <4>1
      <3> QED
        BY <2>3, <3>1, LeftOfNone
    <2> QED
      BY <2>1, <2>2, <2>3
  <1> QED
    BY <1>2, <1>4, <1>5

\* Taking one message from the first report.
After(b) ==
    LET rest == [b[1] EXCEPT !.n = @ + 1]
    IN IF IsEmpty(rest) THEN Tail(b) ELSE [b EXCEPT ![1] = rest]

LEMMA TakeFromBatch ==
  ASSUME NEW b \in Batch, b # <<>>, b[1].n < b[1].upto
  PROVE  /\ After(b) \in Batch
         /\ \A k \in DOMAIN After(b) : \E i \in DOMAIN b :
               After(b)[k].id = b[i].id /\ After(b)[k].upto = b[i].upto /\ After(b)[k].closed = b[i].closed
         /\ \A id : Left(After(b), id) = IF id = b[1].id THEN Left(b, id) - 1 ELSE Left(b, id)
         /\ Left(b, b[1].id) = b[1].upto - b[1].n
  <1> DEFINE rest == [b[1] EXCEPT !.n = @ + 1]
             c == [b EXCEPT ![1] = rest]
  <1>1. /\ b \in Seq(Report) /\ Distinct(b) /\ DOMAIN b = 1 .. Len(b) /\ Len(b) \in Nat \ {0}
        /\ \A i \in DOMAIN b : b[i].n <= b[i].upto /\ ~IsEmpty(b[i])
    BY DEF Batch
  <1>2. 1 \in DOMAIN b /\ b[1] \in Report
    BY <1>1
  <1>3. Left(b, b[1].id) = b[1].upto - b[1].n
    BY <1>1, <1>2, LeftOfReport
  <1>4. /\ rest \in Report /\ rest.id = b[1].id /\ rest.upto = b[1].upto
        /\ rest.closed = b[1].closed /\ rest.n = b[1].n + 1 /\ rest.n <= rest.upto
    BY <1>2 DEF Report
  <1>5. CASE IsEmpty(rest)
    <2>1. After(b) = Tail(b)
      BY <1>5 DEF After
    <2>2. b[1].upto - b[1].n = 1
      BY <1>2, <1>4, <1>5 DEF IsEmpty, Report
    <2> QED
      BY <1>2, <1>3, <2>1, <2>2, TailOfBatch DEF Report
  <1>6. CASE ~IsEmpty(rest)
    <2>1. After(b) = c
      BY <1>6 DEF After
    <2>2. c \in Seq(Report) /\ DOMAIN c = DOMAIN b /\ c[1] = rest
          /\ \A k \in DOMAIN b \ {1} : c[k] = b[k]
      BY <1>1, <1>2, <1>4
    <2>3. \A k \in DOMAIN b : c[k].id = b[k].id /\ c[k].upto = b[k].upto /\ c[k].closed = b[k].closed
      BY <1>4, <2>2
    <2> HIDE DEF c, rest
    <2>4. Distinct(c)
      BY <1>1, <2>2, <2>3 DEF Distinct
    <2>5. c \in Batch
      BY <1>1, <1>4, <1>6, <2>2, <2>4 DEF Batch
    <2>6. ASSUME NEW id PROVE Left(c, id) = IF id = b[1].id THEN Left(b, id) - 1 ELSE Left(b, id)
      <3>1. CASE id = b[1].id
        <4>1. Left(c, id) = c[1].upto - c[1].n
          BY <1>2, <2>2, <2>3, <2>4, <3>1, LeftOfReport
        <4>2. /\ c[1].upto = b[1].upto /\ c[1].n = b[1].n + 1
              /\ b[1].upto \in Nat /\ b[1].n \in Nat
          BY <1>2, <1>4, <2>2 DEF Report
        <4>3. Left(c, id) = Left(b, id) - 1
          BY <1>3, <3>1, <4>1, <4>2
        <4> QED
          BY <3>1, <4>3
      <3>2. CASE id # b[1].id /\ \E k \in DOMAIN b : b[k].id = id
        <4>1. PICK k \in DOMAIN b : b[k].id = id
          BY <3>2
        <4>2. Left(b, id) = b[k].upto - b[k].n
          BY <1>1, <4>1, LeftOfReport
        <4>3. Left(c, id) = c[k].upto - c[k].n
          BY <2>2, <2>3, <2>4, <4>1, LeftOfReport
        <4> QED
          BY <2>2, <3>2, <4>1, <4>2, <4>3
      <3>3. CASE \A k \in DOMAIN b : b[k].id # id
        <4>1. id # b[1].id /\ Left(b, id) = 0
          BY <1>2, <3>3, LeftOfNone
        <4>2. Left(c, id) = 0
          BY <2>2, <2>3, <3>3, LeftOfNone
        <4> QED
          BY <4>1, <4>2
      <3> QED
        BY <3>1, <3>2, <3>3
    <2> QED
      BY <1>3, <2>1, <2>2, <2>3, <2>5, <2>6
  <1> QED
    BY <1>5, <1>6

-----------------------------------------------------------------------------
(* Types, and who is where. *)

ThreadPlace == {"idle", "lock", "send", "wake", "ack", "join", "panicked"}
RouterPlace == {"select", "batch", "recv", "returned", "lock", "send", "wake", "ack", "join", "panicked"}

PlaceInv ==
    /\ \A t \in Thread : pc[t] \in ThreadPlace
    /\ pc[Router] \in RouterPlace
    /\ \A a \in Actor : pc[a] \in {"lock", "send", "wake", "ack", "join"} => call[a] \in CallType
    /\ \A a \in Actor : pc[a] \in {"ack", "join"} => call[a].op = "shutdown"

BatchInv ==
    /\ batch \in Batch
    /\ pc[Router] = "select" => batch = <<>>
    /\ \A i \in DOMAIN batch : batch[i].closed => batch[i].id \in closed
    /\ \A i \in DOMAIN batch : batch[i].id \in Route => batch[i].upto = selected[batch[i].id]

SelectedInv == \A r \in Route : selected[r] <= sent[r]

Inv == TypeOK /\ PlaceInv /\ LockHeld /\ BatchInv /\ SelectedInv

LEMMA InvInit == Init => Inv
  <1> SUFFICES ASSUME Init PROVE Inv
    OBVIOUS
  <1> USE RouterAssumption DEF Init, Actor
  <1>1. TypeOK
    <2>1. /\ pc \in [Actor -> {"idle", "lock", "send", "wake", "ack", "join", "panicked",
                              "select", "batch", "recv", "returned"}]
          /\ call \in [Actor -> CallType \cup {NoCall}]
      OBVIOUS
    <2>2. /\ done \in [Thread -> Nat]
          /\ sent \in [Route -> Nat] /\ selected \in [Route -> Nat]
          /\ handled \in [Route -> Seq(Nat)]
      OBVIOUS
    <2>3. /\ msgs \in Seq(CallType)
          /\ batch \in Seq(Report)
          /\ \A i \in DOMAIN batch : ~IsEmpty(batch[i])
      OBVIOUS
    <2> QED
      BY <2>1, <2>2, <2>3 DEF TypeOK
  <1>2. PlaceInv
    BY DEF PlaceInv, ThreadPlace, RouterPlace
  <1>3. LockHeld
    BY DEF LockHeld, InCall
  <1>4. BatchInv
    BY DEF BatchInv, Batch, Distinct
  <1>5. SelectedInv
    BY DEF SelectedInv
  <1> QED
    BY <1>1, <1>2, <1>3, <1>4, <1>5 DEF Inv

\* The reports of one select.
LEMMA SelectedBatch ==
  ASSUME Inv, Select
  PROVE  /\ batch' \in Batch
         /\ \A i \in DOMAIN batch' : batch'[i].id \in set \cup {Wakeup} /\ batch'[i] = Pending(batch'[i].id)
         /\ \A i \in DOMAIN batch' : batch'[i].id \in Route => batch'[i].upto = selected'[batch'[i].id]
         /\ Left(batch', Wakeup) = wakeups - wakeups'
         /\ \A r \in Route : Left(batch', r) = selected'[r] - selected[r]
         /\ wakeups' \in Nat
         /\ \A r \in Route : selected'[r] \in Nat /\ selected'[r] <= sent[r]
         /\ set' \subseteq set /\ \A i \in DOMAIN batch' : batch'[i].closed => batch'[i].id \notin set'
  <1> USE RouterAssumption
  <1>1. PICK ids \in SUBSET Ready \ {{}} : \E order \in SetToSeqs(ids) :
           /\ batch' = [i \in DOMAIN order |-> Pending(order[i])]
           /\ wakeups' = IF Wakeup \in ids THEN 0 ELSE wakeups
           /\ selected' = [r \in Route |-> IF r \in ids THEN sent[r] ELSE selected[r]]
           /\ set' = set \ (ids \cap closed)
    BY DEF Select
  <1>2. PICK order \in SetToSeqs(ids) : batch' = [i \in DOMAIN order |-> Pending(order[i])]
    BY <1>1
  <1>3. /\ wakeups' = IF Wakeup \in ids THEN 0 ELSE wakeups
        /\ selected' = [r \in Route |-> IF r \in ids THEN sent[r] ELSE selected[r]]
        /\ set' = set \ (ids \cap closed)
    BY <1>1
  <1>4. /\ set \subseteq Route /\ closed \subseteq Route \cup {Wakeup} /\ wakeups \in Nat
        /\ \A r \in Route : sent[r] \in Nat /\ selected[r] \in Nat /\ selected[r] <= sent[r]
    BY DEF Inv, TypeOK, SelectedInv
  <1>5. ids \subseteq set \cup {Wakeup} /\ \A id \in ids : ~IsEmpty(Pending(id))
    BY DEF Ready
  <1>6. \A id \in Route \cup {Wakeup} : Pending(id) \in Report /\ Pending(id).id = id /\ Pending(id).n <= Pending(id).upto
    BY <1>4 DEF Pending, Report
  <1>7. IsFiniteSet(ids)
    <2>1. IsFiniteSet(Route \cup {Wakeup})
      BY FS_AddElement
    <2> QED
      BY <1>4, <1>5, <2>1, FS_Subset
  <1> DEFINE n == Cardinality(ids)
  <1>8. n \in Nat /\ order \in [1 .. n -> ids] /\ \A i, j \in 1 .. n : order[i] = order[j] => i = j
    BY <1>7, FS_CardinalityType DEF SetToSeqs
  <1>9. \A id \in ids : \E i \in 1 .. n : order[i] = id
    <2>1. order \in Injection(1 .. n, ids)
      BY <1>8 DEF Injection, IsInjective
    <2>2. IsFiniteSet(1 .. n) /\ Cardinality(1 .. n) = n
      BY <1>8, FS_Interval
    <2>3. order \in Surjection(1 .. n, ids)
      BY <1>7, <2>1, <2>2, FS_Injection
    <2> QED
      BY <2>3 DEF Surjection
  <1>10. /\ batch' \in Seq(Report) /\ DOMAIN batch' = 1 .. n
         /\ \A i \in 1 .. n : batch'[i] = Pending(order[i]) /\ batch'[i].id = order[i] /\ order[i] \in ids
    <2> HIDE DEF n
    <2>1. DOMAIN order = 1 .. n /\ \A i \in 1 .. n : order[i] \in ids /\ order[i] \in Route \cup {Wakeup}
      BY <1>4, <1>5, <1>8
    <2>2. DOMAIN batch' = 1 .. n /\ \A i \in 1 .. n : batch'[i] = Pending(order[i])
      BY <1>2, <2>1
    <2>3. batch' = [i \in 1 .. n |-> Pending(order[i])]
      BY <1>2, <2>1
    <2>4. batch' \in [1 .. n -> Report]
      BY <1>6, <2>1, <2>3
    <2> QED
      BY <1>6, <1>8, <2>1, <2>2, <2>4
  <1> HIDE DEF n
  <1>11. Distinct(batch')
    BY <1>8, <1>10 DEF Distinct
  <1>12. batch' \in Batch
    BY <1>4, <1>5, <1>6, <1>10, <1>11 DEF Batch
  <1>13. \A i \in DOMAIN batch' : batch'[i].id \in set \cup {Wakeup} /\ batch'[i] = Pending(batch'[i].id)
    BY <1>5, <1>10
  <1>14. \A r \in Route : r # Wakeup
    OBVIOUS
  <1>15. \A r \in Route : selected'[r] = IF r \in ids THEN sent[r] ELSE selected[r]
    BY <1>3
  <1>16. \A i \in DOMAIN batch' : batch'[i].id \in Route => batch'[i].upto = selected'[batch'[i].id]
    <2> SUFFICES ASSUME NEW i \in DOMAIN batch', batch'[i].id \in Route
                 PROVE  batch'[i].upto = selected'[batch'[i].id]
      OBVIOUS
    <2>1. PICK r \in Route : r = batch'[i].id
      OBVIOUS
    <2>2. batch'[i] = Pending(r) /\ r \in ids
      BY <1>10, <2>1
    <2>3. Pending(r).upto = sent[r]
      BY <1>14 DEF Pending
    <2>4. selected'[r] = sent[r]
      BY <1>15, <2>2
    <2> QED
      BY <2>1, <2>2, <2>3, <2>4
  <1>17. ASSUME NEW id \in Route \cup {Wakeup}
         PROVE  Left(batch', id) = IF id \in ids THEN Pending(id).upto - Pending(id).n ELSE 0
    <2>1. CASE id \in ids
      <3>1. PICK i \in 1 .. n : order[i] = id
        BY <1>9, <2>1
      <3>2. batch'[i].id = id /\ batch'[i] = Pending(id) /\ i \in DOMAIN batch'
        BY <1>10, <3>1
      <3> QED
        BY <1>11, <2>1, <3>2, LeftOfReport
    <2>2. CASE id \notin ids
      <3>1. \A k \in DOMAIN batch' : batch'[k].id # id
        BY <1>10, <2>2
      <3> QED
        BY <2>2, <3>1, LeftOfNone
    <2> QED
      BY <2>1, <2>2
  <1>18. Left(batch', Wakeup) = wakeups - wakeups' /\ wakeups' \in Nat
    BY <1>3, <1>4, <1>17 DEF Pending
  <1>19. ASSUME NEW r \in Route PROVE Left(batch', r) = selected'[r] - selected[r]
    BY <1>4, <1>14, <1>15, <1>17 DEF Pending
  <1>20. \A r \in Route : selected'[r] \in Nat /\ selected'[r] <= sent[r]
    BY <1>4, <1>15
  <1>21. set' \subseteq set /\ \A i \in DOMAIN batch' : batch'[i].closed => batch'[i].id \notin set'
    <2>1. \A i \in DOMAIN batch' : batch'[i].id \in ids /\ (batch'[i].closed => batch'[i].id \in closed)
      <3> SUFFICES ASSUME NEW i \in 1 .. n PROVE batch'[i].id \in ids /\ (batch'[i].closed => batch'[i].id \in closed)
        BY <1>10
      <3>1. batch'[i] = Pending(order[i]) /\ batch'[i].id = order[i] /\ order[i] \in ids
        BY <1>10
      <3>2. batch'[i].closed = (order[i] \in closed)
        BY <3>1 DEF Pending
      <3> QED
        BY <3>1, <3>2
    <2> QED
      BY <1>3, <2>1
  <1> QED
    BY <1>12, <1>13, <1>16, <1>18, <1>19, <1>20, <1>21

LEMMA SameBatch ==
  ASSUME BatchInv, UNCHANGED <<batch, selected>>, closed \subseteq closed',
         pc'[Router] = "select" => pc[Router] = "select"
  PROVE  BatchInv'
  BY DEF BatchInv

\* The calls of a proxy.
LEMMA InvCall ==
  ASSUME Inv, NEW t \in Thread, Call(t)
  PROVE  Inv'
  <1> USE RouterAssumption DEF Actor
  <1>1. /\ pc' = [pc EXCEPT ![t] = "lock"] /\ pc[t] = "idle"
        /\ Calls[t][done[t] + 1] \in CallType
        /\ call' = [call EXCEPT ![t] = Calls[t][done[t] + 1]]
        /\ done' = [done EXCEPT ![t] = @ + 1]
        /\ UNCHANGED <<proxyVars, commVars, routeVars, routerVars>>
    <2>1. Calls[t] \in Seq(CallType) /\ done[t] \in Nat /\ done[t] < Len(Calls[t])
      BY DEF Call, Inv, TypeOK
    <2>2. Calls[t][done[t] + 1] \in CallType
      BY <2>1
    <2> QED
      BY <2>2 DEF Call, Go
  <1>2. TypeOK'
    BY <1>1 DEF Inv, TypeOK, proxyVars, commVars, routeVars, routerVars
  <1>3. PlaceInv'
    BY <1>1 DEF Inv, TypeOK, PlaceInv, ThreadPlace
  <1>4. LockHeld'
    BY <1>1 DEF Inv, TypeOK, LockHeld, InCall, proxyVars
  <1>5. BatchInv' /\ SelectedInv'
    BY <1>1, SameBatch DEF Inv, TypeOK, SelectedInv, routeVars, routerVars
  <1> QED
    BY <1>2, <1>3, <1>4, <1>5 DEF Inv

LEMMA InvProxy ==
  ASSUME Inv, NEW a \in Actor, Proxy(a)
  PROVE  Inv'
  <1> USE RouterAssumption DEF Actor
  <1>1. PICK place \in {"send", "wake", "idle", "batch", "ack", "join", "panicked"} : pc' = [pc EXCEPT ![a] = place]
    BY DEF Proxy, Lock, LockPoisoned, SendMessage, Wake, ReceiveAck, Join, Go, Resume, PanicLocked
  <1>2. UNCHANGED <<callVars, routeVars, routerVars>>
    BY DEF Proxy, Lock, LockPoisoned, SendMessage, Wake, ReceiveAck, Join
  <1>3. a = Router => place # "idle"
    BY <1>1 DEF Proxy, Lock, LockPoisoned, SendMessage, Wake, ReceiveAck, Join, Go, Resume, PanicLocked, Inv, TypeOK
  <1>4. a # Router => place # "batch"
    BY <1>1 DEF Proxy, Lock, LockPoisoned, SendMessage, Wake, ReceiveAck, Join, Go, Resume, PanicLocked, Inv, TypeOK
  <1>5. place \in {"send", "wake", "ack", "join"} => call[a] \in CallType
    BY <1>1 DEF Proxy, Lock, LockPoisoned, SendMessage, Wake, ReceiveAck, Join, Go, Resume, PanicLocked, Inv, TypeOK, PlaceInv
  <1>6. place \in {"ack", "join"} => call[a].op = "shutdown"
    BY <1>1, <1>5 DEF Proxy, Lock, LockPoisoned, SendMessage, Wake, ReceiveAck, Join, Go, Resume, PanicLocked, Inv, TypeOK, CallType, PlaceInv
  <1>7. TypeOK'
    <2>1. pc' \in [Actor -> {"idle", "lock", "send", "wake", "ack", "join", "panicked",
                             "select", "batch", "recv", "returned"}]
      BY <1>1 DEF Inv, TypeOK
    <2>2. /\ holder' \in Actor \cup {NoThread}
          /\ poisoned' \in BOOLEAN /\ shutdown' \in BOOLEAN /\ acked' \in BOOLEAN
      BY DEF Proxy, Lock, LockPoisoned, SendMessage, Wake, ReceiveAck, Join, Unlock, PanicLocked, Inv, TypeOK, proxyVars, commVars
    <2>3. msgs' \in Seq(CallType)
      <3>1. pc[a] = "send" => call[a] \in CallType
        BY DEF Inv, PlaceInv
      <3>2. msgs' = msgs \/ (pc[a] = "send" /\ msgs' = Append(msgs, call[a]))
        BY DEF Proxy, Lock, LockPoisoned, SendMessage, Wake, ReceiveAck, Join, commVars
      <3>3. msgs \in Seq(CallType)
        BY DEF Inv, TypeOK
      <3>4. CASE msgs' = msgs
        BY <3>3, <3>4
      <3>5. CASE call[a] \in CallType /\ msgs' = Append(msgs, call[a])
        <4> HIDE DEF Actor
        <4> QED
          BY ONLY <3>3, <3>5
      <3> QED
        BY <3>1, <3>2, <3>4, <3>5
    <2>4. wakeups' \in Nat
      BY DEF Proxy, Lock, LockPoisoned, SendMessage, Wake, ReceiveAck, Join, Inv, TypeOK, commVars
    <2> QED
      BY <1>2, <2>1, <2>2, <2>3, <2>4 DEF Inv, TypeOK, callVars, routeVars, routerVars
  <1>8. PlaceInv'
    BY <1>1, <1>2, <1>3, <1>4, <1>5, <1>6 DEF Inv, TypeOK, PlaceInv, ThreadPlace, RouterPlace, callVars
  <1>9. LockHeld'
    <2>1. place \in {"send", "wake", "ack", "join"} <=> holder' = a
      BY <1>1 DEF Proxy, Lock, LockPoisoned, SendMessage, Wake, ReceiveAck, Join, Go, Resume, PanicLocked, Unlock,
                  Inv, TypeOK, LockHeld, InCall, proxyVars
    <2>2. \A b \in Actor \ {a} : holder' = b <=> holder = b
      BY DEF Proxy, Lock, LockPoisoned, SendMessage, Wake, ReceiveAck, Join, Go, PanicLocked, Unlock,
                  Inv, TypeOK, LockHeld, InCall, proxyVars
    <2> QED
      BY <1>1, <2>1, <2>2 DEF Inv, TypeOK, LockHeld, InCall
  <1>10. BatchInv' /\ SelectedInv'
    BY <1>1, <1>2, SameBatch DEF Inv, TypeOK, SelectedInv, routeVars, routerVars
  <1> QED
    BY <1>7, <1>8, <1>9, <1>10 DEF Inv

\* The router's own steps: what they do to its batch.
LEMMA Taken ==
  ASSUME Inv, AtMessage, TakeMessage
  PROVE  /\ batch' = After(batch) /\ batch' \in Batch /\ UNCHANGED <<set, handlers>>
         /\ Current = batch[1] /\ batch[1] \in Report /\ batch[1].n < batch[1].upto
         /\ \A id : Left(batch', id) = IF id = batch[1].id THEN Left(batch, id) - 1 ELSE Left(batch, id)
         /\ Left(batch, batch[1].id) = batch[1].upto - batch[1].n
         /\ batch[1].id \in Route => batch[1].upto = selected[batch[1].id]
         /\ selected' = selected /\ closed \subseteq closed' /\ pc'[Router] # "select" => BatchInv'
  <1>1. batch' = After(batch)
    BY DEF TakeMessage, After, Current
  <1>2. batch \in Batch /\ batch # <<>> /\ batch[1].n < batch[1].upto
    BY DEF Inv, BatchInv, AtMessage, Current
  <1>3. 1 \in DOMAIN batch /\ batch[1] \in Report
    BY <1>2 DEF Batch
  <1>4. \A k \in DOMAIN batch' : \E i \in DOMAIN batch :
            batch'[k].id = batch[i].id /\ batch'[k].upto = batch[i].upto /\ batch'[k].closed = batch[i].closed
    BY <1>1, <1>2, TakeFromBatch
  <1>5. batch[1].id \in Route => batch[1].upto = selected[batch[1].id]
    BY <1>3 DEF Inv, BatchInv
  <1>6. batch' \in Batch
    BY <1>1, <1>2, TakeFromBatch
  <1>7. selected' = selected /\ closed \subseteq closed' /\ pc'[Router] # "select" => BatchInv'
    BY <1>4, <1>6 DEF Inv, BatchInv
  <1>8. /\ \A id : Left(batch', id) = IF id = batch[1].id THEN Left(batch, id) - 1 ELSE Left(batch, id)
        /\ Left(batch, batch[1].id) = batch[1].upto - batch[1].n
    BY <1>1, <1>2, TakeFromBatch
  <1>9. UNCHANGED <<set, handlers>> /\ Current = batch[1]
    BY DEF TakeMessage, Current
  <1> QED
    BY <1>1, <1>2, <1>3, <1>5, <1>6, <1>7, <1>8, <1>9

LEMMA InvHandle ==
  ASSUME Inv, HandleMessage \/ WokenUp
  PROVE  Inv'
  <1> USE RouterAssumption DEF Actor
  <1>1. AtMessage /\ TakeMessage
    BY DEF HandleMessage, WokenUp
  <1>2. pc[Router] = "batch" /\ holder # Router
    BY <1>1 DEF AtMessage, Inv, LockHeld, InCall
  <1>3. UNCHANGED <<done, proxyVars, commVars, sent, selected, closed, set, handlers>>
    BY <1>1 DEF HandleMessage, WokenUp, TakeMessage, callVars, routeVars
  <1>4. PICK place \in {"batch", "lock", "recv", "panicked"} : pc' = [pc EXCEPT ![Router] = place]
    <2>1. pc = [pc EXCEPT ![Router] = "batch"]
      BY <1>2 DEF Inv, TypeOK
    <2> QED
      BY <2>1 DEF HandleMessage, WokenUp, Go
  <1>5. /\ call' \in [Actor -> CallType \cup {NoCall}]
        /\ place = "lock" => call'[Router] \in CallType
        /\ \A t \in Thread : call'[t] = call[t]
    <2>1. CASE call' = call /\ place # "lock"
      BY <2>1 DEF Inv, TypeOK
    <2>2. CASE /\ Current.id \in Route
               /\ Adds[Current.id] # NoRoute
               /\ call' = [call EXCEPT ![Router] = [op |-> "add_route", route |-> Adds[Current.id]]]
      BY <2>2 DEF Inv, TypeOK, CallType
    <2>3. HandleMessage => Current.id \in Route
      BY DEF HandleMessage, Inv, TypeOK
    <2> QED
      BY <1>2, <1>4, <2>1, <2>2, <2>3 DEF HandleMessage, WokenUp, Go, callVars, Inv, TypeOK
  <1>6. batch' \in Batch /\ BatchInv'
    BY <1>1, <1>3, <1>4, Taken DEF Inv, TypeOK
  <1>7. handled' \in [Route -> Seq(Nat)]
    <2>1. CASE WokenUp
      BY <2>1 DEF WokenUp, routeVars, Inv, TypeOK
    <2>2. CASE HandleMessage
      <3>1. Current.id \in Route /\ Current.n + 1 \in Nat
        BY <1>1, <2>2, Taken DEF HandleMessage, Inv, TypeOK, Report
      <3> QED
        BY <2>2, <3>1 DEF HandleMessage, Inv, TypeOK
    <2> QED
      BY <2>1, <2>2
  <1>8. TypeOK'
    BY <1>3, <1>4, <1>5, <1>6, <1>7 DEF Inv, TypeOK, Batch, proxyVars, commVars
  <1>9. PlaceInv'
    BY <1>4, <1>5 DEF Inv, TypeOK, PlaceInv, RouterPlace
  <1>10. LockHeld'
    BY <1>2, <1>3, <1>4 DEF Inv, TypeOK, LockHeld, InCall, proxyVars
  <1>11. SelectedInv'
    BY <1>3 DEF Inv, SelectedInv
  <1> QED
    BY <1>6, <1>8, <1>9, <1>10, <1>11 DEF Inv

LEMMA InvRouter ==
  ASSUME Inv, Select \/ BatchDone \/ AddRoute \/ Shutdown \/ HandleClosed \/ NoSuchHandler
  PROVE  Inv'
  <1> USE RouterAssumption DEF Actor
  <1>1. PICK place \in {"batch", "select", "returned", "panicked"} : pc' = [pc EXCEPT ![Router] = place]
    <2>1. HandleClosed => pc[Router] = "batch" /\ pc' = pc
      BY DEF HandleClosed, AtClosed
    <2>2. HandleClosed => pc' = [pc EXCEPT ![Router] = "batch"]
      BY <2>1 DEF Inv, TypeOK
    <2> QED
      BY <2>2 DEF Select, BatchDone, AddRoute, Shutdown, NoSuchHandler, Go
  <1>2. pc[Router] \in {"select", "batch", "recv"}
    BY DEF Select, BatchDone, AddRoute, Shutdown, HandleClosed, NoSuchHandler, AtMessage, AtClosed
  <1>3. UNCHANGED <<callVars, proxyVars, sent, handled, closed>>
    BY DEF Select, BatchDone, AddRoute, Shutdown, HandleClosed, NoSuchHandler, routeVars
  <1>4. PlaceInv'
    BY <1>1, <1>3 DEF Inv, TypeOK, PlaceInv, RouterPlace, callVars
  <1>5. LockHeld'
    BY <1>1, <1>2, <1>3 DEF Inv, TypeOK, LockHeld, InCall, proxyVars
  <1>6. msgs' \in Seq(CallType) /\ acked' \in BOOLEAN
    <2>1. msgs \in Seq(CallType) /\ acked \in BOOLEAN
      BY DEF Inv, TypeOK
    <2>2. msgs' = msgs \/ (msgs # <<>> /\ msgs' = Tail(msgs))
      BY DEF Select, BatchDone, AddRoute, Shutdown, HandleClosed, NoSuchHandler, commVars
    <2>3. acked' \in {acked, TRUE}
      BY DEF Select, BatchDone, AddRoute, Shutdown, HandleClosed, NoSuchHandler, commVars
    <2>4. msgs' \in Seq(CallType)
      BY ONLY <2>1, <2>2
    <2> QED
      BY <2>1, <2>3, <2>4
  <1>7. set' \subseteq Route /\ handlers' \subseteq Route
    <2>1. CASE AddRoute
      <3>1. msgs[1] \in CallType /\ msgs[1].op = "add_route"
        BY <2>1 DEF AddRoute, Inv, TypeOK
      <3>2. msgs[1].route \in Route
        BY <3>1 DEF CallType
      <3> QED
        BY <2>1, <3>2 DEF AddRoute, Inv, TypeOK
    <2> QED
      BY <2>1 DEF Select, BatchDone, Shutdown, HandleClosed, NoSuchHandler, routerVars, Inv, TypeOK
  <1>8. BatchInv' /\ wakeups' \in Nat /\ selected' \in [Route -> Nat] /\ SelectedInv'
    <2>1. CASE Select
      <3>1. \A i \in DOMAIN batch' : batch'[i].closed => batch'[i].id \in closed
        <4>1. \A id : Pending(id).closed = (id \in closed)
          BY DEF Pending
        <4>2. \A i \in DOMAIN batch' : batch'[i] = Pending(batch'[i].id)
          BY <2>1, SelectedBatch
        <4> QED
          BY <4>1, <4>2
      <3>2. pc'[Router] = "batch"
        BY <2>1 DEF Select, Go, Inv, TypeOK
      <3>3. BatchInv'
        BY <1>3, <2>1, <3>1, <3>2, SelectedBatch DEF BatchInv
      <3>4. DOMAIN selected' = Route /\ selected' = [r \in Route |-> selected'[r]]
        BY <2>1 DEF Select
      <3>5. selected' \in [Route -> Nat] /\ SelectedInv'
        BY <1>3, <2>1, <3>4, SelectedBatch DEF SelectedInv
      <3> QED
        BY <2>1, <3>3, <3>5, SelectedBatch
    <2>2. CASE ~Select
      <3>1. wakeups' = wakeups /\ selected' = selected
        BY <2>2 DEF BatchDone, AddRoute, Shutdown, HandleClosed, NoSuchHandler, commVars, routeVars
      <3>2. SelectedInv' /\ wakeups' \in Nat /\ selected' \in [Route -> Nat]
        BY <1>3, <3>1 DEF Inv, TypeOK, SelectedInv
      <3>3. CASE BatchDone
        BY <3>1, <3>3, <1>3, <3>2 DEF BatchDone, Inv, BatchInv, routerVars
      <3>4. CASE Shutdown
        BY <3>1, <3>4, <3>2 DEF Shutdown, BatchInv, Batch, Distinct
      <3>5. CASE AddRoute \/ NoSuchHandler
        <4>1. pc'[Router] # "select"
          BY <3>5 DEF AddRoute, NoSuchHandler, Go, Inv, TypeOK
        <4> QED
          BY <1>3, <3>1, <3>2, <3>5, <4>1, SameBatch DEF AddRoute, NoSuchHandler, Inv, routerVars
      <3>6. CASE HandleClosed
        <4>1. batch \in Batch /\ batch # <<>> /\ batch' = Tail(batch) /\ pc'[Router] = "batch"
          BY <3>6 DEF HandleClosed, AtClosed, Inv, BatchInv
        <4>2. batch' \in Batch /\ \A k \in DOMAIN batch' : batch'[k] = batch[k + 1] /\ k + 1 \in DOMAIN batch
          BY <4>1, TailOfBatch
        <4> QED
          BY <1>3, <3>1, <3>2, <4>1, <4>2 DEF Inv, BatchInv
      <3> QED
        BY <2>2, <3>3, <3>4, <3>5, <3>6
    <2> QED
      BY <2>1, <2>2
  <1>9. TypeOK'
    BY <1>1, <1>3, <1>6, <1>7, <1>8 DEF Inv, TypeOK, BatchInv, Batch, callVars, proxyVars
  <1> QED
    BY <1>4, <1>5, <1>8, <1>9 DEF Inv

LEMMA InvSenders ==
  ASSUME Inv, (\E r \in Route : Send(r) \/ Close(r)) \/ DropProxy
  PROVE  Inv'
  <1>1. /\ UNCHANGED <<pc, callVars, proxyVars, commVars, selected, handled, routerVars>>
        /\ closed \subseteq closed' /\ closed' \subseteq Route \cup {Wakeup}
        /\ sent' \in [Route -> Nat] /\ \A r \in Route : sent[r] <= sent'[r]
    <2>1. sent \in [Route -> Nat] /\ closed \subseteq Route \cup {Wakeup}
      BY DEF Inv, TypeOK
    <2>2. CASE \E r \in Route : Send(r)
      BY <2>1, <2>2 DEF Send
    <2>3. CASE (\E r \in Route : Close(r)) \/ DropProxy
      BY <2>1, <2>3 DEF Close, DropProxy
    <2> QED
      BY <2>2, <2>3
  <1>2. TypeOK'
    BY <1>1 DEF Inv, TypeOK, callVars, proxyVars, commVars, routerVars
  <1>3. PlaceInv' /\ LockHeld'
    BY <1>1 DEF Inv, PlaceInv, LockHeld, InCall, callVars, proxyVars
  <1>4. BatchInv'
    BY <1>1, SameBatch DEF Inv, routerVars
  <1>5. SelectedInv'
    BY <1>1 DEF Inv, SelectedInv, TypeOK
  <1> QED
    BY <1>2, <1>3, <1>4, <1>5 DEF Inv

LEMMA InvStep == Inv /\ [Next]_vars => Inv'
  <1> SUFFICES ASSUME Inv, [Next]_vars PROVE Inv'
    OBVIOUS
  <1>1. CASE UNCHANGED vars
    BY <1>1 DEF vars, callVars, proxyVars, commVars, routeVars, routerVars,
       Inv, TypeOK, PlaceInv, LockHeld, InCall, BatchInv, SelectedInv
  <1>2. CASE Next
    BY <1>2, InvCall, InvProxy, InvHandle, InvRouter, InvSenders DEF Next, Run
  <1> QED
    BY <1>1, <1>2

\* The types, and calls that do not mix: what a caller sends and wakes the router
\* up with, it does with the lock in its hand (router.rs:55-113).
THEOREM CallsHoldLock == Spec => []TypeOK /\ []LockHeld
  <1>1. Inv => TypeOK /\ LockHeld
    BY DEF Inv
  <1> QED
    BY <1>1, InvInit, InvStep, PTL DEF Spec

-----------------------------------------------------------------------------
(* Each message to a route is handled once, in order. *)

\* What the steps of the router and the others do to the batch.
LEMMA LeftOfOthers ==
  ASSUME Inv, [Next]_vars, ~Select, ~HandleMessage, ~WokenUp, ~RouterEnded'
  PROVE  /\ ~RouterEnded
         /\ selected' = selected /\ handled' = handled
         /\ \A id : Left(batch', id) = Left(batch, id)
  <1> USE RouterAssumption DEF Actor
  <1>1. CASE HandleClosed
    <2>1. batch \in Batch /\ batch # <<>> /\ batch' = Tail(batch) /\ batch[1].n = batch[1].upto
          /\ pc[Router] = "batch"
      BY <1>1 DEF HandleClosed, AtClosed, Current, Inv, BatchInv
    <2>2. 1 \in DOMAIN batch /\ batch[1] \in Report /\ Distinct(batch)
      BY <2>1 DEF Batch
    <2>3. Left(batch, batch[1].id) = 0
      BY <2>1, <2>2, LeftOfReport DEF Report
    <2>4. \A id : Left(batch', id) = Left(batch, id)
      BY <2>1, <2>3, TailOfBatch
    <2> QED
      BY <1>1, <2>1, <2>4 DEF HandleClosed, RouterEnded, routeVars
  <1>2. CASE UNCHANGED vars
    BY <1>2 DEF vars, routeVars, routerVars, RouterEnded
  <1>3. CASE BatchDone \/ AddRoute \/ (\E t \in Thread : Call(t)) \/ (\E r \in Route : Send(r) \/ Close(r)) \/ DropProxy
    <2>1. UNCHANGED <<batch, selected, handled>>
      BY <1>3 DEF BatchDone, AddRoute, Call, Send, Close, DropProxy, routeVars, routerVars
    <2>2. ~RouterEnded
      BY <1>3 DEF BatchDone, AddRoute, Call, Send, Close, DropProxy, RouterEnded, Go, Inv, TypeOK
    <2> QED
      BY <2>1, <2>2
  <1>4. CASE \E a \in Actor : Proxy(a)
    <2>1. PICK a \in Actor : Proxy(a)
      BY <1>4
    <2>2. UNCHANGED <<batch, selected, handled>>
      BY <2>1 DEF Proxy, Lock, LockPoisoned, SendMessage, Wake, ReceiveAck, Join, routeVars, routerVars
    <2>3. pc[a] \in {"lock", "send", "wake", "ack", "join"} /\ \E place : pc' = [pc EXCEPT ![a] = place]
      BY <2>1 DEF Proxy, Lock, LockPoisoned, SendMessage, Wake, ReceiveAck, Join, Go, Resume, PanicLocked
    <2>4. ~RouterEnded
      BY <2>3 DEF RouterEnded, Inv, TypeOK
    <2> QED
      BY <2>2, <2>4
  <1>5. ~Shutdown /\ ~NoSuchHandler
    BY DEF Shutdown, NoSuchHandler, Go, RouterEnded, Inv, TypeOK
  <1> QED
    BY <1>1, <1>2, <1>3, <1>4, <1>5 DEF Next, Run

\* What is handled never shrinks but by a message at a time.
LEMMA HandledOfOthers ==
  ASSUME [Next]_vars, ~HandleMessage
  PROVE  handled' = handled
  BY DEF Next, Run, vars, Call, Proxy, Lock, LockPoisoned, SendMessage, Wake, ReceiveAck, Join, Send, Close, DropProxy,
         Select, BatchDone, WokenUp, AddRoute, Shutdown, HandleClosed, NoSuchHandler, routeVars

LEMMA SkippedStep == Inv /\ NothingSkipped /\ [Next]_vars => NothingSkipped'
  <1> SUFFICES ASSUME Inv, NothingSkipped, [Next]_vars, NEW r \in Route
               PROVE  /\ \A i \in DOMAIN handled'[r] : handled'[r][i] = i
                      /\ ~RouterEnded' => Len(handled'[r]) + Left(batch', r) = selected'[r]
    BY DEF NothingSkipped
  <1> USE RouterAssumption
  <1>1. /\ handled[r] \in Seq(Nat) /\ selected[r] \in Nat
        /\ \A i \in DOMAIN handled[r] : handled[r][i] = i
        /\ ~RouterEnded => Len(handled[r]) + Left(batch, r) = selected[r]
    BY DEF Inv, TypeOK, NothingSkipped
  <1>2. CASE HandleMessage
    <2>1. AtMessage /\ TakeMessage /\ pc[Router] = "batch"
      BY <1>2 DEF HandleMessage, AtMessage
    <2>2. /\ Current = batch[1] /\ batch[1].id \in Route
          /\ batch[1].n \in Nat /\ batch[1].upto \in Nat
          /\ handled' = [handled EXCEPT ![batch[1].id] = Append(@, batch[1].n + 1)]
          /\ selected' = selected
      BY <1>2, <2>1, Taken DEF HandleMessage, Inv, TypeOK, Report
    <2>3. Len(handled[r]) + Left(batch, r) = selected[r]
      BY <1>1, <2>1 DEF RouterEnded
    <2>4. CASE r = batch[1].id
      <3>1. /\ Left(batch, r) = batch[1].upto - batch[1].n /\ batch[1].upto = selected[r]
            /\ Left(batch', r) = Left(batch, r) - 1
        BY <2>1, <2>2, <2>4, Taken
      <3>2. Len(handled[r]) = batch[1].n /\ Len(handled[r]) \in Nat
        BY <1>1, <2>2, <2>3, <3>1
      <3>3. handled'[r] = Append(handled[r], Len(handled[r]) + 1)
        BY <2>2, <2>4, <3>2 DEF Inv, TypeOK
      <3>4. \A i \in DOMAIN handled'[r] : handled'[r][i] = i
        BY <1>1, <3>3
      <3>5. Len(handled'[r]) = Len(handled[r]) + 1
        BY <1>1, <3>3
      <3>6. Left(batch', r) = selected[r] - Len(handled[r]) - 1 /\ selected'[r] = selected[r]
        BY <2>2, <3>1, <3>2
      <3>7. Len(handled'[r]) + Left(batch', r) = selected'[r]
        BY <1>1, <3>2, <3>5, <3>6
      <3> QED
        BY <3>4, <3>7
    <2>5. CASE r # batch[1].id
      <3>1. handled'[r] = handled[r]
        BY <2>2, <2>5 DEF Inv, TypeOK
      <3>2. Left(batch', r) = Left(batch, r)
        BY <2>1, <2>5, Taken
      <3> QED
        BY <1>1, <2>2, <2>3, <3>1, <3>2
    <2> QED
      BY <2>4, <2>5
  <1>3. CASE Select
    <2>1. /\ batch = <<>> /\ ~RouterEnded
      BY <1>3 DEF Select, RouterEnded, Inv, BatchInv
    <2>2. Left(batch, r) = 0
      BY <2>1, LeftOfNone
    <2>3. Left(batch', r) = selected'[r] - selected[r] /\ selected'[r] \in Nat
      BY <1>3, SelectedBatch
    <2>4. handled' = handled
      BY <1>3 DEF Select
    <2> QED
      BY <1>1, <2>1, <2>2, <2>3, <2>4
  <1>4. CASE WokenUp
    <2>1. AtMessage /\ TakeMessage /\ ~RouterEnded /\ Current.id = Wakeup
      BY <1>4 DEF WokenUp, AtMessage, RouterEnded
    <2>2. Left(batch', r) = Left(batch, r)
      BY <2>1, Taken
    <2>3. handled' = handled /\ selected' = selected
      BY <1>4 DEF WokenUp, routeVars
    <2> QED
      BY <1>1, <2>1, <2>2, <2>3
  <1>5. CASE ~HandleMessage /\ ~Select /\ ~WokenUp
    <2>1. handled' = handled
      BY <1>5, HandledOfOthers
    <2>2. ASSUME ~RouterEnded' PROVE Len(handled'[r]) + Left(batch', r) = selected'[r]
      BY <1>1, <1>5, <2>1, <2>2, LeftOfOthers
    <2> QED
      BY <1>1, <2>1, <2>2
  <1> QED
    BY <1>2, <1>3, <1>4, <1>5

\* Every message of a route reaches its handler once, and in order, until the
\* router ends (router.rs:222-246).
THEOREM EachMessageOnce == Spec => []NothingSkipped
  <1>1. Init => NothingSkipped
    <2> SUFFICES ASSUME Init, NEW r \in Route
                 PROVE  handled[r] = <<>> /\ selected[r] = 0 /\ Left(batch, r) = 0
      BY DEF NothingSkipped
    <2>1. batch = <<>> /\ handled[r] = <<>> /\ selected[r] = 0
      BY DEF Init
    <2> QED
      BY <2>1, LeftOfNone
  <1> QED
    BY <1>1, InvInit, InvStep, SkippedStep, PTL DEF Spec

-----------------------------------------------------------------------------
(* The router is woken up once for each message. *)

\* What Half is, for a caller that holds the lock and when nobody does.
LEMMA HalfOfCaller ==
  ASSUME Inv, NEW a \in Actor, InCall(a), NEW op, NEW place
  PROVE  Half(op, place) = IF pc[a] = place /\ call[a].op = op THEN 1 ELSE 0
  <1>1. holder = a
    BY DEF Inv, LockHeld
  <1> QED
    BY <1>1 DEF Half

LEMMA HalfOfNone ==
  ASSUME holder = NoThread, NEW op, NEW place
  PROVE  Half(op, place) = 0
  BY RouterAssumption DEF Half, Actor

\* The calls, each of which changes what it holds the lock for.
LEMMA WakeupProxy ==
  ASSUME Inv, OneWakeupPerMessage, NEW a \in Actor, Proxy(a), Inv', ~RouterEnded'
  PROVE  OneWakeupPerMessage'
  <1> USE RouterAssumption
  <1>1. /\ UNCHANGED <<callVars, batch>>
        /\ pc[a] \in {"lock", "send", "wake", "ack", "join"}
        /\ \E place \in {"send", "wake", "idle", "batch", "ack", "join", "panicked"} : pc' = [pc EXCEPT ![a] = place]
    BY DEF Proxy, Lock, LockPoisoned, SendMessage, Wake, ReceiveAck, Join, Go, Resume, PanicLocked, routerVars
  <1>2. /\ pc[Router] = "recv" <=> pc'[Router] = "recv"
        /\ ~RouterEnded
    BY <1>1 DEF RouterEnded, Inv, TypeOK, Actor
  <1>3. /\ wakeups \in Nat /\ Len(msgs) \in Nat
        /\ Left(batch', Wakeup) = Left(batch, Wakeup)
        /\ call'[a] = call[a] /\ call[a] \in CallType
    BY <1>1 DEF Inv, TypeOK, PlaceInv, callVars
  <1>4. wakeups + Left(batch, Wakeup) + (IF pc[Router] = "recv" THEN 1 ELSE 0) + Half("add_route", "wake")
            = Len(msgs) + Half("shutdown", "send")
    BY <1>2 DEF OneWakeupPerMessage
  <1>5. Left(batch, Wakeup) \in Int
    <2>1. CASE \E k \in DOMAIN batch : batch[k].id = Wakeup
      <3>1. PICK k \in DOMAIN batch : batch[k].id = Wakeup
        BY <2>1
      <3>2. Distinct(batch) /\ batch[k] \in Report
        BY DEF Inv, BatchInv, Batch
      <3>3. Left(batch, Wakeup) = batch[k].upto - batch[k].n
        BY <3>1, <3>2, LeftOfReport
      <3> QED
        BY <3>2, <3>3 DEF Report
    <2>2. CASE \A k \in DOMAIN batch : batch[k].id # Wakeup
      BY <2>2, LeftOfNone
    <2> QED
      BY <2>1, <2>2
  <1> DEFINE recv == IF pc[Router] = "recv" THEN 1 ELSE 0
             Goal(w, m, add, down) == w + Left(batch, Wakeup) + recv + add = m + down
  <1>6. SUFFICES Goal(wakeups', Len(msgs'), Half("add_route", "wake")', Half("shutdown", "send")')
    BY <1>2, <1>3 DEF OneWakeupPerMessage
  <1>7. CASE Lock(a) \/ LockPoisoned(a)
    <2>1. holder = NoThread /\ Half("add_route", "wake") = 0 /\ Half("shutdown", "send") = 0
      BY <1>7, HalfOfNone DEF Lock, LockPoisoned
    <2>2. wakeups' = wakeups /\ msgs' = msgs
      BY <1>7 DEF Lock, LockPoisoned, commVars
    <2>3. holder' = NoThread \/ (holder' = a /\ pc'[a] = "send" /\ call[a].op = "add_route")
                             \/ (holder' = a /\ pc'[a] = "wake" /\ call[a].op = "shutdown")
      BY <1>7, <2>1 DEF Lock, LockPoisoned, Go, proxyVars, Inv, TypeOK
    <2>4. Half("add_route", "wake")' = 0 /\ Half("shutdown", "send")' = 0
      BY <1>3, <2>3 DEF Half, Actor
    <2> QED
      BY <1>4, <2>1, <2>2, <2>4
  <1>8. ASSUME InCall(a) PROVE /\ Half("add_route", "wake") = IF pc[a] = "wake" /\ call[a].op = "add_route" THEN 1 ELSE 0
                               /\ Half("shutdown", "send") = IF pc[a] = "send" /\ call[a].op = "shutdown" THEN 1 ELSE 0
                               /\ holder = a
    BY <1>8, HalfOfCaller DEF Inv, LockHeld
  <1>9. CASE SendMessage(a)
    <2>1. /\ pc[a] = "send" /\ msgs' = Append(msgs, call[a]) /\ holder' = holder /\ wakeups' = wakeups
          /\ pc'[a] = IF call[a].op = "add_route" THEN "wake" ELSE "ack"
      BY <1>2, <1>9 DEF SendMessage, Go, Inv, TypeOK
    <2>2. Len(msgs') = Len(msgs) + 1
      BY <2>1, <1>3 DEF Inv, TypeOK
    <2>3. Half("add_route", "wake") = 0 /\ Half("shutdown", "send") = (IF call[a].op = "shutdown" THEN 1 ELSE 0) /\ holder = a
      BY <1>8, <2>1 DEF InCall
    <2>4. Half("add_route", "wake")' = (IF call[a].op = "add_route" THEN 1 ELSE 0) /\ Half("shutdown", "send")' = 0
      BY <1>3, <2>1, <2>3 DEF Half
    <2>5. call[a].op \in {"add_route", "shutdown"}
      BY <1>3 DEF CallType
    <2> QED
      BY <1>3, <1>4, <1>5, <2>1, <2>2, <2>3, <2>4, <2>5
  <1>10. CASE Wake(a)
    <2>1. /\ pc[a] = "wake" /\ msgs' = msgs /\ wakeups' = wakeups + 1
          /\ \/ call[a].op = "add_route" /\ holder' = NoThread
             \/ call[a].op = "shutdown" /\ holder' = holder /\ pc'[a] = "send"
      BY <1>2, <1>10 DEF Wake, Go, Unlock, Inv, TypeOK
    <2>2. Half("add_route", "wake") = (IF call[a].op = "add_route" THEN 1 ELSE 0) /\ Half("shutdown", "send") = 0 /\ holder = a
      BY <1>8, <2>1 DEF InCall
    <2>3. Half("add_route", "wake")' = 0 /\ Half("shutdown", "send")' = (IF call[a].op = "shutdown" THEN 1 ELSE 0)
      BY <1>3, <2>1, <2>2 DEF Half, Actor
    <2> QED
      BY <1>3, <1>4, <1>5, <2>1, <2>2, <2>3
  <1>11. CASE ReceiveAck(a) \/ Join(a)
    <2>1. /\ pc[a] \in {"ack", "join"} /\ msgs' = msgs /\ wakeups' = wakeups
          /\ holder' = NoThread \/ (holder' = holder /\ pc'[a] = "join")
      BY <1>11 DEF ReceiveAck, Join, Go, Unlock, proxyVars, commVars, Inv, TypeOK
    <2>2. Half("add_route", "wake") = 0 /\ Half("shutdown", "send") = 0 /\ holder = a
      BY <1>8, <2>1 DEF InCall
    <2>3. Half("add_route", "wake")' = 0 /\ Half("shutdown", "send")' = 0
      BY <1>3, <2>1, <2>2 DEF Half, Actor
    <2> QED
      BY <1>4, <2>1, <2>2, <2>3
  <1> QED
    BY <1>7, <1>9, <1>10, <1>11 DEF Proxy

\* The router's thread and the rest, which leave the caller in the lock alone.
LEMMA SameHalf ==
  ASSUME Inv, holder # Router, holder' = holder,
         \A a \in Actor \ {Router} : pc'[a] = pc[a] \/ ~InCall(a),
         \A a \in Actor \ {Router} : call'[a] = call[a] \/ ~InCall(a),
         NEW op, NEW place
  PROVE  Half(op, place)' = Half(op, place)
  <1>1. holder \in Actor => InCall(holder)
    BY DEF Inv, LockHeld
  <1> QED
    BY <1>1 DEF Half

LEMMA WakeupStep == Inv /\ OneWakeupPerMessage /\ [Next]_vars => OneWakeupPerMessage'
  <1> SUFFICES ASSUME Inv, OneWakeupPerMessage, [Next]_vars, ~RouterEnded' PROVE OneWakeupPerMessage'
    BY DEF OneWakeupPerMessage
  <1> USE RouterAssumption
  <1>1. Inv'
    BY InvStep
  <1>2. CASE \E a \in Actor : Proxy(a)
    BY <1>1, <1>2, WakeupProxy
  <1>3. CASE UNCHANGED vars
    BY <1>3 DEF vars, callVars, proxyVars, commVars, routerVars, OneWakeupPerMessage, RouterEnded, Half
  <1>4. CASE \E t \in Thread : Call(t)
    <2>1. PICK t \in Thread : Call(t)
      BY <1>4
    <2>2. /\ pc[t] = "idle" /\ t # Router /\ UNCHANGED <<holder, wakeups, msgs, batch>>
          /\ pc' = [pc EXCEPT ![t] = "lock"] /\ pc'[Router] = pc[Router]
          /\ \E c : call' = [call EXCEPT ![t] = c]
      BY <2>1 DEF Call, Go, proxyVars, commVars, routerVars, Inv, TypeOK, Actor
    <2>3. holder \in Actor => holder # t /\ pc'[holder] = pc[holder] /\ call'[holder] = call[holder]
      BY <2>2 DEF Inv, LockHeld, InCall, TypeOK
    <2>4. \A op, place : Half(op, place)' = Half(op, place)
      BY <2>2, <2>3 DEF Half
    <2> QED
      BY <2>2, <2>4 DEF OneWakeupPerMessage, RouterEnded
  <1>5. CASE (\E r \in Route : Send(r) \/ Close(r)) \/ DropProxy
    <2>1. UNCHANGED <<pc, call, holder, wakeups, msgs, batch>>
      BY <1>5 DEF Send, Close, DropProxy, callVars, proxyVars, commVars, routerVars
    <2> QED
      BY <2>1 DEF OneWakeupPerMessage, RouterEnded, Half
  <1>6. ASSUME Run PROVE /\ pc[Router] \in {"select", "batch", "recv"} /\ ~RouterEnded
                         /\ holder # Router /\ holder' = holder
                         /\ \A a \in Actor \ {Router} : pc'[a] = pc[a] /\ call'[a] = call[a]
    <2>1. pc[Router] \in {"select", "batch", "recv"}
      BY <1>6 DEF Run, Select, BatchDone, WokenUp, AddRoute, Shutdown, HandleMessage, HandleClosed, NoSuchHandler, AtMessage, AtClosed
    <2>2. ~RouterEnded /\ holder # Router
      BY <2>1 DEF RouterEnded, Inv, LockHeld, InCall, Actor
    <2>3. holder' = holder
      BY <1>6 DEF Run, Select, BatchDone, WokenUp, AddRoute, Shutdown, HandleMessage, HandleClosed, NoSuchHandler, proxyVars
    <2>4. ASSUME NEW a \in Actor, a # Router PROVE pc'[a] = pc[a]
      BY <1>6, <2>4 DEF Run, Select, BatchDone, WokenUp, AddRoute, Shutdown, HandleMessage, HandleClosed, NoSuchHandler, Go, Inv, TypeOK
    <2>5. ASSUME NEW a \in Actor, a # Router PROVE call'[a] = call[a]
      BY <1>6, <2>5 DEF Run, Select, BatchDone, WokenUp, AddRoute, Shutdown, HandleMessage, HandleClosed, NoSuchHandler, callVars, Inv, TypeOK
    <2> QED
      BY <2>1, <2>2, <2>3, <2>4, <2>5
  <1>7. CASE Run
    <2>1. /\ Half("add_route", "wake")' = Half("add_route", "wake")
          /\ Half("shutdown", "send")' = Half("shutdown", "send")
      BY <1>6, <1>7, SameHalf
    <2>2. wakeups + Left(batch, Wakeup) + (IF pc[Router] = "recv" THEN 1 ELSE 0) + Half("add_route", "wake")
            = Len(msgs) + Half("shutdown", "send")
      BY <1>6, <1>7 DEF OneWakeupPerMessage
    <2>3. \A op, place : Half(op, place) \in {0, 1}
      BY DEF Half
    <2>4. wakeups \in Nat /\ msgs \in Seq(CallType) /\ wakeups' \in Nat
      BY <1>1 DEF Inv, TypeOK
    <2>5. SUFFICES wakeups' + Left(batch', Wakeup) + (IF pc'[Router] = "recv" THEN 1 ELSE 0) + Half("add_route", "wake")
            = Len(msgs') + Half("shutdown", "send")
      BY <2>1 DEF OneWakeupPerMessage
    <2>6. CASE Select
      <3>1. batch = <<>> /\ pc[Router] = "select" /\ pc'[Router] = "batch" /\ msgs' = msgs
        BY <2>6 DEF Select, Go, Inv, BatchInv, TypeOK, Actor
      <3>2. Left(batch, Wakeup) = 0
        BY <3>1, LeftOfNone
      <3>3. Left(batch', Wakeup) = wakeups - wakeups'
        BY <2>6, SelectedBatch
      <3> QED
        BY <2>2, <2>3, <2>4, <3>1, <3>2, <3>3
    <2>7. CASE WokenUp
      <3>1. AtMessage /\ TakeMessage /\ Current.id = Wakeup /\ pc[Router] = "batch" /\ pc'[Router] = "recv"
            /\ wakeups' = wakeups /\ msgs' = msgs
        BY <2>7 DEF WokenUp, AtMessage, Go, commVars, Inv, TypeOK, Actor
      <3>2. Left(batch', Wakeup) = Left(batch, Wakeup) - 1
        BY <3>1, Taken
      <3>3. Left(batch, Wakeup) = batch[1].upto - batch[1].n /\ batch[1] \in Report
        BY <3>1, Taken
      <3>4. Left(batch, Wakeup) \in Int
        BY <3>3 DEF Report
      <3> QED
        BY <2>2, <2>3, <2>4, <3>1, <3>2, <3>4
    <2>8. CASE HandleMessage
      <3>1. AtMessage /\ TakeMessage /\ Current.id # Wakeup /\ pc[Router] = "batch"
            /\ wakeups' = wakeups /\ msgs' = msgs /\ pc'[Router] # "recv"
        BY <2>8 DEF HandleMessage, AtMessage, Go, commVars, Inv, TypeOK, Actor
      <3>2. Left(batch', Wakeup) = Left(batch, Wakeup)
        BY <3>1, Taken
      <3> QED
        BY <2>2, <3>1, <3>2
    <2>9. CASE AddRoute
      <3>1. /\ pc[Router] = "recv" /\ pc'[Router] = "batch" /\ wakeups' = wakeups /\ batch' = batch
            /\ msgs # <<>> /\ msgs' = Tail(msgs)
        BY <2>9 DEF AddRoute, Go, Inv, TypeOK, Actor
      <3>2. Len(msgs') = Len(msgs) - 1 /\ Len(msgs) \in Nat
        BY <2>4, <3>1
      <3>3. Left(batch', Wakeup) = Left(batch, Wakeup)
        BY <3>1
      <3>4. Left(batch, Wakeup) \in Int
        <4>1. Distinct(batch) /\ batch \in Seq(Report)
          BY DEF Inv, BatchInv, Batch
        <4>2. \A k \in DOMAIN batch : batch[k].id = Wakeup => Left(batch, Wakeup) = batch[k].upto - batch[k].n /\ batch[k] \in Report
          BY <4>1, LeftOfReport
        <4> QED
          BY <4>2, LeftOfNone DEF Report
      <3>5. wakeups + Left(batch, Wakeup) + 1 + Half("add_route", "wake") = Len(msgs) + Half("shutdown", "send")
        BY <2>2, <3>1
      <3>6. wakeups' + Left(batch', Wakeup) + Half("add_route", "wake") = Len(msgs') + Half("shutdown", "send")
        <4> DEFINE left == Left(batch, Wakeup)
                   add == Half("add_route", "wake")
                   down == Half("shutdown", "send")
                   n == Len(msgs)
                   n1 == Len(msgs')
        <4>1. add \in {0, 1} /\ down \in {0, 1} /\ left \in Int /\ n \in Nat /\ n1 = n - 1 /\ wakeups \in Nat
          BY <2>3, <2>4, <3>2, <3>4
        <4>2. wakeups + left + 1 + add = n + down
          BY <3>5
        <4>3. wakeups' = wakeups /\ Left(batch', Wakeup) = left
          BY <3>1, <3>3
        <4> HIDE DEF left, add, down, n, n1
        <4>4. wakeups + left + add = n1 + down
          BY ONLY <4>1, <4>2
        <4>5. wakeups' + Left(batch', Wakeup) + add = n1 + down
          BY <4>3, <4>4
        <4> USE DEF left, add, down, n, n1
        <4> QED
          BY <4>5
      <3> QED
        BY <2>3, <2>4, <3>1, <3>3, <3>4, <3>6
    <2>10. CASE BatchDone \/ HandleClosed
      <3>1. /\ pc[Router] # "recv" /\ pc'[Router] # "recv" /\ wakeups' = wakeups /\ msgs' = msgs
        BY <2>10 DEF BatchDone, HandleClosed, AtClosed, Go, commVars, Inv, TypeOK, Actor
      <3>2. ~Select /\ ~HandleMessage /\ ~WokenUp
        <4>1. pc[Router] = "batch" /\ (batch # <<>> => Current.n = Current.upto)
          BY <2>10 DEF BatchDone, HandleClosed, AtClosed
        <4>2. ~AtMessage
          <5> SUFFICES ASSUME AtMessage PROVE FALSE
            OBVIOUS
          <5>1. Current \in Report /\ Current.n < Current.upto
            BY DEF AtMessage, Current, Inv, BatchInv, Batch
          <5> QED
            BY <4>1, <5>1 DEF AtMessage, Report
        <4> QED
          BY <4>1, <4>2 DEF Select, HandleMessage, WokenUp
      <3>3. Left(batch', Wakeup) = Left(batch, Wakeup)
        BY <3>2, LeftOfOthers
      <3> QED
        BY <2>2, <3>1, <3>3
    <2>11. ~Shutdown /\ ~NoSuchHandler
      BY DEF Shutdown, NoSuchHandler, Go, RouterEnded, Inv, TypeOK, Actor
    <2> QED
      BY <1>7, <2>6, <2>7, <2>8, <2>9, <2>10, <2>11 DEF Run
  <1> QED
    BY <1>2, <1>3, <1>4, <1>5, <1>7 DEF Next

\* As many wake-ups as messages, but for a call that has made one of the two: the
\* wake-up tells the router that there is a message, or one to come (router.rs:62-113).
THEOREM WokenUpOncePerMessage == Spec => []OneWakeupPerMessage
  <1>1. Init => OneWakeupPerMessage
    <2> SUFFICES ASSUME Init PROVE OneWakeupPerMessage
      OBVIOUS
    <2>1. /\ wakeups = 0 /\ msgs = <<>> /\ batch = <<>> /\ holder = NoThread /\ pc[Router] = "select"
      BY DEF Init, Actor
    <2>2. Left(batch, Wakeup) = 0
      BY <2>1, LeftOfNone
    <2>3. Half("add_route", "wake") = 0 /\ Half("shutdown", "send") = 0
      BY <2>1, HalfOfNone
    <2> QED
      BY <2>1, <2>2, <2>3 DEF OneWakeupPerMessage
  <1> QED
    BY <1>1, InvInit, InvStep, WakeupStep, PTL DEF Spec

-----------------------------------------------------------------------------
(* Routes that are added before a shutdown. *)

Known(r) == r \in handlers \cup closed
Queued(r) == \E k \in DOMAIN msgs : msgs[k] = [op |-> "add_route", route |-> r]

\* The calls of a thread that have sent their route.
SentRoute(t, i) ==
    /\ i \in 1 .. done[t] /\ Calls[t][i].op = "add_route"
    /\ i < done[t] \/ pc[t] \in {"idle", "wake"}

CallInv ==
    \A t \in Thread :
        /\ done[t] <= Len(Calls[t])
        /\ pc[t] # "idle" => done[t] > 0
        /\ done[t] > 0 => call[t] = Calls[t][done[t]]

\* Who sends a shutdown waits for the router, and locks the others out.
LastMessageInv ==
    /\ \A k \in DOMAIN msgs : msgs[k].op = "shutdown" =>
            k = Len(msgs) /\ holder \in Actor /\ pc[holder] = "ack"
    /\ acked => msgs = <<>> /\ pc[Router] = "returned"

AddedInv == \A t \in Thread : \A i \in 1 .. done[t] :
                SentRoute(t, i) => Known(Calls[t][i].route) \/ Queued(Calls[t][i].route)

RouteInv == CallInv /\ LastMessageInv /\ AddedInv

LEMMA RouteInvImplies == RouteInv => RoutesAddedBeforeShutdown
  <1> SUFFICES ASSUME RouteInv, acked, NEW t \in Thread, NEW i \in 1 .. done[t],
                      Calls[t][i].op = "add_route", i < done[t] \/ pc[t] = "idle"
               PROVE  Calls[t][i].route \in handlers \cup closed
    BY DEF RoutesAddedBeforeShutdown
  <1>1. SentRoute(t, i)
    BY DEF SentRoute
  <1>2. ~Queued(Calls[t][i].route)
    BY DEF RouteInv, LastMessageInv, Queued
  <1> QED
    BY <1>1, <1>2 DEF RouteInv, AddedInv, Known

LEMMA CallTypes ==
  ASSUME Inv, CallInv, NEW t \in Thread
  PROVE  /\ done[t] \in Nat
         /\ \A i \in 1 .. done[t] : Calls[t][i] \in CallType
  <1>1. done[t] \in Nat /\ done[t] <= Len(Calls[t]) /\ Calls[t] \in Seq(CallType)
    BY RouterAssumption DEF Inv, TypeOK, CallInv
  <1> QED
    BY <1>1

\* A step that keeps the messages that wait and the routes that are known.
LEMMA SameRoutes ==
  ASSUME AddedInv, UNCHANGED <<msgs, done>>,
         \A r : Known(r) => Known(r)',
         \A t \in Thread : pc'[t] \in {"idle", "wake"} => pc[t] \in {"idle", "wake"}
  PROVE  AddedInv'
  BY DEF AddedInv, SentRoute, Queued

LEMMA CallInvStep == Inv /\ CallInv /\ [Next]_vars => CallInv'
  <1> SUFFICES ASSUME Inv, CallInv, [Next]_vars, NEW t \in Thread
               PROVE  /\ done'[t] <= Len(Calls[t])
                      /\ pc'[t] # "idle" => done'[t] > 0
                      /\ done'[t] > 0 => call'[t] = Calls[t][done'[t]]
    BY DEF CallInv
  <1> USE RouterAssumption DEF Actor
  <1>1. /\ done[t] \in Nat /\ done[t] <= Len(Calls[t]) /\ Len(Calls[t]) \in Nat
        /\ pc[t] # "idle" => done[t] > 0
        /\ done[t] > 0 => call[t] = Calls[t][done[t]]
    BY DEF CallInv, Inv, TypeOK
  <1>2. CASE Call(t)
    <2>1. done'[t] = done[t] + 1 /\ call'[t] = Calls[t][done[t] + 1] /\ done[t] < Len(Calls[t])
      BY <1>2 DEF Call, Inv, TypeOK
    <2> QED
      BY <1>1, <2>1
  <1>3. CASE ~Call(t)
    <2>1. done'[t] = done[t]
      <3>1. CASE \E u \in Thread \ {t} : Call(u)
        BY <3>1 DEF Call, Inv, TypeOK
      <3>2. CASE ~\E u \in Thread : Call(u)
        BY <3>2 DEF Next, Run, Proxy, Lock, LockPoisoned, SendMessage, Wake, ReceiveAck, Join, Send, Close, DropProxy,
           Select, BatchDone, WokenUp, AddRoute, Shutdown, HandleMessage, HandleClosed, NoSuchHandler, callVars, vars
      <3> QED
        BY <1>3, <3>1, <3>2
    <2>2. call'[t] = call[t]
      <3>1. CASE \E u \in Thread \ {t} : Call(u)
        BY <3>1 DEF Call, Inv, TypeOK
      <3>2. CASE HandleMessage
        BY <3>2 DEF HandleMessage, Inv, TypeOK
      <3>3. CASE ~HandleMessage /\ ~\E u \in Thread : Call(u)
        BY <3>3 DEF Next, Run, Proxy, Lock, LockPoisoned, SendMessage, Wake, ReceiveAck, Join, Send, Close, DropProxy,
           Select, BatchDone, WokenUp, AddRoute, Shutdown, HandleClosed, NoSuchHandler, callVars, vars
      <3> QED
        BY <1>3, <3>1, <3>2, <3>3
    <2>3. pc'[t] # "idle" => pc[t] # "idle"
      <3>1. CASE \E u \in Thread \ {t} : Call(u)
        BY <3>1 DEF Call, Go, Inv, TypeOK
      <3>2. CASE \E a \in Actor : Proxy(a)
        <4>1. PICK a \in Actor : Proxy(a)
          BY <3>2
        <4>2. pc[a] # "idle" /\ \E place : pc' = [pc EXCEPT ![a] = place]
          BY <4>1 DEF Proxy, Lock, LockPoisoned, SendMessage, Wake, ReceiveAck, Join, Go, Resume, PanicLocked
        <4> QED
          BY <4>2 DEF Inv, TypeOK
      <3>3. CASE Run
        <4>1. pc'[t] = pc[t]
          BY <3>3 DEF Run, Select, BatchDone, WokenUp, AddRoute, Shutdown, HandleMessage, HandleClosed, NoSuchHandler, Go, Inv, TypeOK
        <4> QED
          BY <4>1
      <3>4. CASE (\E r \in Route : Send(r) \/ Close(r)) \/ DropProxy \/ UNCHANGED vars
        BY <3>4 DEF Send, Close, DropProxy, vars
      <3> QED
        BY <1>3, <3>1, <3>2, <3>3, <3>4 DEF Next
    <2> QED
      BY <1>1, <2>1, <2>2, <2>3
  <1> QED
    BY <1>2, <1>3

LEMMA LastMessageStep == Inv /\ LastMessageInv /\ [Next]_vars => LastMessageInv'
  <1> SUFFICES ASSUME Inv, LastMessageInv, [Next]_vars PROVE LastMessageInv'
    OBVIOUS
  <1> USE RouterAssumption DEF Actor
  <1>1. CASE \E a \in Actor : Proxy(a)
    <2>1. PICK a \in Actor : Proxy(a)
      BY <1>1
    <2>2. /\ pc[a] \in {"lock", "send", "wake", "ack", "join"}
          /\ \E place : pc' = [pc EXCEPT ![a] = place]
          /\ UNCHANGED acked
      BY <2>1 DEF Proxy, Lock, LockPoisoned, SendMessage, Wake, ReceiveAck, Join, Go, Resume, PanicLocked, commVars
    <2>3. acked => pc'[Router] = "returned" /\ msgs = <<>> /\ RouterEnded
      BY <2>2 DEF LastMessageInv, Inv, TypeOK, RouterEnded
    <2>4. CASE SendMessage(a) /\ ~RouterEnded
      <3>1. /\ pc[a] = "send" /\ holder' = holder /\ holder = a
            /\ msgs' = Append(msgs, call[a]) /\ call[a] \in CallType
            /\ pc'[a] = IF call[a].op = "add_route" THEN "wake" ELSE "ack"
        BY <2>4 DEF SendMessage, Go, Inv, TypeOK, PlaceInv, LockHeld, InCall
      <3>2. /\ msgs \in Seq(CallType) /\ \A k \in DOMAIN msgs : msgs[k].op # "shutdown"
        BY <3>1 DEF LastMessageInv, Inv, TypeOK
      <3>3. /\ Len(msgs') = Len(msgs) + 1 /\ DOMAIN msgs' = 1 .. Len(msgs) + 1
            /\ msgs'[Len(msgs) + 1] = call[a]
            /\ \A k \in 1 .. Len(msgs) : msgs'[k] = msgs[k]
        BY <3>1, <3>2
      <3>4. ASSUME NEW k \in DOMAIN msgs', msgs'[k].op = "shutdown"
            PROVE  k = Len(msgs') /\ holder' = a /\ pc'[a] = "ack"
        <4>1. k = Len(msgs) + 1
          <5>1. Len(msgs) \in Nat /\ DOMAIN msgs = 1 .. Len(msgs) /\ k \in 1 .. Len(msgs) + 1
            BY <3>2, <3>3
          <5>2. k \notin 1 .. Len(msgs)
            BY <3>2, <3>3, <3>4, <5>1
          <5> QED
            BY <5>1, <5>2
        <4> QED
          BY <3>1, <3>3, <3>4, <4>1
      <3> QED
        BY <2>2, <2>3, <2>4, <3>4 DEF LastMessageInv
    <2>5. CASE ~SendMessage(a) \/ RouterEnded
      <3>1. msgs' = msgs
        BY <2>1, <2>5 DEF Proxy, Lock, LockPoisoned, SendMessage, Wake, ReceiveAck, Join, commVars
      <3>2. ASSUME NEW k \in DOMAIN msgs, msgs[k].op = "shutdown"
            PROVE  holder' \in Actor /\ pc'[holder'] = "ack"
        <4>1. holder \in Actor /\ pc[holder] = "ack"
          BY <3>2 DEF LastMessageInv
        <4>2. a # holder
          <5>1. CASE a = holder
            <6>1. ReceiveAck(a)
              BY <2>1, <4>1, <5>1 DEF Proxy, Lock, LockPoisoned, SendMessage, Wake, Join
            <6> QED
              BY <2>3, <3>2, <6>1 DEF ReceiveAck
          <5> QED
            BY <5>1
        <4>3. pc[a] = "lock" /\ holder' = holder
          <5>1. pc[a] = "lock"
            BY <2>2, <4>1, <4>2 DEF Inv, LockHeld, InCall
          <5>2. LockPoisoned(a) \/ Lock(a)
            BY <2>1, <5>1 DEF Proxy, SendMessage, Wake, ReceiveAck, Join
          <5> QED
            BY <4>1, <5>1, <5>2 DEF LockPoisoned, Lock
        <4> QED
          BY <2>2, <4>1, <4>2, <4>3 DEF Inv, TypeOK
      <3> QED
        BY <2>2, <2>3, <3>1, <3>2 DEF LastMessageInv
    <2> QED
      BY <2>4, <2>5
  <1>2. CASE \E t \in Thread : Call(t)
    <2>1. PICK t \in Thread : Call(t)
      BY <1>2
    <2>2. /\ pc[t] = "idle" /\ pc' = [pc EXCEPT ![t] = "lock"] /\ UNCHANGED <<msgs, acked, holder>>
      BY <2>1 DEF Call, Go, proxyVars, commVars
    <2>3. pc'[Router] = pc[Router] /\ \A a \in Actor : pc[a] = "ack" => pc'[a] = "ack"
      BY <2>2 DEF Inv, TypeOK
    <2> QED
      BY <2>2, <2>3 DEF LastMessageInv
  <1>3. CASE (\E r \in Route : Send(r) \/ Close(r)) \/ DropProxy \/ UNCHANGED vars
    <2>1. UNCHANGED <<pc, holder, msgs, acked>>
      BY <1>3 DEF Send, Close, DropProxy, vars, proxyVars, commVars
    <2> QED
      BY <2>1 DEF LastMessageInv
  <1>4. CASE Run
    <2>1. /\ pc[Router] \in {"select", "batch", "recv"} /\ holder' = holder
          /\ \E place : pc' = [pc EXCEPT ![Router] = place]
      <3>1. pc[Router] \in {"select", "batch", "recv"}
        BY <1>4 DEF Run, Select, BatchDone, WokenUp, AddRoute, Shutdown, HandleMessage, HandleClosed, NoSuchHandler, AtMessage, AtClosed
      <3>2. holder' = holder
        BY <1>4 DEF Run, Select, BatchDone, WokenUp, AddRoute, Shutdown, HandleMessage, HandleClosed, NoSuchHandler, proxyVars
      <3>3. pc' = [pc EXCEPT ![Router] = pc'[Router]]
        BY <1>4 DEF Run, Select, BatchDone, WokenUp, AddRoute, Shutdown, HandleMessage, HandleClosed, NoSuchHandler, Go, Inv, TypeOK
      <3> QED
        BY <3>1, <3>2, <3>3
    <2>2. ~acked
      BY <2>1 DEF LastMessageInv
    <2>3. ASSUME holder \in Actor, pc[holder] = "ack" PROVE pc'[holder] = "ack"
      BY <2>1, <2>3 DEF Inv, TypeOK
    <2>4. CASE AddRoute \/ Shutdown
      <3>1. /\ msgs \in Seq(CallType) /\ msgs # <<>> /\ msgs' = Tail(msgs)
        BY <2>4 DEF AddRoute, Shutdown, Inv, TypeOK
      <3>2. /\ Len(msgs) \in Nat \ {0} /\ DOMAIN msgs = 1 .. Len(msgs)
            /\ Len(msgs') = Len(msgs) - 1 /\ DOMAIN msgs' = 1 .. Len(msgs) - 1
            /\ \A k \in DOMAIN msgs' : msgs'[k] = msgs[k + 1]
        BY <3>1
      <3>3. ASSUME NEW k \in DOMAIN msgs', msgs'[k].op = "shutdown"
            PROVE  k = Len(msgs') /\ holder' \in Actor /\ pc'[holder'] = "ack"
        <4>1. k + 1 \in DOMAIN msgs /\ msgs[k + 1].op = "shutdown"
          BY <3>2, <3>3
        <4>2. k + 1 = Len(msgs) /\ holder \in Actor /\ pc[holder] = "ack"
          BY <4>1 DEF LastMessageInv
        <4> QED
          BY <2>1, <2>3, <3>2, <4>1, <4>2
      <3>4. acked' => msgs' = <<>> /\ pc'[Router] = "returned"
        <4>1. CASE AddRoute
          BY <2>2, <4>1 DEF AddRoute
        <4>2. CASE Shutdown
          <5>1. 1 = Len(msgs)
            BY <3>2, <4>2 DEF Shutdown, LastMessageInv
          <5>2. msgs' = <<>>
            BY <3>1, <5>1
          <5> QED
            BY <4>2, <5>2 DEF Shutdown, Go, Inv, TypeOK
        <4> QED
          BY <2>4, <4>1, <4>2
      <3> QED
        BY <3>3, <3>4 DEF LastMessageInv
    <2>5. CASE ~AddRoute /\ ~Shutdown
      <3>1. UNCHANGED <<msgs, acked>>
        BY <1>4, <2>5 DEF Run, Select, BatchDone, WokenUp, HandleMessage, HandleClosed, NoSuchHandler, commVars
      <3> QED
        BY <2>1, <2>2, <2>3, <3>1 DEF LastMessageInv
    <2> QED
      BY <2>4, <2>5
  <1> QED
    BY <1>1, <1>2, <1>3, <1>4 DEF Next

LEMMA AddedStep == Inv /\ CallInv /\ AddedInv /\ [Next]_vars => AddedInv'
  <1> SUFFICES ASSUME Inv, CallInv, AddedInv, [Next]_vars PROVE AddedInv'
    OBVIOUS
  <1> USE RouterAssumption DEF Actor
  <1>1. CASE \E a \in Actor : Proxy(a)
    <2>1. PICK a \in Actor : Proxy(a)
      BY <1>1
    <2>2. UNCHANGED <<done, handlers, closed>> /\ \A r : Known(r)' = Known(r)
      BY <2>1 DEF Proxy, Lock, LockPoisoned, SendMessage, Wake, ReceiveAck, Join, Known, callVars, routeVars, routerVars
    <2>3. PICK place : pc' = [pc EXCEPT ![a] = place]
      BY <2>1 DEF Proxy, Lock, LockPoisoned, SendMessage, Wake, ReceiveAck, Join, Go, Resume, PanicLocked
    <2>4. \A t \in Thread \ {a} : pc'[t] = pc[t]
      BY <2>3 DEF Inv, TypeOK
    <2>5. CASE SendMessage(a) /\ ~RouterEnded
      <3>1. /\ pc[a] = "send" /\ msgs' = Append(msgs, call[a]) /\ call[a] \in CallType /\ msgs \in Seq(CallType)
            /\ pc'[a] = IF call[a].op = "add_route" THEN "wake" ELSE "ack"
        BY <2>5 DEF SendMessage, Go, Inv, TypeOK, PlaceInv
      <3>2. /\ Len(msgs) + 1 \in DOMAIN msgs' /\ msgs'[Len(msgs) + 1] = call[a]
            /\ \A k \in DOMAIN msgs : k \in DOMAIN msgs' /\ msgs'[k] = msgs[k]
        BY <3>1
      <3>3. \A r : Queued(r) => Queued(r)'
        BY <3>2 DEF Queued
      <3>4. ASSUME NEW t \in Thread, NEW i \in 1 .. done'[t], SentRoute(t, i)'
            PROVE  Known(Calls[t][i].route)' \/ Queued(Calls[t][i].route)'
        <4>1. CASE SentRoute(t, i)
          BY <2>2, <3>3, <3>4, <4>1 DEF AddedInv
        <4>2. CASE ~SentRoute(t, i)
          <5>1. t = a /\ i = done[t] /\ done[t] \in Nat /\ pc'[a] = "wake" /\ Calls[t][i].op = "add_route"
            BY <2>2, <2>4, <3>1, <3>4, <4>2 DEF SentRoute, Inv, TypeOK
          <5>2. call[a] = Calls[t][i]
            BY <5>1 DEF CallInv
          <5>3. call[a] = [op |-> "add_route", route |-> Calls[t][i].route]
            BY <3>1, <5>1, <5>2 DEF CallType
          <5>4. Queued(Calls[t][i].route)'
            BY <3>2, <5>3 DEF Queued
          <5> QED
            BY <5>4
        <4> QED
          BY <4>1, <4>2
      <3> QED
        BY <3>4 DEF AddedInv
    <2>6. CASE ~SendMessage(a) \/ RouterEnded
      <3>1. UNCHANGED msgs
        BY <2>1, <2>6 DEF Proxy, Lock, LockPoisoned, SendMessage, Wake, ReceiveAck, Join, commVars
      <3>2. CASE pc[a] = "wake" \/ pc'[a] \notin {"idle", "wake"} \/ a = Router
        <4>1. \A t \in Thread : pc'[t] \in {"idle", "wake"} => pc[t] \in {"idle", "wake"}
          BY <2>4, <3>2
        <4> QED
          BY <2>2, <3>1, <4>1, SameRoutes
      <3>3. CASE a # Router /\ pc[a] # "wake" /\ pc'[a] \in {"idle", "wake"}
        <4>1. call[a].op = "shutdown"
          <5>1. CASE Lock(a)
            BY <3>3, <5>1 DEF Lock, Go, Inv, TypeOK
          <5>2. CASE Join(a)
            BY <5>2 DEF Join, Inv, PlaceInv
          <5> QED
            BY <2>1, <2>6, <3>3, <5>1, <5>2 DEF Proxy, LockPoisoned, SendMessage, Wake, ReceiveAck, PanicLocked, Go, Inv, TypeOK
        <4>2. ASSUME NEW t \in Thread, NEW i \in 1 .. done'[t], SentRoute(t, i)' PROVE SentRoute(t, i)
          <5>1. CASE t = a /\ i = done[t]
            <6>1. call[a] = Calls[t][i]
              BY <5>1, CallTypes DEF CallInv
            <6> QED
              BY <4>1, <4>2, <6>1 DEF SentRoute
          <5>2. CASE t # a \/ i # done[t]
            <6>1. done[t] \in Nat
              BY CallTypes
            <6> QED
              BY <2>2, <2>4, <4>2, <5>2, <6>1 DEF SentRoute
          <5> QED
            BY <5>1, <5>2
        <4> QED
          BY <2>2, <3>1, <4>2 DEF AddedInv, Queued
      <3> QED
        BY <3>2, <3>3
    <2> QED
      BY <2>5, <2>6
  <1>2. CASE \E t \in Thread : Call(t)
    <2>1. PICK u \in Thread : Call(u)
      BY <1>2
    <2>2. /\ UNCHANGED <<msgs, handlers, closed>> /\ pc[u] = "idle"
          /\ done' = [done EXCEPT ![u] = @ + 1] /\ pc' = [pc EXCEPT ![u] = "lock"]
      BY <2>1 DEF Call, Go, commVars, routeVars, routerVars
    <2>3. ASSUME NEW t \in Thread, NEW i \in 1 .. done'[t], SentRoute(t, i)' PROVE SentRoute(t, i) /\ i \in 1 .. done[t]
      <3>1. done[t] \in Nat
        BY CallTypes
      <3> QED
        BY <2>2, <2>3, <3>1 DEF SentRoute, Inv, TypeOK
    <2> QED
      BY <2>2, <2>3 DEF AddedInv, Known, Queued
  <1>3. CASE (\E r \in Route : Send(r) \/ Close(r)) \/ DropProxy \/ UNCHANGED vars
    <2>1. UNCHANGED <<pc, done, msgs, handlers>> /\ closed \subseteq closed'
      BY <1>3 DEF Send, Close, DropProxy, vars, callVars, commVars, routeVars, routerVars
    <2> QED
      BY <2>1, SameRoutes DEF Known
  <1>4. CASE Run
    <2>1. /\ UNCHANGED <<done, closed>> /\ \A t \in Thread : pc'[t] = pc[t]
      <3>1. UNCHANGED <<done, closed>>
        BY <1>4 DEF Run, Select, BatchDone, WokenUp, AddRoute, Shutdown, HandleMessage, HandleClosed, NoSuchHandler,
           callVars, routeVars
      <3>2. \A t \in Thread : pc'[t] = pc[t]
        BY <1>4 DEF Run, Select, BatchDone, WokenUp, AddRoute, Shutdown, HandleMessage, HandleClosed, NoSuchHandler, Go, Inv, TypeOK
      <3> QED
        BY <3>1, <3>2
    <2>2. CASE AddRoute \/ Shutdown
      <3>1. /\ msgs \in Seq(CallType) /\ msgs # <<>> /\ msgs' = Tail(msgs) /\ handlers \subseteq handlers'
            /\ msgs[1].op = "add_route" => msgs[1].route \in handlers'
        BY <2>2 DEF AddRoute, Shutdown, Inv, TypeOK
      <3>2. \A k \in DOMAIN msgs : k = 1 \/ (k - 1 \in DOMAIN msgs' /\ msgs'[k - 1] = msgs[k])
        BY <3>1
      <3>3. ASSUME NEW r, Known(r) \/ Queued(r) PROVE Known(r)' \/ Queued(r)'
        <4>1. CASE Known(r)
          BY <2>1, <3>1, <4>1 DEF Known
        <4>2. CASE Queued(r)
          <5>1. PICK k \in DOMAIN msgs : msgs[k] = [op |-> "add_route", route |-> r]
            BY <4>2 DEF Queued
          <5>2. CASE k = 1
            <6>1. msgs[1].op = "add_route" /\ msgs[1].route = r
              BY <5>1, <5>2
            <6> QED
              BY <3>1, <6>1 DEF Known
          <5>3. CASE k # 1
            BY <3>2, <5>1, <5>3 DEF Queued
          <5> QED
            BY <5>2, <5>3
        <4> QED
          BY <3>3, <4>1, <4>2
      <3>4. \A t \in Thread : \A i : SentRoute(t, i)' => SentRoute(t, i)
        BY <2>1 DEF SentRoute
      <3> QED
        BY <2>1, <3>3, <3>4 DEF AddedInv
    <2>3. CASE HandleClosed
      <3>1. /\ UNCHANGED msgs /\ handlers' = handlers \ {batch[1].id} /\ batch # <<>> /\ batch[1].n = batch[1].upto
        BY <2>3 DEF HandleClosed, AtClosed, Current, commVars
      <3>2. batch[1].id \in closed
        <4>1. 1 \in DOMAIN batch /\ ~IsEmpty(batch[1]) /\ batch[1] \in Report
          BY <3>1 DEF Inv, BatchInv, Batch
        <4>2. batch[1].closed
          BY <3>1, <4>1 DEF IsEmpty, Report
        <4> QED
          BY <4>1, <4>2 DEF Inv, BatchInv
      <3> QED
        BY <2>1, <3>1, <3>2, SameRoutes DEF Known
    <2>4. CASE Run /\ ~AddRoute /\ ~Shutdown /\ ~HandleClosed
      <3>1. UNCHANGED <<msgs, handlers>>
        BY <2>4 DEF Run, Select, BatchDone, WokenUp, HandleMessage, NoSuchHandler, TakeMessage, commVars, routerVars
      <3> QED
        BY <2>1, <3>1, SameRoutes DEF Known
    <2> QED
      BY <1>4, <2>2, <2>3, <2>4
  <1> QED
    BY <1>1, <1>2, <1>3, <1>4 DEF Next

\* When a shutdown is acknowledged, every add_route that had returned has given the
\* router its handler, or its channel has been closed (router.rs:76-113).
THEOREM RoutesKnownAtShutdown == Spec => []RoutesAddedBeforeShutdown
  <1>1. Init => RouteInv
    BY RouterAssumption DEF Init, RouteInv, CallInv, LastMessageInv, AddedInv, Actor
  <1>2. Inv /\ RouteInv /\ [Next]_vars => RouteInv'
    BY CallInvStep, LastMessageStep, AddedStep DEF RouteInv
  <1> QED
    BY <1>1, <1>2, InvInit, InvStep, RouteInvImplies, PTL DEF Spec

-----------------------------------------------------------------------------
(* The router has a handler for whatever it gets, if each route is added once. *)

AddOf(r) == [op |-> "add_route", route |-> r]

\* add_route takes the receiver of its route by value, so that there is one call for it, of
\* a thread or of a handler.
AddsEachOnce ==
    /\ \A t, u \in Thread : \A i \in DOMAIN Calls[t], j \in DOMAIN Calls[u] :
           Calls[t][i].op = "add_route" /\ Calls[u][j] = Calls[t][i] => t = u /\ i = j
    /\ \A q, r \in Route : Adds[q] = Adds[r] /\ Adds[q] # NoRoute => q = r
    /\ \A t \in Thread : \A i \in DOMAIN Calls[t], q \in Route :
           Calls[t][i].op = "add_route" => Calls[t][i].route # Adds[q]

\* A call that has not sent its route.
Unsent(a) == pc[a] \in {"lock", "send"}

\* The route is still to be sent to the router.
ByThread(r) ==
    \E t \in Thread : \E i \in DOMAIN Calls[t] :
        Calls[t][i] = AddOf(r) /\ (i > done[t] \/ (i = done[t] /\ Unsent(t)))
ByHandler(r) ==
    \E q \in Route : Adds[q] = r /\ (handled[q] = <<>> \/ (Unsent(Router) /\ call[Router] = AddOf(r)))
ToCome(r) == ByThread(r) \/ ByHandler(r)

HandlerCalls ==
    Unsent(Router) \/ pc[Router] = "wake" =>
        \E q \in Route : Adds[q] # NoRoute /\ handled[q] # <<>> /\ call[Router] = AddOf(Adds[q])

\* A route is in one place only: not sent, sent, or with its handler.
OnePlace ==
    \A r \in Route :
        /\ ToCome(r) => ~Queued(r) /\ r \notin handlers
        /\ Queued(r) => r \notin handlers
        /\ \A k, l \in DOMAIN msgs : msgs[k] = AddOf(r) /\ msgs[l] = AddOf(r) => k = l

\* The end of a route is reported when it has left the set.
AllHandled ==
    /\ set \subseteq handlers
    /\ \A k \in DOMAIN batch : batch[k].id \in Route =>
           batch[k].id \in handlers /\ (batch[k].closed => batch[k].id \notin set)

KnownPanics ==
    /\ poisoned => RouterEnded
    /\ pc[Router] = "panicked" => Wakeup \in closed \/ \E r \in Panics : handled[r] # <<>>

HandlerInv == HandlerCalls /\ OnePlace /\ AllHandled /\ KnownPanics

LEMMA HandlerInvImplies == HandlerInv => HandlersKnown
  BY DEF HandlerInv, AllHandled, KnownPanics, HandlersKnown

\* A step that sends no route: what is to come was to come before.
LEMMA SamePlace ==
  ASSUME OnePlace, msgs' = msgs, handlers' \subseteq handlers,
         \A r \in Route : ToCome(r)' => ToCome(r)
  PROVE  OnePlace'
  BY DEF OnePlace, Queued

LEMMA SameToCome ==
  ASSUME NEW r, UNCHANGED <<call, done, handled>>, \A a \in Actor : Unsent(a)' => Unsent(a), ToCome(r)'
  PROVE  ToCome(r)
  BY DEF ToCome, ByThread, ByHandler, Actor

LEMMA SameCalls ==
  ASSUME HandlerCalls, UNCHANGED call, \A r \in Route : handled[r] # <<>> => handled'[r] # <<>>,
         pc'[Router] \in {"lock", "send", "wake"} => pc[Router] \in {"lock", "send", "wake"}
  PROVE  HandlerCalls'
  BY DEF HandlerCalls, Unsent

LEMMA HandlersCall ==
  ASSUME Inv, HandlerInv, NEW t \in Thread, Call(t)
  PROVE  HandlerInv'
  <1> USE RouterAssumption DEF Actor
  <1>1. /\ pc[t] = "idle" /\ pc'[t] = "lock" /\ \A b \in Actor \ {t} : pc'[b] = pc[b] /\ call'[b] = call[b]
        /\ t # Router
        /\ UNCHANGED <<msgs, handlers, set, batch, handled, poisoned, closed>>
    BY DEF Call, Go, Inv, TypeOK, proxyVars, commVars, routeVars, routerVars
  <1>2. /\ done'[t] = done[t] + 1 /\ done[t] \in Nat /\ \A u \in Thread \ {t} : done'[u] = done[u]
    BY DEF Call, Inv, TypeOK
  <1>3. ASSUME NEW r \in Route, ToCome(r)' PROVE ToCome(r)
    <2>1. ByHandler(r)' => ByHandler(r)
      BY <1>1, <1>2 DEF ByHandler, Unsent
    <2>2. CASE ByThread(r)'
      <3>1. PICK u \in Thread : \E i \in DOMAIN Calls[u] :
                Calls[u][i] = AddOf(r) /\ (i > done'[u] \/ (i = done'[u] /\ Unsent(u)'))
        BY <2>2 DEF ByThread
      <3>2. PICK i \in DOMAIN Calls[u] :
                Calls[u][i] = AddOf(r) /\ (i > done'[u] \/ (i = done'[u] /\ Unsent(u)'))
        BY <3>1
      <3>3. i > done[u] \/ (i = done[u] /\ Unsent(u))
        <4>1. CASE u = t
          BY <1>2, <3>2, <4>1
        <4>2. CASE u # t
          BY <1>1, <1>2, <3>2, <4>2 DEF Unsent
        <4> QED
          BY <4>1, <4>2
      <3> QED
        BY <3>2, <3>3 DEF ToCome, ByThread
    <2> QED
      BY <1>3, <2>1, <2>2 DEF ToCome
  <1>4. OnePlace'
    BY <1>1, <1>3, SamePlace DEF HandlerInv
  <1>5. HandlerCalls' /\ AllHandled' /\ KnownPanics'
    BY <1>1, <1>2 DEF HandlerInv, HandlerCalls, Unsent, AllHandled, KnownPanics, RouterEnded
  <1> QED
    BY <1>4, <1>5 DEF HandlerInv

\* A route that is sent has no other call that would send it again.
LEMMA SentOnce ==
  ASSUME AddsEachOnce, Inv, CallInv, HandlerInv, NEW a \in Actor, NEW r \in Route,
         call[a] = AddOf(r), pc[a] = "send",
         UNCHANGED <<call, done, handled>>, ~Unsent(a)', \A b \in Actor \ {a} : Unsent(b)' => Unsent(b)
  PROVE  ToCome(r) /\ ~ToCome(r)'
  <1> USE RouterAssumption DEF Actor
  <1>1. CASE a = Router
    <2>1. PICK q \in Route : Adds[q] # NoRoute /\ handled[q] # <<>> /\ call[Router] = AddOf(Adds[q])
      BY <1>1 DEF HandlerInv, HandlerCalls, Unsent
    <2>2. Adds[q] = r
      BY <1>1, <2>1 DEF AddOf
    <2>3. ToCome(r)
      BY <1>1, <2>2 DEF ToCome, ByHandler, Unsent
    <2>4. ~ByHandler(r)'
      <3>1. \A p \in Route : Adds[p] = r => p = q
        BY <2>1, <2>2 DEF AddsEachOnce
      <3> QED
        BY <1>1, <2>1, <3>1 DEF ByHandler
    <2>5. ~ByThread(r)'
      <3> SUFFICES ASSUME NEW t \in Thread, NEW i \in DOMAIN Calls[t], Calls[t][i] = AddOf(r) PROVE FALSE
        BY DEF ByThread
      <3>1. Calls[t][i].op = "add_route" /\ Calls[t][i].route = r
        BY DEF AddOf
      <3> QED
        BY <2>2, <3>1 DEF AddsEachOnce
    <2> QED
      BY <2>3, <2>4, <2>5 DEF ToCome
  <1>2. CASE a # Router
    <2>1. a \in Thread
      BY <1>2
    <2>2. done[a] \in Nat /\ done[a] > 0 /\ done[a] <= Len(Calls[a]) /\ Calls[a] \in Seq(CallType)
          /\ call[a] = Calls[a][done[a]]
      BY <2>1 DEF Inv, TypeOK, CallInv
    <2>3. done[a] \in DOMAIN Calls[a] /\ Calls[a][done[a]] = AddOf(r) /\ Calls[a][done[a]].op = "add_route"
          /\ Calls[a][done[a]].route = r
      BY <2>2 DEF AddOf
    <2>4. ToCome(r)
      BY <2>1, <2>3 DEF ToCome, ByThread, Unsent
    <2>5. ~ByHandler(r)'
      BY <2>1, <2>3 DEF ByHandler, AddsEachOnce
    <2>6. ~ByThread(r)'
      <3> SUFFICES ASSUME NEW t \in Thread, NEW i \in DOMAIN Calls[t], Calls[t][i] = AddOf(r),
                          i > done[t] \/ (i = done[t] /\ Unsent(t)')
                   PROVE  FALSE
        BY DEF ByThread
      <3>1. t = a /\ i = done[a]
        BY <2>1, <2>3 DEF AddsEachOnce
      <3> QED
        BY <2>2, <3>1
    <2> QED
      BY <2>4, <2>5, <2>6 DEF ToCome
  <1> QED
    BY <1>1, <1>2

LEMMA HandlersProxy ==
  ASSUME AddsEachOnce, Inv, CallInv, HandlerInv, NEW a \in Actor, Proxy(a)
  PROVE  HandlerInv'
  <1> USE RouterAssumption DEF Actor
  <1>1. PICK place \in {"send", "wake", "idle", "batch", "ack", "join", "panicked"} : pc' = [pc EXCEPT ![a] = place]
    BY DEF Proxy, Lock, LockPoisoned, SendMessage, Wake, ReceiveAck, Join, Go, Resume, PanicLocked
  <1>2. /\ UNCHANGED <<call, done, handled, closed, set, handlers, batch>>
    BY DEF Proxy, Lock, LockPoisoned, SendMessage, Wake, ReceiveAck, Join, callVars, routeVars, routerVars
  <1>3. /\ pc'[a] = place /\ \A b \in Actor \ {a} : pc'[b] = pc[b]
    BY <1>1 DEF Inv, TypeOK
  <1>4. /\ pc[a] \in {"lock", "send", "wake", "ack", "join"} /\ call[a] \in CallType
        /\ place = "send" => pc[a] = "lock" \/ (pc[a] = "wake" /\ call[a].op = "shutdown")
        /\ place = "wake" => pc[a] \in {"lock", "send"}
        /\ place = "panicked" => poisoned \/ RouterEnded
        /\ poisoned' => poisoned \/ RouterEnded
    <2>1. pc[a] \in {"lock", "send", "wake", "ack", "join"}
      BY DEF Proxy, Lock, LockPoisoned, SendMessage, Wake, ReceiveAck, Join
    <2>2. call[a] \in CallType
      BY <2>1 DEF Inv, PlaceInv
    <2>3. /\ place = "send" => pc[a] = "lock" \/ (pc[a] = "wake" /\ call[a].op = "shutdown")
          /\ place = "wake" => pc[a] \in {"lock", "send"}
          /\ place = "panicked" => poisoned \/ RouterEnded
      BY <1>1, <1>3 DEF Proxy, Lock, LockPoisoned, SendMessage, Wake, ReceiveAck, Join, Go, Resume, PanicLocked, Inv, TypeOK
    <2>4. poisoned' => poisoned \/ RouterEnded
      BY DEF Proxy, Lock, LockPoisoned, SendMessage, Wake, ReceiveAck, Join, PanicLocked, Unlock, proxyVars
    <2> QED
      BY <2>1, <2>2, <2>3, <2>4
  <1>5. HandlerCalls'
    <2>1. pc'[Router] \in {"lock", "send", "wake"} => pc[Router] \in {"lock", "send", "wake"}
      BY <1>3, <1>4
    <2> QED
      BY <1>2, <2>1, SameCalls DEF HandlerInv
  <1>6. KnownPanics' /\ AllHandled'
    <2>1. RouterEnded => RouterEnded'
      BY <1>3, <1>4 DEF RouterEnded
    <2>2. poisoned' => RouterEnded'
      BY <1>4, <2>1 DEF HandlerInv, KnownPanics
    <2>3. pc'[Router] = "panicked" => pc[Router] = "panicked"
      <3>1. CASE a = Router
        <4>1. ~RouterEnded /\ ~poisoned
          BY <1>4, <3>1 DEF RouterEnded, HandlerInv, KnownPanics
        <4> QED
          BY <1>3, <1>4, <3>1, <4>1
      <3>2. CASE a # Router
        BY <1>3, <3>2
      <3> QED
        BY <3>1, <3>2
    <2> QED
      BY <1>2, <2>2, <2>3 DEF HandlerInv, KnownPanics, AllHandled
  <1>7. \A b \in Actor \ {a} : Unsent(b)' => Unsent(b)
    BY <1>3 DEF Unsent
  <1>8. CASE ~SendMessage(a) \/ RouterEnded
    <2>1. msgs' = msgs
      BY <1>8 DEF Proxy, Lock, LockPoisoned, SendMessage, Wake, ReceiveAck, Join, commVars
    <2>2. Unsent(a)' => Unsent(a) \/ (pc[a] = "wake" /\ call[a].op = "shutdown")
      BY <1>3, <1>4 DEF Unsent
    <2>3. ASSUME NEW r \in Route, ToCome(r)' PROVE ToCome(r)
      <3>1. CASE Unsent(a)' => Unsent(a)
        BY <1>2, <1>7, <2>3, <3>1, SameToCome
      <3>2. CASE pc[a] = "wake" /\ call[a].op = "shutdown"
        <4>1. a # Router
          <5> SUFFICES ASSUME a = Router PROVE FALSE
            OBVIOUS
          <5>1. PICK q \in Route : call[Router] = AddOf(Adds[q])
            BY <3>2 DEF HandlerInv, HandlerCalls
          <5> QED
            BY <3>2, <5>1 DEF AddOf
        <4>2. done[a] > 0 /\ call[a] = Calls[a][done[a]]
          BY <3>2, <4>1 DEF CallInv, Inv, TypeOK
        <4>3. \A i \in DOMAIN Calls[a] : Calls[a][i] = AddOf(r) => i # done[a]
          BY <3>2, <4>2 DEF AddOf
        <4>4. ByThread(r)' => ByThread(r)
          BY <1>2, <1>7, <4>3 DEF ByThread
        <4>5. ByHandler(r)' => ByHandler(r)
          BY <1>2, <1>7, <4>1 DEF ByHandler
        <4> QED
          BY <2>3, <4>4, <4>5 DEF ToCome
      <3> QED
        BY <2>2, <3>1, <3>2
    <2> QED
      BY <1>2, <1>5, <1>6, <2>1, <2>3, SamePlace DEF HandlerInv
  <1>9. CASE SendMessage(a) /\ ~RouterEnded
    <2>1. /\ pc[a] = "send" /\ msgs' = Append(msgs, call[a]) /\ msgs \in Seq(CallType) /\ ~Unsent(a)'
      BY <1>3, <1>9 DEF SendMessage, Go, Inv, TypeOK, Unsent
    <2>2. /\ Len(msgs) \in Nat /\ DOMAIN msgs = 1 .. Len(msgs) /\ DOMAIN msgs' = 1 .. Len(msgs) + 1
          /\ msgs'[Len(msgs) + 1] = call[a]
          /\ \A k \in DOMAIN msgs : msgs'[k] = msgs[k]
      BY <1>4, <2>1
    <2>3. \A r \in Route : ToCome(r)' => ToCome(r)
      BY <1>2, <1>7, <2>1, SameToCome
    <2>4. ASSUME NEW r \in Route, call[a] # AddOf(r)
          PROVE  /\ ToCome(r)' => ~Queued(r)' /\ r \notin handlers'
                 /\ Queued(r)' => r \notin handlers'
                 /\ \A k, l \in DOMAIN msgs' : msgs'[k] = AddOf(r) /\ msgs'[l] = AddOf(r) => k = l
      <3>1. \A k \in DOMAIN msgs' : msgs'[k] = AddOf(r) => k \in DOMAIN msgs /\ msgs[k] = AddOf(r)
        BY <2>2, <2>4
      <3>2. Queued(r)' => Queued(r)
        BY <3>1 DEF Queued, AddOf
      <3> QED
        BY <1>2, <2>3, <3>1, <3>2 DEF HandlerInv, OnePlace
    <2>5. ASSUME NEW r \in Route, call[a] = AddOf(r)
          PROVE  /\ ToCome(r)' => ~Queued(r)' /\ r \notin handlers'
                 /\ Queued(r)' => r \notin handlers'
                 /\ \A k, l \in DOMAIN msgs' : msgs'[k] = AddOf(r) /\ msgs'[l] = AddOf(r) => k = l
      <3>1. ToCome(r) /\ ~ToCome(r)'
        BY <1>2, <1>7, <2>1, <2>5, SentOnce
      <3>2. ~Queued(r) /\ r \notin handlers
        BY <3>1 DEF HandlerInv, OnePlace
      <3>3. \A k \in DOMAIN msgs : msgs[k] # AddOf(r)
        BY <3>2 DEF Queued, AddOf
      <3>4. \A k \in DOMAIN msgs' : msgs'[k] = AddOf(r) => k = Len(msgs) + 1
        BY <2>2, <3>3
      <3> QED
        BY <1>2, <3>1, <3>2, <3>4
    <2>6. OnePlace'
      BY <2>4, <2>5 DEF OnePlace
    <2> QED
      BY <1>5, <1>6, <2>6 DEF HandlerInv
  <1> QED
    BY <1>8, <1>9

LEMMA HandlersSender ==
  ASSUME Inv, HandlerInv, DropProxy \/ UNCHANGED vars \/ \E r \in Route : Send(r) \/ Close(r)
  PROVE  HandlerInv'
  <1>1. /\ UNCHANGED <<pc, call, done, msgs, handled, set, handlers, batch, poisoned>> /\ closed \subseteq closed'
    BY DEF DropProxy, Send, Close, vars, callVars, commVars, proxyVars, routeVars, routerVars
  <1>2. OnePlace'
    BY <1>1, SameToCome, SamePlace DEF HandlerInv, Unsent
  <1> QED
    BY <1>1, <1>2, SameCalls DEF HandlerInv, AllHandled, KnownPanics, RouterEnded

\* The router's own steps leave the calls of the threads alone.
LEMMA HandlersSelect ==
  ASSUME Inv, HandlerInv, Select
  PROVE  HandlerInv'
  <1> USE RouterAssumption DEF Actor
  <1>1. /\ UNCHANGED <<call, done, handled, msgs, handlers, poisoned, closed>>
        /\ pc[Router] = "select" /\ pc'[Router] = "batch" /\ \A t \in Thread : pc'[t] = pc[t]
    BY DEF Select, Go, Inv, TypeOK, callVars, proxyVars
  <1>2. OnePlace'
    <2>1. \A a \in Actor : Unsent(a)' => Unsent(a)
      BY <1>1 DEF Unsent
    <2>2. \A r \in Route : ToCome(r)' => ToCome(r)
      BY <1>1, <2>1, SameToCome
    <2> QED
      BY <1>1, <2>2, SamePlace DEF HandlerInv
  <1>3. HandlerCalls' /\ KnownPanics'
    BY <1>1, SameCalls DEF HandlerInv, KnownPanics, RouterEnded
  <1>4. AllHandled'
    <2>1. /\ set' \subseteq set
          /\ \A k \in DOMAIN batch' : batch'[k].id \in set \cup {Wakeup} /\ (batch'[k].closed => batch'[k].id \notin set')
      BY SelectedBatch
    <2> QED
      BY <1>1, <2>1 DEF HandlerInv, AllHandled
  <1> QED
    BY <1>2, <1>3, <1>4 DEF HandlerInv

\* What is left of the reports when a message was taken.
LEMMA TakenReports ==
  ASSUME Inv, AtMessage, TakeMessage
  PROVE  \A k \in DOMAIN batch' : \E i \in DOMAIN batch :
             batch'[k].id = batch[i].id /\ batch'[k].closed = batch[i].closed
  <1>1. batch' = After(batch)
    BY DEF TakeMessage, After, Current
  <1>2. batch \in Batch /\ batch # <<>> /\ batch[1].n < batch[1].upto
    BY DEF Inv, BatchInv, AtMessage, Current
  <1> QED
    BY <1>1, <1>2, TakeFromBatch

LEMMA HandlersWoken ==
  ASSUME Inv, HandlerInv, WokenUp \/ BatchDone \/ NoSuchHandler
  PROVE  HandlerInv'
  <1> USE RouterAssumption DEF Actor
  <1>1. /\ UNCHANGED <<call, done, handled, msgs, set, handlers, poisoned, closed>>
        /\ pc[Router] = "batch" /\ \A t \in Thread : pc'[t] = pc[t]
        /\ pc'[Router] \in {"recv", "select", "panicked"}
    BY DEF WokenUp, BatchDone, NoSuchHandler, TakeMessage, AtMessage, AtClosed, Go, Inv, TypeOK,
           callVars, proxyVars, commVars, routeVars, routerVars
  <1>2. OnePlace'
    <2>1. \A a \in Actor : Unsent(a)' => Unsent(a)
      BY <1>1 DEF Unsent
    <2>2. \A r \in Route : ToCome(r)' => ToCome(r)
      BY <1>1, <2>1, SameToCome
    <2> QED
      BY <1>1, <2>2, SamePlace DEF HandlerInv
  <1>3. HandlerCalls'
    BY <1>1, SameCalls DEF HandlerInv
  <1>4. AllHandled'
    <2>1. CASE WokenUp
      <3>1. \A k \in DOMAIN batch' : \E i \in DOMAIN batch :
                batch'[k].id = batch[i].id /\ batch'[k].closed = batch[i].closed
        BY <2>1, TakenReports DEF WokenUp
      <3> QED
        BY <1>1, <3>1 DEF HandlerInv, AllHandled
    <2>2. CASE ~WokenUp
      BY <1>1, <2>2 DEF HandlerInv, AllHandled, BatchDone, NoSuchHandler, routerVars
    <2> QED
      BY <2>1, <2>2
  <1>5. KnownPanics'
    <2>1. ~poisoned
      BY <1>1 DEF HandlerInv, KnownPanics, RouterEnded
    <2>2. CASE NoSuchHandler
      <3>1. /\ batch # <<>> /\ batch \in Batch /\ batch[1].id \notin handlers
            /\ (batch[1].n = batch[1].upto) \/ (batch[1].n < batch[1].upto /\ batch[1].id # Wakeup)
        BY <2>2 DEF NoSuchHandler, AtClosed, AtMessage, Current, Inv, BatchInv
      <3>2. 1 \in DOMAIN batch /\ batch[1] \in Report /\ ~IsEmpty(batch[1])
        BY <3>1 DEF Batch
      <3>3. batch[1].id = Wakeup
        BY <3>1, <3>2 DEF Report, HandlerInv, AllHandled
      <3>4. batch[1].closed
        BY <3>1, <3>2, <3>3 DEF IsEmpty, Report
      <3>5. Wakeup \in closed
        BY <3>2, <3>3, <3>4 DEF Inv, BatchInv
      <3> QED
        BY <1>1, <2>1, <3>5 DEF KnownPanics
    <2>3. CASE ~NoSuchHandler
      <3>1. pc'[Router] # "panicked"
        BY <2>3 DEF WokenUp, BatchDone, Go, Inv, TypeOK
      <3> QED
        BY <1>1, <2>1, <3>1 DEF KnownPanics
    <2> QED
      BY <2>2, <2>3
  <1> QED
    BY <1>2, <1>3, <1>4, <1>5 DEF HandlerInv

LEMMA HandlersTakeMessage ==
  ASSUME Inv, HandlerInv, AddRoute \/ Shutdown
  PROVE  HandlerInv'
  <1> USE RouterAssumption DEF Actor
  <1>1. /\ UNCHANGED <<call, done, handled, poisoned, closed>>
        /\ pc[Router] = "recv" /\ \A t \in Thread : pc'[t] = pc[t]
        /\ pc'[Router] \in {"batch", "returned"}
        /\ msgs \in Seq(CallType) /\ msgs # <<>> /\ msgs' = Tail(msgs)
    BY DEF AddRoute, Shutdown, Go, Inv, TypeOK, callVars, proxyVars, commVars, routeVars, routerVars
  <1>2. /\ 1 \in DOMAIN msgs /\ msgs[1] \in CallType
        /\ \A k \in DOMAIN msgs' : k + 1 \in DOMAIN msgs /\ msgs'[k] = msgs[k + 1] /\ k \in Nat \ {0}
    BY <1>1
  <1>3. HandlerCalls' /\ KnownPanics'
    BY <1>1, SameCalls DEF HandlerInv, KnownPanics, RouterEnded
  <1>4. \A r \in Route : ToCome(r)' => ToCome(r)
    <2>1. \A a \in Actor : Unsent(a)' => Unsent(a)
      BY <1>1 DEF Unsent
    <2> QED
      BY <1>1, <2>1, SameToCome
  <1>5. ASSUME NEW r \in Route
        PROVE  /\ Queued(r)' => Queued(r)
               /\ \A k, l \in DOMAIN msgs' : msgs'[k] = AddOf(r) /\ msgs'[l] = AddOf(r) => k = l
               /\ msgs[1] = AddOf(r) => Queued(r) /\ ~Queued(r)'
    <2>1. \A k, l \in DOMAIN msgs : msgs[k] = AddOf(r) /\ msgs[l] = AddOf(r) => k = l
      BY DEF HandlerInv, OnePlace
    <2>2. Queued(r)' => Queued(r)
      BY <1>2 DEF Queued
    <2>3. \A k, l \in DOMAIN msgs' : msgs'[k] = AddOf(r) /\ msgs'[l] = AddOf(r) => k = l
      <3> SUFFICES ASSUME NEW k \in DOMAIN msgs', NEW l \in DOMAIN msgs', msgs'[k] = AddOf(r), msgs'[l] = AddOf(r)
                   PROVE  k = l
        OBVIOUS
      <3>1. k + 1 = l + 1
        BY <1>2, <2>1
      <3> QED
        BY <1>2, <3>1
    <2>4. ASSUME msgs[1] = AddOf(r) PROVE Queued(r) /\ ~Queued(r)'
      <3>1. \A k \in DOMAIN msgs' : msgs'[k] # AddOf(r)
        <4> SUFFICES ASSUME NEW k \in DOMAIN msgs', msgs'[k] = AddOf(r) PROVE FALSE
          OBVIOUS
        <4>1. k + 1 = 1
          BY <1>2, <2>1, <2>4
        <4> QED
          BY <1>2, <4>1
      <3> QED
        BY <1>2, <2>4, <3>1 DEF Queued, AddOf
    <2> QED
      BY <2>2, <2>3, <2>4
  <1>6. CASE AddRoute
    <2>1. /\ set' = set \cup {msgs[1].route} /\ handlers' = handlers \cup {msgs[1].route} /\ batch' = batch
          /\ msgs[1].op = "add_route"
      BY <1>6 DEF AddRoute
    <2>2. PICK q \in Route : msgs[1] = AddOf(q)
      BY <1>2, <2>1 DEF CallType, AddOf
    <2>3. /\ q = msgs[1].route /\ Queued(q) /\ ~Queued(q)' /\ ~ToCome(q) /\ q \notin handlers
      BY <1>5, <2>2 DEF HandlerInv, OnePlace, AddOf
    <2>4. AllHandled'
      BY <2>1, <2>3 DEF HandlerInv, AllHandled
    <2>5. OnePlace'
      BY <1>4, <1>5, <2>1, <2>3 DEF HandlerInv, OnePlace
    <2> QED
      BY <1>3, <2>4, <2>5 DEF HandlerInv
  <1>7. CASE Shutdown
    <2>1. UNCHANGED <<set, handlers>> /\ batch' = <<>>
      BY <1>7 DEF Shutdown
    <2>2. AllHandled'
      BY <2>1 DEF HandlerInv, AllHandled
    <2>3. OnePlace'
      BY <1>4, <1>5, <2>1 DEF HandlerInv, OnePlace
    <2> QED
      BY <1>3, <2>2, <2>3 DEF HandlerInv
  <1> QED
    BY <1>6, <1>7

LEMMA HandlersHandle ==
  ASSUME Inv, HandlerInv, NothingSkipped, HandleMessage
  PROVE  HandlerInv'
  <1> USE RouterAssumption DEF Actor
  <1> DEFINE q == batch[1].id
             adds == q \notin Panics /\ batch[1].n = 0 /\ Adds[q] # NoRoute
  <1>1. /\ AtMessage /\ TakeMessage /\ q \in handlers
        /\ handled' = [handled EXCEPT ![q] = Append(@, batch[1].n + 1)]
        /\ UNCHANGED <<done, poisoned, closed, msgs, set, handlers>>
        /\ pc[Router] = "batch" /\ \A t \in Thread : pc'[t] = pc[t] /\ call'[t] = call[t]
        /\ adds => pc'[Router] = "lock" /\ call'[Router] = AddOf(Adds[q])
        /\ ~adds => call' = call /\ pc'[Router] \in {"batch", "panicked"}
        /\ pc'[Router] = "panicked" => q \in Panics
    BY DEF HandleMessage, TakeMessage, AtMessage, Current, AddOf, Go, Inv, TypeOK, proxyVars, commVars
  <1>2. q \in Route /\ handled[q] \in Seq(Nat) /\ handlers \subseteq Route
    BY <1>1 DEF Inv, TypeOK
  <1>3. batch[1].n \in Nat /\ batch[1].upto = selected[q] /\ Left(batch, q) = batch[1].upto - batch[1].n /\ selected[q] \in Nat
    BY <1>1, <1>2, Taken DEF Report, Inv, TypeOK
  <1> HIDE DEF q
  <1>4. /\ handled'[q] = Append(handled[q], batch[1].n + 1)
        /\ \A r \in Route \ {q} : handled'[r] = handled[r]
    BY <1>1, <1>2 DEF Inv, TypeOK
  <1>5. handled'[q] # <<>> /\ \A r \in Route : handled[r] # <<>> => handled'[r] # <<>>
    <2>1. handled'[q] # <<>>
      BY <1>2, <1>3, <1>4
    <2> QED
      BY <1>4, <2>1
  <1>6. batch[1].n = 0 => handled[q] = <<>>
    <2>1. Len(handled[q]) + Left(batch, q) = selected[q]
      BY <1>1, <1>2 DEF NothingSkipped, RouterEnded
    <2>2. Len(handled[q]) = batch[1].n
      BY <1>2, <1>3, <2>1
    <2> QED
      BY <1>2, <2>2
  <1>7. HandlerCalls'
    <2>1. CASE adds
      BY <1>1, <1>2, <1>5, <2>1 DEF HandlerCalls
    <2>2. CASE ~adds
      BY <1>1, <2>2 DEF HandlerCalls, Unsent
    <2> QED
      BY <2>1, <2>2
  <1>8. \A r \in Route : ToCome(r)' => ToCome(r)
    <2> SUFFICES ASSUME NEW r \in Route, ToCome(r)' PROVE ToCome(r)
      OBVIOUS
    <2>1. ByThread(r)' => ByThread(r)
      BY <1>1 DEF ByThread, Unsent
    <2>2. CASE ByHandler(r)'
      <3>1. PICK p \in Route : Adds[p] = r /\ (handled'[p] = <<>> \/ (Unsent(Router)' /\ call'[Router] = AddOf(r)))
        BY <2>2 DEF ByHandler
      <3>2. CASE handled'[p] = <<>>
        BY <1>5, <3>1, <3>2 DEF ToCome, ByHandler
      <3>3. CASE Unsent(Router)' /\ call'[Router] = AddOf(r)
        <4>1. adds
          BY <1>1, <3>3 DEF Unsent
        <4>2. Adds[q] = r
          BY <1>1, <3>3, <4>1 DEF AddOf
        <4> QED
          BY <1>2, <1>6, <4>1, <4>2 DEF ToCome, ByHandler
      <3> QED
        BY <3>1, <3>2, <3>3
    <2> QED
      BY <2>1, <2>2 DEF ToCome
  <1>9. OnePlace'
    BY <1>1, <1>8, SamePlace DEF HandlerInv
  <1>10. AllHandled'
    <2>1. \A k \in DOMAIN batch' : \E i \in DOMAIN batch :
              batch'[k].id = batch[i].id /\ batch'[k].closed = batch[i].closed
      BY <1>1, TakenReports
    <2> QED
      BY <1>1, <2>1 DEF HandlerInv, AllHandled
  <1>11. KnownPanics'
    <2>1. ~poisoned
      BY <1>1 DEF HandlerInv, KnownPanics, RouterEnded
    <2> QED
      BY <1>1, <1>5, <2>1 DEF KnownPanics
  <1> QED
    BY <1>7, <1>9, <1>10, <1>11 DEF HandlerInv

LEMMA HandlersClosed ==
  ASSUME Inv, HandlerInv, HandleClosed
  PROVE  HandlerInv'
  <1> USE RouterAssumption DEF Actor
  <1>1. /\ UNCHANGED <<pc, call, done, handled, msgs, set, poisoned, closed>> /\ pc[Router] = "batch"
        /\ batch \in Batch /\ batch # <<>> /\ batch[1].n = batch[1].upto /\ batch[1].id \in handlers
        /\ batch' = Tail(batch) /\ handlers' = handlers \ {batch[1].id}
    BY DEF HandleClosed, AtClosed, Current, Inv, BatchInv, callVars, proxyVars, commVars, routeVars
  <1>2. /\ 1 \in DOMAIN batch /\ batch[1] \in Report /\ ~IsEmpty(batch[1])
        /\ Distinct(batch)
    BY <1>1 DEF Batch
  <1>3. batch[1].closed /\ batch[1].id \in Route
    BY <1>1, <1>2 DEF IsEmpty, Report, Inv, TypeOK
  <1>4. batch[1].id \notin set
    BY <1>2, <1>3 DEF HandlerInv, AllHandled
  <1>5. \A k \in DOMAIN batch' : batch'[k] = batch[k + 1] /\ k + 1 \in DOMAIN batch /\ k + 1 # 1
    BY <1>1, TailOfBatch
  <1>6. AllHandled'
    <2>1. \A k \in DOMAIN batch' : batch'[k].id # batch[1].id
      BY <1>2, <1>5 DEF Distinct
    <2> QED
      BY <1>1, <1>4, <1>5, <2>1 DEF HandlerInv, AllHandled
  <1>7. OnePlace'
    <2>1. \A r \in Route : ToCome(r)' => ToCome(r)
      BY <1>1, SameToCome DEF Unsent
    <2> QED
      BY <1>1, <2>1, SamePlace DEF HandlerInv
  <1>8. HandlerCalls' /\ KnownPanics'
    BY <1>1, SameCalls DEF HandlerInv, KnownPanics, RouterEnded
  <1> QED
    BY <1>6, <1>7, <1>8 DEF HandlerInv

LEMMA HandlersStep ==
  ASSUME AddsEachOnce, Inv, CallInv, NothingSkipped, HandlerInv, [Next]_vars
  PROVE  HandlerInv'
  BY HandlersCall, HandlersProxy, HandlersSender, HandlersSelect, HandlersWoken, HandlersTakeMessage,
     HandlersHandle, HandlersClosed DEF Next, Run

\* If a program adds each route once, the router has a handler for everything that it gets
\* of a route, whatever the others do meanwhile, and panics for no other reason than a
\* handler that does, or a proxy that is dropped (router.rs:194-244).
THEOREM HandlersKnownCorrect ==
  ASSUME AddsEachOnce
  PROVE  Spec => []HandlersKnown
  <1>1. Init => CallInv /\ HandlerInv
    <2> SUFFICES ASSUME Init PROVE CallInv /\ HandlerInv
      OBVIOUS
    <2>1. /\ pc[Router] = "select" /\ msgs = <<>> /\ handlers = {} /\ set = {} /\ batch = <<>> /\ poisoned = FALSE
      BY RouterAssumption DEF Init, Actor
    <2>2. DOMAIN msgs = {} /\ DOMAIN batch = {}
      BY <2>1
    <2>3. CallInv
      BY RouterAssumption DEF Init, CallInv, Actor
    <2> QED
      BY <2>1, <2>2, <2>3 DEF HandlerInv, HandlerCalls, Unsent, OnePlace, Queued, AllHandled, KnownPanics
  <1>2. Inv /\ CallInv /\ NothingSkipped /\ HandlerInv /\ [Next]_vars => HandlerInv'
    BY HandlersStep
  <1> QED
    BY <1>1, <1>2, InvInit, InvStep, CallInvStep, EachMessageOnce, HandlerInvImplies, PTL DEF Spec
=============================================================================
