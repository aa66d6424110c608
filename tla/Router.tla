-------------------------------- MODULE Router --------------------------------
(***************************************************************************)
(* The IPC router (src/ipc_channel/router.rs): threads that add routes to  *)
(* it or shut it down through a RouterProxy, and the router's own thread,  *)
(* which selects over a set of receivers and calls the handler of each.    *)
(*                                                                         *)
(* The proxy and the router share two channels: one for the messages       *)
(* AddRoute and Shutdown, and an IPC channel whose only use is to wake the *)
(* router up.  The lock of the proxy is held for a whole call.             *)
(*                                                                         *)
(* The IPC set underneath reports, for some of the channels that are ready *)
(* and in some order, all the messages and then whether it was closed.     *)
(* What is reported of one channel is a record: the number of the message  *)
(* handled last, that of the last one, and whether the end comes behind.   *)
(***************************************************************************)
EXTENDS Naturals, Sequences, FiniteSets, SequencesExt

CONSTANTS
    Thread, Route, Router, NoThread, NoRoute, Wakeup,
    Calls,      \* what each thread calls, one after the other, if it gets that far
    Messages,   \* how many messages are sent to a route before it is closed
    Adds,       \* the route that a handler adds when it is called the first time
    Panics,     \* the routes whose handlers panic
    Static      \* the proxy is ROUTER, or else a local variable that is dropped

CallType == [op : {"add_route"}, route : Route] \cup [op : {"shutdown"}, route : {NoRoute}]

ASSUME RouterAssumption ==
    /\ Calls \in [Thread -> Seq(CallType)]
    /\ IsFiniteSet(Route)
    /\ Messages \in [Route -> Nat]
    /\ Adds \in [Route -> Route \cup {NoRoute}]
    /\ Panics \subseteq Route
    /\ Static \in BOOLEAN
    /\ Router \notin Thread /\ NoThread \notin Thread \cup {Router}
    /\ NoRoute \notin Route /\ Wakeup \notin Route

VARIABLES
    pc,         \* of the threads and the router
    call,       \* what they are calling, or called last
    done,       \* how many calls a thread has made
    holder,     \* of the lock
    poisoned,   \* a thread has panicked with it
    shutdown,   \* RouterProxyComm.shutdown
    msgs,       \* the messages to the router
    acked,
    wakeups,    \* in the IPC channel
    sent,       \* the messages sent to each route
    selected,   \* those that the set has reported
    handled,    \* those that were handled, in order
    closed,     \* the channels with no sender
    set,        \* the routes in the IPC set
    handlers,   \* the routes with a handler
    batch       \* what is left of the reports of the last select

proxyVars == <<holder, poisoned, shutdown>>
commVars == <<msgs, acked, wakeups>>
routeVars == <<sent, selected, handled, closed>>
routerVars == <<set, handlers, batch>>
callVars == <<call, done>>
vars == <<pc, callVars, proxyVars, commVars, routeVars, routerVars>>

Actor == Thread \cup {Router}
NoCall == [op |-> "none", route |-> NoRoute]
Report == [id : Route \cup {Wakeup}, n : Nat, upto : Nat, closed : BOOLEAN]
IsEmpty(report) == report.n = report.upto /\ ~report.closed

Init ==
    /\ pc = [a \in Actor |-> IF a = Router THEN "select" ELSE "idle"]
    /\ call = [a \in Actor |-> NoCall] /\ done = [t \in Thread |-> 0]
    /\ holder = NoThread /\ poisoned = FALSE /\ shutdown = FALSE
    /\ msgs = <<>> /\ acked = FALSE /\ wakeups = 0
    /\ sent = [r \in Route |-> 0] /\ selected = [r \in Route |-> 0]
    /\ handled = [r \in Route |-> <<>>] /\ closed = {}
    /\ set = {} /\ handlers = {} /\ batch = <<>>

Go(a, place) == pc' = [pc EXCEPT ![a] = place]

\* run() has returned or panicked, and the receiving ends are gone.
RouterEnded == pc[Router] \in {"returned", "panicked"}

-----------------------------------------------------------------------------
(* The calls of a RouterProxy.  The router makes them, too, in handlers. *)

Call(t) ==
    /\ pc[t] = "idle"
    /\ Wakeup \notin closed
    /\ done[t] < Len(Calls[t])
    /\ call' = [call EXCEPT ![t] = Calls[t][done[t] + 1]]
    /\ done' = [done EXCEPT ![t] = @ + 1]
    /\ Go(t, "lock")
    /\ UNCHANGED <<proxyVars, commVars, routeVars, routerVars>>

\* Where the caller goes on: the router with its batch.
Resume(a) == Go(a, IF a = Router THEN "batch" ELSE "idle")

Unlock == holder' = NoThread /\ UNCHANGED poisoned
PanicLocked(a) ==
    /\ Go(a, "panicked")
    /\ holder' = NoThread
    /\ poisoned' = TRUE

Lock(a) ==
    /\ pc[a] = "lock"
    /\ holder = NoThread
    /\ ~poisoned
    /\ \/ /\ call[a].op = "add_route"
          /\ Go(a, "send") /\ holder' = a /\ UNCHANGED shutdown
       \/ /\ call[a].op = "shutdown" /\ shutdown
          /\ Resume(a) /\ UNCHANGED <<holder, shutdown>>
       \/ /\ call[a].op = "shutdown" /\ ~shutdown
          /\ Go(a, "wake") /\ holder' = a /\ shutdown' = TRUE
    /\ UNCHANGED <<callVars, poisoned, commVars, routeVars, routerVars>>

LockPoisoned(a) ==
    /\ pc[a] = "lock"
    /\ holder = NoThread
    /\ poisoned
    /\ Go(a, "panicked")
    /\ UNCHANGED <<callVars, proxyVars, commVars, routeVars, routerVars>>

\* The message to the router: AddRoute comes before its wake-up.
SendMessage(a) ==
    /\ pc[a] = "send"
    /\ \/ /\ RouterEnded
          /\ PanicLocked(a)
          /\ UNCHANGED msgs
       \/ /\ ~RouterEnded
          /\ msgs' = Append(msgs, call[a])
          /\ Go(a, IF call[a].op = "add_route" THEN "wake" ELSE "ack")
          /\ UNCHANGED <<holder, poisoned>>
    /\ UNCHANGED <<callVars, shutdown, acked, wakeups, routeVars, routerVars>>

\* Mutant: nothing is sent to the wake-up channel when one is there already.
WakeOnce(a) ==
    /\ pc[a] = "wake"
    /\ ~RouterEnded
    /\ wakeups' = 1
    /\ \/ call[a].op = "add_route" /\ Resume(a) /\ Unlock
       \/ call[a].op = "shutdown" /\ Go(a, "send") /\ UNCHANGED <<holder, poisoned>>
    /\ UNCHANGED <<callVars, shutdown, msgs, acked, routeVars, routerVars>>

\* Mutant: unlocks before the second of the two messages.
WakeUnlocked(a) ==
    /\ pc[a] = "wake"
    /\ ~RouterEnded
    /\ wakeups' = wakeups + 1
    /\ IF call[a].op = "add_route" THEN Resume(a) ELSE Go(a, "send")
    /\ Unlock
    /\ UNCHANGED <<callVars, shutdown, msgs, acked, routeVars, routerVars>>

\* The wake-up: Shutdown comes after it.
Wake(a) ==
    /\ pc[a] = "wake"
    /\ \/ /\ RouterEnded
          /\ PanicLocked(a)
          /\ UNCHANGED wakeups
       \/ /\ ~RouterEnded
          /\ wakeups' = wakeups + 1
          /\ \/ call[a].op = "add_route" /\ Resume(a) /\ Unlock
             \/ call[a].op = "shutdown" /\ Go(a, "send") /\ UNCHANGED <<holder, poisoned>>
    /\ UNCHANGED <<callVars, shutdown, msgs, acked, routeVars, routerVars>>

\* A Shutdown message that nobody takes keeps its acknowledgement's sender.
ReceiveAck(a) ==
    /\ pc[a] = "ack"
    /\ acked
    /\ Go(a, "join")
    /\ UNCHANGED <<callVars, proxyVars, commVars, routeVars, routerVars>>

Join(a) ==
    /\ pc[a] = "join"
    /\ RouterEnded
    /\ Resume(a)
    /\ Unlock
    /\ UNCHANGED <<callVars, shutdown, commVars, routeVars, routerVars>>

-----------------------------------------------------------------------------
(* The processes that send to the routes. *)

Send(r) ==
    /\ sent[r] < Messages[r]
    /\ sent' = [sent EXCEPT ![r] = @ + 1]
    /\ UNCHANGED <<pc, callVars, proxyVars, commVars, selected, handled, closed, routerVars>>

Close(r) ==
    /\ r \notin closed
    /\ sent[r] = Messages[r]
    /\ closed' = closed \cup {r}
    /\ UNCHANGED <<pc, callVars, proxyVars, commVars, sent, selected, handled, routerVars>>

\* The proxy is dropped when nobody has it any more: no thread, which may end before
\* its last call, and no handler that would add a route.
DropProxy ==
    /\ ~Static
    /\ Wakeup \notin closed
    /\ \A t \in Thread : pc[t] \in {"idle", "panicked"}
    /\ \A r \in Route : Adds[r] # NoRoute => r \notin handlers /\ \A i \in DOMAIN msgs : msgs[i].route # r
    /\ closed' = closed \cup {Wakeup}
    /\ UNCHANGED <<pc, callVars, proxyVars, commVars, sent, selected, handled, routerVars>>

-----------------------------------------------------------------------------
(* The router's thread. *)

\* Mutant: the messages are reported a second time.
PendingAgain(id) ==
    [id |-> id, n |-> 0, upto |-> IF id = Wakeup THEN wakeups ELSE sent[id], closed |-> id \in closed]

\* What the set has to report of a channel.
Pending(id) ==
    [id |-> id,
     n |-> IF id = Wakeup THEN 0 ELSE selected[id],
     upto |-> IF id = Wakeup THEN wakeups ELSE sent[id],
     closed |-> id \in closed]

Ready == {id \in set \cup {Wakeup} : ~IsEmpty(Pending(id))}

Select ==
    /\ pc[Router] = "select"
    /\ \E ids \in SUBSET Ready \ {{}} : \E order \in SetToSeqs(ids) :
          /\ batch' = [i \in DOMAIN order |-> Pending(order[i])]
          /\ wakeups' = IF Wakeup \in ids THEN 0 ELSE wakeups
          /\ selected' = [r \in Route |-> IF r \in ids THEN sent[r] ELSE selected[r]]
          /\ set' = set \ (ids \cap closed)
    /\ Go(Router, "batch")
    /\ UNCHANGED <<callVars, proxyVars, msgs, acked, sent, handled, closed, handlers>>

Current == batch[1]
AtMessage == pc[Router] = "batch" /\ batch # <<>> /\ Current.n < Current.upto
AtClosed == pc[Router] = "batch" /\ batch # <<>> /\ Current.n = Current.upto

TakeMessage ==
    /\ LET rest == [Current EXCEPT !.n = @ + 1] IN
       batch' = IF IsEmpty(rest) THEN Tail(batch) ELSE [batch EXCEPT ![1] = rest]
    /\ UNCHANGED <<set, handlers>>

BatchDone ==
    /\ pc[Router] = "batch"
    /\ batch = <<>>
    /\ Go(Router, "select")
    /\ UNCHANGED <<callVars, proxyVars, commVars, routeVars, routerVars>>

WokenUp ==
    /\ AtMessage
    /\ Current.id = Wakeup
    /\ TakeMessage
    /\ Go(Router, "recv")
    /\ UNCHANGED <<callVars, proxyVars, commVars, routeVars>>

\* Mutant: the receiver is added, but not its handler.
AddRouteNoHandler ==
    /\ pc[Router] = "recv"
    /\ msgs # <<>>
    /\ msgs[1].op = "add_route"
    /\ msgs' = Tail(msgs)
    /\ set' = set \cup {msgs[1].route}
    /\ Go(Router, "batch")
    /\ UNCHANGED <<callVars, proxyVars, acked, wakeups, routeVars, handlers, batch>>

AddRoute ==
    /\ pc[Router] = "recv"
    /\ msgs # <<>>
    /\ msgs[1].op = "add_route"
    /\ msgs' = Tail(msgs)
    /\ set' = set \cup {msgs[1].route}
    /\ handlers' = handlers \cup {msgs[1].route}
    /\ Go(Router, "batch")
    /\ UNCHANGED <<callVars, proxyVars, acked, wakeups, routeVars, batch>>

\* Mutant: a shutdown overtakes the messages before it.
ShutdownFirst ==
    /\ pc[Router] = "recv"
    /\ \E i \in DOMAIN msgs : msgs[i].op = "shutdown"
    /\ acked' = TRUE
    /\ batch' = <<>>
    /\ Go(Router, "returned")
    /\ UNCHANGED <<callVars, proxyVars, msgs, wakeups, routeVars, set, handlers>>

\* Mutant: no acknowledgement.
ShutdownSilently ==
    /\ pc[Router] = "recv"
    /\ msgs # <<>>
    /\ msgs[1].op = "shutdown"
    /\ msgs' = Tail(msgs)
    /\ batch' = <<>>
    /\ Go(Router, "returned")
    /\ UNCHANGED <<callVars, proxyVars, acked, wakeups, routeVars, set, handlers>>

\* The rest of the batch is dropped.
Shutdown ==
    /\ pc[Router] = "recv"
    /\ msgs # <<>>
    /\ msgs[1].op = "shutdown"
    /\ msgs' = Tail(msgs)
    /\ acked' = TRUE
    /\ batch' = <<>>
    /\ Go(Router, "returned")
    /\ UNCHANGED <<callVars, proxyVars, wakeups, routeVars, set, handlers>>

\* There is a handler for the result; a handler may add a route.
HandleMessage ==
    /\ AtMessage
    /\ Current.id \in handlers
    /\ TakeMessage
    /\ handled' = [handled EXCEPT ![Current.id] = Append(@, Current.n + 1)]
    /\ \/ Current.id \in Panics /\ Go(Router, "panicked") /\ UNCHANGED call
       \/ /\ Current.id \notin Panics /\ Current.n = 0 /\ Adds[Current.id] # NoRoute
          /\ call' = [call EXCEPT ![Router] = [op |-> "add_route", route |-> Adds[Current.id]]]
          /\ Go(Router, "lock")
       \/ /\ Current.id \notin Panics /\ (Current.n > 0 \/ Adds[Current.id] = NoRoute)
          /\ UNCHANGED <<pc, call>>
    /\ UNCHANGED <<done, proxyVars, commVars, sent, selected, closed>>

HandleClosed ==
    /\ AtClosed
    /\ Current.id \in handlers
    /\ batch' = Tail(batch)
    /\ handlers' = handlers \ {Current.id}
    /\ UNCHANGED <<pc, callVars, proxyVars, commVars, routeVars, set>>

\* Above all for the wake-up channel, which has none, when the proxy is dropped.
NoSuchHandler ==
    /\ AtClosed \/ (AtMessage /\ Current.id # Wakeup)
    /\ Current.id \notin handlers
    /\ Go(Router, "panicked")
    /\ UNCHANGED <<callVars, proxyVars, commVars, routeVars, routerVars>>

Proxy(a) ==
    Lock(a) \/ LockPoisoned(a) \/ SendMessage(a) \/ Wake(a) \/ ReceiveAck(a) \/ Join(a)

Run ==
    \/ Select \/ BatchDone \/ WokenUp \/ AddRoute \/ Shutdown
    \/ HandleMessage \/ HandleClosed \/ NoSuchHandler

Next ==
    \/ \E t \in Thread : Call(t)
    \/ \E a \in Actor : Proxy(a)
    \/ \E r \in Route : Send(r) \/ Close(r)
    \/ DropProxy
    \/ Run

\* Threads that can run do; nothing obliges anyone to send.
Fairness ==
    /\ \A t \in Thread : WF_vars(Call(t) \/ Proxy(t))
    /\ WF_vars(Proxy(Router) \/ Run)

Spec == Init /\ [][Next]_vars /\ Fairness
-----------------------------------------------------------------------------
TypeOK ==
    /\ pc \in [Actor -> {"idle", "lock", "send", "wake", "ack", "join", "panicked",
                         "select", "batch", "recv", "returned"}]
    /\ call \in [Actor -> CallType \cup {NoCall}]
    /\ done \in [Thread -> Nat]
    /\ holder \in Actor \cup {NoThread}
    /\ poisoned \in BOOLEAN /\ shutdown \in BOOLEAN /\ acked \in BOOLEAN
    /\ msgs \in Seq(CallType)
    /\ wakeups \in Nat
    /\ sent \in [Route -> Nat] /\ selected \in [Route -> Nat]
    /\ handled \in [Route -> Seq(Nat)]
    /\ closed \subseteq Route \cup {Wakeup} /\ set \subseteq Route /\ handlers \subseteq Route
    /\ batch \in Seq(Report)
    /\ \A i \in DOMAIN batch : ~IsEmpty(batch[i])

\* Everybody who is in a call and past its lock holds it, so that calls do not mix
\* their messages and wake-ups, not even with those of a handler.
InCall(a) == pc[a] \in {"send", "wake", "ack", "join"}
LockHeld == \A a \in Actor : InCall(a) <=> holder = a

\* How many messages of channel id there are left in b.
Left(b, id) == LET mine == {i \in DOMAIN b : b[i].id = id}
                   i == CHOOSE j \in mine : TRUE
               IN IF mine = {} THEN 0 ELSE b[i].upto - b[i].n
Half(op, place) == IF holder \in Actor /\ pc[holder] = place /\ call[holder].op = op THEN 1 ELSE 0

\* The router is woken up as many times as it has messages to take, but for the
\* call that has made one of the two only: it will not wait for a message in vain,
\* nor leave one, however many wake-ups one select reports.
OneWakeupPerMessage ==
    ~RouterEnded =>
        wakeups + Left(batch, Wakeup) + (IF pc[Router] = "recv" THEN 1 ELSE 0) + Half("add_route", "wake")
            = Len(msgs) + Half("shutdown", "send")

\* No handler is called twice or out of order for a message, and none is skipped.
NothingSkipped ==
    \A r \in Route :
        /\ \A i \in DOMAIN handled[r] : handled[r][i] = i
        /\ ~RouterEnded => Len(handled[r]) + Left(batch, r) = selected[r]

\* The router has a handler for all that it gets of a route, until that is closed
\* and nothing more can come.  It panics for no other reason than a handler that
\* does, or a proxy that is dropped without a shutdown.
HandlersKnown ==
    /\ pc[Router] = "panicked" => Wakeup \in closed \/ \E r \in Panics : handled[r] # <<>>
    /\ ~RouterEnded => set \subseteq handlers

\* Adding a route before the shutdown means that the router knew of it: by then it
\* was selected from, or closed.
RoutesAddedBeforeShutdown ==
    acked => \A t \in Thread : \A i \in 1 .. done[t] :
        /\ Calls[t][i].op = "add_route"
        /\ i < done[t] \/ pc[t] = "idle"
        => Calls[t][i].route \in handlers \cup closed

\* Somebody is in shutdown and waits, with the lock, for the router, which waits for
\* the lock in a handler that adds a route, or has panicked before it took the
\* message.
Deadlocked ==
    /\ holder \in Thread
    /\ call[holder].op = "shutdown"
    /\ pc[Router] = "lock" \/ (pc[Router] = "panicked" /\ pc[holder] = "ack")

\* Whoever calls shutdown gets out of it, and with a panic only when the router's
\* thread has panicked or add_route was called on a router that has ended.  The one
\* thing that can stop it is a handler, by asking for the lock or by a panic.
ShutdownReturns ==
    \A t \in Thread : (pc[t] # "idle" /\ call[t].op = "shutdown") ~>
        \/ pc[t] = "idle"
        \/ pc[t] = "panicked" /\ (poisoned \/ pc[Router] = "panicked")
        \/ Deadlocked
=============================================================================
