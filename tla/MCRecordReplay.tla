--------------------------- MODULE MCRecordReplay ---------------------------
(***************************************************************************)
(* Small programs for RecordReplay.  A value sent is a number made from    *)
(* what its sender has received so far, so that a replay that delivers     *)
(* another message shows in everything that depends on it.                 *)
(***************************************************************************)
EXTENDS RecordReplay, TLC

CONSTANTS main, t1, t2,   \* threads
          c1, c2, c3, c4  \* channels

send(ch, v) == [kind |-> "send", chan |-> ch, val |-> v]
recv(ch) == [kind |-> "recv", chan |-> ch]
try_recv(ch) == [kind |-> "try_recv", chan |-> ch]
recv_timeout(ch) == [kind |-> "recv_timeout", chan |-> ch]
join(t) == [kind |-> "join", thread |-> t]
execution_done == [kind |-> "execution_done"]
halt == [kind |-> "halt"]

MCVal == {1, 2, 11, 12}   \* all that the programs send
MCEntry == LogEntry

\* c3 and c4 are bounded, with one producer each (Sender::clone refuses more).
MCOwner == c1 :> main @@ c2 :> t1 @@ c3 :> main @@ c4 :> main
MCSenders == c1 :> {t1, t2} @@ c2 :> {main} @@ c3 :> {t1} @@ c4 :> {t2}
MCCap == c3 :> 1 @@ c4 :> 1

\* What a program knows after history h: the last value received, 0 if none.
Known(h) == LET got == {i \in DOMAIN h : h[i].val # NoVal}
           IN IF got = {} THEN 0 ELSE h[CHOOSE i \in got : \A j \in got : j <= i].val

\* The operation at a position of a list, then the end of the thread.
Script(ops, h) == IF Len(h) < Len(ops) THEN ops[Len(h) + 1] ELSE halt

\* t1 sends, waits for an answer, and sends what it was answered; t2 sends; main
\* answers the first message, then polls, and receives once more if the poll
\* came too early.
RelayCode(t, h) ==
    CASE t = t1 -> Script(<<send(c1, 1), recv(c2), send(c1, 10 + Known(h))>>, h)
      [] t = t2 -> Script(<<send(c1, 2)>>, h)
      [] t = main -> Script(<<recv(c1), send(c2, Known(h)), try_recv(c1), recv_timeout(c1)>>
                         \o (IF Len(h) > 2 /\ h[3].error # "none" THEN <<recv(c1)>> ELSE <<>>)
                         \o <<join(t1), join(t2), execution_done>>, h)

\* As above, but main waits for messages only: it ends the recording while t1
\* and t2 may still be on their way out.
MessagesOnlyCode(t, h) ==
    IF t = main THEN Script(<<recv(c1), send(c2, Known(h)), recv(c1), execution_done>>, h)
    ELSE RelayCode(t, h)

\* The bounded channels: main reads them in an order that depends on what it
\* finds.
BoundedCode(t, h) ==
    CASE t = t1 -> Script(<<send(c3, 1), send(c3, 2)>>, h)
      [] t = t2 -> Script(<<send(c4, 1), send(c4, 2)>>, h)
      [] t = main -> Script(<<recv_timeout(c4), recv(c3), recv(c3)>>
                         \o (IF Len(h) > 0 /\ h[1].error # "none" THEN <<recv(c4)>> ELSE <<try_recv(c4)>>)
                         \o <<execution_done>>, h)

\* Main waits for all messages, the two of t1 among them, and for t1 to end.
CollectCode(t, h) ==
    CASE t = t1 -> Script(<<send(c1, 1), send(c1, 11)>>, h)
      [] t = t2 -> Script(<<send(c1, 2)>>, h)
      [] t = main -> Script(<<recv(c1), recv(c1), recv(c1), join(t1), execution_done>>, h)

\* main sends to t1 and ends the recording while t1 is about to log what it has
\* received.
CutShortCode(t, h) ==
    CASE t = t1 -> Script(<<recv(c2)>>, h)
      [] t = t2 -> Script(<<send(c1, 2)>>, h)
      [] t = main -> Script(<<send(c2, 1), send(c2, 2), execution_done>>, h)

\* t1 polls its channel once and ends; main sends to it.
PollOnceCode(t, h) ==
    CASE t = t1 -> Script(<<try_recv(c2)>>, h)
      [] t = t2 -> halt
      [] t = main -> Script(<<send(c2, 1), join(t1), join(t2), execution_done>>, h)

MCCode(program, t, h) ==
    CASE program = "relay" -> RelayCode(t, h)
      [] program = "messages_only" -> MessagesOnlyCode(t, h)
      [] program = "bounded" -> BoundedCode(t, h)
      [] program = "collect" -> CollectCode(t, h)
      [] program = "cut_short" -> CutShortCode(t, h)
      [] program = "poll_once" -> PollOnceCode(t, h)

\* Messages arrive in time and a desync would panic, or they may come too late
\* and the program goes on after a desync.
InTime(program) == [program |-> program, keepGoing |-> FALSE, prompt |-> TRUE]
TooLate(program) == [program |-> program, keepGoing |-> TRUE, prompt |-> FALSE]
MCSetups == {InTime("relay"), InTime("messages_only"), InTime("bounded"),
             TooLate("collect"), TooLate("cut_short")}
MessagesOnly == {InTime("messages_only")}
PollOnce == {InTime("poll_once")}
=============================================================================
