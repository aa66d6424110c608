--------------------------- MODULE MCCrossbeamSelect ---------------------------
(***************************************************************************)
(* Small programs for CrossbeamSelect: two channels, two senders that race *)
(* for the first one, and a thread that selects from both channels.        *)
(***************************************************************************)
EXTENDS CrossbeamSelect, TLC

CONSTANTS c1, c2, s1, s2

MCSends == s1 :> <<c1, c2>> @@ s2 :> <<c1>>

fresh == [kind |-> "new"]
add(ch) == [kind |-> "add", chan |-> ch]
select(recvs) == [kind |-> "select", recvs |-> recvs]
ready == [kind |-> "ready"]
recv(ch) == [kind |-> "recv", chan |-> ch]
try_recv(ch) == [kind |-> "try_recv", chan |-> ch]
halt == [kind |-> "halt"]

Both == <<c1, c2>>
Run(ops, h) == IF Len(h) < Len(ops) THEN ops[Len(h) + 1] ELSE halt
Got(h, n) == Len(h) >= n /\ h[n].val # NoVal

Worlds(p) == IF p = "fickle" THEN 0 .. 2 ELSE {0}

MCCode(p, w, h) ==
    CASE \* Three selects on two Select objects, with a poll in between that is made
         \* only if the first message is a sender's first, and receives at the end.
         p = "select" ->
            Run(<<fresh, add(c1), add(c2), select(Both)>>
                \o (IF Got(h, 4) /\ h[4].val = 1 THEN <<try_recv(c1)>> ELSE <<>>)
                \o <<fresh, add(c1), add(c2), select(Both), select(Both), recv(c1)>>, h)
         \* ready, a receive on the channel that is ready, and a select.
      [] p = "ready" ->
            Run(<<fresh, add(c1), add(c2), ready>>
                \o (IF Len(h) < 4 \/ h[4].index = 1 THEN <<try_recv(c1)>> ELSE <<try_recv(c2)>>)
                \o <<ready, select(Both)>>, h)
         \* Programs that depend on something that is not recorded.
      [] p = "fickle" ->
            Run(<<fresh, add(c1)>>
                \o CASE w = 0 -> <<add(c2), select(Both), select(Both)>>
                     [] w = 1 -> <<select(<<c1>>), ready>>
                     [] w = 2 -> <<add(c2), recv(c1), select(<<c2, c1>>)>>, h)

Setup(p, keepGoing, prompt, faulty) ==
    [program |-> p, worlds |-> Worlds(p), sends |-> MCSends,
     keepGoing |-> keepGoing, prompt |-> prompt, faulty |-> faulty]

\* The first two have to repeat the recording; the others recover from desyncs.
MCSetups == {Setup("select", FALSE, TRUE, FALSE), Setup("ready", FALSE, TRUE, FALSE),
             Setup("select", TRUE, FALSE, FALSE), Setup("fickle", TRUE, FALSE, TRUE)}
=============================================================================
