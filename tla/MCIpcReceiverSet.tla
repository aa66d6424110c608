-------------------------- MODULE MCIpcReceiverSet --------------------------
(***************************************************************************)
(* Small programs for IpcReceiverSet: two channels, two senders that race  *)
(* for the first one and then drop their ends.                             *)
(***************************************************************************)
EXTENDS IpcReceiverSet, TLC

CONSTANTS c1, c2, s1, s2

MCSends == s1 :> <<c1, c2>> @@ s2 :> <<c1>>
PairSends == s1 :> <<c1, c1>> @@ s2 :> <<c1>>
OneEach == s1 :> <<c1>> @@ s2 :> <<c1>>

add(ch) == [kind |-> "add", chan |-> ch]
select == [kind |-> "select"]
recv(ch) == [kind |-> "recv", chan |-> ch]
try_recv(ch) == [kind |-> "try_recv", chan |-> ch]
channel == [kind |-> "channel"]
halt == [kind |-> "halt"]

Returned(h) == Len(SelectSeq(h, LAMBDA obs : obs.op # "event"))
Closings(h) == Len(SelectSeq(h, Closing))
Run(ops, h) == IF Returned(h) < Len(ops) THEN ops[Returned(h) + 1] ELSE halt

MCCode(p, w, h) ==
    CASE \* Selects until all channels are closed, where the second channel is added
         \* only after the first select.
         p = "select" ->
            IF Returned(h) < 3 THEN Run(<<add(c1), select, add(c2)>>, h)
            ELSE IF Closings(h) < 2 THEN select ELSE halt
         \* A select on both receivers.
      [] p = "both" -> Run(<<add(c1), add(c2), select>>, h)
         \* Two selects.
      [] p = "again" -> Run(<<add(c1), select, select>>, h)
         \* Programs that depend on something that is not recorded.
      [] p = "fickle" ->
            Run(CASE w = 0 -> <<recv(c1), add(c1), select>>
                  [] w = 1 -> <<add(c1), select, channel>>
                  [] w = 2 -> <<add(c1), select, select>>, h)

Setup(p, worlds, sends, keepGoing, prompt, faulty) ==
    [program |-> p, worlds |-> worlds, sends |-> sends,
     keepGoing |-> keepGoing, prompt |-> prompt, faulty |-> faulty]

\* The first has to repeat the recording; the others recover from desyncs.
MCSetups == {Setup("select", {0}, MCSends, FALSE, TRUE, FALSE),
             Setup("both", {0}, MCSends, TRUE, FALSE, FALSE),
             Setup("again", {0}, PairSends, TRUE, FALSE, TRUE),
             Setup("fickle", {0, 1, 2}, OneEach, TRUE, FALSE, TRUE)}
=============================================================================
