----------------------------- MODULE MCDetThread -----------------------------
EXTENDS DetThread, TLC

CONSTANTS main, a, b, c, d, e   \* threads

spawn(t) == [kind |-> "spawn", child |-> t]
foreign(t) == [kind |-> "foreign", child |-> t]
new_channel == [kind |-> "channel"]
execution_done == [kind |-> "execution_done"]

\* a and b create threads and channels side by side; b is a foreign thread.
\* c is as deep as a thread can be, and fails to spawn e.
MCProg == main :> <<spawn(a), new_channel, foreign(b), new_channel, execution_done>>
       @@ a :> <<new_channel, spawn(c)>>
       @@ b :> <<spawn(d), new_channel>>
       @@ c :> <<new_channel, spawn(e)>>
       @@ d :> <<>>
       @@ e :> <<>>

MCId == UNION {[1 .. n -> 1 .. MaxChildren] : n \in 0 .. MAX_SIZE}
MCEntry == CreationEntry
=============================================================================
