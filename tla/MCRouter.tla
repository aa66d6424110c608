------------------------------- MODULE MCRouter -------------------------------
(***************************************************************************)
(* A small instance of Router.                                             *)
(***************************************************************************)
EXTENDS Router, TLC

CONSTANTS t1, t2, ra, rb, rc

Add(r) == [op |-> "add_route", route |-> r]
Stop == [op |-> "shutdown", route |-> NoRoute]

\* Two threads add routes, and both shut the router down: a route may come while, or
\* after, the other thread does.
TwoShutdowns == t1 :> <<Add(ra), Stop>> @@ t2 :> <<Add(rb), Stop>>

Some == [r \in Route |-> IF r = ra THEN 2 ELSE 1]
AddAnother == [r \in Route |-> IF r = ra THEN rc ELSE NoRoute]
=============================================================================
