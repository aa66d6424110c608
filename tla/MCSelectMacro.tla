---------------------------- MODULE MCSelectMacro ----------------------------
(***************************************************************************)
(* Blocks for SelectMacro: all that are made of at most three of some well *)
(* formed and some malformed cases, and long ones of receives.             *)
(***************************************************************************)
EXTENDS SelectMacro

CONSTANTS r1, r2

case(kind, args, arrows, braced, sep, r) ==
    [kind |-> kind, args |-> args, arrows |-> arrows, braced |-> braced, sep |-> sep, receiver |-> r]

Good == {case("recv", 1, 1, FALSE, "comma", r1), case("recv", 1, 1, TRUE, "none", r2),
         case("recv", 1, 1, FALSE, "none", r1),
         case("send", 2, 1, FALSE, "comma", r1),
         case("default", -1, 0, FALSE, "comma", r1), case("default", 0, 0, TRUE, "none", r1),
         case("default", 1, 0, FALSE, "comma", r1)}
Bad == {case("recv", 2, 1, FALSE, "comma", r1), case("recv", 1, 0, FALSE, "comma", r1),
        case("recv", -1, 1, FALSE, "comma", r1), case("recv", 1, 2, FALSE, "comma", r1),
        case("send", 1, 1, FALSE, "comma", r1), case("send", 2, 0, FALSE, "comma", r1),
        case("default", 0, 1, FALSE, "comma", r1), case("default", 2, 0, FALSE, "comma", r1),
        case("other", 1, 1, FALSE, "comma", r1), case("recv", 1, 1, TRUE, "semicolon", r1)}

UpTo(n, S) == UNION {[1 .. k -> S] : k \in 0 .. n}

\* n receives: from receivers in turn, or from one only.
InTurn(n) == [i \in 1 .. n |-> case("recv", 1, 1, FALSE, "comma", IF i % 3 = 1 THEN r1 ELSE r2)]
Same(n) == [i \in 1 .. n |-> case("recv", 1, 1, FALSE, "comma", r1)]

SmallBlocks == UpTo(3, Good) \cup UpTo(2, Good \cup Bad)
LongBlocks == {InTurn(n) : n \in {4, 18, 19, 32, 33}} \cup {Same(32)}
AllBlocks == SmallBlocks \cup LongBlocks
=============================================================================
