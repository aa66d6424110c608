------------------------------ MODULE SelectMacro ------------------------------
(***************************************************************************)
(* The select! macro (src/crossbeam_select_macro.rs): its expansion, in    *)
(* which every step is an arm of rr_channel_internal, and then one run of  *)
(* the code that it expands to.                                            *)
(*                                                                         *)
(* A block is a sequence of cases; the macro moves them, here their        *)
(* positions, from list to list.  Tokens matter as far as an arm looks at  *)
(* them: the word a case begins with, how many arguments it has (-1 for no *)
(* list), how many times -> follows, whether the body is a { } block, and  *)
(* what separates the case from the next one.                              *)
(***************************************************************************)
EXTENDS Integers, Sequences, FiniteSets

CONSTANTS
    Receiver,   \* what the cases receive from
    Blocks      \* the blocks to expand

Case == [kind : {"recv", "send", "default", "other"}, args : -1 .. 2, arrows : 0 .. 2,
         braced : BOOLEAN, sep : {"comma", "semicolon", "none"}, receiver : Receiver]

ASSUME BlocksAssumption == Blocks \subseteq Seq(Case)

VARIABLES
    block,
    stage,
    tail,       \* the cases that the current stage has before it
    head,       \* the cases that it is done with
    default,    \* the default case, 0 if there is none
    labels,     \* the labels that are left
    ops,        \* the cases with their labels
    added,      \* the receivers that the Select has
    oper,       \* the index that it selects
    ran         \* the case whose body runs

listVars == <<block, tail, head, default>>
opVars == <<labels, ops, added>>
resultVars == <<oper, ran>>
vars == <<stage, listVars, opVars, resultVars>>

NoOper == -1

\* There is no label 18.
Labels == [i \in 1 .. 32 |-> IF i = 19 THEN 20 ELSE i - 1]

Init ==
    /\ block \in Blocks
    /\ stage = "entry"
    /\ tail = [i \in DOMAIN block |-> i] /\ head = <<>> /\ default = 0
    /\ labels = <<>> /\ ops = <<>> /\ added = <<>>
    /\ oper = NoOper /\ ran = 0

Go(next) == stage' = next

-----------------------------------------------------------------------------
(* Parsing. *)

Enter ==
    /\ stage = "entry"
    /\ Go(IF block = <<>> THEN "error" ELSE "list")
    /\ UNCHANGED <<listVars, opVars, resultVars>>

\* The second entry point takes a block without -> and puts its own commas.
OnlyDefaults == \A i \in DOMAIN block : block[i].arrows = 0 /\ block[i].sep # "semicolon"

Separated(c) ==
    \/ OnlyDefaults
    \/ c.sep = "comma"
    \/ (c.sep = "none") /\ (c.braced \/ Len(tail) = 1)

\* The case has the form that @list asks for.
Listed(c) ==
    /\ c.args >= 0 \/ c.kind = "default"
    /\ c.arrows < 2
    /\ c.kind = "default" => c.arrows = 0
    /\ c.kind \in {"recv", "send"} => c.arrows = 1
    /\ Separated(c)

First == block[tail[1]]
Advance == tail' = Tail(tail)

ListCase ==
    /\ stage = "list"
    /\ tail # <<>>
    /\ Listed(First)
    /\ Advance
    /\ head' = Append(head, tail[1])
    /\ UNCHANGED <<stage, block, default, opVars, resultVars>>

\* @list_error: the stages differ in their message.
ListError ==
    /\ stage = "list"
    /\ tail # <<>>
    /\ ~Listed(First)
    /\ Go("error")
    /\ UNCHANGED <<listVars, opVars, resultVars>>

NextList(from, to) ==
    /\ stage = from
    /\ tail = <<>>
    /\ Go(to)
    /\ tail' = head
    /\ head' = <<>>
    /\ UNCHANGED <<block, default, resultVars>>

ListEnd == NextList("list", "case") /\ UNCHANGED opVars

IsOperation(c) == (c.kind = "recv" /\ c.args = 1) \/ (c.kind = "send" /\ c.args = 2)

\* default and default() wait for nothing, default(timeout) for some time.
IsDefault(c) == c.kind = "default" /\ c.args <= 1

CaseOperation ==
    /\ stage = "case"
    /\ tail # <<>>
    /\ IsOperation(First)
    /\ Advance
    /\ head' = Append(head, tail[1])
    /\ UNCHANGED <<stage, block, default, opVars, resultVars>>

\* Mutant: a later default replaces an earlier one.
CaseLastDefault ==
    /\ stage = "case"
    /\ tail # <<>>
    /\ IsDefault(First)
    /\ Advance
    /\ default' = tail[1]
    /\ UNCHANGED <<stage, block, head, opVars, resultVars>>

CaseDefault ==
    /\ stage = "case"
    /\ tail # <<>>
    /\ IsDefault(First)
    /\ default = 0
    /\ Advance
    /\ default' = tail[1]
    /\ UNCHANGED <<stage, block, head, opVars, resultVars>>

CaseError ==
    /\ stage = "case"
    /\ tail # <<>>
    /\ ~IsOperation(First)
    /\ IsDefault(First) => default # 0
    /\ Go("error")
    /\ UNCHANGED <<listVars, opVars, resultVars>>

-----------------------------------------------------------------------------
(* Code generation. *)

SingleRecv == Len(head) = 1 /\ block[head[1]].kind = "recv"

\* One receive needs no Select: it is recv, try_recv or recv_timeout.
InitRecv ==
    /\ stage = "case"
    /\ tail = <<>>
    /\ SingleRecv
    /\ Go("receive")
    /\ UNCHANGED <<listVars, opVars, resultVars>>

InitSelect ==
    /\ ~SingleRecv
    /\ NextList("case", "add")
    /\ labels' = Labels
    /\ UNCHANGED <<ops, added>>

AddOperation ==
    /\ stage = "add"
    /\ tail # <<>>
    /\ labels # <<>>
    /\ Advance
    /\ labels' = Tail(labels)
    /\ ops' = Append(ops, [label |-> labels[1], case |-> tail[1]])
    /\ UNCHANGED <<stage, block, head, default, added, resultVars>>

TooMany ==
    /\ stage = "add"
    /\ tail # <<>>
    /\ labels = <<>>
    /\ Go("error")
    /\ UNCHANGED <<listVars, opVars, resultVars>>

\* With a default case the code calls try_select or select_timeout, which
\* this crate's Select does not have.
AddEnd ==
    /\ stage = "add"
    /\ tail = <<>>
    /\ Go(IF default = 0 THEN "register" ELSE "error")
    /\ UNCHANGED <<listVars, opVars, resultVars>>

-----------------------------------------------------------------------------
(* Running the code. *)

\* The body of a single receive or, if there is nothing to receive, of default.
RunReceive ==
    /\ stage = "receive"
    /\ ran' \in {head[1]} \cup ({default} \ {0})
    /\ Go("done")
    /\ UNCHANGED <<listVars, opVars, oper>>

Operation(i) == block[ops[i].case]

RegisterRecv ==
    /\ stage = "register"
    /\ Len(added) < Len(ops)
    /\ Operation(Len(added) + 1).kind = "recv"
    /\ added' = Append(added, Operation(Len(added) + 1).receiver)
    /\ UNCHANGED <<stage, listVars, labels, ops, resultVars>>

\* Select::send is unimplemented!().
RegisterSend ==
    /\ stage = "register"
    /\ Len(added) < Len(ops)
    /\ Operation(Len(added) + 1).kind = "send"
    /\ Go("panicked")
    /\ UNCHANGED <<listVars, opVars, resultVars>>

\* Any of the receivers may be ready.
Select ==
    /\ stage = "register"
    /\ Len(added) = Len(ops)
    /\ oper' \in 0 .. Len(added) - 1
    /\ Go("complete")
    /\ UNCHANGED <<listVars, opVars, ran>>

\* Mutant: the first case is taken for whatever was selected.
CompleteFirst ==
    /\ stage = "complete"
    /\ ops # <<>>
    /\ ran' = ops[1].case
    /\ Go("done")
    /\ UNCHANGED <<listVars, opVars, oper>>

\* SelectedOperation::recv checks that it is passed the selected receiver.
Complete ==
    /\ stage = "complete"
    /\ ops # <<>>
    /\ ops[1].label = oper
    /\ \/ Operation(1).receiver = added[oper + 1] /\ ran' = ops[1].case /\ Go("done")
       \/ Operation(1).receiver # added[oper + 1] /\ Go("panicked") /\ UNCHANGED ran
    /\ UNCHANGED <<listVars, opVars, oper>>

CompleteNext ==
    /\ stage = "complete"
    /\ ops # <<>>
    /\ ops[1].label # oper
    /\ ops' = Tail(ops)
    /\ UNCHANGED <<stage, listVars, labels, added, resultVars>>

\* unreachable!("internal error in crossbeam_channel-channel: invalid case")
InvalidCase ==
    /\ stage = "complete"
    /\ ops = <<>>
    /\ Go("invalid case")
    /\ UNCHANGED <<listVars, opVars, resultVars>>

Expand ==
    \/ Enter \/ ListCase \/ ListError \/ ListEnd
    \/ CaseOperation \/ CaseDefault \/ CaseError
    \/ InitRecv \/ InitSelect \/ AddOperation \/ TooMany \/ AddEnd

Run ==
    \/ RunReceive \/ RegisterRecv \/ RegisterSend \/ Select
    \/ Complete \/ CompleteNext \/ InvalidCase

Next == Expand \/ Run

Spec == Init /\ [][Next]_vars
-----------------------------------------------------------------------------
Positions == 1 .. Len(block)
Expanded == stage \in {"receive", "register", "complete", "done", "panicked", "invalid case"}

\* What a user means by the cases of a block that are numbered by select.
OperationsOf(b) == SelectSeq([i \in 1 .. Len(b) |-> i], LAMBDA i : b[i].kind # "default")
DefaultsOf(b) == {i \in 1 .. Len(b) : b[i].kind = "default"}

\* When select picks an operation of a block, the body of that case runs, with the
\* result of its own receiver; a single receive runs its body or default's.  What
\* panics is a block with a send, before any operation is selected.  Left out is a
\* selected nineteenth or twenty-first case: the macro gives both the label 20 and
\* none the label 18, so that the former ends in the invalid case and the latter is
\* taken for the former.
ChosenCaseRuns ==
    /\ stage = "done" /\ oper = NoOper => ran \in {OperationsOf(block)[1]} \cup DefaultsOf(block)
    /\ stage = "done" /\ oper \notin {NoOper, 18, 20} => ran = OperationsOf(block)[oper + 1]
    /\ stage \in {"invalid case", "panicked"} => oper \in {NoOper, 18, 20}

\* What expands is well formed, whatever it is that the arms look at one after
\* the other: it has an operation, all are receives or sends with their arguments
\* and one result, and there is at most one default.
OnlyWellFormedExpands ==
    Expanded =>
        /\ OperationsOf(block) # <<>>
        /\ Cardinality(DefaultsOf(block)) <= 1
        /\ \A i \in DOMAIN block :
              /\ block[i].kind # "default" => IsOperation(block[i]) /\ block[i].arrows = 1
              /\ block[i].sep # "semicolon"

\* A receive or a send in the form that the documentation shows, and default.
Documented(c) ==
    /\ c.sep = "comma"
    /\ \/ IsOperation(c) /\ c.arrows = 1
       \/ IsDefault(c) /\ c.arrows = 0

DocumentedBlock ==
    /\ OperationsOf(block) # <<>>
    /\ Len(OperationsOf(block)) <= 32
    /\ Cardinality(DefaultsOf(block)) <= 1
    /\ \A i \in DOMAIN block : Documented(block[i])

\* All documented blocks expand, but for a default case beside two operations, or
\* beside a send: that needs a Select::try_select or select_timeout.
DocumentedBlocksExpand ==
    stage = "error" =>
        \/ ~DocumentedBlock
        \/ DefaultsOf(block) # {} /\ (Len(block) # 2 \/ \E i \in DOMAIN block : block[i].kind = "send")

\* The arms accept the blocks of the documentation, and only those that are well
\* formed.
BlocksExpand == OnlyWellFormedExpands /\ DocumentedBlocksExpand
=============================================================================
