----------------------------- MODULE MCConsole ------------------------------
(* Instances of Console for TLC. *)
EXTENDS Console

Plain(r) == [op |-> "plain", repeatable |-> r, vars |-> <<>>]
Bad == [op |-> "bad", repeatable |-> TRUE, vars |-> <<>>]
Bootd == [op |-> "bootd", repeatable |-> TRUE, vars |-> <<>>]
RunVars(v) == [op |-> "run", repeatable |-> TRUE, vars |-> v]

AllVars == {"bootcmd", "x", "y"}

(* bootcmd comes back to itself through the variable x. *)
Texts == [bootcmd |-> <<Plain(TRUE), RunVars(<<"x">>)>>,
          x |-> <<Bootd, Plain(TRUE)>>,
          y |-> <<Plain(FALSE), Plain(TRUE)>>]

(* Every line of up to three commands. *)
Cmds == {Plain(TRUE), Plain(FALSE), Bad, Bootd, RunVars(<<"x">>),
         RunVars(<<"y">>)}
LinesOf(S) == UNION {[1..n -> S] : n \in 1..3}

SomeLines == LinesOf(Cmds)
               \union LinesOf({Plain(TRUE), Bootd, RunVars(<<"y", "x">>)})
=============================================================================
