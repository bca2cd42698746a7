------------------------------ MODULE Console -------------------------------
(***************************************************************************)
(* The command interpreter (common/main.c): main_loop reads a line or the  *)
(* key that repeats the last one, run_command runs its commands one after  *)
(* the other, and `run' and `bootd' call run_command again for the text of *)
(* a variable.  Control C stops the command at hand, which remembers it in *)
(* ctrlc_was_pressed.                                                      *)
(*                                                                         *)
(* A line is a sequence of commands; what a command does is left open, but *)
(* for whether it succeeds, and whether it was stopped.                    *)
(***************************************************************************)
EXTENDS Integers, Sequences

CONSTANTS
  Lines,   \* lines that may be typed
  Vars,    \* variables that are set, one of them "bootcmd"
  Script   \* their texts, as lines that are not empty

(* A command: its kind, whether its table entry says repeatable, and the   *)
(* arguments of `run', which has some: without it is one that fails.       *)
(* "bad" is one that is unknown or has too many arguments.                 *)
Command == {c \in [op : {"plain", "bad", "run", "bootd"},
                   repeatable : BOOLEAN, vars : Seq(Vars)] :
              c.op = "run" => c.vars # <<>>}

ASSUME ConsoleAssumption ==
  /\ "bootcmd" \in Vars
  /\ Lines \subseteq Seq(Command) \ {<<>>}
  /\ Script \in [Vars -> Seq(Command) \ {<<>>}]

VARIABLES
  stack,         \* activations of run_command, the innermost last
  lastcommand, rc, flag_repeat,   \* locals of main_loop
  ctrlc_was_pressed,
  stopped,       \* Control C was seen since the line was read, and `run'
                 \*   has not gone on to a further variable since
  ran            \* the last step: it began a command after Control C, or
                 \*   a variable after one that failed, or did neither

vars == <<stack, lastcommand, rc, flag_repeat, ctrlc_was_pressed, stopped,
          ran>>

Init ==
  /\ stack = <<>>
  /\ lastcommand = <<>> /\ rc = 1 /\ flag_repeat = FALSE
  /\ ctrlc_was_pressed = FALSE
  /\ stopped = FALSE /\ ran = "none"
-----------------------------------------------------------------------------
(* run_command from its call to the loop, for a line that is not empty.    *)
(* bootd is CMD_FLAG_BOOTD, rest what is left of the line, todo the        *)
(* variables that a `run' under way has still to see to.  failed is TRUE   *)
(* once a command has failed.                                              *)
Activation(line, bootd) ==
  [rest |-> line, bootd |-> bootd, rc |-> 0, repeatable |-> TRUE,
   todo |-> <<>>, failed |-> FALSE]

Top == stack[Len(stack)]
WithTop(a) == [stack EXCEPT ![Len(stack)] = a]
Below == SubSeq(stack, 1, Len(stack) - 1)

Done(a) == [a EXCEPT !.rest = Tail(a.rest), !.todo = <<>>]

(* Mutant: the last command alone decides. *)
BothLast(a, r) == r

(* repeatable &= cmdtp->repeatable *)
Both(a, r) == a.repeatable /\ r

(* Mutant: had_ctrlc is not asked. *)
AfterCommandOn(a, failed, pressed) ==
  [Done(a) EXCEPT !.rc = IF failed THEN -1 ELSE @,
                  !.repeatable = Both(a, Head(a.rest).repeatable),
                  !.failed = @ \/ failed]

(* Mutant: the last command alone decides whether the line failed. *)
AfterCommandLast(a, failed, pressed) ==
  LET b == [Done(a) EXCEPT
              !.rc = IF failed THEN -1 ELSE 0,
              !.repeatable = Both(a, Head(a.rest).repeatable),
              !.failed = @ \/ failed]
  IN  IF pressed THEN [b EXCEPT !.rest = <<>>, !.rc = 0, !.repeatable = FALSE]
                 ELSE b

(* What comes after cmdtp->cmd has returned, in activation a: with Control *)
(* C seen the rest of the line is dropped and 0 returned.                  *)
AfterCommand(a, failed, pressed) ==
  LET b == [Done(a) EXCEPT
              !.rc = IF failed THEN -1 ELSE @,
              !.repeatable = Both(a, Head(a.rest).repeatable),
              !.failed = @ \/ failed]
  IN  IF pressed THEN [b EXCEPT !.rest = <<>>, !.rc = 0, !.repeatable = FALSE]
                 ELSE b

(* return rc ? rc : repeatable *)
Returned(a) == IF a.rc # 0 THEN a.rc ELSE IF a.repeatable THEN 1 ELSE 0
-----------------------------------------------------------------------------
(* main_loop: readline, then run_command. *)
Forget(r) == lastcommand' = IF r <= 0 THEN <<>> ELSE lastcommand

ReadLine(line) ==
  /\ stack = <<>>
  /\ lastcommand' = line
  /\ flag_repeat' = FALSE
  /\ stack' = <<Activation(line, FALSE)>>
  /\ ctrlc_was_pressed' = FALSE
  /\ stopped' = FALSE /\ ran' = "none"
  /\ UNCHANGED rc

ReadRepeat ==
  /\ stack = <<>>
  /\ lastcommand # <<>>
  /\ flag_repeat' = TRUE
  /\ stack' = <<Activation(lastcommand, FALSE)>>
  /\ ctrlc_was_pressed' = FALSE
  /\ stopped' = FALSE /\ ran' = "none"
  /\ UNCHANGED <<lastcommand, rc>>

(* There is no last command: "empty command". *)
ReadEmpty ==
  /\ stack = <<>>
  /\ lastcommand = <<>>
  /\ flag_repeat' = TRUE
  /\ ctrlc_was_pressed' = FALSE
  /\ rc' = -1
  /\ stopped' = FALSE /\ ran' = "none"
  /\ UNCHANGED <<stack, lastcommand>>

(* <INTERRUPT>: rc is that of the command before. *)
ReadInterrupt ==
  /\ stack = <<>>
  /\ Forget(rc)
  /\ flag_repeat' = FALSE
  /\ stopped' = FALSE /\ ran' = "none"
  /\ UNCHANGED <<stack, rc, ctrlc_was_pressed>>
-----------------------------------------------------------------------------
(* The loop of run_command.  Next command of the innermost activation: *)
Begin(op) ==
  /\ stack # <<>>
  /\ Top.rest # <<>> /\ Top.todo = <<>>
  /\ Head(Top.rest).op = op
  /\ ran' = IF op # "bad" /\ stopped THEN "afterStop" ELSE "none"
  /\ UNCHANGED <<lastcommand, rc, flag_repeat>>

(* Mutant: the loop goes on with the same token. *)
SkippedNot(a) == [a EXCEPT !.rc = -1]

(* rc = -1; continue *)
Skipped(a) == [Done(a) EXCEPT !.rc = -1, !.failed = TRUE]

RunBad ==
  /\ Begin("bad")
  /\ stack' = WithTop(Skipped(Top))
  /\ UNCHANGED <<ctrlc_was_pressed, stopped>>

(* Some other command; it may fail, and it may be stopped. *)
RunPlain ==
  /\ Begin("plain")
  /\ \E failed, pressed \in BOOLEAN :
       /\ stack' = WithTop(AfterCommand(Top, failed, pressed))
       /\ ctrlc_was_pressed' = pressed
       /\ stopped' = (stopped \/ pressed)

(* "'bootd' recursion detected" *)
RunBootdAgain ==
  /\ Begin("bootd")
  /\ Top.bootd
  /\ stack' = WithTop(Skipped(Top))
  /\ UNCHANGED <<ctrlc_was_pressed, stopped>>

(* Call run_command for the variable v with flag bootd, from activation a: *)
(* clear_ctrlc comes first.                                                *)
Call(a, v, bootd) ==
  /\ ctrlc_was_pressed' = FALSE
  /\ stack' = Append(Append(Below, a), Activation(Script[v], bootd))
  /\ UNCHANGED stopped

(* do_bootd *)
RunBootd ==
  /\ Begin("bootd")
  /\ ~Top.bootd
  /\ Call([Top EXCEPT !.bootd = TRUE, !.todo = <<"bootcmd">>], "bootcmd", TRUE)

(* Mutant: do_run passes no flags on. *)
FlagNone(a) == FALSE

FlagPassed(a) == a.bootd

(* do_run *)
RunRun ==
  /\ Begin("run")
  /\ Call([Top EXCEPT !.todo = Head(Top.rest).vars], Head(Top.rest).vars[1],
          FlagPassed(Top))

(* The innermost activation returns: to main_loop ... *)
ReturnToMain ==
  /\ Len(stack) = 1
  /\ Top.rest = <<>>
  /\ stack' = <<>>
  /\ rc' = Returned(Top)
  /\ Forget(Returned(Top))
  /\ ran' = "none"
  /\ UNCHANGED <<flag_repeat, ctrlc_was_pressed, stopped>>

(* ... to do_run with variables left to run, unless it failed ...          *)
ReturnToRun ==
  LET a == stack[Len(stack) - 1]
  IN  /\ Len(stack) > 1
      /\ Top.rest = <<>>
      /\ Returned(Top) # -1 /\ Len(a.todo) > 1
      /\ stack' = [Below EXCEPT ![Len(stack) - 1].todo = Tail(@)]
                    \o <<Activation(Script[a.todo[2]], FlagPassed(a))>>
      /\ ctrlc_was_pressed' = FALSE
      /\ stopped' = FALSE
      /\ ran' = IF Top.failed /\ ~stopped THEN "afterFailed" ELSE "none"
      /\ UNCHANGED <<lastcommand, rc, flag_repeat>>

(* ... or to do_run or do_bootd at its end, and so to run_command.         *)
ReturnToCommand ==
  LET a == stack[Len(stack) - 1]
  IN  /\ Len(stack) > 1
      /\ Top.rest = <<>>
      /\ Returned(Top) = -1 \/ Len(a.todo) = 1
      /\ stack' = [Below EXCEPT ![Len(stack) - 1] =
                     AfterCommand(a, Returned(Top) = -1, ctrlc_was_pressed)]
      /\ ran' = "none"
      /\ UNCHANGED <<lastcommand, rc, flag_repeat, ctrlc_was_pressed, stopped>>
-----------------------------------------------------------------------------
Read == (\E line \in Lines : ReadLine(line))
          \/ ReadRepeat \/ ReadEmpty \/ ReadInterrupt

Run == \/ RunBad \/ RunPlain \/ RunBootdAgain \/ RunBootd \/ RunRun
       \/ ReturnToMain \/ ReturnToRun \/ ReturnToCommand

Next == Read \/ Run

Spec == Init /\ [][Next]_vars

(* A command that was begun ends. *)
FairSpec == Spec /\ WF_vars(Run)
-----------------------------------------------------------------------------
Calling(i, op) ==
  /\ stack[i].todo # <<>>
  /\ Head(stack[i].rest).op = op

(* "avoid "bootd" recursion": do_bootd is never called under do_bootd, not *)
(* even when bootcmd comes back to it by way of `run'.                     *)
BootdNotNested ==
  \A i, j \in DOMAIN stack :
    Calling(i, "bootd") /\ Calling(j, "bootd") => i = j

(* "invalid command or not repeatable, forget it": what the return key     *)
(* repeats is a line all of whose commands are known and repeatable.       *)
RepeatsRepeatable ==
  flag_repeat /\ stack # <<>>
    => \A n \in DOMAIN lastcommand :
         lastcommand[n].op # "bad" /\ lastcommand[n].repeatable

(* "Did the user stop this?": after Control C nothing more of the line is  *)
(* run, in no activation of run_command.  A `run' of several variables is  *)
(* the exception: it goes on to the next one and forgets the Control C.    *)
StopStops == ran # "afterStop"

(* "any failing command will cause "run" to terminate" (README): nothing   *)
(* more is run of its variables when a command of one has failed, however  *)
(* many more it had behind that command.  Control C is another matter.     *)
RunEndsOnFailure == ran # "afterFailed"

(* The prompt comes back. *)
PromptReturns == stack # <<>> ~> stack = <<>>
-----------------------------------------------------------------------------
(* What these rest on.  All activations but the innermost are in a call of *)
(* do_run or do_bootd, and the flag that a `bootd' sets is passed on to    *)
(* all that run above it.                                                  *)
Frame == [rest : Seq(Command), bootd : BOOLEAN, rc : {0, -1},
          repeatable : BOOLEAN, todo : Seq(Vars), failed : BOOLEAN]

Flagged == {a \in Frame : a.bootd}
Failed == {a \in Frame : a.failed}
Clean == {a \in Frame : a.rc = 0 /\ a.repeatable}

StackInv ==
  /\ stack \in Seq(Frame)
  /\ \A k \in 1..Len(stack) :
       IF k = Len(stack) THEN stack[k].todo = <<>>
       ELSE /\ stack[k].todo # <<>> /\ stack[k].rest # <<>>
            /\ Head(stack[k].rest).op \in {"run", "bootd"}
            /\ Head(stack[k].rest).op = "bootd"
                 => stack[k] \in Flagged /\ Len(stack[k].todo) = 1

FlagInv ==
  \A j, k \in 1..Len(stack) :
    j <= k /\ stack[j] \in Flagged => stack[k] \in Flagged

(* Control C drops what is left of the line, level by level. *)
StopInv ==
  /\ ctrlc_was_pressed \in BOOLEAN /\ stopped \in BOOLEAN
  /\ stack # <<>> => /\ stopped = ctrlc_was_pressed
                     /\ stopped => Top.rest = <<>>

(* A failure sticks, unless Control C was pressed after it. *)
FailInv ==
  \A k \in 1..Len(stack) :
    stack[k] \in Failed => stack[k].rc = -1 \/ (k = Len(stack) /\ stopped)

(* At the prompt the last command may be repeated, if there is one.  While *)
(* the outermost activation has neither failed nor met a command that is   *)
(* not repeatable, it has run the commands up to some place in its line.   *)
Good == {c \in Command : c.op # "bad" /\ c.repeatable}

RepeatInv ==
  /\ lastcommand \in Seq(Command)
  /\ flag_repeat \in BOOLEAN
  /\ stack = <<>> \/ flag_repeat =>
       \A n \in 1..Len(lastcommand) : lastcommand[n] \in Good
  /\ stack # <<>> /\ stack[1] \in Clean =>
       \E m \in 0..Len(lastcommand) :
         /\ stack[1].rest = SubSeq(lastcommand, m + 1, Len(lastcommand))
         /\ \A n \in 1..m : lastcommand[n] \in Good

InterpreterInv == /\ StackInv /\ FlagInv /\ BootdNotNested
                  /\ StopInv /\ StopStops /\ FailInv /\ RunEndsOnFailure
                  /\ RepeatInv
=============================================================================
