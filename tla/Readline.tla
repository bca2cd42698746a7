------------------------------ MODULE Readline ------------------------------
(***************************************************************************)
(* readline (common/main.c): the keys of the operator, the line in         *)
(* console_buffer and what the terminal shows of it.  The terminal is a    *)
(* row of cells with the cursor behind the last one; erase_seq takes it    *)
(* away, and a TAB is shown as blanks up to the next multiple of eight.    *)
(***************************************************************************)
EXTENDS Naturals, FiniteSetsExt, SequencesExt, Config

CONSTANTS
  plen,         \* length of the prompt
  Keys          \* ordinary characters: Tab, " " and others

ASSUME ReadlineAssumption == CFG_CBSIZE \in Nat \ {0, 1} /\ plen \in Nat

VARIABLES
  typed,     \* console_buffer up to p; its length is n
  col,       \* output column
  shown,     \* the cells on the screen
  entered    \* is it a line that readline returned

readlineVars == <<typed, col, shown, entered>>

Tab == "TAB"
Prompt == [n \in 1..plen |-> ">"]

ReadlineInit ==
  /\ typed = <<>>
  /\ col = plen
  /\ shown = Prompt
  /\ entered = FALSE
-----------------------------------------------------------------------------
(* What putc and puts do to a row of cells *)
Erase(row, n) == SubSeq(row, 1, IF n < Len(row) THEN Len(row) - n ELSE 0)

TabSize(c) == 8 - (c % 8)

(* A character shown in column c of a row *)
Echo(s, k) ==
  IF k = Tab
  THEN [row |-> s.row \o [n \in 1..TabSize(s.col) |-> " "],
        col |-> s.col + TabSize(s.col)]
  ELSE [row |-> Append(s.row, k), col |-> s.col + 1]

Screen == [row |-> shown, col |-> col]

(* Back to the prompt *)
Cleared(s) == [row |-> Erase(s.row, s.col - plen), col |-> plen]

(* Mutant: a TAB takes one column. *)
DeletedTab(s, text) ==
  IF text = <<>> THEN s ELSE [row |-> Erase(s.row, 1), col |-> s.col - 1]

(* delete_char on the screen: "will retype the whole line" for a TAB *)
Deleted(s, text) ==
  CASE text = <<>> -> s
    [] text # <<>> /\ text[Len(text)] = Tab ->
         FoldLeft(Echo, Cleared(s), Front(text))
    [] OTHER -> [row |-> Erase(s.row, 1), col |-> s.col - 1]

Without(text) == IF text = <<>> THEN <<>> ELSE Front(text)

(* delete_char k times over *)
DeletedTimes(k) ==
  LET d[n \in 0..k] ==
        IF n = 0 THEN [screen |-> Screen, text |-> typed]
        ELSE [screen |-> Deleted(d[n - 1].screen, d[n - 1].text),
              text |-> Without(d[n - 1].text)]
  IN  d[k]
-----------------------------------------------------------------------------
Show(s) == shown' = s.row /\ col' = s.col

Room == Len(typed) < CFG_CBSIZE - 2

(* "Must be a normal character then".  With the buffer full nothing comes *)
(* of it, nor of a NUL.                                                    *)
Normal(k) ==
  /\ ~entered /\ Room
  /\ typed' = Append(typed, k)
  /\ Show(Echo(Screen, k))
  /\ UNCHANGED entered

(* ^U *)
EraseLine ==
  /\ ~entered
  /\ typed' = <<>>
  /\ Show(Cleared(Screen))
  /\ UNCHANGED entered

(* ^W: up to and with a blank, or all there is *)
WordCount ==
  LET b == {n \in 1..Len(typed) : typed[n] = " "}
  IN  IF b = {} THEN Len(typed) ELSE Len(typed) - Max(b) + 1

EraseWord ==
  /\ ~entered
  /\ typed' = DeletedTimes(WordCount).text
  /\ Show(DeletedTimes(WordCount).screen)
  /\ UNCHANGED entered

(* ^H *)
Backspace ==
  /\ ~entered
  /\ typed' = DeletedTimes(1).text
  /\ Show(DeletedTimes(1).screen)
  /\ UNCHANGED entered

Enter ==
  /\ ~entered
  /\ entered' = TRUE
  /\ UNCHANGED <<typed, col, shown>>

(* Called again, after the line was run, or after ^C *)
Again ==
  /\ typed' = <<>>
  /\ col' = plen
  /\ shown' = Prompt
  /\ entered' = FALSE

ReadlineNext == \/ (\E k \in Keys : Normal(k))
                \/ EraseLine \/ EraseWord \/ Backspace \/ Enter \/ Again

ReadlineSpec == ReadlineInit /\ [][ReadlineNext]_readlineVars
-----------------------------------------------------------------------------
(* The operator sees the prompt and the line in the buffer, whatever was   *)
(* typed and erased.                                                       *)
ShownIsTyped ==
  shown = FoldLeft(Echo, [row |-> Prompt, col |-> plen], typed).row
=============================================================================
