-------------------------------- MODULE Line --------------------------------
(***************************************************************************)
(* How run_command reads a line (common/main.c): it cuts the line at every *)
(* ';', replaces the variables of each piece (process_macros) and cuts the *)
(* result into arguments (parse_line).  Both cuts and the replacement scan *)
(* for quotes and escapes on their own, character by character, which is   *)
(* what this module is about.  Strings are sequences of characters.        *)
(***************************************************************************)
EXTENDS Naturals, FiniteSetsExt, SequencesExt, Config

CONSTANTS
  CFG_MAXARGS,  \* arguments of a command, its name included
  Inputs,       \* [meant, how, line]: a text, the way it is written, and the
                \*   line that comes of it
  Value,        \* the variables that are set, with their values
  Beyond        \* what may be found in memory behind finaltoken

NUL == "NUL"
Quote == "'"
Backslash == "\\"
Blank(c) == c \in {" ", "\t"}
Special(c) == c \in {"$", ";"}

(* Where the n-th character of t is once it is escaped *)
Place(t, n) == n + Cardinality({k \in 1..n : Special(t[k])})

(* l is the text t with a backslash in front of every special character.   *)
(* There are no quotes and no backslashes in t.                            *)
Escapes(l, t) ==
  /\ ToSet(t) \intersect {Quote, Backslash} = {}
  /\ Len(l) = Place(t, Len(t))
  /\ \A n \in 1..Len(t) :
       /\ l[Place(t, n)] = t[n]
       /\ Special(t[n]) => l[Place(t, n) - 1] = Backslash

(* Words apart by one space, none at the ends, and no more of them than a  *)
(* command takes                                                           *)
Tidy(t) ==
  /\ "\t" \notin ToSet(t)
  /\ t # <<>> => ~Blank(t[1]) /\ ~Blank(t[Len(t)])
  /\ \A n \in 2..Len(t) : ~(Blank(t[n - 1]) /\ Blank(t[n]))
  /\ Cardinality({n \in 1..Len(t) : Blank(t[n])}) < CFG_MAXARGS

(* l is the text t in quotes.  There are none in t, nor does it end in a   *)
(* backslash.                                                              *)
Encloses(l, t) ==
  /\ l = <<Quote>> \o t \o <<Quote>>
  /\ Quote \notin ToSet(t) /\ Tidy(t)
  /\ t # <<>> => t[Len(t)] # Backslash

ASSUME LineAssumption ==
  /\ CFG_CBSIZE \in Nat \ {0} /\ CFG_MAXARGS \in Nat \ {0}
  /\ \A x \in Inputs : /\ x.how \in {"plain", "escaped", "quoted"}
                       /\ x.line \in Seq(STRING) /\ x.meant \in Seq(STRING)
                       /\ x.how = "escaped" => Escapes(x.line, x.meant)
                       /\ x.how = "quoted" => Encloses(x.line, x.meant)

VARIABLES
  input,      \* the line and what was meant by it
  prior,      \* the byte in front of cmdbuf
  str,        \* where the next piece begins
  token,      \* the piece at hand
  final,      \* what process_macros made of it
  argv,
  pc

lineVars == <<input, prior, str, token, final, argv, pc>>

line == input.line
-----------------------------------------------------------------------------
(* Mutant: quotes are not looked for. *)
InQuotesNever(j) == FALSE

(* *(sep - 1).  The ';' in front of a later piece has become a NUL; in     *)
(* front of the first it is a byte of the stack.                           *)
Before(j) == IF j = 1 THEN prior ELSE IF j = str THEN NUL ELSE line[j - 1]

InQuotes(j) ==
  Cardinality({k \in str..j : line[k] = Quote /\ Before(k) # Backslash}) % 2 = 1

(* Mutant: an escaped separator is one, too. *)
IsSepEscaped(j) == ~InQuotes(j) /\ line[j] = ";" /\ j # str

IsSep(j) ==
  /\ ~InQuotes(j)
  /\ line[j] = ";"
  /\ j # str
  /\ Before(j) # Backslash

(* The separator behind str, or the end of the line *)
Sep == Min({j \in str..Len(line) : IsSep(j)} \union {Len(line) + 1})
-----------------------------------------------------------------------------
(* Output stops where the buffer ends. *)
Put(out, s) ==
  LET room == CFG_CBSIZE - Len(out)
  IN  out \o SubSeq(s, 1, IF Len(s) < room THEN Len(s) ELSE room)

getenv(name) == IF name \in DOMAIN Value THEN Value[name] ELSE <<>>

(* Waiting for an (unescaped) $ *)
Case0(s, c) ==
  CASE c = Quote /\ s.prev # Backslash -> [s EXCEPT !.state = 3]
    [] c = "$" /\ s.prev # Backslash -> [s EXCEPT !.state = 1]
    [] OTHER -> [s EXCEPT !.out = Put(@, <<c>>)]

(* Waiting for ( *)
Case1(s, c, i) ==
  IF c \in {"(", "{"} THEN [s EXCEPT !.state = 2, !.start = i + 1]
  ELSE [s EXCEPT !.state = 0, !.out = Put(@, <<"$", c>>)]

(* Waiting for ), the name being all that was read since *)
Case2(s, c, t, i) ==
  IF c \in {")", "}"}
  THEN [s EXCEPT !.state = 0, !.out = Put(@, getenv(SubSeq(t, s.start, i - 1)))]
  ELSE s

(* Waiting for ' *)
Case3(s, c) ==
  IF c = Quote /\ s.prev # Backslash THEN [s EXCEPT !.state = 0]
  ELSE [s EXCEPT !.out = Put(@, <<c>>)]

(* process_macros: the character at i of t.  skip is TRUE between a         *)
(* backslash that is removed and the character behind it.                  *)
Macro(t, s, i) ==
  LET c == t[i]
      r == CASE s.state = 0 -> Case0(s, c)
             [] s.state = 1 -> Case1(s, c, i)
             [] s.state = 2 -> Case2(s, c, t, i)
             [] OTHER -> Case3(s, c)
  IN  IF Len(s.out) = CFG_CBSIZE THEN s
      ELSE IF /\ s.state # 3 /\ ~s.skip
              /\ c = Backslash /\ s.prev # Backslash
      THEN [s EXCEPT !.skip = TRUE, !.prev = c]
      ELSE [r EXCEPT !.skip = FALSE, !.prev = c]

(* ... behind n characters of t, and behind all of them *)
Macros(t, n) ==
  FoldLeft(LAMBDA s, i : Macro(t, s, i),
           [state |-> 0, prev |-> NUL, skip |-> FALSE,
            start |-> 0, out |-> <<>>], [i \in 1..n |-> i])

process_macros(t) == Macros(t, Len(t))
-----------------------------------------------------------------------------
(* Mutant: a word that the line ends with is left out. *)
EndMissed(t, i) ==
  Min({j \in i..Len(t) : Blank(t[j])} \union {Len(t)})

(* "find end of string" *)
End(t, i) ==
  Min({j \in i..Len(t) : Blank(t[j])} \union {Len(t) + 1})

(* "skip any white space" *)
Skip(t, i) == Min({j \in i..Len(t) : ~Blank(t[j])} \union {Len(t) + 1})

(* The arguments from position i on, rest telling those behind a blank *)
Words(t, i, rest) ==
  LET b == Skip(t, i)
      e == End(t, b)
  IN  IF b > Len(t) THEN <<>>
      ELSE <<SubSeq(t, b, e - 1)>> \o IF e > Len(t) THEN <<>> ELSE rest[e + 1]

(* parse_line: no more than CFG_MAXARGS arguments.  The words behind those *)
(* are reported and left out.                                              *)
parse_line(t) ==
  LET p[n \in 0..CFG_MAXARGS] ==
        [i \in 1..(Len(t) + 2) |->
           IF n = 0 THEN <<>> ELSE Words(t, i, p[n - 1])]
  IN  p[CFG_MAXARGS][1]
-----------------------------------------------------------------------------
LineInit ==
  /\ input \in Inputs
  /\ prior \in {NUL, Backslash}
  /\ str = 1 /\ token = <<>>
  /\ final = process_macros(<<>>)
  /\ argv = <<>>
  /\ pc = "call"

(* "## Command too long!" *)
TooLong ==
  /\ pc = "call"
  /\ Len(line) = 0 \/ Len(line) >= CFG_CBSIZE
  /\ pc' = "end"
  /\ UNCHANGED <<input, prior, str, token, final, argv>>

Accept ==
  /\ pc = "call"
  /\ Len(line) \in 1..(CFG_CBSIZE - 1)
  /\ pc' = "split"
  /\ UNCHANGED <<input, prior, str, token, final, argv>>

(* One turn of the loop: the piece and its replacement ... *)
Split ==
  /\ pc = "split"
  /\ str <= Len(line)
  /\ token' = SubSeq(line, str, Sep - 1)
  /\ str' = Sep + 1
  /\ final' = process_macros(token')
  /\ pc' = "parse"
  /\ UNCHANGED <<input, prior, argv>>

Return ==
  /\ pc = "split"
  /\ str > Len(line)
  /\ pc' = "end"
  /\ UNCHANGED <<input, prior, str, token, final, argv>>

(* ... and its arguments.  A buffer that is full has no NUL at its end,    *)
(* and parse_line goes on behind it.                                       *)
Parse ==
  /\ pc = "parse"
  /\ \E more \in IF Len(final.out) = CFG_CBSIZE THEN Beyond ELSE {<<>>} :
       argv' = parse_line(final.out \o more)
  /\ pc' = IF argv' = <<>> THEN "split" ELSE "lookup"
  /\ UNCHANGED <<input, prior, str, token, final>>

(* find_cmd: an unknown command, or one that takes fewer arguments, is not *)
(* run ...                                                                 *)
Refuse ==
  /\ pc = "lookup"
  /\ pc' = "split"
  /\ UNCHANGED <<input, prior, str, token, final, argv>>

(* ... and one that takes them is.  None is said to take more than         *)
(* CFG_MAXARGS.                                                            *)
Found ==
  /\ pc = "lookup"
  /\ \E maxargs \in 1..CFG_MAXARGS : Len(argv) <= maxargs
  /\ pc' = "run"
  /\ UNCHANGED <<input, prior, str, token, final, argv>>

RunFound ==
  /\ pc = "run"
  /\ pc' = "split"
  /\ UNCHANGED <<input, prior, str, token, final, argv>>

LineNext == \/ TooLong \/ Accept \/ Split \/ Return
            \/ Parse \/ Refuse \/ Found \/ RunFound

LineSpec == LineInit /\ [][LineNext]_lineVars
-----------------------------------------------------------------------------
(* "special characters ('$', ';') can be escaped by prefixing with '\'"    *)
(* (README): a text so written is one command, and comes out as meant.     *)
EscapedIsLiteral ==
  pc = "parse" /\ input.how = "escaped" => final.out = input.meant

(* process_macros does not take the quote at n for one: it stands right    *)
(* behind a '$' that counts, or in the name of a variable.                 *)
Unseen(t, n) ==
  LET s == Macros(t, n - 1)
  IN  t[n] = Quote /\ s.prev # Backslash /\ s.state \in {1, 2}

(* Otherwise both scans agree about quotes: no piece but the last one of a *)
(* line ends inside a quote of its own, whatever is escaped in it and      *)
(* whatever variables are part of it, unless they fill the buffer.         *)
PieceIsWhole ==
  /\ pc = "parse" /\ prior # Backslash /\ str <= Len(line)
  /\ Len(final.out) < CFG_CBSIZE
  /\ \A n \in 1..Len(token) : ~Unseen(token, n)
  => final.state # 3

(* The arguments joined by blanks, which is what setenv makes of them *)
Join(a, b) == IF a = <<>> THEN b ELSE a \o <<" ">> \o b
Joined == FoldLeft(Join, <<>>, argv)

(* "You can also escape text by enclosing in single apostrophes" (README): *)
(* a text in quotes reaches a command such as setenv as it was meant.  The *)
(* byte in front of the buffer is taken for the character before the first *)
(* quote.                                                                  *)
QuotedArrives ==
  pc = "run" /\ input.how = "quoted" /\ prior # Backslash
    => Joined = input.meant
=============================================================================
