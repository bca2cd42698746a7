---------------------------- MODULE ConsoleProof ----------------------------
(***************************************************************************)
(* What Console promises, for every set of lines, of variables and of      *)
(* texts: however often `run' and `bootd' call the interpreter again, and  *)
(* whatever is stopped or fails in between.  Then what readline shows of a *)
(* line and what run_command makes of its text, for every length of it:    *)
(* induction over the places of a sequence (SetInduction), on which what   *)
(* FoldLeft and the recursive functions compute rests.                     *)
(***************************************************************************)
EXTENDS Console, Line, Readline, FiniteSetTheorems, WellFoundedInduction,
        SequenceTheorems, TLAPS
-----------------------------------------------------------------------------
(* Activations. *)

(* A command without a call leaves the activation as AfterCommand says. *)
LEMMA AfterFields ==
  ASSUME NEW a \in Frame, a.rest # <<>>,
         NEW f \in BOOLEAN, NEW p \in BOOLEAN
  PROVE  /\ AfterCommand(a, f, p) \in Frame
         /\ AfterCommand(a, f, p).todo = <<>>
         /\ AfterCommand(a, f, p).bootd = a.bootd
         /\ AfterCommand(a, f, p).rest = IF p THEN <<>> ELSE Tail(a.rest)
         /\ AfterCommand(a, f, p).rc =
              IF p THEN 0 ELSE IF f THEN -1 ELSE a.rc
         /\ AfterCommand(a, f, p).failed = (a.failed \/ f)
         /\ AfterCommand(a, f, p).repeatable =
              (~p /\ a.repeatable /\ Head(a.rest).repeatable)
<1> DEFINE r == IF p THEN <<>> ELSE Tail(a.rest)
           c == IF p THEN 0 ELSE IF f THEN -1 ELSE a.rc
           l == a.failed \/ f
           b == ~p /\ a.repeatable /\ Head(a.rest).repeatable
           z == [rest |-> r, bootd |-> a.bootd, rc |-> c, repeatable |-> b,
                 todo |-> <<>>, failed |-> l]
<1>1. /\ a.rest \in Seq(Command) /\ a.bootd \in BOOLEAN /\ a.rc \in {0, -1}
      /\ a.repeatable \in BOOLEAN /\ a.failed \in BOOLEAN
  BY DEF Frame
<1>2. r \in Seq(Command) /\ c \in {0, -1} /\ <<>> \in Seq(Vars)
  BY <1>1
<1>3. l \in BOOLEAN /\ b \in BOOLEAN
  BY <1>1, Zenon
<1>4. z \in Frame
  <2> HIDE DEF r, c, l, b
  <2> QED BY <1>1, <1>2, <1>3, Zenon DEF Frame
<1>5. AfterCommand(a, f, p) = z
  <2>1. CASE p
    <3> r = <<>> /\ c = 0 /\ b = FALSE
      BY <2>1
    <3> HIDE DEF r, c, l, b
    <3> AfterCommand(a, f, p) =
          [[Done(a) EXCEPT !.rc = IF f THEN -1 ELSE @,
                           !.repeatable = Both(a, Head(a.rest).repeatable),
                           !.failed = @ \/ f]
             EXCEPT !.rest = <<>>, !.rc = 0, !.repeatable = FALSE]
      BY <2>1 DEF AfterCommand
    <3> QED BY <2>1, <1>1 DEF Done, Frame, l
  <2>2. CASE ~p
    <3> QED BY <2>2, <1>1 DEF AfterCommand, Done, Both, Frame
  <2> QED BY <2>1, <2>2
<1>6. /\ z.todo = <<>> /\ z.bootd = a.bootd /\ z.rest = r /\ z.rc = c
      /\ z.failed = l /\ z.repeatable = b
  <2> HIDE DEF r, c, l, b
  <2> QED BY Zenon
<1> QED BY <1>4, <1>5, <1>6, Zenon

LEMMA SkippedFields ==
  ASSUME NEW a \in Frame, a.rest # <<>>
  PROVE  /\ Skipped(a) \in Frame
         /\ Skipped(a).todo = <<>> /\ Skipped(a).bootd = a.bootd
         /\ Skipped(a).rc = -1
<1>1. Done(a) \in Frame /\ Done(a).todo = <<>> /\ Done(a).bootd = a.bootd
  <2>1. Tail(a.rest) \in Seq(Command) /\ <<>> \in Seq(Vars)
    BY DEF Frame
  <2>2. Done(a) \in Frame
    BY <2>1 DEF Done, Frame
  <2>3. Done(a).todo = <<>>
    BY DEF Done, Frame
  <2>4. Done(a).bootd = a.bootd
    BY DEF Done, Frame
  <2> QED BY <2>2, <2>3, <2>4
<1> DEFINE s(t) == [Done(a) EXCEPT !.rc = -1, !.failed = t]
<1>2. ASSUME NEW t \in BOOLEAN
      PROVE  /\ s(t) \in Frame
             /\ s(t).todo = <<>> /\ s(t).bootd = a.bootd /\ s(t).rc = -1
  <2>1. s(t) \in Frame
    BY <1>1 DEF Frame
  <2>2. s(t).todo = <<>> /\ s(t).rc = -1
    BY <1>1 DEF Frame
  <2>3. s(t).bootd = a.bootd
    BY <1>1 DEF Frame
  <2> QED BY <2>1, <2>2, <2>3
<1>3. Skipped(a) = s(TRUE)
  BY Zenon DEF Skipped
<1> HIDE DEF s
<1> QED BY <1>2, <1>3

LEMMA ActivationFields ==
  ASSUME NEW l \in Seq(Command) \ {<<>>}, NEW b \in BOOLEAN
  PROVE  /\ Activation(l, b) \in Frame
         /\ Activation(l, b).rest = l /\ Activation(l, b).todo = <<>>
         /\ Activation(l, b).bootd = b /\ Activation(l, b).rc = 0
         /\ Activation(l, b).failed = FALSE
         /\ Activation(l, b).repeatable = TRUE
  BY DEF Activation, Frame

LEMMA ReturnedIs ==
  ASSUME NEW a \in Frame
  PROVE  /\ Returned(a) = -1 <=> a.rc = -1
         /\ Returned(a) > 0 => a.rc = 0 /\ a.repeatable
         /\ Returned(a) \in Int
  BY DEF Returned, Frame
-----------------------------------------------------------------------------
(* Places in a stack of n activations. *)
LEMMA Places ==
  ASSUME NEW n \in Nat \ {0}
  PROVE  /\ 1 \in 1..n /\ n \in 1..n /\ n \in 1..(n + 1) /\ n # n + 1
         /\ n + 1 \in 1..(n + 1)
         /\ \A k \in 1..n : k \in 1..(n + 1) /\ k # n + 1 /\ k <= n
         /\ \A k \in 1..(n - 1) : k \in 1..n /\ k # n /\ k < n
         /\ \A k \in 1..n : k = n \/ k \in 1..(n - 1)
         /\ \A k \in 1..(n + 1) : k = n + 1 \/ k \in 1..n
         /\ n = 1 \/ 1 \in 1..(n - 1)
  OBVIOUS

LEMMA TailLeft ==
  ASSUME NEW S, NEW q \in Seq(S), Len(q) > 1
  PROVE  Tail(q) # <<>> /\ Len(q) # 1
<1>1. q # <<>> /\ Len(q) \in Nat
  BY EmptySeq
<1>2. Len(Tail(q)) = Len(q) - 1
  BY <1>1, HeadTailProperties
<1>3. Len(Tail(q)) # 0 /\ Len(q) # 1
  BY <1>1, <1>2
<1> QED BY <1>3, EmptySeq, Zenon

(* The stack of activations. *)

(* Replacing the innermost one, ... *)
LEMMA TopReplaced ==
  ASSUME stack \in Seq(Frame), stack # <<>>, NEW a \in Frame
  PROVE  /\ WithTop(a) \in Seq(Frame) /\ Len(WithTop(a)) = Len(stack)
         /\ \A k \in 1..Len(stack) :
              WithTop(a)[k] = IF k = Len(stack) THEN a ELSE stack[k]
  BY DEF WithTop

(* ... calling from it, ... *)
Called(a, b) == Append(Append(Below, a), b)

LEMMA TopCalls ==
  ASSUME stack \in Seq(Frame), stack # <<>>,
         NEW a \in Frame, NEW b \in Frame
  PROVE  /\ Called(a, b) \in Seq(Frame)
         /\ Len(Called(a, b)) = Len(stack) + 1
         /\ Called(a, b)[Len(stack) + 1] = b
         /\ Called(a, b)[Len(stack)] = a
         /\ \A k \in 1..(Len(stack) - 1) : Called(a, b)[k] = stack[k]
<1>0. Len(stack) \in Nat \ {0}
  BY EmptySeq
<1>1. /\ Below \in Seq(Frame) /\ Len(Below) = Len(stack) - 1
      /\ \A k \in 1..(Len(stack) - 1) : Below[k] = stack[k]
  BY <1>0, SubSeqProperties DEF Below
<1>2. /\ Append(Below, a) \in Seq(Frame)
      /\ Len(Append(Below, a)) = Len(stack)
      /\ \A k \in 1..Len(stack) :
           Append(Below, a)[k] = IF k = Len(stack) THEN a ELSE stack[k]
  BY <1>1
<1> QED BY <1>2 DEF Called

(* ... and returning from it to the one below. *)
LEMMA TopReturns ==
  ASSUME stack \in Seq(Frame), Len(stack) > 1, NEW a \in Frame
  PROVE  LET s == [Below EXCEPT ![Len(stack) - 1] = a]
         IN  /\ s \in Seq(Frame) /\ Len(s) = Len(stack) - 1
             /\ \A k \in 1..(Len(stack) - 1) :
                  s[k] = IF k = Len(stack) - 1 THEN a ELSE stack[k]
<1>1. /\ Below \in Seq(Frame) /\ Len(Below) = Len(stack) - 1
      /\ \A k \in 1..(Len(stack) - 1) : Below[k] = stack[k]
  BY DEF Below
<1> QED BY <1>1

(* `run' with a further variable: the two innermost are replaced. *)
LEMMA TopCallsAgain ==
  ASSUME stack \in Seq(Frame), Len(stack) > 1,
         NEW b \in Frame, stack[Len(stack) - 1].todo # <<>>
  PROVE  LET a == stack[Len(stack) - 1]
             s == [Below EXCEPT ![Len(stack) - 1].todo = Tail(@)] \o <<b>>
         IN  /\ s \in Seq(Frame) /\ Len(s) = Len(stack)
             /\ s[Len(stack)] = b
             /\ s[Len(stack) - 1] = [a EXCEPT !.todo = Tail(@)]
             /\ [a EXCEPT !.todo = Tail(@)] \in Frame
             /\ \A k \in 1..(Len(stack) - 2) : s[k] = stack[k]
<1> DEFINE n == Len(stack) - 1
           a == stack[n]
           t == [Below EXCEPT ![n].todo = Tail(@)]
<1>1. /\ Below \in Seq(Frame) /\ Len(Below) = n
      /\ \A k \in 1..n : Below[k] = stack[k]
  BY DEF Below
<1>2. a \in Frame /\ n \in 1..n /\ n \in Nat
  OBVIOUS
<1>3. Tail(a.todo) \in Seq(Vars)
  BY <1>2 DEF Frame
<1>4. [a EXCEPT !.todo = Tail(@)] \in Frame
  <2> HIDE DEF a
  <2> QED BY <1>2, <1>3 DEF Frame
<1>5. /\ t \in Seq(Frame) /\ Len(t) = n
      /\ \A k \in 1..n :
           t[k] = IF k = n THEN [a EXCEPT !.todo = Tail(@)] ELSE stack[k]
  <2>1. t = [Below EXCEPT ![n] = [a EXCEPT !.todo = Tail(@)]]
    BY <1>1, <1>2, Zenon
  <2> DEFINE z == [a EXCEPT !.todo = Tail(@)]
  <2> HIDE DEF t, n, a, z
  <2> QED BY <1>1, <1>2, <1>4, <2>1 DEF z
<1>6. n + 1 = Len(stack)
  OBVIOUS
<1>7. /\ t \o <<b>> \in Seq(Frame) /\ Len(t \o <<b>>) = n + 1
      /\ (t \o <<b>>)[n + 1] = b
      /\ (t \o <<b>>)[n] = [a EXCEPT !.todo = Tail(@)]
      /\ \A k \in 1..(n - 1) : (t \o <<b>>)[k] = stack[k]
  <2>1. b \in Frame
    OBVIOUS
  <2> DEFINE z == [a EXCEPT !.todo = Tail(@)]
  <2> HIDE DEF t, n, a, z
  <2>2. /\ t \o <<b>> \in Seq(Frame) /\ Len(t \o <<b>>) = n + 1
        /\ \A k \in 1..(n + 1) :
             (t \o <<b>>)[k] = IF k <= n THEN t[k] ELSE b
    BY <1>2, <1>5, <2>1
  <2>3. t[n] = z /\ \A k \in 1..(n - 1) : t[k] = stack[k]
    BY <1>2, <1>5 DEF z
  <2>4. n \in 1..(n + 1) /\ n + 1 \in 1..(n + 1) /\ n <= n /\ ~(n + 1 <= n)
    BY <1>2
  <2>5. \A k \in 1..(n - 1) : k \in 1..(n + 1) /\ k <= n
    BY <1>2
  <2>6. \A k \in 1..(n - 1) : (t \o <<b>>)[k] = stack[k]
    BY <2>2, <2>3, <2>5
  <2> QED BY <2>2, <2>3, <2>4, <2>6, Zenon DEF z
<1>8. n - 1 = Len(stack) - 2
  OBVIOUS
<1> HIDE DEF t
<1> QED BY <1>4, <1>6, <1>7, <1>8 DEF t
-----------------------------------------------------------------------------
(* The calls of run_command are in order, ... *)
CallInv == StackInv /\ FlagInv /\ BootdNotNested

LEMMA Caller ==
  ASSUME CallInv, NEW k \in 1..Len(stack), k # Len(stack)
  PROVE  /\ stack[k].todo # <<>> /\ stack[k].rest # <<>>
         /\ Head(stack[k].rest).op \in {"run", "bootd"}
         /\ Head(stack[k].rest).op = "bootd"
              => stack[k] \in Flagged /\ Len(stack[k].todo) = 1
  BY Zenon DEF CallInv, StackInv

(* ... when a command ends in the activation that it began in, ... *)
LEMMA CommandEnds ==
  ASSUME CallInv, FailInv, stack # <<>>, NEW a \in Frame,
         a.todo = <<>>, a \in Flagged <=> Top \in Flagged,
         a \in Failed => a.rc = -1 \/ stopped',
         stack' = WithTop(a)
  PROVE  /\ CallInv' /\ FailInv'
         /\ stack' # <<>> /\ Top' = a
         /\ \/ stack'[1] = stack[1]
            \/ stack'[1] = a /\ stack[1] = Top
<1> DEFINE n == Len(stack)
<1>1. n \in Nat \ {0} /\ stack \in Seq(Frame) /\ DOMAIN stack = 1..n
  BY EmptySeq DEF CallInv, StackInv
<1>2. /\ stack' \in Seq(Frame) /\ Len(stack') = n
      /\ \A k \in 1..n : stack'[k] = IF k = n THEN a ELSE stack[k]
  BY <1>1, TopReplaced
<1> HIDE DEF n
<1>3. StackInv'
  BY <1>1, <1>2 DEF CallInv, StackInv, n
<1>4. FlagInv'
  BY <1>1, <1>2 DEF CallInv, FlagInv, Top, n
<1>5. BootdNotNested'
  BY <1>1, <1>2 DEF CallInv, BootdNotNested, Calling
<1>6. FailInv'
  BY <1>1, <1>2 DEF FailInv, n
<1>7. stack' # <<>> /\ Top' = a
  BY <1>1, <1>2 DEF Top
<1>8. \/ stack'[1] = stack[1]
      \/ stack'[1] = a /\ stack[1] = Top
  <2>1. CASE n = 1
    BY <1>1, <1>2, <2>1, Places, Zenon DEF Top, n
  <2>2. CASE 1 \in 1..(n - 1)
    BY <1>1, <1>2, <2>2, Places, Zenon
  <2> QED BY <1>1, <2>1, <2>2, Places, Zenon
<1> QED BY <1>3, <1>4, <1>5, <1>6, <1>7, <1>8 DEF CallInv

(* ... when it calls run_command, a `bootd' only without the flag, ... *)
LEMMA CommandCalls ==
  ASSUME CallInv, FailInv, stack # <<>>, NEW a \in Frame, NEW b \in Frame,
         a.rest # <<>>, Head(a.rest).op \in {"run", "bootd"},
         a.todo # <<>>, b.todo = <<>>,
         Top \in Flagged => a \in Flagged, a \in Flagged => b \in Flagged,
         Head(a.rest).op = "bootd"
           => Top \notin Flagged /\ a \in Flagged /\ Len(a.todo) = 1,
         a \in Failed => a.rc = -1, b \notin Failed,
         stack' = Called(a, b)
  PROVE  /\ CallInv' /\ FailInv'
         /\ stack' # <<>> /\ Top' = b
         /\ \/ stack'[1] = stack[1]
            \/ stack'[1] = a /\ stack[1] = Top
<1> DEFINE n == Len(stack)
<1>1. n \in Nat \ {0} /\ stack \in Seq(Frame) /\ DOMAIN stack = 1..n
  BY EmptySeq DEF CallInv, StackInv
<1>2. /\ stack' \in Seq(Frame) /\ Len(stack') = n + 1
      /\ stack'[n + 1] = b /\ stack'[n] = a
      /\ \A k \in 1..(n - 1) : stack'[k] = stack[k]
  <2>1. stack' \in Seq(Frame) /\ Len(stack') = n + 1
    BY <1>1, TopCalls
  <2>2. stack'[n + 1] = b /\ stack'[n] = a
    BY <1>1, TopCalls
  <2>3. \A k \in 1..(n - 1) : stack'[k] = stack[k]
    <3>1. \A k \in 1..(Len(stack) - 1) : Called(a, b)[k] = stack[k]
      <4>1. stack \in Seq(Frame)
        BY <1>1, Zenon
      <4> QED BY <4>1, TopCalls, Zenon
    <3> QED BY <3>1
  <2> QED BY <2>1, <2>2, <2>3
<1> HIDE DEF n
<1>3. StackInv'
  <2>1. ASSUME NEW k \in 1..(n + 1)
        PROVE  IF k = n + 1 THEN stack'[k].todo = <<>>
               ELSE /\ stack'[k].todo # <<>> /\ stack'[k].rest # <<>>
                    /\ Head(stack'[k].rest).op \in {"run", "bootd"}
                    /\ Head(stack'[k].rest).op = "bootd"
                         => /\ stack'[k] \in Flagged
                            /\ Len(stack'[k].todo) = 1
    <3>1. CASE k = n + 1
      BY <1>2, <3>1
    <3>2. CASE k = n
      BY <1>1, <1>2, <3>2
    <3>3. CASE k \in 1..n /\ k # n
      <4>1. stack'[k] = stack[k]
        BY <1>1, <1>2, <3>3
      <4>2. k # n + 1
        BY <1>1, <3>3
      <4> QED BY <1>1, <3>3, <4>1, <4>2, Caller, Zenon DEF n
    <3> QED BY <1>1, <3>1, <3>2, <3>3
  <2> QED BY <1>2, <2>1 DEF StackInv
<1>4. FlagInv'
  BY <1>1, <1>2 DEF CallInv, FlagInv, Top, n
<1>5. BootdNotNested'
  <2>1. ASSUME NEW k \in 1..(n - 1), Calling(k, "bootd")
        PROVE  Top \in Flagged
    <3>1. stack[k] \in Flagged
      <4>1. k \in 1..n /\ k # n
        BY <1>1
      <4> QED BY <2>1, <4>1, Caller, Zenon DEF Calling, n
    <3>2. k \in 1..n /\ n \in 1..n /\ k <= n
      BY <1>1
    <3> QED BY <3>1, <3>2 DEF CallInv, FlagInv, Top, n
  <2>2. ASSUME NEW k \in 1..(n + 1)
        PROVE  Calling(k, "bootd")' <=>
                 \/ k < n /\ Calling(k, "bootd")
                 \/ k = n /\ Head(a.rest).op = "bootd"
    <3>1. CASE k = n + 1
      <4>1. stack'[k].todo = <<>> /\ ~(k < n) /\ k # n
        BY <1>1, <1>2, <3>1
      <4> QED BY <4>1, Zenon DEF Calling
    <3>2. CASE k = n
      <4>1. stack'[k] = a /\ ~(k < n)
        BY <1>1, <1>2, <3>2
      <4> QED BY <3>2, <4>1, Zenon DEF Calling
    <3>3. CASE k < n
      <4>1. stack'[k] = stack[k] /\ k # n
        BY <1>1, <1>2, <3>3
      <4> QED BY <3>3, <4>1, Zenon DEF Calling
    <3> QED BY <1>1, <3>1, <3>2, <3>3
  <2>3. \A i, j \in 1..(n + 1) :
          Calling(i, "bootd")' /\ Calling(j, "bootd")' => i = j
    <3> SUFFICES ASSUME NEW i \in 1..(n + 1), NEW j \in 1..(n + 1),
                        Calling(i, "bootd")', Calling(j, "bootd")'
                 PROVE  i = j
      OBVIOUS
    <3>1. i < n /\ j < n => i = j
      BY <1>1, <2>2 DEF CallInv, BootdNotNested
    <3>2. ~(i < n /\ j = n) /\ ~(i = n /\ j < n)
      BY <1>1, <2>1, <2>2
    <3> QED BY <1>1, <2>2, <3>1, <3>2
  <2> QED BY <1>2, <2>3 DEF BootdNotNested
<1>6. FailInv'
  <2> SUFFICES ASSUME NEW k \in 1..(n + 1), stack'[k] \in Failed
               PROVE  stack'[k].rc = -1
    BY <1>2 DEF FailInv
  <2>1. k # n + 1
    BY <1>2
  <2>2. CASE k = n
    BY <1>2, <2>2
  <2>3. CASE k \in 1..(n - 1)
    <3>1. stack'[k] = stack[k] /\ k \in 1..n /\ k # n
      BY <1>1, <1>2, <2>3
    <3> QED BY <3>1 DEF FailInv, n
  <2> QED BY <1>1, <2>1, <2>2, <2>3
<1>7. stack' # <<>> /\ Top' = b
  BY <1>1, <1>2 DEF Top
<1>8. \/ stack'[1] = stack[1]
      \/ stack'[1] = a /\ stack[1] = Top
  <2>1. CASE n = 1
    BY <1>1, <1>2, <2>1, Places, Zenon DEF Top, n
  <2>2. CASE 1 \in 1..(n - 1)
    BY <1>1, <1>2, <2>2, Places, Zenon
  <2> QED BY <1>1, <2>1, <2>2, Places, Zenon
<1> QED BY <1>3, <1>4, <1>5, <1>6, <1>7, <1>8 DEF CallInv

(* ... when it returns with nothing left for the caller to call, ... *)
LEMMA CallReturns ==
  ASSUME CallInv, FailInv, Len(stack) > 1, NEW a \in Frame, a.todo = <<>>,
         a \in Flagged <=> stack[Len(stack) - 1] \in Flagged,
         a \in Failed => a.rc = -1 \/ stopped',
         stack' = [Below EXCEPT ![Len(stack) - 1] = a]
  PROVE  /\ CallInv' /\ FailInv'
         /\ stack' # <<>> /\ Top' = a
         /\ \/ stack'[1] = stack[1]
            \/ stack'[1] = a /\ stack[1] = stack[Len(stack) - 1]
<1> DEFINE n == Len(stack) - 1
<1>1. /\ n \in Nat \ {0} /\ stack \in Seq(Frame) /\ DOMAIN stack = 1..(n + 1)
      /\ Len(stack) = n + 1
  BY DEF CallInv, StackInv
<1>2. /\ stack' \in Seq(Frame) /\ Len(stack') = n
      /\ \A k \in 1..n : stack'[k] = IF k = n THEN a ELSE stack[k]
  BY <1>1, TopReturns, Zenon
<1> HIDE DEF n
<1>3. \A k \in 1..n : k \in 1..(n + 1) /\ k # n + 1
  BY <1>1, Places, Zenon
<1>4. StackInv'
  BY <1>1, <1>2, <1>3 DEF CallInv, StackInv
<1>5. FlagInv'
  <2>1. \A k \in 1..n : stack'[k] \in Flagged <=> stack[k] \in Flagged
    BY <1>2, Zenon DEF n
  <2> QED BY <1>1, <1>2, <1>3, <2>1, Zenon DEF CallInv, FlagInv
<1>6. BootdNotNested'
  BY <1>1, <1>2, <1>3 DEF CallInv, BootdNotNested, Calling
<1>7. FailInv'
  BY <1>1, <1>2, <1>3 DEF FailInv
<1>8. stack' # <<>> /\ Top' = a
  BY <1>1, <1>2 DEF Top
<1>9. \/ stack'[1] = stack[1]
      \/ stack'[1] = a /\ stack[1] = stack[n]
  <2>1. CASE n = 1
    BY <1>1, <1>2, <2>1, Places, Zenon
  <2>2. CASE 1 \in 1..(n - 1)
    BY <1>1, <1>2, <2>2, Places, Zenon
  <2> QED BY <1>1, <2>1, <2>2, Places, Zenon
<1> QED BY <1>4, <1>5, <1>6, <1>7, <1>8, <1>9 DEF CallInv, n

(* ... and when `run' goes on to its next variable. *)
LEMMA NextVariable ==
  ASSUME CallInv, FailInv, Len(stack) > 1, NEW b \in Frame, b.todo = <<>>,
         b \notin Failed,
         b \in Flagged <=> stack[Len(stack) - 1] \in Flagged,
         Len(stack[Len(stack) - 1].todo) > 1,
         stack' = [Below EXCEPT ![Len(stack) - 1].todo = Tail(@)] \o <<b>>
  PROVE  /\ CallInv' /\ FailInv'
         /\ stack' # <<>> /\ Top' = b
         /\ stack'[1].rest = stack[1].rest
         /\ stack'[1] \in Clean => stack[1] \in Clean
<1> DEFINE n == Len(stack) - 1
           a == stack[n]
           z == [a EXCEPT !.todo = Tail(@)]
<1>1. /\ n \in Nat \ {0} /\ stack \in Seq(Frame) /\ DOMAIN stack = 1..(n + 1)
      /\ Len(stack) = n + 1 /\ a \in Frame
  BY DEF CallInv, StackInv
<1>2. /\ a.todo # <<>> /\ a.rest # <<>>
      /\ Head(a.rest).op \in {"run", "bootd"}
      /\ Head(a.rest).op # "bootd"
  <2>1. a.todo \in Seq(Vars) /\ Len(a.todo) > 1
    BY <1>1 DEF Frame
  <2>3. Len(a.todo) # 1
    <3> HIDE DEF a
    <3> QED BY <2>1, TailLeft, Zenon
  <2> HIDE DEF n, a
  <2>2. n \in 1..Len(stack) /\ n # Len(stack)
    BY <1>1, Places, Zenon
  <2> QED BY <2>2, <2>3, Caller, Zenon DEF a
<1>3. /\ stack' \in Seq(Frame) /\ Len(stack') = n + 1
      /\ stack'[n + 1] = b /\ stack'[n] = z /\ z \in Frame
      /\ \A k \in 1..(n - 1) : stack'[k] = stack[k]
  <2>1. n - 1 = Len(stack) - 2
    OBVIOUS
  <2> QED BY <1>1, <1>2, <2>1, TopCallsAgain, Zenon
<1>4. z.rest = a.rest /\ z.rc = a.rc /\ z.todo = Tail(a.todo)
  <2> HIDE DEF a
  <2> QED BY <1>1 DEF Frame
<1>5. /\ z \in Flagged <=> a \in Flagged
      /\ z \in Failed <=> a \in Failed
      /\ z \in Clean <=> a \in Clean
  <2>1. /\ z.bootd = a.bootd
        /\ z.failed = a.failed
        /\ z.repeatable = a.repeatable
    <3> HIDE DEF a
    <3> QED BY <1>1 DEF Frame
  <2> HIDE DEF a, z
  <2> QED BY <1>1, <1>3, <1>4, <2>1, Zenon DEF Flagged, Failed, Clean
<1>6. z.todo # <<>>
  <2>1. a.todo \in Seq(Vars) /\ Len(a.todo) > 1
    BY <1>1 DEF Frame
  <2> HIDE DEF a, z
  <2> QED BY <1>4, <2>1, TailLeft, Zenon
<1> HIDE DEF n, a, z
<1>7. \A k \in 1..(n - 1) : k \in 1..(n + 1) /\ k # n + 1 /\ k # n
  BY <1>1, Places, Zenon
<1>8. \A k \in 1..(n + 1) : k = n + 1 \/ k = n \/ k \in 1..(n - 1)
  BY <1>1, Places, Zenon
<1> DEFINE Like(x, y) ==
             /\ x \in Flagged <=> y \in Flagged
             /\ x \in Failed <=> y \in Failed
             /\ x \in Clean <=> y \in Clean
             /\ x.rest = y.rest /\ x.rc = y.rc
             /\ x.todo # <<>> <=> y.todo # <<>>
             /\ Head(x.rest).op = "bootd" => x.todo = y.todo
<1>9. \A k \in 1..n : Like(stack'[k], stack[k])
  <2>1. Like(z, a)
    BY <1>2, <1>4, <1>5, <1>6, Zenon
  <2>2. \A x : Like(x, x)
    BY Zenon
  <2> HIDE DEF Like
  <2> SUFFICES ASSUME NEW k \in 1..n
               PROVE  Like(stack'[k], stack[k])
    OBVIOUS
  <2>3. CASE k = n
    BY <1>3, <2>1, <2>3, Zenon DEF a
  <2>4. CASE k \in 1..(n - 1)
    BY <1>3, <2>2, <2>4, Zenon
  <2> QED BY <1>1, <2>3, <2>4, Places, Zenon
<1>10. StackInv'
  <2>1. ASSUME NEW k \in 1..(n + 1)
        PROVE  IF k = n + 1 THEN stack'[k].todo = <<>>
               ELSE /\ stack'[k].todo # <<>> /\ stack'[k].rest # <<>>
                    /\ Head(stack'[k].rest).op \in {"run", "bootd"}
                    /\ Head(stack'[k].rest).op = "bootd"
                         => /\ stack'[k] \in Flagged
                            /\ Len(stack'[k].todo) = 1
    <3>1. CASE k = n + 1
      BY <1>3, <3>1, Zenon
    <3>2. CASE k \in 1..n
      <4>1. k \in 1..(n + 1) /\ k # n + 1
        BY <1>1, <3>2, Places, Zenon
      <4> QED BY <1>1, <1>9, <3>2, <4>1, Caller, Zenon
    <3> QED BY <1>1, <3>1, <3>2, Places, Zenon
  <2> QED BY <1>3, <2>1, Zenon DEF StackInv
<1>11. FlagInv'
  <2>1. stack'[n + 1] \in Flagged <=> stack[n] \in Flagged
    BY <1>3, Zenon DEF n
  <2> SUFFICES ASSUME NEW j \in 1..(n + 1), NEW k \in 1..(n + 1), j <= k,
                      stack'[j] \in Flagged
               PROVE  stack'[k] \in Flagged
    BY <1>3, Zenon DEF FlagInv
  <2>3. CASE k \in 1..n
    <3>1. j \in 1..n
      BY <1>1, <2>3
    <3>2. stack[j] \in Flagged
      BY <1>9, <3>1, Zenon
    <3>3. stack[k] \in Flagged
      BY <1>1, <3>2, Zenon DEF CallInv, FlagInv
    <3> QED BY <1>9, <2>3, <3>3, Zenon
  <2>4. CASE k = n + 1
    <3>1. CASE j = n + 1
      BY <2>4, <3>1, Zenon
    <3>2. CASE j \in 1..n
      <4>1. j <= n /\ n \in 1..(n + 1)
        BY <1>1, <3>2, Places, Zenon
      <4>2. stack[j] \in Flagged
        BY <1>9, <3>2, Zenon
      <4>3. stack[n] \in Flagged
        BY <1>1, <4>1, <4>2, Zenon DEF CallInv, FlagInv
      <4> QED BY <2>1, <2>4, <4>3, Zenon
    <3> QED BY <1>1, <3>1, <3>2, Places, Zenon
  <2> QED BY <1>1, <2>3, <2>4, Places, Zenon
<1>12. BootdNotNested'
  <2>1. DOMAIN stack' = 1..(n + 1)
    BY <1>3
  <2>2. ASSUME NEW k \in 1..(n + 1), Calling(k, "bootd")'
        PROVE  k \in 1..n /\ Calling(k, "bootd")
    <3>1. k # n + 1
      BY <1>3, <2>2, Zenon DEF Calling
    <3>2. k \in 1..n
      BY <1>1, <3>1, Places, Zenon
    <3> QED BY <1>9, <2>2, <3>2, Zenon DEF Calling
  <2> QED BY <1>1, <2>1, <2>2, Zenon DEF BootdNotNested, CallInv
<1>13. FailInv'
  <2> SUFFICES ASSUME NEW k \in 1..(n + 1), stack'[k] \in Failed
               PROVE  stack'[k].rc = -1
    BY <1>3, Zenon DEF FailInv
  <2>1. k \in 1..n
    BY <1>1, <1>3, Places, Zenon
  <2>2. k \in 1..(n + 1) /\ k # n + 1
    BY <1>1, <2>1, Places, Zenon
  <2> QED BY <1>1, <1>9, <2>1, <2>2, Zenon DEF FailInv
<1>14. stack' # <<>> /\ Top' = b
  BY <1>1, <1>3 DEF Top
<1>15. /\ stack'[1].rest = stack[1].rest
       /\ stack'[1] \in Clean => stack[1] \in Clean
  BY <1>1, <1>9, Places, Zenon
<1> QED
  BY <1>10, <1>11, <1>12, <1>13, <1>14, <1>15 DEF CallInv
-----------------------------------------------------------------------------
(* The line that main_loop called run_command with: what is left of it is  *)
(* its end.                                                                *)
LEMMA LineEnd ==
  ASSUME NEW l \in Seq(Command), NEW m \in 0..Len(l)
  PROVE  /\ SubSeq(l, m + 1, Len(l)) = <<>> => m = Len(l)
         /\ SubSeq(l, m + 1, Len(l)) # <<>> =>
              /\ m + 1 \in 0..Len(l)
              /\ Head(SubSeq(l, m + 1, Len(l))) = l[m + 1]
              /\ Tail(SubSeq(l, m + 1, Len(l))) = SubSeq(l, (m + 1) + 1, Len(l))
<1> DEFINE n == Len(l)
           q == SubSeq(l, m + 1, n)
           r == SubSeq(l, (m + 1) + 1, n)
<1>1. n \in Nat /\ m \in Nat /\ m <= n /\ \A i \in 1..n : l[i] \in Command
  OBVIOUS
<1>2. CASE m = n
  BY <1>1, <1>2, SubSeqEmpty
<1>3. CASE m < n
  <2> HIDE DEF n
  <2>1. /\ q \in Seq(Command) /\ Len(q) = n - m
        /\ \A i \in 1..(n - m) : q[i] = l[m + i]
    BY <1>1, <1>3, SubSeqProperties
  <2>2. /\ r \in Seq(Command) /\ Len(r) = n - m - 1
        /\ \A i \in 1..(n - m - 1) : r[i] = l[m + 1 + i]
    BY <1>1, <1>3, SubSeqProperties
  <2> HIDE DEF q, r
  <2>3. q # <<>> /\ Head(q) = l[m + 1]
    BY <1>1, <1>3, <2>1
  <2>4. /\ Tail(q) \in Seq(Command) /\ Len(Tail(q)) = n - m - 1
        /\ \A i \in 1..(n - m - 1) : Tail(q)[i] = q[i + 1]
    BY <1>1, <1>3, <2>1, <2>3, HeadTailProperties
  <2>5. \A i \in 1..(n - m - 1) : Tail(q)[i] = r[i]
    BY <1>1, <1>3, <2>1, <2>2, <2>4
  <2>6. Tail(q) = r
    BY <1>1, <1>3, <2>2, <2>4, <2>5, SeqEqual
  <2> QED BY <1>1, <1>3, <2>3, <2>6 DEF q, r, n
<1> QED BY <1>1, <1>2, <1>3

LEMMA LineGoesOn ==
  ASSUME RepeatInv, stack # <<>>, stack' # <<>>,
         lastcommand' = lastcommand, flag_repeat' = flag_repeat,
         stack'[1] \in Clean =>
           /\ stack[1] \in Clean
           /\ \/ stack'[1].rest = stack[1].rest
              \/ /\ stack[1].rest # <<>>
                 /\ Head(stack[1].rest) \in Good
                 /\ stack'[1].rest = Tail(stack[1].rest)
  PROVE  RepeatInv'
<1> DEFINE l == lastcommand
           At(x, m) == /\ x = SubSeq(l, m + 1, Len(l))
                       /\ \A n \in 1..m : l[n] \in Good
<1>1. l \in Seq(Command)
  BY DEF RepeatInv
<1>2. ASSUME stack'[1] \in Clean
      PROVE  \E m \in 0..Len(l) : At(stack'[1].rest, m)
  <2>1. PICK m \in 0..Len(l) : At(stack[1].rest, m)
    BY <1>2, Zenon DEF RepeatInv
  <2>2. CASE stack'[1].rest = stack[1].rest
    BY <2>1, <2>2, Zenon
  <2>3. CASE /\ stack[1].rest # <<>>
             /\ Head(stack[1].rest) \in Good
             /\ stack'[1].rest = Tail(stack[1].rest)
    <3>1. /\ m + 1 \in 0..Len(l) /\ l[m + 1] \in Good
          /\ stack'[1].rest = SubSeq(l, (m + 1) + 1, Len(l))
      BY <1>1, <2>1, <2>3, LineEnd, Zenon
    <3>2. \A n \in 1..(m + 1) : n \in 1..m \/ n = m + 1
      OBVIOUS
    <3>3. At(stack'[1].rest, m + 1)
      BY <2>1, <3>1, <3>2, Zenon
    <3> QED BY <3>1, <3>3, Zenon
  <2> QED BY <1>2, <2>2, <2>3
<1> QED BY <1>2, Zenon DEF RepeatInv
-----------------------------------------------------------------------------
(* A command begins: Control C was not pressed. *)
LEMMA Begun ==
  ASSUME InterpreterInv, NEW op, Begin(op)
  PROVE  /\ stack # <<>> /\ Top \in Frame /\ Top.rest # <<>>
         /\ Head(Top.rest) \in Command /\ Head(Top.rest).op = op
         /\ stopped = FALSE /\ ctrlc_was_pressed = FALSE /\ ran' = "none"
         /\ Top \in Failed => Top.rc = -1
         /\ UNCHANGED <<lastcommand, rc, flag_repeat>>
<1>1. stack # <<>> /\ Top.rest # <<>> /\ Head(Top.rest).op = op
  BY DEF Begin
<1>2. Len(stack) \in 1..Len(stack) /\ Top \in Frame
  BY <1>1 DEF InterpreterInv, StackInv, Top
<1>3. stopped = FALSE /\ ctrlc_was_pressed = FALSE
  BY <1>1, Zenon DEF InterpreterInv, StopInv
<1>4. Head(Top.rest) \in Command
  BY <1>1, <1>2 DEF Frame
<1>5. Top \in Failed => Top.rc = -1
  BY <1>2, <1>3, Zenon DEF InterpreterInv, FailInv, Top
<1>6. ran' = "none" /\ UNCHANGED <<lastcommand, rc, flag_repeat>>
  BY <1>3, Zenon DEF Begin
<1> QED BY <1>1, <1>2, <1>3, <1>4, <1>5, <1>6

(* Two that a command leaves as they were, but for what comes next. *)
LEMMA SkippedStep ==
  ASSUME InterpreterInv, NEW op, Begin(op),
         stack' = WithTop(Skipped(Top)),
         UNCHANGED <<ctrlc_was_pressed, stopped>>
  PROVE  InterpreterInv'
<1> DEFINE a == Skipped(Top)
<1>1. /\ stack # <<>> /\ Top \in Frame /\ Top.rest # <<>>
      /\ stopped = FALSE /\ ctrlc_was_pressed = FALSE /\ ran' = "none"
      /\ UNCHANGED <<lastcommand, rc, flag_repeat>>
  BY Begun, Zenon
<1>2. a \in Frame /\ a.todo = <<>> /\ a.bootd = Top.bootd /\ a.rc = -1
  BY <1>1, SkippedFields, Zenon
<1>3. CallInv /\ FailInv
  BY DEF InterpreterInv, CallInv
<1> HIDE DEF a
<1>4. a \in Flagged <=> Top \in Flagged
  BY <1>1, <1>2, Zenon DEF Flagged
<1>5. a \notin Clean
  BY <1>2 DEF Clean
<1>6. /\ CallInv' /\ FailInv' /\ stack' # <<>>
      /\ stack'[1] = stack[1] \/ stack'[1] = a
  BY <1>1, <1>2, <1>3, <1>4, CommandEnds, Zenon DEF a
<1>7. RepeatInv'
  BY <1>1, <1>5, <1>6, LineGoesOn, Zenon DEF InterpreterInv
<1>8. StopInv'
  BY <1>1, Zenon DEF StopInv
<1> QED BY <1>1, <1>6, <1>7, <1>8, Zenon
        DEF InterpreterInv, CallInv, StopStops, RunEndsOnFailure

LEMMA PlainStep ==
  ASSUME InterpreterInv, RunPlain
  PROVE  InterpreterInv'
<1>1. PICK f \in BOOLEAN, p \in BOOLEAN :
        /\ stack' = WithTop(AfterCommand(Top, f, p))
        /\ ctrlc_was_pressed' = p
        /\ stopped' = (stopped \/ p)
  BY Zenon DEF RunPlain
<1> DEFINE a == AfterCommand(Top, f, p)
<1>2. /\ stack # <<>> /\ Top \in Frame /\ Top.rest # <<>>
      /\ Head(Top.rest) \in Command /\ Head(Top.rest).op = "plain"
      /\ stopped = FALSE /\ ran' = "none"
      /\ Top \in Failed => Top.rc = -1
      /\ UNCHANGED <<lastcommand, rc, flag_repeat>>
  <2>1. Begin("plain")
    BY DEF RunPlain
  <2> QED BY <2>1, Begun, Zenon
<1>3. /\ a \in Frame /\ a.todo = <<>> /\ a.bootd = Top.bootd
      /\ a.rest = IF p THEN <<>> ELSE Tail(Top.rest)
      /\ a.rc = IF p THEN 0 ELSE IF f THEN -1 ELSE Top.rc
      /\ a.failed = (Top.failed \/ f)
      /\ a.repeatable =
           (~p /\ Top.repeatable /\ Head(Top.rest).repeatable)
  <2>1. Top \in Frame /\ Top.rest # <<>>
    BY <1>2
  <2> QED BY <2>1, AfterFields
<1>4. CallInv /\ FailInv
  BY DEF InterpreterInv, CallInv
<1> HIDE DEF a
<1>5. a \in Flagged <=> Top \in Flagged
  BY <1>2, <1>3, Zenon DEF Flagged
<1>6. stopped' = p
  BY <1>1, <1>2, Zenon
<1>7. a \in Failed => a.rc = -1 \/ stopped'
  BY <1>2, <1>3, <1>6, Zenon DEF Failed
<1>8. a \in Clean => /\ Top \in Clean /\ Head(Top.rest) \in Good
                     /\ a.rest = Tail(Top.rest)
  <2> SUFFICES ASSUME a \in Clean
               PROVE  /\ Top \in Clean /\ Head(Top.rest) \in Good
                      /\ a.rest = Tail(Top.rest)
    OBVIOUS
  <2>1. ~p /\ Top.repeatable /\ Head(Top.rest).repeatable /\ a.rc = 0
    BY <1>3, Zenon DEF Clean
  <2>2. Top.rc = 0
    BY <1>3, <2>1
  <2> QED BY <1>2, <1>3, <2>1, <2>2, Zenon DEF Clean, Good
<1>9. /\ CallInv' /\ FailInv' /\ stack' # <<>> /\ Top' = a
      /\ \/ stack'[1] = stack[1]
         \/ stack'[1] = a /\ stack[1] = Top
  BY <1>1, <1>2, <1>3, <1>4, <1>5, <1>7, CommandEnds, Zenon DEF a
<1>10. RepeatInv'
  BY <1>2, <1>8, <1>9, LineGoesOn, Zenon DEF InterpreterInv
<1>11. StopInv'
  <2>1. p => Top'.rest = <<>>
    BY <1>3, <1>9, Zenon
  <2>2. ctrlc_was_pressed' = p /\ p \in BOOLEAN
    BY <1>1, Zenon
  <2> QED BY <1>6, <2>1, <2>2, Zenon DEF StopInv
<1> QED BY <1>2, <1>9, <1>10, <1>11, Zenon
        DEF InterpreterInv, CallInv, StopStops, RunEndsOnFailure

(* `run' and `bootd' call run_command. *)
LEMMA CallStep ==
  ASSUME InterpreterInv, NEW op \in {"run", "bootd"}, Begin(op),
         NEW a \in Frame, NEW v \in Vars, NEW bd \in BOOLEAN,
         a.rest = Top.rest, a.rc = Top.rc, a.todo # <<>>,
         a.failed = Top.failed, a.repeatable = Top.repeatable,
         Top.bootd => a.bootd, a.bootd => bd,
         op = "bootd" => ~Top.bootd /\ a.bootd /\ Len(a.todo) = 1,
         Call(a, v, bd)
  PROVE  InterpreterInv'
<1> DEFINE b == Activation(Script[v], bd)
<1>1. /\ stack # <<>> /\ Top \in Frame /\ Top.rest # <<>>
      /\ Head(Top.rest).op = op
      /\ stopped = FALSE /\ ran' = "none"
      /\ Top \in Failed => Top.rc = -1
      /\ UNCHANGED <<lastcommand, rc, flag_repeat>>
  BY Begun, Zenon
<1>2. Script[v] \in Seq(Command) \ {<<>>}
  BY ConsoleAssumption, Zenon
<1>3. /\ b \in Frame /\ b.rest = Script[v] /\ b.todo = <<>> /\ b.bootd = bd
      /\ b.failed = FALSE
  BY <1>2, ActivationFields, Zenon
<1>4. CallInv /\ FailInv
  BY DEF InterpreterInv, CallInv
<1>5. stack' = Called(a, b) /\ ctrlc_was_pressed' = FALSE /\ stopped' = stopped
  BY Zenon DEF Call, Called
<1> HIDE DEF b
<1>6. /\ Top \in Flagged => a \in Flagged
      /\ a \in Flagged => b \in Flagged
      /\ op = "bootd" => Top \notin Flagged /\ a \in Flagged
  BY <1>1, <1>3, Zenon DEF Flagged
<1>7. /\ a \in Failed => a.rc = -1
      /\ b \notin Failed
      /\ a \in Clean => Top \in Clean
  BY <1>1, <1>3, Zenon DEF Failed, Clean
<1>8. /\ a.rest # <<>> /\ Head(a.rest).op = op
      /\ Head(a.rest).op \in {"run", "bootd"}
  BY <1>1, Zenon
<1>9. /\ CallInv' /\ FailInv' /\ stack' # <<>> /\ Top' = b
      /\ \/ stack'[1] = stack[1]
         \/ stack'[1] = a /\ stack[1] = Top
  BY <1>1, <1>3, <1>4, <1>5, <1>6, <1>7, <1>8, CommandCalls, Zenon
<1>10. RepeatInv'
  BY <1>1, <1>7, <1>9, LineGoesOn, Zenon DEF InterpreterInv
<1>11. StopInv'
  BY <1>1, <1>5, Zenon DEF StopInv
<1> QED BY <1>1, <1>9, <1>10, <1>11, Zenon
        DEF InterpreterInv, CallInv, StopStops, RunEndsOnFailure

LEMMA BootdStep ==
  ASSUME InterpreterInv, RunBootd
  PROVE  InterpreterInv'
<1> DEFINE s(t) == [Top EXCEPT !.bootd = t, !.todo = <<"bootcmd">>]
<1>1. Begin("bootd") /\ ~Top.bootd /\ Call(s(TRUE), "bootcmd", TRUE)
  BY Zenon DEF RunBootd
<1>2. Top \in Frame /\ "bootcmd" \in Vars
  BY <1>1, Begun, ConsoleAssumption, Zenon
<1>3. ASSUME NEW t \in BOOLEAN
      PROVE  /\ s(t) \in Frame /\ s(t).rest = Top.rest /\ s(t).rc = Top.rc
             /\ s(t).todo = <<"bootcmd">> /\ s(t).failed = Top.failed
             /\ s(t).repeatable = Top.repeatable /\ s(t).bootd = t
  <2>1. <<"bootcmd">> \in Seq(Vars)
    BY <1>2
  <2>2. s(t) \in Frame
    BY <1>2, <2>1 DEF Frame
  <2>3. /\ s(t).rest = Top.rest /\ s(t).rc = Top.rc
        /\ s(t).todo = <<"bootcmd">>
    BY <1>2 DEF Frame
  <2>4. s(t).failed = Top.failed
    BY <1>2 DEF Frame
  <2>5. s(t).repeatable = Top.repeatable
    BY <1>2 DEF Frame
  <2>6. s(t).bootd = t
    BY <1>2 DEF Frame
  <2> QED BY <2>2, <2>3, <2>4, <2>5, <2>6, Zenon
<1>4. <<"bootcmd">> # <<>> /\ Len(<<"bootcmd">>) = 1
  OBVIOUS
<1> HIDE DEF s
<1> QED BY <1>1, <1>2, <1>3, <1>4, CallStep, Zenon

LEMMA RunStep ==
  ASSUME InterpreterInv, RunRun
  PROVE  InterpreterInv'
<1> DEFINE q == Head(Top.rest).vars
           a == [Top EXCEPT !.todo = q]
<1>1. Begin("run") /\ Call(a, q[1], Top.bootd)
  BY Zenon DEF RunRun, FlagPassed
<1>2. /\ Top \in Frame /\ Head(Top.rest) \in Command
      /\ Head(Top.rest).op = "run"
  BY <1>1, Begun, Zenon
<1>3. q \in Seq(Vars) /\ q # <<>>
  BY <1>2 DEF Command
<1> HIDE DEF q
<1>4. q[1] \in Vars
  BY <1>3
<1>5. /\ a \in Frame /\ a.rest = Top.rest /\ a.rc = Top.rc
      /\ a.todo = q /\ a.failed = Top.failed
      /\ a.repeatable = Top.repeatable /\ a.bootd = Top.bootd
  <2>1. a \in Frame
    BY <1>2, <1>3 DEF Frame
  <2>2. a.rest = Top.rest /\ a.rc = Top.rc /\ a.todo = q
    BY <1>2 DEF Frame
  <2>3. a.failed = Top.failed
    BY <1>2 DEF Frame
  <2>4. a.repeatable = Top.repeatable
    BY <1>2 DEF Frame
  <2>5. a.bootd = Top.bootd
    BY <1>2 DEF Frame
  <2> QED BY <2>1, <2>2, <2>3, <2>4, <2>5, Zenon
<1>6. Top.bootd \in BOOLEAN
  BY <1>2 DEF Frame
<1> HIDE DEF a
<1> QED BY <1>1, <1>3, <1>4, <1>5, <1>6, CallStep, Zenon

(* run_command returns. *)
LEMMA ToRunStep ==
  ASSUME InterpreterInv, ReturnToRun
  PROVE  InterpreterInv'
<1> DEFINE n == Len(stack) - 1
           a == stack[n]
           b == Activation(Script[a.todo[2]], a.bootd)
<1>1. /\ Len(stack) > 1 /\ Top.rest = <<>> /\ Returned(Top) # -1
      /\ Len(a.todo) > 1
      /\ stack' = [Below EXCEPT ![Len(stack) - 1].todo = Tail(@)] \o <<b>>
      /\ ctrlc_was_pressed' = FALSE /\ stopped' = FALSE
      /\ ran' = IF Top.failed /\ ~stopped THEN "afterFailed" ELSE "none"
      /\ UNCHANGED <<lastcommand, rc, flag_repeat>>
  BY Zenon DEF ReturnToRun, FlagPassed
<1>2. CallInv /\ FailInv /\ StopInv /\ RepeatInv
  BY DEF InterpreterInv, CallInv
<1>3. a \in Frame /\ Top \in Frame /\ Len(stack) \in 1..Len(stack) /\ stack # <<>>
  BY <1>1, <1>2 DEF CallInv, StackInv, Top
<1>4. a.todo[2] \in Vars /\ a.bootd \in BOOLEAN
  <2>1. a.todo \in Seq(Vars) /\ a.bootd \in BOOLEAN
    BY <1>3 DEF Frame
  <2> HIDE DEF a
  <2> QED BY <1>1, <2>1
<1>5. Script[a.todo[2]] \in Seq(Command) \ {<<>>}
  BY <1>4, ConsoleAssumption, Zenon
<1>6. /\ b \in Frame /\ b.todo = <<>> /\ b.bootd = a.bootd
      /\ b.failed = FALSE
  BY <1>4, <1>5, ActivationFields, Zenon
<1> HIDE DEF b
<1>7. b \notin Failed /\ (b \in Flagged <=> a \in Flagged)
  BY <1>3, <1>6, Zenon DEF Failed, Flagged
<1>8. /\ CallInv' /\ FailInv' /\ stack' # <<>>
      /\ stack'[1].rest = stack[1].rest
      /\ stack'[1] \in Clean => stack[1] \in Clean
  BY <1>1, <1>2, <1>6, <1>7, NextVariable, Zenon
<1>9. RepeatInv'
  BY <1>1, <1>2, <1>3, <1>8, LineGoesOn, Zenon
<1>10. StopInv'
  BY <1>1, Zenon DEF StopInv
<1>11. ran' = "none"
  <2>1. Top.rc # -1
    BY <1>1, <1>3, ReturnedIs, Zenon
  <2>2. Top \in Failed => stopped
    BY <1>2, <1>3, <2>1, Zenon DEF FailInv, Top
  <2> QED BY <1>1, <1>3, <2>2, Zenon DEF Failed
<1> QED BY <1>8, <1>9, <1>10, <1>11, Zenon
        DEF InterpreterInv, CallInv, StopStops, RunEndsOnFailure

LEMMA ToCommandStep ==
  ASSUME InterpreterInv, ReturnToCommand
  PROVE  InterpreterInv'
<1> DEFINE c == stack[Len(stack) - 1]
           f == (Returned(Top) = -1)
           p == ctrlc_was_pressed
           a == AfterCommand(c, f, p)
<1>1. /\ Len(stack) > 1 /\ Top.rest = <<>>
      /\ stack' = [Below EXCEPT ![Len(stack) - 1] = a]
      /\ ran' = "none"
      /\ UNCHANGED <<lastcommand, rc, flag_repeat, ctrlc_was_pressed, stopped>>
  BY Zenon DEF ReturnToCommand
<1>2. CallInv /\ FailInv /\ StopInv /\ RepeatInv
  BY DEF InterpreterInv, CallInv
<1>3. /\ c \in Frame /\ Top \in Frame /\ stack # <<>>
      /\ Len(stack) - 1 \in 1..Len(stack) /\ Len(stack) - 1 # Len(stack)
  BY <1>1, <1>2 DEF CallInv, StackInv, Top
<1>4. p \in BOOLEAN /\ f \in BOOLEAN /\ stopped = p
  BY <1>2, <1>3, Zenon DEF StopInv
<1>5. c.rest # <<>> /\ Head(c.rest).op \in {"run", "bootd"}
  BY <1>2, <1>3, Caller, Zenon
<1>6. c \in Failed => c.rc = -1
  BY <1>2, <1>3, Zenon DEF FailInv
<1>7. Head(c.rest) \in Command /\ Head(c.rest).op # "bad"
  <2>1. Head(c.rest) \in Command
    <3>1. c.rest \in Seq(Command)
      BY <1>3 DEF Frame
    <3> HIDE DEF c
    <3> QED BY <1>5, <3>1
  <2> HIDE DEF c
  <2> QED BY <1>5, <2>1
<1> HIDE DEF c, f, p
<1>8. /\ a \in Frame /\ a.todo = <<>> /\ a.bootd = c.bootd
      /\ a.rest = IF p THEN <<>> ELSE Tail(c.rest)
      /\ a.rc = IF p THEN 0 ELSE IF f THEN -1 ELSE c.rc
      /\ a.failed = (c.failed \/ f)
      /\ a.repeatable = (~p /\ c.repeatable /\ Head(c.rest).repeatable)
  BY <1>3, <1>4, <1>5, AfterFields
<1> HIDE DEF a
<1>9. a \in Flagged <=> c \in Flagged
  BY <1>3, <1>8, Zenon DEF Flagged
<1>10. stopped' = p /\ ctrlc_was_pressed' = p
  BY <1>1, <1>4, Zenon DEF p
<1>11. a \in Failed => a.rc = -1 \/ stopped'
  BY <1>3, <1>6, <1>8, <1>10, Zenon DEF Failed
<1>12. a \in Clean => /\ c \in Clean /\ Head(c.rest) \in Good
                      /\ a.rest = Tail(c.rest)
  <2> SUFFICES ASSUME a \in Clean
               PROVE  /\ c \in Clean /\ Head(c.rest) \in Good
                      /\ a.rest = Tail(c.rest)
    OBVIOUS
  <2>1. ~p /\ c.repeatable /\ Head(c.rest).repeatable /\ a.rc = 0
    BY <1>8, Zenon DEF Clean
  <2>2. c.rc = 0
    BY <1>8, <2>1
  <2> QED BY <1>3, <1>7, <1>8, <2>1, <2>2, Zenon DEF Clean, Good
<1>13. /\ CallInv' /\ FailInv' /\ stack' # <<>> /\ Top' = a
       /\ \/ stack'[1] = stack[1]
          \/ stack'[1] = a /\ stack[1] = c
  BY <1>1, <1>2, <1>8, <1>9, <1>11, CallReturns, Zenon DEF c
<1>14. RepeatInv'
  BY <1>1, <1>2, <1>3, <1>5, <1>12, <1>13, LineGoesOn, Zenon
<1>15. StopInv'
  <2>1. p => Top'.rest = <<>>
    BY <1>8, <1>13, Zenon
  <2> QED BY <1>4, <1>10, <2>1, Zenon DEF StopInv
<1> QED BY <1>1, <1>13, <1>14, <1>15, Zenon
        DEF InterpreterInv, CallInv, StopStops, RunEndsOnFailure

(* An empty stack says nothing of calls, and one activation little. *)
LEMMA StackEmpty ==
  ASSUME stack' = <<>>
  PROVE  CallInv' /\ FailInv'
<1>1. stack' \in Seq(Frame) /\ Len(stack') = 0 /\ DOMAIN stack' = {}
  OBVIOUS
<1>2. 1..0 = {}
  OBVIOUS
<1> QED BY <1>1, <1>2 DEF CallInv, StackInv, FlagInv, BootdNotNested, FailInv

LEMMA StackOne ==
  ASSUME NEW a \in Frame, a.todo = <<>>, a \notin Failed, stack' = <<a>>
  PROVE  /\ CallInv' /\ FailInv'
         /\ stack' # <<>> /\ Top' = a /\ stack'[1] = a
<1>1. /\ stack' \in Seq(Frame) /\ Len(stack') = 1 /\ DOMAIN stack' = 1..1
      /\ stack'[1] = a /\ stack' # <<>>
  OBVIOUS
<1>2. \A k \in 1..1 : k = 1
  OBVIOUS
<1>3. StackInv' /\ FlagInv' /\ FailInv'
  BY <1>1, <1>2, Zenon DEF StackInv, FlagInv, FailInv
<1>4. BootdNotNested'
  BY <1>1, <1>2, Zenon DEF BootdNotNested
<1> QED BY <1>1, <1>3, <1>4, Zenon DEF CallInv, Top

LEMMA ToMainStep ==
  ASSUME InterpreterInv, ReturnToMain
  PROVE  InterpreterInv'
<1> DEFINE l == lastcommand
<1>1. /\ Len(stack) = 1 /\ Top.rest = <<>> /\ stack' = <<>> /\ ran' = "none"
      /\ Forget(Returned(Top))
      /\ UNCHANGED <<flag_repeat, ctrlc_was_pressed, stopped>>
  BY DEF ReturnToMain
<1>2. StackInv /\ StopInv /\ RepeatInv
  BY DEF InterpreterInv
<1>3. Top = stack[1] /\ Top \in Frame /\ stack # <<>>
  <2>1. stack \in Seq(Frame) /\ Len(stack) = 1
    BY <1>1, <1>2, Zenon DEF StackInv
  <2>2. stack[1] \in Frame /\ stack # <<>>
    BY <2>1, LenProperties, EmptySeq
  <2> QED BY <2>1, <2>2, Zenon DEF Top
<1>4. l \in Seq(Command) /\ flag_repeat \in BOOLEAN
  BY <1>2, Zenon DEF RepeatInv
<1>5. /\ l' \in Seq(Command)
      /\ \A n \in 1..Len(l') : l'[n] \in Good
  <2>1. CASE Returned(Top) <= 0
    <3>1. l' = <<>>
      BY <1>1, <2>1, Zenon DEF Forget
    <3> QED BY <3>1
  <2>2. CASE ~(Returned(Top) <= 0)
    <3>1. l' = l
      BY <1>1, <2>2, Zenon DEF Forget
    <3>2. Returned(Top) > 0
      BY <1>3, <2>2, ReturnedIs
    <3>3. Top.rc = 0 /\ Top.repeatable
      BY <1>3, <3>2, ReturnedIs, Zenon
    <3>4. stack[1] \in Clean
      BY <1>3, <3>3, Zenon DEF Clean
    <3>5. PICK m \in 0..Len(l) : /\ stack[1].rest = SubSeq(l, m + 1, Len(l))
                                 /\ \A n \in 1..m : l[n] \in Good
      BY <1>2, <1>3, <3>4, Zenon DEF RepeatInv
    <3>6. m = Len(l)
      BY <1>1, <1>3, <1>4, <3>5, LineEnd, Zenon
    <3> QED BY <1>4, <3>1, <3>5, <3>6, Zenon
  <2> QED BY <2>1, <2>2
<1>6. RepeatInv'
  BY <1>1, <1>4, <1>5, Zenon DEF RepeatInv
<1>7. StopInv'
  BY <1>1, <1>2, Zenon DEF StopInv
<1> QED BY <1>1, <1>6, <1>7, StackEmpty, Zenon
        DEF InterpreterInv, CallInv, StopStops, RunEndsOnFailure

(* The first call of run_command, for a line that is typed or repeated. *)
LEMMA StartStep ==
  ASSUME NEW text \in Seq(Command) \ {<<>>}, NEW r \in BOOLEAN,
         r => \A n \in 1..Len(text) : text[n] \in Good,
         stack' = <<Activation(text, FALSE)>>,
         lastcommand' = text, flag_repeat' = r,
         ctrlc_was_pressed' = FALSE, stopped' = FALSE, ran' = "none"
  PROVE  InterpreterInv'
<1> DEFINE a == Activation(text, FALSE)
<1>1. /\ a \in Frame /\ a.rest = text /\ a.todo = <<>>
      /\ a.failed = FALSE
  BY ActivationFields, Zenon
<1>2. a \notin Failed
  BY <1>1, Zenon DEF Failed
<1> HIDE DEF a
<1>3. /\ CallInv' /\ FailInv' /\ stack' # <<>> /\ stack'[1].rest = text
  BY <1>1, <1>2, StackOne, Zenon DEF a
<1>4. text = SubSeq(text, 0 + 1, Len(text)) /\ 0 \in 0..Len(text)
  <2>1. Len(text) \in Nat /\ \A i \in 1..Len(text) : text[i] \in Command
    OBVIOUS
  <2>2. SubSeq(text, 1, Len(text)) = text
    BY <2>1, SubSeqFull
  <2> QED BY <2>1, <2>2
<1>5. \A n \in 1..0 : text[n] \in Good
  OBVIOUS
<1>6. RepeatInv'
  BY <1>3, <1>4, <1>5, Zenon DEF RepeatInv
<1>7. StopInv'
  BY Zenon DEF StopInv
<1> QED BY <1>3, <1>6, <1>7, Zenon
        DEF InterpreterInv, CallInv, StopStops, RunEndsOnFailure

LEMMA ReadStep ==
  ASSUME InterpreterInv, Read
  PROVE  InterpreterInv'
<1> DEFINE l == lastcommand
<1>1. /\ StackInv /\ FlagInv /\ BootdNotNested /\ FailInv /\ StopInv
      /\ l \in Seq(Command) /\ flag_repeat \in BOOLEAN
  BY Zenon DEF InterpreterInv, RepeatInv
<1>2. stack = <<>> => \A n \in 1..Len(l) : l[n] \in Good
  BY Zenon DEF InterpreterInv, RepeatInv
<1>3. ASSUME NEW text \in Lines, ReadLine(text)
      PROVE  InterpreterInv'
  BY <1>3, ConsoleAssumption, StartStep, Zenon DEF ReadLine
<1>4. CASE ReadRepeat
  <2>1. l \in Seq(Command) \ {<<>>} /\ \A n \in 1..Len(l) : l[n] \in Good
    BY <1>1, <1>2, <1>4 DEF ReadRepeat
  <2> QED BY <1>4, <2>1, StartStep, Zenon DEF ReadRepeat
<1>5. CASE ReadEmpty
  <2>1. /\ stack' = <<>> /\ l' = l /\ flag_repeat' = TRUE /\ ran' = "none"
        /\ ctrlc_was_pressed' = FALSE /\ stopped' = FALSE /\ stack = <<>>
    BY <1>5, Zenon DEF ReadEmpty
  <2>2. RepeatInv'
    BY <1>1, <1>2, <2>1, Zenon DEF RepeatInv
  <2>3. StopInv'
    BY <2>1, Zenon DEF StopInv
  <2> QED BY <2>1, <2>2, <2>3, StackEmpty, Zenon
          DEF InterpreterInv, CallInv, StopStops, RunEndsOnFailure
<1>6. CASE ReadInterrupt
  <2>1. /\ stack' = <<>> /\ flag_repeat' = FALSE /\ ran' = "none"
        /\ ctrlc_was_pressed' = ctrlc_was_pressed /\ stopped' = FALSE
        /\ stack = <<>> /\ (l' = <<>> \/ l' = l)
    BY <1>6, Zenon DEF ReadInterrupt, Forget
  <2>2. l' \in Seq(Command) /\ \A n \in 1..Len(l') : l'[n] \in Good
    <3>1. CASE l' = l
      BY <1>1, <1>2, <2>1, <3>1, Zenon
    <3>2. CASE l' = <<>>
      BY <3>2
    <3> QED BY <2>1, <3>1, <3>2
  <2>3. RepeatInv'
    BY <2>1, <2>2, Zenon DEF RepeatInv
  <2>4. StopInv'
    BY <1>1, <2>1, Zenon DEF StopInv
  <2> QED BY <2>1, <2>3, <2>4, StackEmpty, Zenon
          DEF InterpreterInv, CallInv, StopStops, RunEndsOnFailure
<1> QED BY <1>3, <1>4, <1>5, <1>6, Zenon DEF Read
-----------------------------------------------------------------------------
LEMMA InitInv ==
  Init => InterpreterInv
<1> SUFFICES ASSUME Init PROVE InterpreterInv
  OBVIOUS
<1>1. /\ stack = <<>> /\ lastcommand = <<>> /\ flag_repeat = FALSE
      /\ ctrlc_was_pressed = FALSE /\ stopped = FALSE /\ ran = "none"
  BY Zenon DEF Init
<1>2. /\ stack \in Seq(Frame) /\ Len(stack) = 0 /\ DOMAIN stack = {}
      /\ 1..0 = {}
  BY <1>1
<1>3. StackInv /\ FlagInv /\ BootdNotNested /\ FailInv
  BY <1>2 DEF StackInv, FlagInv, BootdNotNested, FailInv
<1>4. StopInv
  BY <1>1, Zenon DEF StopInv
<1>5. lastcommand \in Seq(Command) /\ 1..Len(lastcommand) = {}
  BY <1>1
<1>6. RepeatInv
  BY <1>1, <1>5, Zenon DEF RepeatInv
<1> QED BY <1>1, <1>3, <1>4, <1>6, Zenon
        DEF InterpreterInv, StopStops, RunEndsOnFailure

LEMMA NextInv ==
  InterpreterInv /\ [Next]_vars => InterpreterInv'
<1> SUFFICES ASSUME InterpreterInv, [Next]_vars PROVE InterpreterInv'
  OBVIOUS
<1>1. CASE Read
  BY <1>1, ReadStep
<1>2. CASE RunBad
  BY <1>2, SkippedStep, Zenon DEF RunBad
<1>3. CASE RunPlain
  BY <1>3, PlainStep
<1>4. CASE RunBootdAgain
  BY <1>4, SkippedStep, Zenon DEF RunBootdAgain
<1>5. CASE RunBootd
  BY <1>5, BootdStep
<1>6. CASE RunRun
  BY <1>6, RunStep
<1>7. CASE ReturnToMain
  BY <1>7, ToMainStep
<1>8. CASE ReturnToRun
  BY <1>8, ToRunStep
<1>9. CASE ReturnToCommand
  BY <1>9, ToCommandStep
<1>10. CASE UNCHANGED vars
  BY <1>10 DEF vars, InterpreterInv, StackInv, FlagInv, BootdNotNested,
               Calling, StopInv, Top, StopStops, FailInv, RunEndsOnFailure,
               RepeatInv
<1> QED BY <1>1, <1>2, <1>3, <1>4, <1>5, <1>6, <1>7, <1>8, <1>9, <1>10
        DEF Next, Run

(* main_loop and run_command keep InterpreterInv, whatever is typed and    *)
(* whatever the variables hold.                                            *)
THEOREM Invariance == Spec => []InterpreterInv
  BY InitInv, NextInv, PTL DEF Spec

(* do_bootd is never called under do_bootd, however `run' and `bootd' are  *)
(* nested in the texts of the variables.                                   *)
THEOREM BootdIsNotNested == Spec => []BootdNotNested
<1>1. InterpreterInv => BootdNotNested
  BY DEF InterpreterInv
<1> QED BY <1>1, Invariance, PTL

(* After Control C run_command starts nothing more of the line, at any     *)
(* depth of calls, but for the further variables of a `run'.               *)
THEOREM StopIsObeyed == Spec => []StopStops
<1>1. InterpreterInv => StopStops
  BY DEF InterpreterInv
<1> QED BY <1>1, Invariance, PTL

(* `run' does not go on to a further variable when a command of the one    *)
(* before has failed, at whatever place, unless Control C followed it.     *)
THEOREM FailureEndsRun == Spec => []RunEndsOnFailure
<1>1. InterpreterInv => RunEndsOnFailure
  BY DEF InterpreterInv
<1> QED BY <1>1, Invariance, PTL

(* The return key repeats a line only if all its commands are known and    *)
(* repeatable.                                                             *)
THEOREM RepeatedIsRepeatable == Spec => []RepeatsRepeatable
<1>1. InterpreterInv => RepeatsRepeatable
  <2> SUFFICES ASSUME InterpreterInv, flag_repeat,
                      NEW n \in DOMAIN lastcommand
               PROVE  lastcommand[n].op # "bad" /\ lastcommand[n].repeatable
    BY Zenon DEF RepeatsRepeatable
  <2>1. n \in 1..Len(lastcommand)
    BY DEF InterpreterInv, RepeatInv
  <2>2. lastcommand[n] \in Good
    BY <2>1, Zenon DEF InterpreterInv, RepeatInv
  <2> QED BY <2>2, Zenon DEF Good
<1> QED BY <1>1, Invariance, PTL
-----------------------------------------------------------------------------
(* Induction over the places of a text: a set that holds the first and     *)
(* with each one the next holds them all.                                  *)
LEMMA SetInduction ==
  ASSUME NEW N \in Nat, NEW S, 0 \in S,
         \A n \in 0..(N - 1) : n \in S => n + 1 \in S
  PROVE  \A n \in 0..N : n \in S
<1> SUFFICES ASSUME NEW z \in 0..N, z \notin S PROVE FALSE
  OBVIOUS
<1> DEFINE R == OpToRel(<, Nat)
           T == {n \in 0..N : n \notin S}
<1>1. IsWellFoundedOn(R, Nat)
  BY NatLessThanWellFounded
<1>2. \A x, y \in Nat : <<y, x>> \in R <=> y < x
  BY DEF OpToRel
<1> HIDE DEF R
<1>3. z \in T /\ T \subseteq Nat
  OBVIOUS
<1> HIDE DEF T
<1>4. T # {}
  BY <1>3
<1>5. PICK x \in T : \A y \in T : ~(<<y, x>> \in R)
  BY <1>1, <1>3, <1>4, WFMin
<1>6. x \in 0..N /\ x \notin S /\ x # 0
  BY <1>5 DEF T
<1>7. x - 1 \in 0..(N - 1) /\ x - 1 \in 0..N /\ x - 1 < x /\ (x - 1) + 1 = x
      /\ x \in Nat /\ x - 1 \in Nat
  BY <1>6
<1>8. x - 1 \notin S
  BY <1>6, <1>7
<1>9. x - 1 \in T
  BY <1>7, <1>8 DEF T
<1>10. <<x - 1, x>> \in R
  BY <1>2, <1>7, Zenon
<1> QED BY <1>5, <1>9, <1>10, Zenon

LEMMA MaxOnly ==
  ASSUME NEW S, S \subseteq Nat, NEW x \in S, \A y \in S : y <= x
  PROVE  Max(S) = x
<1>1. Max(S) = CHOOSE z \in S : \A y \in S : z >= y
  BY Zenon DEF Max
<1>2. \A y \in S : x >= y
  BY SMT
<1>3. Max(S) \in S /\ \A y \in S : Max(S) >= y
  BY <1>1, <1>2, Zenon
<1>4. Max(S) \in Nat /\ x \in Nat /\ Max(S) >= x /\ Max(S) <= x
  BY <1>3
<1> QED BY <1>4

LEMMA MaxIs ==
  ASSUME NEW N \in Nat, NEW S, S \subseteq 0..N, S # {}
  PROVE  Max(S) \in S
<1> DEFINE B(n) == S \subseteq 0..n => \E x \in S : \A y \in S : x >= y
           G == {n \in 0..N : B(n)}
<1>1. 0 \in G
  <2>1. 0 \in 0..N
    OBVIOUS
  <2>2. ASSUME S \subseteq 0..0 PROVE \E x \in S : \A y \in S : x >= y
    <3>1. \A y \in S : y = 0
      BY <2>2
    <3>2. PICK x \in S : TRUE
      OBVIOUS
    <3>3. x = 0 /\ \A y \in S : x >= y
      BY <3>1, <3>2
    <3> QED BY <3>2, <3>3, Zenon
  <2> QED BY <2>1, <2>2
<1>2. ASSUME NEW n \in 0..(N - 1), n \in G PROVE n + 1 \in G
  <2>1. n + 1 \in 0..N
    OBVIOUS
  <2>2. ASSUME S \subseteq 0..(n + 1)
        PROVE  \E x \in S : \A y \in S : x >= y
    <3>1. CASE n + 1 \in S
      BY <2>2, <3>1
    <3>2. CASE n + 1 \notin S
      <4>1. S \subseteq 0..n
        BY <2>2, <3>2
      <4> QED BY <1>2, <4>1, Zenon
    <3> QED BY <3>1, <3>2
  <2> QED BY <2>1, <2>2
<1> HIDE DEF G
<1>3. \A n \in 0..N : n \in G
  BY <1>1, <1>2, SetInduction, Zenon
<1>4. N \in 0..N
  OBVIOUS
<1>5. N \in G
  BY <1>3, <1>4, Zenon
<1>6. \E x \in S : \A y \in S : x >= y
  BY <1>5, Zenon DEF G
<1> QED BY <1>6, Zenon DEF Max
-----------------------------------------------------------------------------
(* What the terminal shows after a text is what it showed before the last  *)
(* character, and that one.                                                *)
Base == [row |-> Prompt, col |-> plen]
Shows(text) == FoldLeft(Echo, Base, text)

Iterates(D, text, it) ==
  it = [q \in SUBSET D |-> IF q = {} THEN Base
                           ELSE Echo(it[q \ {Max(q)}], text[Max(q)])]

LEMMA EchoIterates ==
  ASSUME NEW text, NEW N \in Nat
  PROVE  \E it : Iterates(1..N, text, it)
<1> DEFINE S == {n \in 0..N : \E it : Iterates(1..n, text, it)}
<1>1. 0 \in S
  <2> DEFINE it == [q \in SUBSET (1..0) |-> Base]
  <2>1. 1..0 = {}
    OBVIOUS
  <2>2. \A q \in SUBSET (1..0) : q = {}
    BY <2>1
  <2>3. Iterates(1..0, text, it)
    BY <2>2, Zenon DEF Iterates
  <2>4. 0 \in 0..N
    OBVIOUS
  <2> QED BY <2>3, <2>4, Zenon
<1>2. ASSUME NEW n \in 0..(N - 1), n \in S PROVE n + 1 \in S
  <2>1. n + 1 \in 0..N /\ n \in Nat
    OBVIOUS
  <2>2. PICK h : Iterates(1..n, text, h)
    BY <1>2
  <2>3. \A q \in SUBSET (1..n) :
          h[q] = IF q = {} THEN Base ELSE Echo(h[q \ {Max(q)}], text[Max(q)])
    BY <2>2, Zenon DEF Iterates
  <2> DEFINE it == [q \in SUBSET (1..(n + 1)) |->
                      IF n + 1 \in q THEN Echo(h[q \ {n + 1}], text[n + 1])
                      ELSE h[q]]
  <2>4. ASSUME NEW q \in SUBSET (1..n) PROVE it[q] = h[q]
    <3>1. q \in SUBSET (1..(n + 1)) /\ n + 1 \notin q
      BY <2>1
    <3> QED BY <3>1, Zenon
  <2>5. ASSUME NEW q \in SUBSET (1..(n + 1))
        PROVE  it[q] = IF q = {} THEN Base
                       ELSE Echo(it[q \ {Max(q)}], text[Max(q)])
    <3>1. CASE n + 1 \in q
      <4>1. Max(q) = n + 1
        <5>1. q \subseteq Nat /\ \A y \in q : y <= n + 1
          BY <2>1
        <5> QED BY <3>1, <5>1, MaxOnly
      <4>2. q \ {n + 1} \in SUBSET (1..n)
        BY <2>1
      <4>3. it[q \ {n + 1}] = h[q \ {n + 1}]
        BY <2>4, <4>2, Zenon
      <4>4. it[q] = Echo(h[q \ {n + 1}], text[n + 1])
        BY <3>1, Zenon
      <4> QED BY <3>1, <4>1, <4>3, <4>4, Zenon
    <3>2. CASE n + 1 \notin q
      <4>1. q \in SUBSET (1..n)
        BY <2>1, <3>2
      <4>2. q \ {Max(q)} \in SUBSET (1..n)
        BY <4>1
      <4>3. it[q] = h[q] /\ it[q \ {Max(q)}] = h[q \ {Max(q)}]
        BY <2>4, <4>1, <4>2, Zenon
      <4> QED BY <2>3, <4>1, <4>3, Zenon
    <3> QED BY <3>1, <3>2
  <2>6. Iterates(1..(n + 1), text, it)
    <3>1. it = [q \in SUBSET (1..(n + 1)) |-> it[q]]
      BY Zenon
    <3> HIDE DEF it
    <3> QED BY <2>5, <3>1, Zenon DEF Iterates
  <2> QED BY <2>1, <2>6, Zenon
<1> HIDE DEF S
<1>3. \A n \in 0..N : n \in S
  BY <1>1, <1>2, SetInduction, Zenon
<1>4. N \in 0..N
  OBVIOUS
<1>5. N \in S
  BY <1>3, <1>4, Zenon
<1> QED BY <1>5, Zenon DEF S

Image(text, f) ==
  /\ f[0] = Base
  /\ \A n \in 1..Len(text) : f[n] = Echo(f[n - 1], text[n])

LEMMA ShowsImage ==
  ASSUME NEW text \in Seq(Keys)
  PROVE  \E f : Image(text, f) /\ Shows(text) = f[Len(text)]
<1> DEFINE N == Len(text)
           it == CHOOSE it : Iterates(1..N, text, it)
<1>1. N \in Nat /\ DOMAIN text = 1..N
  BY LenProperties
<1>2. Iterates(1..N, text, it)
  BY <1>1, EchoIterates, Zenon
<1>3. Shows(text) = it[1..N]
  <2>1. Shows(text) = (CHOOSE i : Iterates(DOMAIN text, text, i))[DOMAIN text]
    BY Zenon DEF Shows, FoldLeft, MapThenFoldSet, Iterates
  <2> QED BY <1>1, <2>1, Zenon
<1> HIDE DEF it, N
<1>4. \A q \in SUBSET (1..N) :
        it[q] = IF q = {} THEN Base ELSE Echo(it[q \ {Max(q)}], text[Max(q)])
  BY <1>2, Zenon DEF Iterates
<1> DEFINE f == [n \in 0..N |-> it[1..n]]
<1>5. f[0] = Base
  <2>1. 0 \in 0..N /\ 1..0 = {} /\ {} \in SUBSET (1..N)
    BY <1>1
  <2>2. f[0] = it[{}]
    BY <2>1, Zenon
  <2> QED BY <1>4, <2>1, <2>2, Zenon
<1>6. ASSUME NEW n \in 1..N PROVE f[n] = Echo(f[n - 1], text[n])
  <2>1. /\ n \in 0..N /\ n - 1 \in 0..N /\ n \in 1..n
        /\ 1..n \subseteq 1..N /\ 1..n \subseteq Nat
        /\ \A y \in 1..n : y <= n
    BY <1>1
  <2>0. 1..n # {} /\ (1..n) \ {n} = 1..(n - 1)
    <3>1. n \in Nat
      BY <1>1
    <3>2. \A k : k \in 1..(n - 1) <=> k \in 1..n /\ k # n
      BY <3>1
    <3> QED BY <2>1, <3>2, Zenon
  <2>2. Max(1..n) = n
    BY <2>1, MaxOnly
  <2>3. it[1..n] = Echo(it[1..(n - 1)], text[n])
    BY <1>4, <2>0, <2>1, <2>2, Zenon
  <2> QED BY <2>1, <2>3, Zenon
<1>7. f[N] = it[1..N]
  BY <1>1
<1> HIDE DEF f
<1>8. Image(text, f)
  BY <1>5, <1>6, Zenon DEF Image, N
<1> QED BY <1>3, <1>7, <1>8, Zenon DEF N

LEMMA ImageSame ==
  ASSUME NEW text, NEW text2, NEW f, NEW g, Image(text, f), Image(text2, g),
         NEW N \in Nat, Len(text) \in Nat, Len(text2) \in Nat,
         N <= Len(text), N <= Len(text2), \A n \in 1..N : text2[n] = text[n]
  PROVE  f[N] = g[N]
<1> DEFINE S == {n \in 0..N : f[n] = g[n]}
<1>1. 0 \in S
  BY DEF Image
<1>2. ASSUME NEW n \in 0..(N - 1), n \in S PROVE n + 1 \in S
  <2>1. /\ n + 1 \in 0..N /\ n + 1 \in 1..N /\ n + 1 \in 1..Len(text)
        /\ n + 1 \in 1..Len(text2) /\ (n + 1) - 1 = n
    OBVIOUS
  <2>2. /\ f[n + 1] = Echo(f[n], text[n + 1])
        /\ g[n + 1] = Echo(g[n], text2[n + 1])
    BY <2>1 DEF Image
  <2> QED BY <1>2, <2>1, <2>2
<1> HIDE DEF S
<1>3. \A n \in 0..N : n \in S
  BY <1>1, <1>2, SetInduction, Zenon
<1>4. N \in S
  BY <1>3
<1> QED BY <1>4 DEF S

LEMMA ShowsEmpty == Shows(<<>>) = Base
<1>1. <<>> \in Seq(Keys) /\ Len(<<>>) = 0
  OBVIOUS
<1> QED BY <1>1, ShowsImage DEF Image

LEMMA ShowsAppend ==
  ASSUME NEW text \in Seq(Keys), NEW k \in Keys
  PROVE  Shows(Append(text, k)) = Echo(Shows(text), k)
<1> DEFINE N == Len(text)
           t == Append(text, k)
<1>1. /\ t \in Seq(Keys) /\ Len(t) = N + 1 /\ N \in Nat
      /\ t[N + 1] = k /\ \A n \in 1..N : t[n] = text[n]
  BY LenProperties
<1> HIDE DEF t
<1>2. PICK f : Image(text, f) /\ Shows(text) = f[N]
  BY ShowsImage, Zenon
<1>3. PICK g : Image(t, g) /\ Shows(t) = g[Len(t)]
  BY <1>1, ShowsImage, Zenon
<1>4. f[N] = g[N]
  <2>1. N <= Len(t) /\ Len(t) \in Nat /\ N <= N
    BY <1>1
  <2> QED BY <1>1, <1>2, <1>3, <2>1, ImageSame
<1>5. g[N + 1] = Echo(g[N], t[N + 1])
  <2>1. N + 1 \in 1..Len(t) /\ (N + 1) - 1 = N
    BY <1>1
  <2> QED BY <1>3, <2>1 DEF Image
<1> QED BY <1>1, <1>2, <1>3, <1>4, <1>5 DEF t

(* A row that begins with the prompt, with the cursor behind it *)
Cells == Keys \union {">", " "}
Orderly(s) ==
  /\ s.row \in Seq(Cells) /\ s.col \in Nat
  /\ s = [row |-> s.row, col |-> s.col]
  /\ Len(s.row) = s.col /\ plen <= s.col
  /\ \A n \in 1..plen : s.row[n] = ">"

LEMMA OrderlyBase == Orderly(Base)
<1>1. plen \in Nat
  BY ReadlineAssumption
<1>2. Prompt \in Seq(Cells) /\ Len(Prompt) = plen
  BY <1>1 DEF Prompt, Cells
<1>3. \A n \in 1..plen : Prompt[n] = ">"
  BY DEF Prompt
<1> QED BY <1>1, <1>2, <1>3 DEF Base, Orderly

LEMMA OrderlyEcho ==
  ASSUME NEW s, Orderly(s), NEW k \in Keys
  PROVE  Orderly(Echo(s, k))
<1> DEFINE c == s.col
           w == TabSize(c)
           b == [n \in 1..w |-> " "]
<1>1. /\ s.row \in Seq(Cells) /\ c \in Nat /\ plen \in Nat
      /\ Len(s.row) = c /\ plen <= c /\ \A n \in 1..plen : s.row[n] = ">"
  BY ReadlineAssumption DEF Orderly
<1> HIDE DEF c
<1>2. CASE k = Tab
  <2>1. w \in Nat
    BY <1>1 DEF TabSize
  <2> HIDE DEF w
  <2>2. b \in Seq(Cells) /\ Len(b) = w
    BY <2>1 DEF Cells
  <2> HIDE DEF b
  <2> DEFINE r == s.row \o b
  <2>3. /\ r \in Seq(Cells) /\ Len(r) = c + w
        /\ \A n \in 1..c : r[n] = s.row[n]
    BY <1>1, <2>1, <2>2
  <2>4. Echo(s, k) = [row |-> r, col |-> c + w]
    BY <1>2 DEF Echo, b, w, c
  <2> HIDE DEF r
  <2>5. c + w \in Nat /\ plen <= c + w
    BY <1>1, <2>1
  <2>6. \A n \in 1..plen : r[n] = ">"
    BY <1>1, <2>3
  <2> QED BY <2>3, <2>4, <2>5, <2>6 DEF Orderly
<1>3. CASE k # Tab
  <2> DEFINE r == Append(s.row, k)
  <2>1. k \in Cells
    BY DEF Cells
  <2>2. /\ r \in Seq(Cells) /\ Len(r) = c + 1
        /\ \A n \in 1..c : r[n] = s.row[n]
    BY <1>1, <2>1
  <2>3. Echo(s, k) = [row |-> r, col |-> c + 1]
    BY <1>3 DEF Echo, c
  <2> HIDE DEF r
  <2>4. c + 1 \in Nat /\ plen <= c + 1
    BY <1>1
  <2>5. \A n \in 1..plen : r[n] = ">"
    BY <1>1, <2>2
  <2> QED BY <2>2, <2>3, <2>4, <2>5 DEF Orderly
<1> QED BY <1>2, <1>3

LEMMA OrderlyShows ==
  ASSUME NEW text \in Seq(Keys)
  PROVE  Orderly(Shows(text))
<1> DEFINE N == Len(text)
<1>1. N \in Nat
  BY LenProperties
<1>2. PICK f : Image(text, f) /\ Shows(text) = f[N]
  BY ShowsImage, Zenon
<1> DEFINE S == {n \in 0..N : Orderly(f[n])}
<1>3. 0 \in S
  <2>1. 0 \in 0..N
    BY <1>1
  <2> QED BY <1>2, <2>1, OrderlyBase, Zenon DEF Image
<1>4. ASSUME NEW n \in 0..(N - 1), n \in S PROVE n + 1 \in S
  <2>1. n + 1 \in 0..N /\ n + 1 \in 1..N /\ (n + 1) - 1 = n
    BY <1>1
  <2>2. text[n + 1] \in Keys
    BY <2>1, ElementOfSeq
  <2>3. f[n + 1] = Echo(f[n], text[n + 1])
    BY <1>2, <2>1 DEF Image
  <2>4. Orderly(f[n])
    BY <1>4
  <2>5. Orderly(Echo(f[n], text[n + 1]))
    BY <2>2, <2>4, OrderlyEcho, Zenon
  <2> QED BY <2>1, <2>3, <2>5, Zenon
<1> HIDE DEF S
<1>5. \A n \in 0..N : n \in S
  BY <1>1, <1>3, <1>4, SetInduction, Zenon
<1>6. N \in S
  BY <1>1, <1>5
<1>7. Orderly(f[N])
  BY <1>6 DEF S
<1> QED BY <1>2, <1>7, Zenon
-----------------------------------------------------------------------------
(* Erasing leads back to what the shorter text shows. *)
LEMMA ClearedIsBase ==
  ASSUME NEW s, Orderly(s)
  PROVE  Cleared(s) = Base
<1> DEFINE c == s.col
<1>1. /\ s.row \in Seq(Cells) /\ c \in Nat /\ plen \in Nat
      /\ Len(s.row) = c /\ plen <= c /\ \A n \in 1..plen : s.row[n] = ">"
  BY ReadlineAssumption DEF Orderly
<1> HIDE DEF c
<1>2. (IF c - plen < c THEN c - (c - plen) ELSE 0) = plen
  BY <1>1
<1>3. Erase(s.row, c - plen) = SubSeq(s.row, 1, plen)
  BY <1>1, <1>2, Zenon DEF Erase
<1>4. SubSeq(s.row, 1, plen) = [n \in 1..plen |-> s.row[n]]
  BY <1>1
<1>5. SubSeq(s.row, 1, plen) = Prompt
  BY <1>1, <1>4, Zenon DEF Prompt
<1> QED BY <1>3, <1>5, Zenon DEF Cleared, Base, c

LEMMA DeletedShows ==
  ASSUME NEW text \in Seq(Keys)
  PROVE  /\ Without(text) \in Seq(Keys)
         /\ Deleted(Shows(text), text) = Shows(Without(text))
<1>1. CASE text = <<>>
  <2>1. Without(text) = <<>>
    BY <1>1 DEF Without
  <2>2. Deleted(Shows(text), text) = Shows(text)
    BY <1>1 DEF Deleted
  <2> QED BY <1>1, <2>1, <2>2
<1>2. CASE text # <<>>
  <2> DEFINE N == Len(text)
             t == Front(text)
             k == text[N]
  <2>1. /\ N \in Nat /\ N >= 1 /\ t \in Seq(Keys) /\ k \in Keys
        /\ text = Append(t, k)
    <3>1. N \in Nat /\ N >= 1
      BY <1>2
    <3>2. /\ t \in Seq(Keys) /\ Len(t) = N - 1
          /\ \A n \in 1..(N - 1) : t[n] = text[n]
      <4>1. t = SubSeq(text, 1, N - 1)
        BY Zenon DEF Front
      <4>2. N - 1 \in Int /\ \A n \in 1..(N - 1) : text[n] \in Keys
        BY <3>1, ElementOfSeq
      <4> HIDE DEF t, N
      <4>3. /\ t \in Seq(Keys)
            /\ Len(t) = IF 1 <= N - 1 THEN (N - 1) - 1 + 1 ELSE 0
            /\ \A n \in 1..((N - 1) - 1 + 1) : t[n] = text[1 + n - 1]
        BY <4>1, <4>2, SubSeqProperties
      <4>4. (N - 1) - 1 + 1 = N - 1 /\ \A n \in 1..(N - 1) : 1 + n - 1 = n
        BY <3>1
      <4> QED BY <3>1, <4>3, <4>4
    <3>3. k \in Keys
      BY <3>1, ElementOfSeq
    <3> HIDE DEF t, k
    <3>4. /\ Append(t, k) \in Seq(Keys) /\ Len(Append(t, k)) = N
          /\ \A n \in 1..N : Append(t, k)[n] = text[n]
      BY <3>1, <3>2, <3>3 DEF k
    <3> QED BY <3>1, <3>2, <3>3, <3>4, SeqEqual
  <2> HIDE DEF t, k
  <2>2. Without(text) = t
    BY <1>2 DEF Without, t
  <2>3. Shows(text) = Echo(Shows(t), k)
    BY <2>1, ShowsAppend
  <2>4. Orderly(Shows(t)) /\ Orderly(Shows(text))
    BY <2>1, OrderlyShows, Zenon
  <2>5. CASE k = Tab
    <3>1. Deleted(Shows(text), text) = FoldLeft(Echo, Cleared(Shows(text)), t)
      BY <1>2, <2>5 DEF Deleted, k, t
    <3>2. Cleared(Shows(text)) = Base
      BY <2>4, ClearedIsBase
    <3> QED BY <2>1, <2>2, <3>1, <3>2 DEF Shows
  <2>6. CASE k # Tab
    <3> DEFINE s == Shows(t)
               r == Append(s.row, k)
    <3>1. Shows(text) = [row |-> r, col |-> s.col + 1]
      BY <2>3, <2>6, Zenon DEF Echo
    <3>2. Deleted(Shows(text), text)
            = [row |-> Erase(Shows(text).row, 1), col |-> Shows(text).col - 1]
      BY <1>2, <2>6 DEF Deleted, k
    <3>3. /\ s.row \in Seq(Cells) /\ s.col \in Nat /\ k \in Cells
          /\ s = [row |-> s.row, col |-> s.col]
      BY <2>1, <2>4 DEF Orderly, Cells
    <3> HIDE DEF s
    <3>4. Erase(r, 1) = s.row
      <4> DEFINE l == Len(s.row)
      <4>1. r \in Seq(Cells) /\ Len(r) = l + 1 /\ l \in Nat
            /\ \A n \in 1..l : r[n] = s.row[n]
        BY <3>3
      <4> HIDE DEF r
      <4>2. (IF 1 < l + 1 THEN (l + 1) - 1 ELSE 0) = l
        BY <4>1
      <4>3. Erase(r, 1) = SubSeq(r, 1, l)
        BY <4>1, <4>2, Zenon DEF Erase
      <4>4. /\ SubSeq(r, 1, l) \in Seq(Cells) /\ Len(SubSeq(r, 1, l)) = l
            /\ \A n \in 1..l : SubSeq(r, 1, l)[n] = s.row[n]
        BY <4>1
      <4> QED BY <3>3, <4>3, <4>4, SeqEqual
    <3>5. Shows(text).row = r /\ Shows(text).col - 1 = s.col
      BY <3>1, <3>3
    <3>6. Deleted(Shows(text), text) = [row |-> s.row, col |-> s.col]
      BY <3>2, <3>4, <3>5, Zenon
    <3> QED BY <2>1, <2>2, <3>3, <3>6 DEF s
  <2> QED BY <2>5, <2>6
<1> QED BY <1>1, <1>2

Step(x) == [screen |-> Deleted(x.screen, x.text), text |-> Without(x.text)]
Deletes(k, d) ==
  d = [n \in 0..k |-> IF n = 0 THEN [screen |-> Screen, text |-> typed]
                      ELSE Step(d[n - 1])]

LEMMA DeletesExists ==
  ASSUME NEW k \in Nat
  PROVE  \E d : Deletes(k, d)
<1> DEFINE first == [screen |-> Screen, text |-> typed]
           S == {n \in 0..k : \E d : Deletes(n, d)}
<1>1. 0 \in S
  <2> DEFINE d == [n \in 0..0 |-> first]
  <2>1. \A n \in 0..0 : n = 0
    OBVIOUS
  <2>2. Deletes(0, d)
    BY <2>1, Zenon DEF Deletes
  <2>3. 0 \in 0..k
    OBVIOUS
  <2> QED BY <2>2, <2>3, Zenon
<1>2. ASSUME NEW n \in 0..(k - 1), n \in S PROVE n + 1 \in S
  <2>1. /\ n + 1 \in 0..k /\ n \in Nat /\ n \in 0..n /\ n \in 0..(n + 1)
        /\ (n + 1) - 1 = n /\ n + 1 # 0 /\ n # n + 1
    OBVIOUS
  <2>2. PICK h : Deletes(n, h)
    BY <1>2
  <2>3. \A i \in 0..n : h[i] = IF i = 0 THEN first ELSE Step(h[i - 1])
    BY <2>2, Zenon DEF Deletes
  <2> HIDE DEF first
  <2> DEFINE d == [i \in 0..(n + 1) |-> IF i = n + 1 THEN Step(h[n]) ELSE h[i]]
  <2>4. ASSUME NEW i \in 0..n PROVE d[i] = h[i]
    <3>1. i \in 0..(n + 1) /\ i # n + 1
      BY <2>1
    <3> QED BY <3>1, Zenon
  <2>5. ASSUME NEW i \in 0..(n + 1)
        PROVE  d[i] = IF i = 0 THEN first ELSE Step(d[i - 1])
    <3>1. CASE i = n + 1
      <4>1. d[n] = h[n] /\ d[n + 1] = Step(h[n]) /\ i # 0 /\ i - 1 = n
        BY <2>1, <2>4, <3>1
      <4> QED BY <3>1, <4>1, Zenon
    <3>2. CASE i # n + 1
      <4>1. i \in 0..n /\ (i # 0 => i - 1 \in 0..n)
        BY <2>1, <3>2
      <4>2. d[i] = h[i] /\ (i # 0 => d[i - 1] = h[i - 1])
        BY <2>4, <4>1, Zenon
      <4> QED BY <2>3, <4>1, <4>2, Zenon
    <3> QED BY <3>1, <3>2
  <2>6. Deletes(n + 1, d)
    <3>1. d = [i \in 0..(n + 1) |-> d[i]]
      BY Zenon
    <3> HIDE DEF d
    <3> QED BY <2>5, <3>1, Zenon DEF Deletes, first
  <2> QED BY <2>1, <2>6, Zenon
<1> HIDE DEF S
<1>3. \A n \in 0..k : n \in S
  BY <1>1, <1>2, SetInduction, Zenon
<1>4. k \in 0..k
  OBVIOUS
<1>5. k \in S
  BY <1>3, <1>4, Zenon
<1> QED BY <1>5, Zenon DEF S

(* The invariant, and what it says of a screen and a text *)
Depicts(s, text) == text \in Seq(Keys) /\ s = Shows(text)

LEMMA DeletedDepicts ==
  ASSUME NEW k \in Nat, Depicts(Screen, typed)
  PROVE  Depicts(DeletedTimes(k).screen, DeletedTimes(k).text)
<1> DEFINE first == [screen |-> Screen, text |-> typed]
           d == CHOOSE d : Deletes(k, d)
           S == {n \in 0..k : Depicts(d[n].screen, d[n].text)}
<1>1. DeletedTimes(k) = d[k]
  BY Zenon DEF DeletedTimes, Deletes, Step
<1>2. Deletes(k, d)
  BY DeletesExists, Zenon
<1> HIDE DEF d
<1>3. \A n \in 0..k : d[n] = IF n = 0 THEN first ELSE Step(d[n - 1])
  BY <1>2, Zenon DEF Deletes
<1>4. 0 \in S
  <2>1. 0 \in 0..k /\ d[0] = first
    BY <1>3
  <2>2. d[0].screen = Screen /\ d[0].text = typed
    BY <2>1
  <2> QED BY <2>1, <2>2
<1>5. ASSUME NEW n \in 0..(k - 1), n \in S PROVE n + 1 \in S
  <2>1. n + 1 \in 0..k /\ n + 1 # 0 /\ (n + 1) - 1 = n
    OBVIOUS
  <2>2. d[n + 1] = Step(d[n])
    BY <1>3, <2>1
  <2>3. d[n].text \in Seq(Keys) /\ d[n].screen = Shows(d[n].text)
    BY <1>5 DEF Depicts
  <2>4. /\ Without(d[n].text) \in Seq(Keys)
        /\ Deleted(Shows(d[n].text), d[n].text) = Shows(Without(d[n].text))
    BY <2>3, DeletedShows
  <2>5. /\ d[n + 1].text = Without(d[n].text)
        /\ d[n + 1].screen = Deleted(d[n].screen, d[n].text)
    BY <2>2 DEF Step
  <2>6. Depicts(d[n + 1].screen, d[n + 1].text)
    BY <2>3, <2>4, <2>5 DEF Depicts
  <2> QED BY <2>1, <2>6
<1> HIDE DEF S
<1>6. \A n \in 0..k : n \in S
  BY <1>4, <1>5, SetInduction, Zenon
<1>7. k \in 0..k
  OBVIOUS
<1>8. k \in S
  BY <1>6, <1>7, Zenon
<1>9. Depicts(d[k].screen, d[k].text)
  BY <1>8, Zenon DEF S
<1> QED BY <1>1, <1>9, Zenon

ScreenInv == Depicts(Screen, typed)

LEMMA ShowDepicts ==
  ASSUME NEW s, NEW text, Depicts(s, text), Show(s), typed' = text
  PROVE  ScreenInv'
<1>1. /\ text \in Seq(Keys) /\ s = Shows(text) /\ shown' = s.row
      /\ col' = s.col
  BY DEF Depicts, Show
<1>2. s = [row |-> s.row, col |-> s.col]
  BY <1>1, OrderlyShows DEF Orderly
<1>3. Screen' = s
  BY <1>1, <1>2 DEF Screen
<1> QED BY <1>1, <1>3 DEF ScreenInv, Depicts

LEMMA BaseDepicts == Depicts(Base, <<>>)
  BY ShowsEmpty DEF Depicts

LEMMA ScreenStep == ScreenInv /\ [ReadlineNext]_readlineVars => ScreenInv'
<1> SUFFICES ASSUME ScreenInv, [ReadlineNext]_readlineVars PROVE ScreenInv'
  OBVIOUS
<1>0. typed \in Seq(Keys) /\ Screen = Shows(typed) /\ Depicts(Screen, typed)
  BY DEF ScreenInv, Depicts
<1>1. ASSUME NEW k \in Keys, Normal(k) PROVE ScreenInv'
  <2>1. typed' = Append(typed, k) /\ Show(Echo(Screen, k))
    BY <1>1 DEF Normal
  <2>2. Append(typed, k) \in Seq(Keys)
    BY <1>0
  <2>3. Shows(Append(typed, k)) = Echo(Shows(typed), k)
    BY <1>0, ShowsAppend
  <2>4. Depicts(Echo(Screen, k), Append(typed, k))
    BY <1>0, <2>2, <2>3, Zenon DEF Depicts
  <2> QED BY <2>1, <2>4, ShowDepicts, Zenon
<1>2. ASSUME EraseLine PROVE ScreenInv'
  <2>1. typed' = <<>> /\ Show(Cleared(Screen))
    BY <1>2 DEF EraseLine
  <2>2. Orderly(Screen)
    BY <1>0, OrderlyShows, Zenon
  <2>3. Cleared(Screen) = Base
    BY <2>2, ClearedIsBase
  <2> QED BY <2>1, <2>3, BaseDepicts, ShowDepicts, Zenon
<1>3. ASSUME NEW k \in Nat, typed' = DeletedTimes(k).text,
             Show(DeletedTimes(k).screen)
      PROVE  ScreenInv'
  <2>1. Depicts(DeletedTimes(k).screen, DeletedTimes(k).text)
    BY <1>0, DeletedDepicts, Zenon
  <2> QED BY <1>3, <2>1, ShowDepicts, Zenon
<1>4. ASSUME EraseWord PROVE ScreenInv'
  <2>1. WordCount \in Nat
    <3> DEFINE N == Len(typed)
               b == {n \in 1..N : typed[n] = " "}
    <3>1. N \in Nat
      BY <1>0, LenProperties
    <3>2. b = {} => WordCount = N
      BY DEF WordCount
    <3>3. b # {} => WordCount = N - Max(b) + 1
      BY DEF WordCount
    <3>4. b # {} => Max(b) \in 1..N
      <4>0. b \subseteq 1..N
        BY Zenon
      <4> HIDE DEF b
      <4>1. b \subseteq 0..N /\ b \subseteq 1..N
        BY <3>1, <4>0
      <4>2. b # {} => Max(b) \in b
        BY <3>1, <4>1, MaxIs, Zenon
      <4> QED BY <4>1, <4>2
    <3> HIDE DEF b
    <3> QED BY <3>1, <3>2, <3>3, <3>4
  <2>2. /\ typed' = DeletedTimes(WordCount).text
        /\ Show(DeletedTimes(WordCount).screen)
    BY <1>4, Zenon DEF EraseWord
  <2> QED BY <1>3, <2>1, <2>2, Zenon
<1>5. ASSUME Backspace PROVE ScreenInv'
  <2>1. typed' = DeletedTimes(1).text /\ Show(DeletedTimes(1).screen)
    BY <1>5, Zenon DEF Backspace
  <2>2. 1 \in Nat
    OBVIOUS
  <2> QED BY <1>3, <2>1, <2>2, Zenon
<1>6. ASSUME Again PROVE ScreenInv'
  <2>1. typed' = <<>> /\ Show(Base)
    BY <1>6 DEF Again, Show, Base
  <2> QED BY <2>1, BaseDepicts, ShowDepicts, Zenon
<1>7. ASSUME UNCHANGED <<typed, col, shown>> PROVE ScreenInv'
  BY <1>7 DEF ScreenInv, Depicts, Screen
<1>8. CASE ReadlineNext
  BY <1>1, <1>2, <1>4, <1>5, <1>6, <1>7, <1>8 DEF ReadlineNext, Enter
<1>9. CASE UNCHANGED readlineVars
  BY <1>7, <1>9 DEF readlineVars
<1> QED BY <1>8, <1>9

(* After any keys, for every length of the prompt and of the buffer, the   *)
(* operator sees the prompt and the line that readline has collected: a    *)
(* TAB that is erased takes as many columns off as it was shown with.      *)
THEOREM ScreenShowsTyped == ReadlineSpec => []ShownIsTyped
<1>1. ReadlineInit => ScreenInv
  <2> SUFFICES ASSUME ReadlineInit PROVE ScreenInv
    OBVIOUS
  <2>1. typed = <<>> /\ Screen = Base
    BY DEF ReadlineInit, Screen, Base
  <2> QED BY <2>1, BaseDepicts, Zenon DEF ScreenInv
<1>2. ScreenInv => ShownIsTyped
  <2> SUFFICES ASSUME ScreenInv PROVE ShownIsTyped
    OBVIOUS
  <2>1. Screen = FoldLeft(Echo, [row |-> Prompt, col |-> plen], typed)
    BY Zenon DEF ScreenInv, Depicts, Shows, Base
  <2>2. Screen.row = shown
    BY DEF Screen
  <2> QED BY <2>1, <2>2, Zenon DEF ShownIsTyped
<1> QED BY <1>1, <1>2, ScreenStep, PTL DEF ReadlineSpec
-----------------------------------------------------------------------------
(* process_macros, character by character *)
First == [state |-> 0, prev |-> NUL, skip |-> FALSE, start |-> 0, out |-> <<>>]

Passes(D, I, t, it) ==
  it = [q \in SUBSET D |-> IF q = {} THEN First
                           ELSE Macro(t, it[q \ {Max(q)}], I[Max(q)])]

LEMMA MacroPasses ==
  ASSUME NEW t, NEW I, NEW N \in Nat
  PROVE  \E it : Passes(1..N, I, t, it)
<1> DEFINE S == {n \in 0..N : \E it : Passes(1..n, I, t, it)}
<1>1. 0 \in S
  <2> DEFINE it == [q \in SUBSET (1..0) |-> First]
  <2>1. 1..0 = {}
    OBVIOUS
  <2>2. \A q \in SUBSET (1..0) : q = {}
    BY <2>1
  <2>3. Passes(1..0, I, t, it)
    BY <2>2, Zenon DEF Passes
  <2>4. 0 \in 0..N
    OBVIOUS
  <2> QED BY <2>3, <2>4, Zenon
<1>2. ASSUME NEW n \in 0..(N - 1), n \in S PROVE n + 1 \in S
  <2>1. n + 1 \in 0..N /\ n \in Nat
    OBVIOUS
  <2>2. PICK h : Passes(1..n, I, t, h)
    BY <1>2
  <2>3. \A q \in SUBSET (1..n) :
          h[q] = IF q = {} THEN First ELSE Macro(t, h[q \ {Max(q)}], I[Max(q)])
    BY <2>2, Zenon DEF Passes
  <2> DEFINE it == [q \in SUBSET (1..(n + 1)) |->
                      IF n + 1 \in q THEN Macro(t, h[q \ {n + 1}], I[n + 1])
                      ELSE h[q]]
  <2>4. ASSUME NEW q \in SUBSET (1..n) PROVE it[q] = h[q]
    <3>1. q \in SUBSET (1..(n + 1)) /\ n + 1 \notin q
      BY <2>1
    <3> QED BY <3>1, Zenon
  <2>5. ASSUME NEW q \in SUBSET (1..(n + 1))
        PROVE  it[q] = IF q = {} THEN First
                       ELSE Macro(t, it[q \ {Max(q)}], I[Max(q)])
    <3>1. CASE n + 1 \in q
      <4>1. Max(q) = n + 1
        <5>1. q \subseteq Nat /\ \A y \in q : y <= n + 1
          BY <2>1
        <5> QED BY <3>1, <5>1, MaxOnly
      <4>2. q \ {n + 1} \in SUBSET (1..n)
        BY <2>1
      <4>3. it[q \ {n + 1}] = h[q \ {n + 1}]
        BY <2>4, <4>2, Zenon
      <4>4. it[q] = Macro(t, h[q \ {n + 1}], I[n + 1])
        BY <3>1, Zenon
      <4> QED BY <3>1, <4>1, <4>3, <4>4, Zenon
    <3>2. CASE n + 1 \notin q
      <4>1. q \in SUBSET (1..n)
        BY <2>1, <3>2
      <4>2. q \ {Max(q)} \in SUBSET (1..n)
        BY <4>1
      <4>3. it[q] = h[q] /\ it[q \ {Max(q)}] = h[q \ {Max(q)}]
        BY <2>4, <4>1, <4>2, Zenon
      <4> QED BY <2>3, <4>1, <4>3, Zenon
    <3> QED BY <3>1, <3>2
  <2>6. Passes(1..(n + 1), I, t, it)
    <3>1. it = [q \in SUBSET (1..(n + 1)) |-> it[q]]
      BY Zenon
    <3> HIDE DEF it
    <3> QED BY <2>5, <3>1, Zenon DEF Passes
  <2> QED BY <2>1, <2>6, Zenon
<1> HIDE DEF S
<1>3. \A n \in 0..N : n \in S
  BY <1>1, <1>2, SetInduction, Zenon
<1>4. N \in 0..N
  OBVIOUS
<1>5. N \in S
  BY <1>3, <1>4, Zenon
<1> QED BY <1>5, Zenon DEF S

(* f[n] is the state of the scan behind n characters of t. *)
ScanTo(t, N, f) ==
  /\ f[0] = First
  /\ \A n \in 1..N : f[n] = Macro(t, f[n - 1], n)

Scan(t, f) == ScanTo(t, Len(t), f)

LEMMA MacrosTo ==
  ASSUME NEW t, NEW N \in Nat
  PROVE  \E f : ScanTo(t, N, f) /\ Macros(t, N) = f[N]
<1> DEFINE I == [i \in 1..N |-> i]
           it == CHOOSE it : Passes(1..N, I, t, it)
<1>1. DOMAIN I = 1..N
  OBVIOUS
<1>2. Passes(1..N, I, t, it)
  BY MacroPasses, Zenon
<1>3. Macros(t, N) = it[1..N]
  <2>1. Macros(t, N) = (CHOOSE i : Passes(DOMAIN I, I, t, i))[DOMAIN I]
    BY Zenon DEF Macros, FoldLeft, MapThenFoldSet, Passes, First
  <2> QED BY <1>1, <2>1, Zenon
<1>4. \A n \in 1..N : I[n] = n
  BY <1>1
<1> HIDE DEF it, I
<1>5. \A q \in SUBSET (1..N) :
        it[q] = IF q = {} THEN First ELSE Macro(t, it[q \ {Max(q)}], I[Max(q)])
  BY <1>2, Zenon DEF Passes
<1> DEFINE f == [n \in 0..N |-> it[1..n]]
<1>6. f[0] = First
  <2>1. 0 \in 0..N /\ 1..0 = {} /\ {} \in SUBSET (1..N)
    OBVIOUS
  <2>2. f[0] = it[{}]
    BY <2>1, Zenon
  <2> QED BY <1>5, <2>1, <2>2, Zenon
<1>7. ASSUME NEW n \in 1..N PROVE f[n] = Macro(t, f[n - 1], n)
  <2>1. /\ n \in 0..N /\ n - 1 \in 0..N /\ n \in 1..n
        /\ 1..n \subseteq 1..N /\ 1..n \subseteq Nat
        /\ \A y \in 1..n : y <= n
    OBVIOUS
  <2>2. 1..n # {} /\ (1..n) \ {n} = 1..(n - 1)
    <3>1. n \in Nat
      OBVIOUS
    <3>2. \A k : k \in 1..(n - 1) <=> k \in 1..n /\ k # n
      BY <3>1
    <3> QED BY <2>1, <3>2, Zenon
  <2>3. Max(1..n) = n
    BY <2>1, MaxOnly
  <2>4. it[1..n] = Macro(t, it[1..(n - 1)], n)
    BY <1>4, <1>5, <2>1, <2>2, <2>3, Zenon
  <2> QED BY <2>1, <2>4, Zenon
<1>8. f[N] = it[1..N]
  OBVIOUS
<1> HIDE DEF f
<1>9. ScanTo(t, N, f)
  BY <1>6, <1>7, Zenon DEF ScanTo
<1> QED BY <1>3, <1>8, <1>9, Zenon

(* One f will do for every number of characters. *)
LEMMA MacrosAre ==
  ASSUME NEW t, NEW N \in Nat, NEW f, ScanTo(t, N, f), NEW M \in 0..N
  PROVE  Macros(t, M) = f[M]
<1>1. M \in Nat
  OBVIOUS
<1>2. PICK g : ScanTo(t, M, g) /\ Macros(t, M) = g[M]
  BY <1>1, MacrosTo, Zenon
<1> DEFINE S == {n \in 0..M : g[n] = f[n]}
<1>3. 0 \in S
  <2>1. 0 \in 0..M
    OBVIOUS
  <2> QED BY <1>2, <2>1, Zenon DEF ScanTo
<1>4. ASSUME NEW n \in 0..(M - 1), n \in S PROVE n + 1 \in S
  <2>1. /\ n + 1 \in 1..M /\ n + 1 \in 1..N /\ n + 1 \in 0..M
        /\ (n + 1) - 1 = n
    OBVIOUS
  <2>2. g[n + 1] = Macro(t, g[n], n + 1) /\ f[n + 1] = Macro(t, f[n], n + 1)
    BY <1>2, <2>1 DEF ScanTo
  <2>3. g[n] = f[n]
    BY <1>4, Zenon
  <2>4. g[n + 1] = f[n + 1]
    BY <2>2, <2>3, Zenon
  <2> QED BY <2>1, <2>4, Zenon
<1> HIDE DEF S
<1>5. \A n \in 0..M : n \in S
  BY <1>1, <1>3, <1>4, SetInduction, Zenon
<1>6. M \in 0..M
  OBVIOUS
<1>7. g[M] = f[M]
  BY <1>5, <1>6, Zenon DEF S
<1> QED BY <1>2, <1>7, Zenon

LEMMA MacrosScan ==
  ASSUME NEW C, NEW t \in Seq(C)
  PROVE  \E f : Scan(t, f) /\ process_macros(t) = f[Len(t)]
<1>1. Len(t) \in Nat
  BY LenProperties
<1> QED BY <1>1, MacrosTo, Zenon DEF Scan, process_macros
-----------------------------------------------------------------------------
(* A character, or the NUL that stands in front of the first one *)
Char == STRING \union {NUL}

LEMMA CharIs == NUL \in Char /\ NUL # Backslash /\ Quote # Backslash
<1>1. NUL \in Char
  BY Zenon DEF Char
<1>2. NUL # Backslash /\ Quote # Backslash
  BY Zenon DEF NUL, Backslash, Quote
<1> QED BY <1>1, <1>2

LEMMA PutOne ==
  ASSUME NEW out \in Seq(Char), Len(out) < CFG_CBSIZE, NEW c \in Char
  PROVE  /\ Put(out, <<c>>) = Append(out, c)
         /\ Put(out, <<c>>) \in Seq(Char)
         /\ Len(Put(out, <<c>>)) = Len(out) + 1
<1> DEFINE room == CFG_CBSIZE - Len(out)
           z == IF Len(<<c>>) < room THEN Len(<<c>>) ELSE room
<1>1. CFG_CBSIZE \in Nat /\ Len(out) \in Nat
  BY LineAssumption, LenProperties
<1>2. Len(<<c>>) = 1
  OBVIOUS
<1>3. z = 1
  BY <1>1, <1>2
<1>4. SubSeq(<<c>>, 1, 1) = <<c>>
  <2> DEFINE u == <<c>>
  <2>1. u \in Seq(Char) /\ Len(u) = 1
    OBVIOUS
  <2> HIDE DEF u
  <2>2. SubSeq(u, 1, Len(u)) = u
    BY <2>1, SubSeqFull
  <2> QED BY <2>1, <2>2, Zenon DEF u
<1>5. Put(out, <<c>>) = out \o SubSeq(<<c>>, 1, z)
  BY Zenon DEF Put
<1> HIDE DEF z
<1>6. Put(out, <<c>>) = out \o <<c>>
  BY <1>3, <1>4, <1>5, Zenon
<1>7. out \o <<c>> = Append(out, c)
  BY AppendIsConcat
<1>8. /\ Append(out, c) \in Seq(Char)
      /\ Len(Append(out, c)) = Len(out) + 1
  BY AppendProperties
<1> QED BY <1>6, <1>7, <1>8, Zenon

(* What process_macros keeps between two characters.  The scan s goes on   *)
(* to m with the i-th of them.                                             *)
Fields(s) == /\ DOMAIN s = {"state", "prev", "skip", "start", "out"}
             /\ s.state \in 0..3

Counts(t, s, i) == t[i] = Quote /\ s.prev # Backslash

Passed(t, s, i, m) ==
  /\ Fields(m) /\ m.prev = t[i]
  /\ m.state = 3 <=> IF Counts(t, s, i) THEN s.state # 3 ELSE s.state = 3

Waits(s, e) == Fields(s) /\ s.state = e

LEMMA FieldsSet ==
  ASSUME NEW s, Fields(s), NEW e \in 0..3, NEW x
  PROVE  /\ Waits([s EXCEPT !.state = e, !.start = x], e)
         /\ Waits([s EXCEPT !.state = e, !.out = x], e)
<1> DEFINE u == [s EXCEPT !.state = e]
<1>1. Fields(u) /\ u.state = e
  BY DEF Fields
<1> HIDE DEF u
<1>2. Fields([u EXCEPT !.start = x]) /\ [u EXCEPT !.start = x].state = e
  BY <1>1 DEF Fields
<1>3. Fields([u EXCEPT !.out = x]) /\ [u EXCEPT !.out = x].state = e
  BY <1>1 DEF Fields
<1> QED BY <1>2, <1>3 DEF u, Waits

LEMMA MacroPassed ==
  ASSUME NEW t, NEW i, NEW s, Fields(s), Len(s.out) # CFG_CBSIZE,
         ~(Counts(t, s, i) /\ s.state \in {1, 2})
  PROVE  Passed(t, s, i, Macro(t, s, i))
<1> DEFINE c == t[i]
           m == Macro(t, s, i)
           H == c = Quote /\ s.prev # Backslash
           B == /\ s.state # 3 /\ ~s.skip
                /\ c = Backslash /\ s.prev # Backslash
<1>1. CASE B
  <2>1. m = [s EXCEPT !.skip = TRUE, !.prev = c]
    BY <1>1 DEF Macro
  <2>2. Fields(m) /\ m.prev = c /\ m.state = s.state
    BY <2>1 DEF Fields
  <2>3. ~Counts(t, s, i)
    BY <1>1, CharIs, Zenon DEF Counts
  <2> QED BY <2>2, <2>3, Zenon DEF Passed
<1>2. CASE ~B
  <2> DEFINE r == CASE s.state = 0 -> Case0(s, c)
                    [] s.state = 1 -> Case1(s, c, i)
                    [] s.state = 2 -> Case2(s, c, t, i)
                    [] OTHER -> Case3(s, c)
  <2>1. m = [r EXCEPT !.skip = FALSE, !.prev = c]
    BY <1>2 DEF Macro
  <2>2. Fields(r) /\ (r.state = 3 <=> IF H THEN s.state # 3 ELSE s.state = 3)
    <3>1. CASE s.state = 0
      <4>1. r = Case0(s, c)
        BY <3>1
      <4> HIDE DEF r
      <4>2. CASE H
        <5>1. r = [s EXCEPT !.state = 3]
          BY <4>1, <4>2 DEF Case0, Quote
        <5> QED BY <3>1, <4>2, <5>1 DEF Fields
      <4>3. CASE ~H
        <5>1. \/ r = [s EXCEPT !.state = 1]
              \/ r = [s EXCEPT !.out = Put(s.out, <<c>>)]
          BY <4>1, <4>3 DEF Case0
        <5> HIDE DEF H
        <5> QED BY <3>1, <4>3, <5>1 DEF Fields
      <4> QED BY <4>2, <4>3
    <3>2. CASE s.state = 1
      <4>1. r = Case1(s, c, i)
        BY <3>2
      <4>2. ~H
        BY <3>2 DEF Counts
      <4> HIDE DEF r, H
      <4>3. \/ r = [s EXCEPT !.state = 2, !.start = i + 1]
            \/ r = [s EXCEPT !.state = 0, !.out = Put(s.out, <<"$", c>>)]
        BY <4>1 DEF Case1
      <4>4. Fields(r) /\ r.state # 3
        <5>1. 2 \in 0..3 /\ 0 \in 0..3 /\ 2 # 3 /\ 0 # 3
          OBVIOUS
        <5>2. \A x : Waits([s EXCEPT !.state = 2, !.start = x], 2)
          BY <5>1, FieldsSet
        <5>3. \A x : Waits([s EXCEPT !.state = 0, !.out = x], 0)
          BY <5>1, FieldsSet
        <5>4. CASE r = [s EXCEPT !.state = 2, !.start = i + 1]
          BY <5>1, <5>2, <5>4, Zenon DEF Waits
        <5>5. CASE r = [s EXCEPT !.state = 0, !.out = Put(s.out, <<"$", c>>)]
          BY <5>1, <5>3, <5>5, Zenon DEF Waits
        <5> QED BY <4>3, <5>4, <5>5, Zenon
      <4> QED BY <3>2, <4>2, <4>4
    <3>3. CASE s.state = 2
      <4>1. r = Case2(s, c, t, i)
        BY <3>3
      <4>2. ~H
        BY <3>3 DEF Counts
      <4> HIDE DEF r, H
      <4> DEFINE p == Put(s.out, getenv(SubSeq(t, s.start, i - 1)))
      <4>3. \/ r = [s EXCEPT !.state = 0, !.out = p]
            \/ r = s
        BY <4>1 DEF Case2
      <4> HIDE DEF p
      <4>4. Fields(r) /\ r.state # 3
        <5>1. 0 \in 0..3 /\ 0 # 3 /\ 2 # 3
          OBVIOUS
        <5>2. \A x : Waits([s EXCEPT !.state = 0, !.out = x], 0)
          BY <5>1, FieldsSet
        <5>3. CASE r = [s EXCEPT !.state = 0, !.out = p]
          BY <5>1, <5>2, <5>3, Zenon DEF Waits
        <5> QED BY <3>3, <4>3, <5>1, <5>3, Zenon
      <4> QED BY <3>3, <4>2, <4>4
    <3>4. CASE s.state = 3
      <4>1. r = Case3(s, c)
        BY <3>4
      <4> HIDE DEF r
      <4>2. CASE H
        <5>1. r = [s EXCEPT !.state = 0]
          BY <4>1, <4>2 DEF Case3
        <5> QED BY <3>4, <4>2, <5>1 DEF Fields
      <4>3. CASE ~H
        <5>1. r = [s EXCEPT !.out = Put(s.out, <<c>>)]
          BY <4>1, <4>3 DEF Case3
        <5> HIDE DEF H
        <5> QED BY <3>4, <4>3, <5>1 DEF Fields
      <4> QED BY <4>2, <4>3
    <3>5. s.state \in 0..3
      BY DEF Fields
    <3> QED BY <3>1, <3>2, <3>3, <3>4, <3>5
  <2> HIDE DEF r, m
  <2>3. Fields(m) /\ m.prev = c /\ m.state = r.state
    BY <2>1, <2>2 DEF Fields
  <2> QED BY <2>2, <2>3, Zenon DEF Passed, Counts, m
<1> QED BY <1>1, <1>2
-----------------------------------------------------------------------------
(* Where a piece ends, and the quotes that are counted up to there *)
LEMMA LeastIs ==
  ASSUME NEW S, S \subseteq Nat, S # {}
  PROVE  Min(S) \in S /\ \A y \in S : Min(S) <= y
<1> DEFINE R == OpToRel(<, Nat)
<1>1. IsWellFoundedOn(R, Nat)
  BY NatLessThanWellFounded
<1>2. \A x, y \in Nat : <<y, x>> \in R <=> y < x
  BY DEF OpToRel
<1> HIDE DEF R
<1>3. PICK x \in S : \A y \in S : ~ (<<y, x>> \in R)
  BY <1>1, WFMin
<1>4. x \in Nat /\ \A y \in S : y \in Nat /\ ~(y < x)
  BY <1>2, <1>3, Zenon
<1>5. \A n, m \in Nat : ~(n < m) => m <= n
  OBVIOUS
<1>6. \E z \in S : \A y \in S : z <= y
  BY <1>4, <1>5, Zenon
<1> QED BY <1>6, Zenon DEF Min

(* The quotes among the first n characters of the piece *)
Quotes(n) ==
  {k \in str..(str + n - 1) : line[k] = Quote /\ Before(k) # Backslash}

(* Both scans behind n characters: unless its buffer is full,              *)
(* process_macros is inside a quote when run_command has met an odd number *)
(* of them.                                                                *)
Agree(f, n) ==
  /\ Fields(f[n])
  /\ Len(f[n].out) # CFG_CBSIZE =>
       /\ f[n].prev = Backslash <=> Before(str + n) = Backslash
       /\ f[n].state = 3 <=> Cardinality(Quotes(n)) % 2 = 1

LEMMA QuotesGrow ==
  ASSUME NEW n \in Nat, str \in Nat
  PROVE  /\ IsFiniteSet(Quotes(n)) /\ Cardinality(Quotes(n)) \in Nat
         /\ Quotes(0) = {}
         /\ line[str + n] = Quote /\ Before(str + n) # Backslash
              => Cardinality(Quotes(n + 1)) = Cardinality(Quotes(n)) + 1
         /\ ~(line[str + n] = Quote /\ Before(str + n) # Backslash)
              => Quotes(n + 1) = Quotes(n)
<1> DEFINE P(k) == line[k] = Quote /\ Before(k) # Backslash
           x == str + n
<1>1. /\ str..(str + n - 1) \subseteq Int /\ str \in Int /\ str + n - 1 \in Int
      /\ \A k : k \in str..(str + (n + 1) - 1)
                  <=> k \in str..(str + n - 1) \/ k = x
      /\ x \notin str..(str + n - 1)
      /\ \A k : k \notin str..(str + 0 - 1)
  OBVIOUS
<1>2. IsFiniteSet(str..(str + n - 1))
  BY <1>1, FS_Interval
<1>3. Quotes(n) \in SUBSET (str..(str + n - 1))
  BY Zenon DEF Quotes
<1>4. IsFiniteSet(Quotes(n))
  BY <1>2, <1>3, FS_Subset
<1>5. Cardinality(Quotes(n)) \in Nat
  BY <1>4, FS_CardinalityType
<1>6. Quotes(0) = {}
  BY <1>1, Zenon DEF Quotes
<1>7. /\ \A k : k \in Quotes(n) <=> k \in str..(str + n - 1) /\ P(k)
      /\ \A k : k \in Quotes(n + 1) <=> k \in str..(str + (n + 1) - 1) /\ P(k)
  BY Zenon DEF Quotes
<1> HIDE DEF P, x
<1>8. ASSUME P(x)
      PROVE  Cardinality(Quotes(n + 1)) = Cardinality(Quotes(n)) + 1
  <2>1. Quotes(n + 1) = Quotes(n) \union {x}
    BY <1>1, <1>7, <1>8, Zenon
  <2>2. x \notin Quotes(n)
    BY <1>1, <1>7, Zenon
  <2>3. Cardinality(Quotes(n) \union {x}) = Cardinality(Quotes(n)) + 1
    BY <1>4, <2>2, FS_AddElement
  <2> QED BY <2>1, <2>3, Zenon
<1>9. ASSUME ~P(x) PROVE Quotes(n + 1) = Quotes(n)
  BY <1>1, <1>7, <1>9, Zenon
<1> QED BY <1>4, <1>5, <1>6, <1>8, <1>9, Zenon DEF P, x

LEMMA OddNext == \A a \in Nat : (a + 1) % 2 = 1 <=> ~(a % 2 = 1)
  OBVIOUS

LEMMA ScansAgree ==
  ASSUME line \in Seq(STRING), str \in 1..Len(line), prior # Backslash,
         NEW N \in Nat, str + N - 1 <= Len(line),
         NEW t, Len(t) = N, \A n \in 1..N : t[n] = line[str + n - 1],
         NEW f, Scan(t, f),
         \A n \in 1..N :
           ~(Counts(t, f[n - 1], n) /\ f[n - 1].state \in {1, 2})
  PROVE  Agree(f, N)
<1> DEFINE S == {n \in 0..N : Agree(f, n)}
<1>1. 0 \in S
  <2>1. 0 \in 0..N /\ str + 0 = str /\ 0 \in Nat /\ 0 % 2 # 1 /\ 0 # 3
    OBVIOUS
  <2>2. f[0] = First /\ Fields(First) /\ First.state = 0 /\ First.prev = NUL
    BY DEF Scan, ScanTo, First, Fields
  <2>3. Before(str) # Backslash
    BY CharIs DEF Before
  <2>4. Quotes(0) = {} /\ Cardinality(Quotes(0)) = 0
    <3>1. str \in Nat /\ 0 \in Nat
      OBVIOUS
    <3>2. Quotes(0) = {}
      BY <3>1, QuotesGrow
    <3> QED BY <3>2, FS_EmptySet, Zenon
  <2>5. Agree(f, 0)
    BY <2>1, <2>2, <2>3, <2>4, CharIs, Zenon DEF Agree
  <2> QED BY <2>1, <2>5, Zenon
<1>2. ASSUME NEW n \in 0..(N - 1), n \in S PROVE n + 1 \in S
  <2>1. Agree(f, n)
    BY <1>2, Zenon
  <2> DEFINE c == t[n + 1]
             s == f[n]
             m == Macro(t, s, n + 1)
             Hit == c = Quote /\ s.prev # Backslash
  <2>2. /\ n + 1 \in 1..N /\ (n + 1) - 1 = n /\ n + 1 \in 0..N /\ n \in Nat
        /\ str + (n + 1) - 1 = str + n /\ n + 1 \in Nat /\ str \in Nat
        /\ str + n \in 1..Len(line) /\ str + (n + 1) # 1
        /\ str + (n + 1) # str /\ (str + (n + 1)) - 1 = str + n
    BY LenProperties
  <2>3. c = line[str + n]
    BY <2>2, Zenon
  <2>4. f[n + 1] = m
    <3>1. f[n + 1] = Macro(t, f[(n + 1) - 1], n + 1)
      BY <2>2, Zenon DEF Scan, ScanTo
    <3> QED BY <2>2, <3>1, Zenon
  <2>5. CASE Len(s.out) = CFG_CBSIZE
    <3>1. m = s
      BY <2>5 DEF Macro
    <3>2. Agree(f, n + 1)
      BY <2>1, <2>4, <2>5, <3>1, Zenon DEF Agree
    <3> QED BY <2>2, <3>2, Zenon
  <2>6. CASE Len(s.out) # CFG_CBSIZE
    <3>1. /\ Fields(s)
          /\ s.prev = Backslash <=> Before(str + n) = Backslash
          /\ s.state = 3 <=> Cardinality(Quotes(n)) % 2 = 1
      BY <2>1, <2>6, Zenon DEF Agree
    <3>2. ~(Counts(t, s, n + 1) /\ s.state \in {1, 2})
      BY <2>2
    <3>3. /\ Fields(m) /\ m.prev = c
          /\ m.state = 3 <=> IF Hit THEN s.state # 3 ELSE s.state = 3
      <4>1. Passed(t, s, n + 1, m)
        BY <2>6, <3>1, <3>2, MacroPassed, Zenon
      <4> QED BY <4>1, Zenon DEF Passed, Counts
    <3>4. Before(str + (n + 1)) = c
      BY <2>2, <2>3, Zenon DEF Before
    <3>5. Hit <=> line[str + n] = Quote /\ Before(str + n) # Backslash
      BY <2>3, <3>1, Zenon
    <3> DEFINE q == Cardinality(Quotes(n))
               r == Cardinality(Quotes(n + 1))
    <3>6. q \in Nat /\ r = IF Hit THEN q + 1 ELSE q
      BY <2>2, <3>5, QuotesGrow, Zenon
    <3>7. s.state = 3 <=> q % 2 = 1
      BY <3>1, Zenon
    <3> HIDE DEF c, s, m, Hit, q, r
    <3>8. m.state = 3 <=> r % 2 = 1
      <4>1. CASE Hit
        <5>1. r = q + 1 /\ (m.state = 3 <=> s.state # 3)
          BY <3>3, <3>6, <4>1, Zenon
        <5>2. r % 2 = 1 <=> ~(q % 2 = 1)
          BY <3>6, <5>1, OddNext, Zenon
        <5> QED BY <3>7, <5>1, <5>2, Zenon
      <4>2. CASE ~Hit
        BY <3>3, <3>6, <3>7, <4>2, Zenon
      <4> QED BY <4>1, <4>2
    <3>9. Agree(f, n + 1)
      BY <2>4, <3>3, <3>4, <3>8, Zenon DEF Agree, r
    <3> QED BY <2>2, <3>9, Zenon
  <2> QED BY <2>5, <2>6
<1> HIDE DEF S
<1>3. \A n \in 0..N : n \in S
  BY <1>1, <1>2, SetInduction, Zenon
<1>4. N \in 0..N
  OBVIOUS
<1>5. N \in S
  BY <1>3, <1>4, Zenon
<1> QED BY <1>5, Zenon DEF S
-----------------------------------------------------------------------------
(* The piece that Split cuts off *)
Clear(t) == /\ Len(process_macros(t).out) < CFG_CBSIZE
            /\ \A n \in 1..Len(t) : ~Unseen(t, n)

LEMMA SplitIsWhole ==
  ASSUME line \in Seq(STRING), str \in Nat \ {0}, str <= Len(line),
         prior # Backslash, Sep + 1 <= Len(line),
         Clear(SubSeq(line, str, Sep - 1))
  PROVE  process_macros(SubSeq(line, str, Sep - 1)).state # 3
<1> DEFINE t == SubSeq(line, str, Sep - 1)
           J == {j \in str..Len(line) : IsSep(j)}
           N == Sep - str
<1>1. Sep \in J /\ Sep \in str..Len(line)
  <2>1. J \union {Len(line) + 1} \subseteq Nat /\ Len(line) \in Nat
    BY LenProperties
  <2>2. Sep \in J \union {Len(line) + 1}
    BY <2>1, LeastIs, Zenon DEF Sep
  <2>3. Sep # Len(line) + 1
    BY <2>1, <2>2
  <2> HIDE DEF J
  <2>4. Sep \in J
    BY <2>2, <2>3, Zenon
  <2> QED BY <2>4, Zenon DEF J
<1>2. ~InQuotes(Sep) /\ line[Sep] = ";"
  BY <1>1, Zenon DEF IsSep
<1>3. /\ N \in Nat /\ str + N - 1 = Sep - 1 /\ str + N - 1 <= Len(line)
      /\ str \in 1..Len(line) /\ Sep - 1 \in 0..Len(line) /\ Sep \in Nat
      /\ Len(line) \in Nat
  BY <1>1, LenProperties
<1>4. /\ t \in Seq(STRING) /\ Len(t) = N
      /\ \A n \in 1..N : t[n] = line[str + n - 1]
  <2> HIDE DEF t
  <2>0. \A i \in str..(Sep - 1) : line[i] \in STRING
    <3>1. \A i \in str..(Sep - 1) : i \in 1..Len(line)
      BY <1>1, <1>3
    <3>2. \A i \in 1..Len(line) : line[i] \in STRING
      BY ElementOfSeq
    <3> QED BY <3>1, <3>2, Zenon
  <2>1. str \in Int /\ Sep - 1 \in Int
    BY <1>3
  <2>2. /\ SubSeq(line, str, Sep - 1) \in Seq(STRING)
        /\ Len(SubSeq(line, str, Sep - 1))
             = IF str <= Sep - 1 THEN (Sep - 1) - str + 1 ELSE 0
        /\ \A i \in 1..((Sep - 1) - str + 1) :
             SubSeq(line, str, Sep - 1)[i] = line[str + i - 1]
    BY <1>1, <1>3, <2>0, <2>1, SubSeqProperties
  <2>3. (Sep - 1) - str + 1 = N /\ (str <= Sep - 1 \/ N = 0)
    BY <1>1, <1>3
  <2>4. Len(SubSeq(line, str, Sep - 1)) = N
    BY <1>3, <2>2, <2>3
  <2> HIDE DEF N
  <2> QED BY <2>2, <2>3, <2>4, Zenon DEF t
<1> HIDE DEF t
<1>5. PICK f : Scan(t, f) /\ process_macros(t) = f[Len(t)]
  BY <1>4, MacrosScan, Zenon
<1> HIDE DEF N
<1>6. ASSUME NEW n \in 1..N
      PROVE  ~(Counts(t, f[n - 1], n) /\ f[n - 1].state \in {1, 2})
  <2>1. n - 1 \in 0..N
    BY <1>3
  <2>2. Macros(t, n - 1) = f[n - 1]
    <3>1. ScanTo(t, N, f) /\ N \in Nat
      BY <1>3, <1>4, <1>5, Zenon DEF Scan
    <3> DEFINE k == n - 1
    <3> HIDE DEF k
    <3>2. k \in 0..N
      BY <2>1 DEF k
    <3>3. Macros(t, k) = f[k]
      BY <3>1, <3>2, MacrosAre
    <3> QED BY <3>3 DEF k
  <2>3. ~Unseen(t, n)
    BY <1>4, Zenon DEF Clear, t
  <2> QED BY <2>2, <2>3 DEF Unseen, Counts
<1>7. Agree(f, N) /\ Len(f[N].out) # CFG_CBSIZE
  <2>1. Agree(f, N)
    BY <1>3, <1>4, <1>5, <1>6, ScansAgree, Zenon
  <2>2. Len(f[N].out) < CFG_CBSIZE
    BY <1>4, <1>5, Zenon DEF Clear, t
  <2>3. ~(CFG_CBSIZE < CFG_CBSIZE)
    BY LineAssumption
  <2> QED BY <2>1, <2>2, <2>3
<1>8. Quotes(N) = {k \in str..Sep : line[k] = Quote /\ Before(k) # Backslash}
  <2>1. \A k : k \in str..Sep <=> k \in str..(str + N - 1) \/ k = Sep
    BY <1>1, <1>3
  <2>2. line[Sep] # Quote
    BY <1>2, Zenon DEF Quote
  <2> QED BY <2>1, <2>2, Zenon DEF Quotes
<1>9. ~(Cardinality(Quotes(N)) % 2 = 1)
  BY <1>2, <1>8, Zenon DEF InQuotes
<1>10. f[N].state # 3
  BY <1>7, <1>9, Zenon DEF Agree
<1> QED BY <1>4, <1>5, <1>10, Zenon DEF t

PieceInv ==
  /\ input \in Inputs
  /\ str \in Nat \ {0}
  /\ pc \notin {"call", "end"} => Len(line) < CFG_CBSIZE
  /\ PieceIsWhole

LEMMA PieceInit == LineInit => PieceInv
<1> SUFFICES ASSUME LineInit PROVE PieceInv
  OBVIOUS
<1>1. input \in Inputs /\ str = 1 /\ pc = "call"
  BY Zenon DEF LineInit
<1>2. str \in Nat \ {0}
  BY <1>1
<1> QED BY <1>1, <1>2, Zenon DEF PieceInv, PieceIsWhole

LEMMA PieceNext == PieceInv /\ [LineNext]_lineVars => PieceInv'
<1> SUFFICES ASSUME PieceInv, [LineNext]_lineVars PROVE PieceInv'
  OBVIOUS
<1>1. /\ input \in Inputs /\ str \in Nat \ {0} /\ line \in Seq(STRING)
      /\ pc \notin {"call", "end"} => Len(line) < CFG_CBSIZE
      /\ PieceIsWhole
  BY LineAssumption, Zenon DEF PieceInv, line
<1>2. CASE TooLong
  BY <1>1, <1>2, Zenon DEF TooLong, PieceInv, PieceIsWhole, line
<1>3. CASE Accept
  <2>1. Len(line) < CFG_CBSIZE
    BY <1>1, <1>3, LineAssumption, LenProperties DEF Accept
  <2> QED BY <1>1, <1>3, <2>1, Zenon DEF Accept, PieceInv, PieceIsWhole, line
<1>4. CASE Split
  <2>1. /\ pc = "split" /\ str <= Len(line) /\ str' = Sep + 1 /\ pc' = "parse"
        /\ token' = SubSeq(line, str, Sep - 1)
        /\ final' = process_macros(token')
        /\ input' = input /\ prior' = prior
    BY <1>4, Zenon DEF Split
  <2>2. line' = line /\ Len(line) < CFG_CBSIZE
    BY <1>1, <2>1, Zenon DEF line
  <2>3. str' \in Nat \ {0}
    <3> DEFINE J == {j \in str..Len(line) : IsSep(j)}
    <3>1. J \union {Len(line) + 1} \subseteq Nat
      BY <1>1, LenProperties
    <3>2. Sep \in J \union {Len(line) + 1}
      BY <3>1, LeastIs, Zenon DEF Sep
    <3> HIDE DEF J
    <3>3. Sep \in Nat
      BY <3>1, <3>2, Zenon
    <3> QED BY <2>1, <3>3
  <2> DEFINE t == SubSeq(line, str, Sep - 1)
  <2>4. ASSUME prior # Backslash, Sep + 1 <= Len(line), Clear(t)
        PROVE  process_macros(t).state # 3
    BY <1>1, <2>1, <2>2, <2>4, SplitIsWhole, Zenon
  <2>5. PieceIsWhole'
    <3> HIDE DEF t
    <3>1. token' = t /\ final' = process_macros(t)
      BY <2>1, Zenon DEF t
    <3>2. (\A n \in 1..Len(token) : ~Unseen(token, n))'
            <=> \A n \in 1..Len(t) : ~Unseen(t, n)
      BY <3>1
    <3>3. ASSUME /\ prior # Backslash /\ Sep + 1 <= Len(line)
                 /\ Len(process_macros(t).out) < CFG_CBSIZE
                 /\ \A n \in 1..Len(t) : ~Unseen(t, n)
          PROVE  process_macros(t).state # 3
      BY <2>4, <3>3, Zenon DEF Clear
    <3> QED BY <2>1, <2>2, <3>1, <3>2, <3>3, Zenon DEF PieceIsWhole
  <2> QED BY <1>1, <2>1, <2>2, <2>3, <2>5, Zenon DEF PieceInv
<1>5. CASE Return
  BY <1>1, <1>5, Zenon DEF Return, PieceInv, PieceIsWhole, line
<1>6. CASE Parse
  <2>1. /\ pc = "parse" /\ pc' \in {"split", "lookup"}
        /\ UNCHANGED <<input, prior, str, token, final>>
    BY <1>6, Zenon DEF Parse
  <2> QED BY <1>1, <2>1, Zenon DEF PieceInv, PieceIsWhole, line
<1>7. CASE Refuse
  BY <1>1, <1>7, Zenon DEF Refuse, PieceInv, PieceIsWhole, line
<1>8. CASE Found
  <2>1. /\ pc = "lookup" /\ pc' = "run"
        /\ UNCHANGED <<input, prior, str, token, final>>
    BY <1>8, Zenon DEF Found
  <2> QED BY <1>1, <2>1, Zenon DEF PieceInv, PieceIsWhole, line
<1>9. CASE RunFound
  BY <1>1, <1>9, Zenon DEF RunFound, PieceInv, PieceIsWhole, line
<1>10. CASE UNCHANGED lineVars
  BY <1>1, <1>10, Zenon DEF lineVars, PieceInv, PieceIsWhole, line
<1> QED BY <1>2, <1>3, <1>4, <1>5, <1>6, <1>7, <1>8, <1>9, <1>10, Zenon
        DEF LineNext

(* run_command and process_macros agree about where a quote ends: no piece *)
(* but the last one of a line is cut off inside a quote, for every line,   *)
(* all variables and every size of the buffer, if the byte in front of the *)
(* buffer is no backslash, what comes of the piece does not fill the other *)
(* buffer, and no quote in it stands behind a '$' that counts or in the    *)
(* name of a variable.                                                     *)
THEOREM PiecesAreWhole == LineSpec => []PieceIsWhole
<1>1. PieceInv => PieceIsWhole
  BY DEF PieceInv
<1> QED BY <1>1, PieceInit, PieceNext, PTL DEF LineSpec
-----------------------------------------------------------------------------
(* The scan s goes on to r with the character put out, or with a backslash *)
(* left out.                                                               *)
Taken(t, s, i, r) ==
  r = [s EXCEPT !.out = Put(s.out, <<t[i]>>), !.skip = FALSE, !.prev = t[i]]
LeftOut(s, r) == r = [s EXCEPT !.skip = TRUE, !.prev = Backslash]

LEMMA LiteralChar ==
  ASSUME NEW t, NEW i, NEW s, s.state = 0,
         t[i] \notin {Quote, Backslash}, t[i] = "$" => s.prev = Backslash,
         Len(s.out) # CFG_CBSIZE
  PROVE  Taken(t, s, i, Macro(t, s, i))
<1> DEFINE c == t[i]
           p == Put(s.out, <<c>>)
<1>1. Case0(s, c) = [s EXCEPT !.out = p]
  BY DEF Case0
<1> HIDE DEF p
<1>2. Macro(t, s, i) = [Case0(s, c) EXCEPT !.skip = FALSE, !.prev = c]
  BY DEF Macro
<1>3. Macro(t, s, i) = [[s EXCEPT !.out = p] EXCEPT !.skip = FALSE, !.prev = c]
  BY <1>1, <1>2, Zenon
<1>4. Macro(t, s, i) = [s EXCEPT !.out = p, !.skip = FALSE, !.prev = c]
  BY <1>3
<1> QED BY <1>4, Zenon DEF p, Taken

LEMMA EscapeChar ==
  ASSUME NEW t, NEW i, NEW s, s.state = 0, ~s.skip,
         t[i] = Backslash, s.prev # Backslash, Len(s.out) # CFG_CBSIZE
  PROVE  LeftOut(s, Macro(t, s, i))
  BY DEF Macro, LeftOut

(* process_macros behind n characters of the text m *)
Unescaped(m, n) ==
  [state |-> 0, prev |-> IF n = 0 THEN NUL ELSE m[n], skip |-> FALSE,
   start |-> 0, out |-> SubSeq(m, 1, n)]

LEMMA PlaceGrows ==
  ASSUME NEW m, NEW n \in Nat
  PROVE  /\ Place(m, n) \in Nat /\ Place(m, 0) = 0 /\ n <= Place(m, n)
         /\ Special(m[n + 1]) => Place(m, n + 1) = Place(m, n) + 2
         /\ ~Special(m[n + 1]) => Place(m, n + 1) = Place(m, n) + 1
<1> DEFINE K(i) == {k \in 1..i : Special(m[k])}
           x == n + 1
<1>1. /\ 1 \in Int /\ n \in Int /\ x \notin 1..n
      /\ \A k : k \in 1..x <=> k \in 1..n \/ k = x
      /\ \A k : k \notin 1..0
  OBVIOUS
<1>2. IsFiniteSet(1..n)
  BY <1>1, FS_Interval
<1>3. IsFiniteSet(K(n))
  BY <1>2, FS_Subset
<1>4. Cardinality(K(n)) \in Nat
  BY <1>3, FS_CardinalityType
<1>5. K(0) = {}
  BY <1>1, Zenon
<1>6. /\ \A k : k \in K(n) <=> k \in 1..n /\ Special(m[k])
      /\ \A k : k \in K(x) <=> k \in 1..x /\ Special(m[k])
      /\ \A i : Place(m, i) = i + Cardinality(K(i))
  BY Zenon DEF Place
<1> HIDE DEF K
<1>7. ASSUME Special(m[x]) PROVE Cardinality(K(x)) = Cardinality(K(n)) + 1
  <2> HIDE DEF x
  <2>1. K(x) = K(n) \union {x} /\ x \notin K(n)
    BY <1>1, <1>6, <1>7, Zenon
  <2>2. Cardinality(K(n) \union {x}) = Cardinality(K(n)) + 1
    BY <1>3, <2>1, FS_AddElement
  <2> QED BY <2>1, <2>2, Zenon
<1>8. ASSUME ~Special(m[x]) PROVE K(x) = K(n)
  <2> HIDE DEF x
  <2> QED BY <1>1, <1>6, <1>8, Zenon
<1>9. Cardinality(K(0)) = 0
  BY <1>5, FS_EmptySet
<1>10. Place(m, n) = n + Cardinality(K(n)) /\ Place(m, x) = x + Cardinality(K(x))
       /\ Place(m, 0) = 0 + Cardinality(K(0))
  BY <1>6, Zenon
<1>11. Place(m, n) \in Nat /\ Place(m, 0) = 0 /\ n <= Place(m, n)
  BY <1>4, <1>9, <1>10
<1>12. ASSUME Special(m[x]) PROVE Place(m, x) = Place(m, n) + 2
  BY <1>4, <1>7, <1>10, <1>12
<1>13. ASSUME ~Special(m[x]) PROVE Place(m, x) = Place(m, n) + 1
  <2>1. Cardinality(K(x)) = Cardinality(K(n))
    BY <1>8, <1>13, Zenon
  <2> QED BY <1>4, <1>10, <2>1
<1> QED BY <1>11, <1>12, <1>13, Zenon

LEMMA PutNext ==
  ASSUME NEW m \in Seq(STRING), NEW n \in Nat, n + 1 <= Len(m), n < CFG_CBSIZE
  PROVE  /\ Put(SubSeq(m, 1, n), <<m[n + 1]>>) = SubSeq(m, 1, n + 1)
         /\ Len(SubSeq(m, 1, n)) = n /\ Len(SubSeq(m, 1, n)) # CFG_CBSIZE
<1> DEFINE c == m[n + 1]
           o == SubSeq(m, 1, n)
<1>1. /\ 1 \in 1..Len(m) /\ n + 1 \in 1..Len(m) /\ n \in Int /\ 1 <= n + 1
      /\ n \in 0..Len(m) /\ (n + 1) - 1 = n
  BY LenProperties
<1>2. c \in STRING
  BY <1>1, ElementOfSeq
<1>3. o \in Seq(STRING) /\ Len(o) = n
  <2>1. \A i \in 1..n : m[i] \in STRING
    <3>1. \A i \in 1..n : i \in 1..Len(m)
      BY <1>1, LenProperties
    <3>2. \A i \in 1..Len(m) : m[i] \in STRING
      BY ElementOfSeq
    <3> QED BY <3>1, <3>2, Zenon
  <2>2. /\ o \in Seq(STRING)
        /\ Len(o) = IF 1 <= n THEN n - 1 + 1 ELSE 0
    BY <1>1, <2>1, SubSeqProperties
  <2> QED BY <1>1, <2>2
<1>4. SubSeq(m, 1, n + 1) = Append(o, c)
  <2> DEFINE k == n + 1
  <2>1. SubSeq(m, 1, k) = SubSeq(m, 1, k - 1) \o <<m[k]>>
    BY <1>1, SubSeqRecursiveSecond
  <2>2. o \o <<c>> = Append(o, c)
    BY <1>2, <1>3, AppendIsConcat
  <2> QED BY <1>1, <2>1, <2>2, Zenon
<1>5. c \in Char
  BY <1>2, Zenon DEF Char
<1>6. o \in Seq(Char)
  BY <1>3 DEF Char
<1> HIDE DEF o, c
<1>7. Len(o) < CFG_CBSIZE /\ Len(o) # CFG_CBSIZE
  BY <1>3, LineAssumption
<1>8. Put(o, <<c>>) = Append(o, c)
  BY <1>5, <1>6, <1>7, PutOne
<1> QED BY <1>3, <1>4, <1>7, <1>8, Zenon DEF o, c

LEMMA PlaceWithin ==
  ASSUME NEW m, NEW N \in Nat, NEW n \in 0..N
  PROVE  Place(m, n) <= Place(m, N)
<1> DEFINE A == {k \in 1..n : Special(m[k])}
           B == {k \in 1..N : Special(m[k])}
<1>1. A \in SUBSET B /\ B \in SUBSET (1..N) /\ A \in SUBSET (1..n)
  OBVIOUS
<1>2. IsFiniteSet(1..N)
  BY FS_Interval
<1> HIDE DEF A, B
<1>3. IsFiniteSet(B) /\ IsFiniteSet(A)
  BY <1>1, <1>2, FS_Subset
<1>4. Cardinality(A) <= Cardinality(B)
  BY <1>1, <1>3, FS_Subset
<1>5. Cardinality(A) \in Nat /\ Cardinality(B) \in Nat
  BY <1>3, FS_CardinalityType
<1>6. Place(m, n) = n + Cardinality(A) /\ Place(m, N) = N + Cardinality(B)
  BY Zenon DEF Place, A, B
<1> QED BY <1>4, <1>5, <1>6

(* The line l up to the place of the n-th character of the text m: it has  *)
(* become the text so far, and every ';' in it is behind a backslash.      *)
Literal(l, f, m, n) ==
  /\ f[Place(m, n)] = Unescaped(m, n)
  /\ \A j \in 1..Place(m, n) : l[j] = ";" => j # 1 /\ l[j - 1] = Backslash

LEMMA EscapedScan ==
  ASSUME NEW l, NEW m \in Seq(STRING), Escapes(l, m), Len(l) < CFG_CBSIZE,
         NEW f, Scan(l, f)
  PROVE  Literal(l, f, m, Len(m))
<1> DEFINE N == Len(m)
           S == {n \in 0..N : Literal(l, f, m, n)}
<1>1. 0 \in S
  <2>1. 0 \in 0..N /\ Place(m, 0) = 0 /\ \A j : j \notin 1..0
    BY PlaceGrows, LenProperties
  <2>2. SubSeq(m, 1, 0) = <<>>
    BY SubSeqEmpty
  <2>3. Unescaped(m, 0) = First
    BY <2>2, Zenon DEF Unescaped, First
  <2>4. f[0] = First
    BY Zenon DEF Scan, ScanTo
  <2>5. Literal(l, f, m, 0)
    BY <2>1, <2>3, <2>4, Zenon DEF Literal
  <2> QED BY <2>1, <2>5, Zenon
<1>2. ASSUME NEW n \in 0..(N - 1), n \in S PROVE n + 1 \in S
  <2> DEFINE x == n + 1
             c == m[x]
             a == Place(m, n)
             b == Place(m, x)
  <2>1. /\ x \in 1..N /\ x \in 0..N /\ n \in Nat /\ N \in Nat /\ x \in Nat
        /\ x <= Len(m) /\ x # 0 /\ N \in 0..N
    BY LenProperties
  <2>2. Literal(l, f, m, n)
    BY <1>2, Zenon
  <2>3. /\ a \in Nat /\ n <= a /\ b \in Nat
        /\ Special(c) => b = a + 2
        /\ ~Special(c) => b = a + 1
    BY <2>1, PlaceGrows, Zenon
  <2>4. Len(l) = Place(m, N) /\ Len(l) \in Nat /\ b <= Len(l)
    BY <2>1, PlaceWithin, PlaceGrows DEF Escapes
  <2>5. n < CFG_CBSIZE
    BY <2>1, <2>3, <2>4, LineAssumption
  <2>6. /\ l[b] = c
        /\ Special(c) => l[b - 1] = Backslash
        /\ c \notin {Quote, Backslash}
    <3>1. c \in ToSet(m)
      BY <2>1 DEF ToSet
    <3> QED BY <2>1, <3>1, Zenon DEF Escapes
  <2>7. /\ Put(SubSeq(m, 1, n), <<c>>) = SubSeq(m, 1, x)
        /\ Len(SubSeq(m, 1, n)) # CFG_CBSIZE
    BY <2>1, <2>5, PutNext, Zenon
  <2>8. f[a] = Unescaped(m, n)
        /\ \A j \in 1..a : l[j] = ";" => j # 1 /\ l[j - 1] = Backslash
    BY <2>2, Zenon DEF Literal
  <2> DEFINE s == Unescaped(m, n)
  <2>9. /\ s.state = 0 /\ s.skip = FALSE /\ s.start = 0
        /\ s.out = SubSeq(m, 1, n) /\ s.prev # Backslash
        /\ s = [state |-> 0, prev |-> s.prev, skip |-> FALSE, start |-> 0,
                out |-> SubSeq(m, 1, n)]
    <3>1. s.prev # Backslash
      <4>1. CASE n = 0
        BY <4>1, CharIs DEF Unescaped
      <4>2. CASE n # 0
        <5>1. n \in DOMAIN m
          BY <2>1, <4>2
        <5>2. m[n] \in ToSet(m)
          BY <5>1, Zenon DEF ToSet
        <5>3. m[n] # Backslash
          BY <5>2, Zenon DEF Escapes
        <5> QED BY <4>2, <5>3 DEF Unescaped
      <4> QED BY <4>1, <4>2
    <3> QED BY <3>1 DEF Unescaped
  <2>10. Unescaped(m, x) = [state |-> 0, prev |-> c, skip |-> FALSE, start |-> 0,
                       out |-> SubSeq(m, 1, x)]
    BY <2>1, Zenon DEF Unescaped
  <2>11. \A k \in 1..Len(l) : f[k] = Macro(l, f[k - 1], k)
    BY Zenon DEF Scan, ScanTo
  <2> HIDE DEF a, b, c, x, s
  <2>12. CASE ~Special(c)
    <3>1. b \in 1..Len(l) /\ b - 1 = a
      BY <2>3, <2>4, <2>12
    <3>2. f[b] = Macro(l, s, b)
      BY <2>8, <2>11, <3>1, Zenon DEF s
    <3>3. c # "$" /\ c # ";"
      BY <2>12, Zenon DEF Special
    <3>4. f[b] = [s EXCEPT !.out = Put(s.out, <<c>>), !.skip = FALSE, !.prev = c]
      <4>1. Taken(l, s, b, Macro(l, s, b))
        BY <2>6, <2>7, <2>9, <3>3, LiteralChar, Zenon
      <4> QED BY <2>6, <3>2, <4>1, Zenon DEF Taken
    <3>5. f[b] = Unescaped(m, x)
      BY <2>7, <2>9, <2>10, <3>4
    <3>6. \A j : j \in 1..b => j \in 1..a \/ j = b
      BY <2>3, <3>1
    <3>7. Literal(l, f, m, x)
      BY <2>6, <2>8, <3>3, <3>5, <3>6, Zenon DEF Literal, b
    <3> QED BY <2>1, <3>7, Zenon DEF x
  <2>13. CASE Special(c)
    <3>1. /\ b \in 1..Len(l) /\ b - 1 \in 1..Len(l) /\ (b - 1) - 1 = a
          /\ b # 1
      BY <2>3, <2>4, <2>13
    <3>2. f[b - 1] = Macro(l, s, b - 1)
      BY <2>8, <2>11, <3>1, Zenon DEF s
    <3>3. l[b - 1] = Backslash
      BY <2>6, <2>13, Zenon
    <3> DEFINE e == f[b - 1]
    <3>4. e = [s EXCEPT !.skip = TRUE, !.prev = Backslash]
      <4>1. LeftOut(s, Macro(l, s, b - 1))
        BY <2>7, <2>9, <3>3, EscapeChar, Zenon
      <4> QED BY <3>2, <4>1, Zenon DEF LeftOut
    <3>5. f[b] = Macro(l, e, b)
      BY <2>11, <3>1, Zenon
    <3> HIDE DEF e
    <3>6. /\ e.state = 0 /\ e.prev = Backslash /\ e.out = SubSeq(m, 1, n)
          /\ e = [state |-> 0, prev |-> Backslash, skip |-> TRUE, start |-> 0,
                  out |-> SubSeq(m, 1, n)]
      BY <2>9, <3>4
    <3>7. f[b] = [e EXCEPT !.out = Put(e.out, <<c>>), !.skip = FALSE, !.prev = c]
      <4>1. Taken(l, e, b, Macro(l, e, b))
        BY <2>6, <2>7, <3>6, LiteralChar, Zenon
      <4> QED BY <2>6, <3>5, <4>1, Zenon DEF Taken
    <3>8. f[b] = Unescaped(m, x)
      <4> DEFINE o == SubSeq(m, 1, x)
                 q == SubSeq(m, 1, n)
      <4>1. f[b] = [e EXCEPT !.out = o, !.skip = FALSE, !.prev = c]
        BY <2>7, <3>6, <3>7, Zenon
      <4>2. Unescaped(m, x) = [state |-> 0, prev |-> c, skip |-> FALSE,
                          start |-> 0, out |-> o]
        BY <2>10, Zenon
      <4>3. e = [state |-> 0, prev |-> Backslash, skip |-> TRUE, start |-> 0,
                 out |-> q]
        BY <3>6, Zenon
      <4> HIDE DEF o, q
      <4> QED BY <4>1, <4>2, <4>3
    <3>9. \A j : j \in 1..b => j \in 1..a \/ j = b - 1 \/ j = b
      BY <2>3, <3>1
    <3>10. Backslash # ";"
      BY Zenon DEF Backslash
    <3>11. Literal(l, f, m, x)
      BY <2>8, <3>1, <3>3, <3>8, <3>9, <3>10, Zenon DEF Literal, b
    <3> QED BY <2>1, <3>11, Zenon DEF x
  <2> QED BY <2>12, <2>13
<1> HIDE DEF S
<1>3. N \in Nat
  BY LenProperties
<1>4. \A n \in 0..N : n \in S
  BY <1>1, <1>2, <1>3, SetInduction, Zenon
<1>5. N \in 0..N
  BY <1>3
<1>6. N \in S
  BY <1>4, <1>5, Zenon
<1> QED BY <1>6, Zenon DEF S

(* The one piece of an escaped text *)
LEMMA SplitEscaped ==
  ASSUME line \in Seq(STRING), input.meant \in Seq(STRING),
         Escapes(line, input.meant), Len(line) < CFG_CBSIZE, str = 1,
         str <= Len(line)
  PROVE  /\ Sep + 1 > Len(line)
         /\ process_macros(SubSeq(line, str, Sep - 1)).out = input.meant
<1> DEFINE m == input.meant
           J == {j \in str..Len(line) : IsSep(j)}
<1>1. Len(line) \in Nat /\ Len(m) \in Nat
  BY LenProperties
<1>2. PICK f : Scan(line, f) /\ process_macros(line) = f[Len(line)]
  BY MacrosScan, Zenon
<1>3. Literal(line, f, m, Len(m)) /\ Len(line) = Place(m, Len(m))
  BY <1>2, EscapedScan, Zenon DEF Escapes
<1>4. J = {}
  <2> SUFFICES ASSUME NEW j \in str..Len(line), IsSep(j) PROVE FALSE
    BY Zenon
  <2>1. j \in 1..Len(line) /\ j # str /\ j # 1
    BY <1>1 DEF IsSep
  <2>2. line[j] = ";" /\ Before(j) # Backslash
    BY Zenon DEF IsSep
  <2>3. line[j - 1] = Backslash
    BY <1>3, <2>1, <2>2, Zenon DEF Literal
  <2>4. Before(j) = line[j - 1]
    BY <2>1, Zenon DEF Before
  <2> QED BY <2>2, <2>3, <2>4, Zenon
<1>5. Sep = Len(line) + 1
  <2>1. {Len(line) + 1} \subseteq Nat /\ {Len(line) + 1} # {}
    BY <1>1
  <2>2. J \union {Len(line) + 1} = {Len(line) + 1}
    BY <1>4, Zenon
  <2>3. Sep = Min({Len(line) + 1})
    BY <2>2, Zenon DEF Sep
  <2>4. Min({Len(line) + 1}) \in {Len(line) + 1}
    BY <2>1, LeastIs, Zenon
  <2> QED BY <2>3, <2>4, Zenon
<1>6. Sep + 1 > Len(line) /\ Sep - 1 = Len(line)
  BY <1>1, <1>5
<1>7. SubSeq(line, str, Sep - 1) = line
  <2>1. SubSeq(line, 1, Len(line)) = line
    BY SubSeqFull
  <2> QED BY <1>6, <2>1, Zenon
<1>8. process_macros(line) = Unescaped(m, Len(m))
  BY <1>2, <1>3, Zenon DEF Literal
<1>9. Unescaped(m, Len(m)).out = SubSeq(m, 1, Len(m))
  BY DEF Unescaped
<1>10. SubSeq(m, 1, Len(m)) = m
  BY SubSeqFull
<1> QED BY <1>6, <1>7, <1>8, <1>9, <1>10, Zenon

EscapedInv ==
  /\ input.how = "escaped" => str = 1 \/ str > Len(line)
  /\ EscapedIsLiteral

LEMMA EscapedInit == LineInit => EscapedInv
<1> SUFFICES ASSUME LineInit PROVE EscapedInv
  OBVIOUS
<1>1. str = 1 /\ pc = "call"
  BY Zenon DEF LineInit
<1> QED BY <1>1, Zenon DEF EscapedInv, EscapedIsLiteral

LEMMA EscapedNext ==
  PieceInv /\ EscapedInv /\ [LineNext]_lineVars => EscapedInv'
<1> SUFFICES ASSUME PieceInv, EscapedInv, [LineNext]_lineVars PROVE EscapedInv'
  OBVIOUS
<1>1. /\ input \in Inputs /\ str \in Nat /\ line \in Seq(STRING)
      /\ input.meant \in Seq(STRING)
      /\ input.how = "escaped" => Escapes(line, input.meant)
      /\ pc \notin {"call", "end"} => Len(line) < CFG_CBSIZE
      /\ input.how = "escaped" => str = 1 \/ str > Len(line)
  BY LineAssumption, Zenon DEF PieceInv, EscapedInv, line
<1>2. CASE TooLong
  BY <1>1, <1>2, Zenon DEF TooLong, EscapedInv, EscapedIsLiteral, line
<1>3. CASE Accept
  BY <1>1, <1>3, Zenon DEF Accept, EscapedInv, EscapedIsLiteral, line
<1>4. CASE Split
  <2>1. /\ pc = "split" /\ str <= Len(line) /\ str' = Sep + 1
        /\ token' = SubSeq(line, str, Sep - 1)
        /\ final' = process_macros(token')
        /\ input' = input /\ line' = line
    BY <1>4, Zenon DEF Split, line
  <2>2. ASSUME input.how = "escaped"
        PROVE  /\ Sep + 1 > Len(line)
               /\ process_macros(SubSeq(line, str, Sep - 1)).out = input.meant
    <3>1. ~(str > Len(line))
      BY <1>1, <2>1, LenProperties
    <3>2. str = 1
      BY <1>1, <2>2, <3>1, Zenon
    <3>3. Len(line) < CFG_CBSIZE /\ Escapes(line, input.meant)
      BY <1>1, <2>1, <2>2, Zenon
    <3> QED BY <1>1, <2>1, <3>2, <3>3, SplitEscaped, Zenon
  <2>3. EscapedIsLiteral'
    BY <2>1, <2>2, Zenon DEF EscapedIsLiteral
  <2> QED BY <2>1, <2>2, <2>3, Zenon DEF EscapedInv
<1>5. CASE Return
  BY <1>1, <1>5, Zenon DEF Return, EscapedInv, EscapedIsLiteral, line
<1>6. CASE Parse
  <2>1. pc' \in {"split", "lookup"} /\ UNCHANGED <<input, str, final>>
    BY <1>6, Zenon DEF Parse
  <2> QED BY <1>1, <2>1, Zenon DEF EscapedInv, EscapedIsLiteral, line
<1>7. CASE Refuse
  BY <1>1, <1>7, Zenon DEF Refuse, EscapedInv, EscapedIsLiteral, line
<1>8. CASE Found
  <2>1. pc' = "run" /\ UNCHANGED <<input, str, final>>
    BY <1>8, Zenon DEF Found
  <2> QED BY <1>1, <2>1, Zenon DEF EscapedInv, EscapedIsLiteral, line
<1>9. CASE RunFound
  BY <1>1, <1>9, Zenon DEF RunFound, EscapedInv, EscapedIsLiteral, line
<1>10. CASE UNCHANGED lineVars
  <2>1. UNCHANGED <<input, str, final, pc>>
    BY <1>10, Zenon DEF lineVars
  <2> QED BY <1>1, <2>1, Zenon DEF EscapedInv, EscapedIsLiteral, line
<1> QED BY <1>2, <1>3, <1>4, <1>5, <1>6, <1>7, <1>8, <1>9, <1>10, Zenon
        DEF LineNext

(* A text of any length in which every '$' and every ';' is escaped is one *)
(* piece, and process_macros makes of it the text that was meant.          *)
THEOREM EscapedTextArrives == LineSpec => []EscapedIsLiteral
<1>1. EscapedInv => EscapedIsLiteral
  BY DEF EscapedInv
<1> QED BY <1>1, PieceInit, PieceNext, EscapedInit, EscapedNext, PTL
        DEF LineSpec
-----------------------------------------------------------------------------
(* The scan s goes on to r, in state q, with a quote. *)
Turned(s, q, r) == r = [s EXCEPT !.state = q, !.skip = FALSE, !.prev = Quote]

LEMMA QuoteChar ==
  ASSUME NEW t, NEW i, NEW s, t[i] = Quote, s.prev # Backslash,
         Len(s.out) # CFG_CBSIZE
  PROVE  /\ s.state = 0 => Turned(s, 3, Macro(t, s, i))
         /\ s.state = 3 => Turned(s, 0, Macro(t, s, i))
<1>1. Quote # Backslash
  BY CharIs, Zenon
<1>2. ASSUME s.state = 0 PROVE Turned(s, 3, Macro(t, s, i))
  <2>1. Case0(s, Quote) = [s EXCEPT !.state = 3]
    BY DEF Case0, Quote
  <2>2. Macro(t, s, i) = [Case0(s, Quote) EXCEPT !.skip = FALSE, !.prev = Quote]
    BY <1>1, <1>2 DEF Macro
  <2>3. Macro(t, s, i)
          = [[s EXCEPT !.state = 3] EXCEPT !.skip = FALSE, !.prev = Quote]
    BY <2>1, <2>2, Zenon
  <2> QED BY <2>3 DEF Turned
<1>3. ASSUME s.state = 3 PROVE Turned(s, 0, Macro(t, s, i))
  <2>1. Case3(s, Quote) = [s EXCEPT !.state = 0]
    BY Zenon DEF Case3
  <2>2. Macro(t, s, i) = [Case3(s, Quote) EXCEPT !.skip = FALSE, !.prev = Quote]
    BY <1>1, <1>3 DEF Macro
  <2>3. Macro(t, s, i)
          = [[s EXCEPT !.state = 0] EXCEPT !.skip = FALSE, !.prev = Quote]
    BY <2>1, <2>2, Zenon
  <2> QED BY <2>3 DEF Turned
<1> QED BY <1>2, <1>3, Zenon

LEMMA InsideChar ==
  ASSUME NEW t, NEW i, NEW s, s.state = 3, t[i] # Quote, Len(s.out) # CFG_CBSIZE
  PROVE  Taken(t, s, i, Macro(t, s, i))
<1> DEFINE c == t[i]
           p == Put(s.out, <<c>>)
<1>1. Case3(s, c) = [s EXCEPT !.out = p]
  BY Zenon DEF Case3
<1> HIDE DEF p
<1>2. Macro(t, s, i) = [Case3(s, c) EXCEPT !.skip = FALSE, !.prev = c]
  BY DEF Macro
<1>3. Macro(t, s, i) = [[s EXCEPT !.out = p] EXCEPT !.skip = FALSE, !.prev = c]
  BY <1>1, <1>2, Zenon
<1>4. Macro(t, s, i) = [s EXCEPT !.out = p, !.skip = FALSE, !.prev = c]
  BY <1>3
<1> QED BY <1>4, Zenon DEF p, Taken

LEMMA Enclosed ==
  ASSUME NEW l, NEW m \in Seq(STRING), Encloses(l, m)
  PROVE  /\ Len(m) \in Nat /\ Len(l) = Len(m) + 2
         /\ l[1] = Quote /\ l[Len(m) + 2] = Quote
         /\ \A n \in 1..Len(m) : l[n + 1] = m[n] /\ m[n] # Quote
<1> DEFINE C == STRING \union {Quote}
           q == <<Quote>>
           a == q \o m
           N == Len(m)
<1>1. m \in Seq(C) /\ q \in Seq(C) /\ Len(q) = 1 /\ q[1] = Quote /\ N \in Nat
  BY LenProperties
<1>2. l = a \o q
  BY Zenon DEF Encloses
<1> HIDE DEF q, C
<1>3. /\ a \in Seq(C) /\ Len(a) = N + 1
      /\ \A i \in 1..(N + 1) : a[i] = IF i <= 1 THEN q[i] ELSE m[i - 1]
  <2>1. /\ a \in Seq(C) /\ Len(a) = 1 + N
        /\ \A i \in 1..(1 + N) : a[i] = IF i <= 1 THEN q[i] ELSE m[i - 1]
    <3>1. /\ q \o m \in Seq(C) /\ Len(q \o m) = Len(q) + Len(m)
          /\ \A i \in 1..(Len(q) + Len(m)) :
               (q \o m)[i] = IF i <= Len(q) THEN q[i] ELSE m[i - Len(q)]
      BY <1>1, ConcatProperties
    <3> QED BY <1>1, <3>1, Zenon
  <2> QED BY <1>1, <2>1
<1> HIDE DEF a
<1>4. /\ Len(l) = N + 2
      /\ \A i \in 1..(N + 2) : l[i] = IF i <= N + 1 THEN a[i] ELSE q[i - (N + 1)]
  <2>1. /\ Len(l) = (N + 1) + 1
        /\ \A i \in 1..((N + 1) + 1) :
             l[i] = IF i <= N + 1 THEN a[i] ELSE q[i - (N + 1)]
    <3>1. /\ Len(a \o q) = Len(a) + Len(q)
          /\ \A i \in 1..(Len(a) + Len(q)) :
               (a \o q)[i] = IF i <= Len(a) THEN a[i] ELSE q[i - Len(a)]
      BY <1>1, <1>3, ConcatProperties
    <3> QED BY <1>1, <1>2, <1>3, <3>1, Zenon
  <2> QED BY <1>1, <2>1
<1>5. l[1] = Quote /\ l[N + 2] = Quote
  <2>1. 1 \in 1..(N + 2) /\ 1 <= N + 1 /\ 1 \in 1..(N + 1) /\ 1 <= 1
    BY <1>1
  <2>2. N + 2 \in 1..(N + 2) /\ ~(N + 2 <= N + 1) /\ (N + 2) - (N + 1) = 1
    BY <1>1
  <2>3. l[1] = a[1] /\ a[1] = q[1]
    BY <1>3, <1>4, <2>1, Zenon
  <2>4. l[N + 2] = q[(N + 2) - (N + 1)]
    BY <1>4, <2>2, Zenon
  <2> QED BY <1>1, <2>2, <2>3, <2>4, Zenon
<1>6. ASSUME NEW n \in 1..N PROVE l[n + 1] = m[n] /\ m[n] # Quote
  <2>1. /\ n + 1 \in 1..(N + 2) /\ n + 1 <= N + 1 /\ n + 1 \in 1..(N + 1)
        /\ ~(n + 1 <= 1) /\ (n + 1) - 1 = n /\ n \in DOMAIN m
    BY <1>1
  <2>2. l[n + 1] = a[n + 1]
    BY <1>4, <2>1, Zenon
  <2>3. a[n + 1] = m[(n + 1) - 1]
    BY <1>3, <2>1, Zenon
  <2>4. m[n] \in ToSet(m)
    BY <2>1, Zenon DEF ToSet
  <2>5. Quote \notin ToSet(m)
    BY Zenon DEF Encloses
  <2> QED BY <2>1, <2>2, <2>3, <2>4, <2>5, Zenon
<1> QED BY <1>1, <1>4, <1>5, <1>6, Zenon

(* process_macros behind the opening quote and n characters of the text m *)
Inside(m, n) ==
  [state |-> 3, prev |-> IF n = 0 THEN Quote ELSE m[n], skip |-> FALSE,
   start |-> 0, out |-> SubSeq(m, 1, n)]

LEMMA EnclosedScan ==
  ASSUME NEW l, NEW m \in Seq(STRING), Encloses(l, m), Len(l) < CFG_CBSIZE,
         NEW f, Scan(l, f)
  PROVE  f[Len(l)].out = m
<1> DEFINE N == Len(m)
           S == {n \in 0..N : f[n + 1] = Inside(m, n)}
<1>0. /\ N \in Nat /\ Len(l) = N + 2 /\ N + 2 < CFG_CBSIZE
      /\ l[1] = Quote /\ l[N + 2] = Quote
      /\ \A n \in 1..N : l[n + 1] = m[n] /\ m[n] # Quote
  BY Enclosed, Zenon
<1>1. \A k \in 1..Len(l) : f[k] = Macro(l, f[k - 1], k)
  BY Zenon DEF Scan, ScanTo
<1>2. 0 \in S
  <2>1. 0 \in 0..N /\ 0 + 1 = 1 /\ 1 - 1 = 0 /\ 1 \in 1..Len(l) /\ CFG_CBSIZE # 0
    BY <1>0, LineAssumption
  <2>2. f[0] = First /\ f[1] = Macro(l, First, 1)
    BY <1>1, <2>1, Zenon DEF Scan, ScanTo
  <2>3. /\ First.state = 0 /\ First.prev # Backslash /\ First.out = <<>>
        /\ Len(<<>>) = 0
    BY CharIs DEF First
  <2>4. Turned(First, 3, Macro(l, First, 1))
    BY <1>0, <2>1, <2>3, QuoteChar, Zenon
  <2>5. f[1] = [First EXCEPT !.state = 3, !.skip = FALSE, !.prev = Quote]
    BY <2>2, <2>4, Zenon DEF Turned
  <2>6. SubSeq(m, 1, 0) = <<>>
    BY SubSeqEmpty
  <2>7. Inside(m, 0) = [state |-> 3, prev |-> Quote, skip |-> FALSE,
                        start |-> 0, out |-> <<>>]
    BY <2>6, Zenon DEF Inside
  <2>8. f[1] = Inside(m, 0)
    BY <2>5, <2>7 DEF First
  <2> QED BY <2>1, <2>8, Zenon
<1>3. ASSUME NEW n \in 0..(N - 1), n \in S PROVE n + 1 \in S
  <2> DEFINE x == n + 1
             c == m[x]
             s == Inside(m, n)
             o == SubSeq(m, 1, x)
             q == SubSeq(m, 1, n)
  <2>1. /\ x \in 1..N /\ x \in 0..N /\ n \in Nat /\ x <= Len(m) /\ x # 0
        /\ x + 1 \in 1..Len(l) /\ (x + 1) - 1 = x /\ n < CFG_CBSIZE
    BY <1>0, LineAssumption
  <2>2. f[x] = s
    BY <1>3, Zenon
  <2>3. f[x + 1] = Macro(l, s, x + 1)
    BY <1>1, <2>1, <2>2, Zenon
  <2>4. Put(q, <<c>>) = o /\ Len(q) # CFG_CBSIZE
    BY <2>1, PutNext, Zenon
  <2>5. /\ s.state = 3 /\ s.out = q
        /\ s = [state |-> 3, prev |-> s.prev, skip |-> FALSE, start |-> 0,
                out |-> q]
    <3> HIDE DEF q
    <3>1. s = [state |-> 3, prev |-> IF n = 0 THEN Quote ELSE m[n],
               skip |-> FALSE, start |-> 0, out |-> q]
      BY Zenon DEF Inside, q
    <3> HIDE DEF s
    <3> QED BY <3>1
  <2>6. l[x + 1] = c /\ c # Quote
    BY <1>0, <2>1, Zenon
  <2> HIDE DEF x, s
  <2>7. Taken(l, s, x + 1, Macro(l, s, x + 1))
    BY <2>4, <2>5, <2>6, InsideChar, Zenon
  <2>8. f[x + 1] = [s EXCEPT !.out = o, !.skip = FALSE, !.prev = c]
    BY <2>3, <2>4, <2>5, <2>6, <2>7, Zenon DEF Taken
  <2>9. Inside(m, x) = [state |-> 3, prev |-> c, skip |-> FALSE, start |-> 0,
                        out |-> o]
    BY <2>1, Zenon DEF Inside
  <2> HIDE DEF c, o, q
  <2>10. f[x + 1] = Inside(m, x)
    <3>1. PICK z : s = [state |-> 3, prev |-> z, skip |-> FALSE, start |-> 0,
                        out |-> q]
      BY <2>5, Zenon
    <3> QED BY <2>8, <2>9, <3>1
  <2> QED BY <2>1, <2>10, Zenon DEF x
<1> HIDE DEF S
<1>4. \A n \in 0..N : n \in S
  BY <1>0, <1>2, <1>3, SetInduction, Zenon
<1>5. N \in 0..N /\ (N + 2) - 1 = N + 1 /\ N + 2 \in 1..Len(l)
  BY <1>0
<1>6. f[N + 1] = Inside(m, N)
  BY <1>4, <1>5, Zenon DEF S
<1> DEFINE s == Inside(m, N)
<1>7. f[N + 2] = Macro(l, s, N + 2)
  BY <1>0, <1>1, <1>5, <1>6, Zenon
<1>8. SubSeq(m, 1, N) = m
  BY SubSeqFull
<1>9. s.state = 3 /\ s.out = m /\ s.prev # Backslash
  <2>1. s.state = 3 /\ s.out = m
    BY <1>8 DEF Inside
  <2>2. CASE N = 0
    BY <2>1, <2>2, CharIs DEF Inside
  <2>3. CASE N # 0
    <3>1. m # <<>>
      BY <2>3
    <3>2. m[N] # Backslash
      BY <3>1, Zenon DEF Encloses
    <3> QED BY <2>1, <2>3, <3>2 DEF Inside
  <2> QED BY <2>2, <2>3
<1>10. Len(s.out) # CFG_CBSIZE
  BY <1>0, <1>9, LineAssumption
<1> HIDE DEF s
<1>11. Turned(s, 0, Macro(l, s, N + 2))
  BY <1>0, <1>9, <1>10, QuoteChar, Zenon
<1>12. f[N + 2] = [s EXCEPT !.state = 0, !.skip = FALSE, !.prev = Quote]
  BY <1>7, <1>11, Zenon DEF Turned
<1>13. f[N + 2].out = s.out
  BY <1>12, <1>6 DEF s, Inside
<1> QED BY <1>0, <1>9, <1>13, Zenon
-----------------------------------------------------------------------------
(* The letters of a text, with the space that words are joined by *)
Letter == STRING \union {" "}
Joins(ws) == FoldLeft(Join, <<>>, ws)

GoesOn(D, ws, it) ==
  it = [q \in SUBSET D |-> IF q = {} THEN <<>>
                           ELSE Join(it[q \ {Max(q)}], ws[Max(q)])]

LEMMA JoinGoesOn ==
  ASSUME NEW ws, NEW N \in Nat
  PROVE  \E it : GoesOn(1..N, ws, it)
<1> DEFINE S == {n \in 0..N : \E it : GoesOn(1..n, ws, it)}
<1>1. 0 \in S
  <2> DEFINE it == [q \in SUBSET (1..0) |-> <<>>]
  <2>1. 1..0 = {}
    OBVIOUS
  <2>2. \A q \in SUBSET (1..0) : q = {}
    BY <2>1
  <2>3. GoesOn(1..0, ws, it)
    BY <2>2, Zenon DEF GoesOn
  <2>4. 0 \in 0..N
    OBVIOUS
  <2> QED BY <2>3, <2>4, Zenon
<1>2. ASSUME NEW n \in 0..(N - 1), n \in S PROVE n + 1 \in S
  <2>1. n + 1 \in 0..N /\ n \in Nat
    OBVIOUS
  <2>2. PICK h : GoesOn(1..n, ws, h)
    BY <1>2
  <2>3. \A q \in SUBSET (1..n) :
          h[q] = IF q = {} THEN <<>> ELSE Join(h[q \ {Max(q)}], ws[Max(q)])
    BY <2>2, Zenon DEF GoesOn
  <2> DEFINE it == [q \in SUBSET (1..(n + 1)) |->
                      IF n + 1 \in q THEN Join(h[q \ {n + 1}], ws[n + 1])
                      ELSE h[q]]
  <2>4. ASSUME NEW q \in SUBSET (1..n) PROVE it[q] = h[q]
    <3>1. q \in SUBSET (1..(n + 1)) /\ n + 1 \notin q
      BY <2>1
    <3> QED BY <3>1, Zenon
  <2>5. ASSUME NEW q \in SUBSET (1..(n + 1))
        PROVE  it[q] = IF q = {} THEN <<>>
                       ELSE Join(it[q \ {Max(q)}], ws[Max(q)])
    <3>1. CASE n + 1 \in q
      <4>1. Max(q) = n + 1
        <5>1. q \subseteq Nat /\ \A y \in q : y <= n + 1
          BY <2>1
        <5> QED BY <3>1, <5>1, MaxOnly
      <4>2. q \ {n + 1} \in SUBSET (1..n)
        BY <2>1
      <4>3. it[q \ {n + 1}] = h[q \ {n + 1}]
        BY <2>4, <4>2, Zenon
      <4>4. it[q] = Join(h[q \ {n + 1}], ws[n + 1])
        BY <3>1, Zenon
      <4> QED BY <3>1, <4>1, <4>3, <4>4, Zenon
    <3>2. CASE n + 1 \notin q
      <4>1. q \in SUBSET (1..n)
        BY <2>1, <3>2
      <4>2. q \ {Max(q)} \in SUBSET (1..n)
        BY <4>1
      <4>3. it[q] = h[q] /\ it[q \ {Max(q)}] = h[q \ {Max(q)}]
        BY <2>4, <4>1, <4>2, Zenon
      <4> QED BY <2>3, <4>1, <4>3, Zenon
    <3> QED BY <3>1, <3>2
  <2>6. GoesOn(1..(n + 1), ws, it)
    <3>1. it = [q \in SUBSET (1..(n + 1)) |-> it[q]]
      BY Zenon
    <3> HIDE DEF it
    <3> QED BY <2>5, <3>1, Zenon DEF GoesOn
  <2> QED BY <2>1, <2>6, Zenon
<1> HIDE DEF S
<1>3. \A n \in 0..N : n \in S
  BY <1>1, <1>2, SetInduction, Zenon
<1>4. N \in 0..N
  OBVIOUS
<1>5. N \in S
  BY <1>3, <1>4, Zenon
<1> QED BY <1>5, Zenon DEF S

Glues(ws, a, f) ==
  /\ f[0] = a
  /\ \A n \in 1..Len(ws) : f[n] = Join(f[n - 1], ws[n])

LEMMA JoinsGlues ==
  ASSUME NEW ws \in Seq(Seq(Letter))
  PROVE  \E f : Glues(ws, <<>>, f) /\ Joins(ws) = f[Len(ws)]
<1> DEFINE N == Len(ws)
           it == CHOOSE it : GoesOn(1..N, ws, it)
<1>1. N \in Nat /\ DOMAIN ws = 1..N
  BY LenProperties
<1>2. GoesOn(1..N, ws, it)
  BY <1>1, JoinGoesOn, Zenon
<1>3. Joins(ws) = it[1..N]
  <2>1. Joins(ws) = (CHOOSE i : GoesOn(DOMAIN ws, ws, i))[DOMAIN ws]
    BY Zenon DEF Joins, FoldLeft, MapThenFoldSet, GoesOn
  <2> QED BY <1>1, <2>1, Zenon
<1> HIDE DEF it, N
<1>4. \A q \in SUBSET (1..N) :
        it[q] = IF q = {} THEN <<>> ELSE Join(it[q \ {Max(q)}], ws[Max(q)])
  BY <1>2, Zenon DEF GoesOn
<1> DEFINE f == [n \in 0..N |-> it[1..n]]
<1>5. f[0] = <<>>
  <2>1. 0 \in 0..N /\ 1..0 = {} /\ {} \in SUBSET (1..N)
    BY <1>1
  <2>2. f[0] = it[{}]
    BY <2>1, Zenon
  <2> QED BY <1>4, <2>1, <2>2, Zenon
<1>6. ASSUME NEW n \in 1..N PROVE f[n] = Join(f[n - 1], ws[n])
  <2>1. /\ n \in 0..N /\ n - 1 \in 0..N /\ n \in 1..n
        /\ 1..n \subseteq 1..N /\ 1..n \subseteq Nat
        /\ \A y \in 1..n : y <= n
    BY <1>1
  <2>0. 1..n # {} /\ (1..n) \ {n} = 1..(n - 1)
    <3>1. n \in Nat
      BY <1>1
    <3>2. \A k : k \in 1..(n - 1) <=> k \in 1..n /\ k # n
      BY <3>1
    <3> QED BY <2>1, <3>2, Zenon
  <2>2. Max(1..n) = n
    BY <2>1, MaxOnly
  <2>3. it[1..n] = Join(it[1..(n - 1)], ws[n])
    BY <1>4, <2>0, <2>1, <2>2, Zenon
  <2> QED BY <2>1, <2>3, Zenon
<1>7. f[N] = it[1..N]
  BY <1>1
<1> HIDE DEF f
<1>8. Glues(ws, <<>>, f)
  BY <1>5, <1>6, Zenon DEF Glues, N
<1> QED BY <1>3, <1>7, <1>8, Zenon DEF N

LEMMA JoinJoin ==
  ASSUME NEW a \in Seq(Letter), NEW w \in Seq(Letter), NEW u \in Seq(Letter),
         w # <<>>
  PROVE  /\ Join(a, w) \in Seq(Letter)
         /\ Join(Join(a, w), u) = Join(a, w \o <<" ">> \o u)
<1> DEFINE b == <<" ">>
<1>1. b \in Seq(Letter)
  <2>1. " " \in Letter
    BY Zenon DEF Letter
  <2>2. \A x \in Letter : <<x>> \in Seq(Letter)
    OBVIOUS
  <2> QED BY <2>1, <2>2, Zenon
<1> HIDE DEF b
<1>2. CASE a = <<>>
  <2>1. Join(a, w) = w /\ Join(a, w \o b \o u) = w \o b \o u
    BY <1>2, Zenon DEF Join
  <2>2. Join(w, u) = w \o b \o u
    BY Zenon DEF Join, b
  <2> QED BY <2>1, <2>2, Zenon DEF b
<1>3. CASE a # <<>>
  <2> DEFINE c == a \o b
             d == w \o b
  <2>1. /\ Join(a, w) = c \o w
        /\ Join(a, d \o u) = c \o (d \o u)
    BY <1>3, Zenon DEF Join, b
  <2>2. /\ c \in Seq(Letter) /\ d \in Seq(Letter)
        /\ c \o w \in Seq(Letter)
    <3>1. c \in Seq(Letter) /\ d \in Seq(Letter)
      BY <1>1, ConcatProperties
    <3> HIDE DEF c
    <3> QED BY <3>1, ConcatProperties
  <2> HIDE DEF c
  <2>3. c \o w # <<>>
    BY <2>2, ConcatEqualIffEmpty
  <2>4. Join(c \o w, u) = ((c \o w) \o b) \o u
    BY <2>3, Zenon DEF Join, b
  <2>5. (c \o w) \o b = c \o d
    BY <1>1, <2>2, ConcatAssociative
  <2> HIDE DEF d
  <2>6. (c \o d) \o u = c \o (d \o u)
    <3>1. c \in Seq(Letter) /\ d \in Seq(Letter) /\ u \in Seq(Letter)
      BY <2>2, Zenon
    <3> QED BY ONLY <3>1, ConcatAssociative
  <2> QED BY <2>1, <2>2, <2>4, <2>5, <2>6, Zenon DEF b, d
<1> QED BY <1>2, <1>3

LEMMA Within ==
  ASSUME NEW L \in Nat, NEW j \in 1..L, NEW k \in j..L
  PROVE  j \in 1..(L + 1) /\ k \in (j - 1)..L /\ L \in k..L
<1>1. j \in Nat /\ k \in Nat /\ 1 <= j /\ j <= k /\ k <= L
  OBVIOUS
<1> QED BY <1>1

LEMMA WordSplit ==
  ASSUME NEW t \in Seq(Letter), NEW i \in 1..Len(t), NEW e \in i..Len(t),
         t[e] = " "
  PROVE  SubSeq(t, i, e - 1) \o <<" ">> \o SubSeq(t, e + 1, Len(t))
           = SubSeq(t, i, Len(t))
<1>0. Len(t) \in Nat
  BY LenProperties
<1>1. /\ i \in 1..(Len(t) + 1) /\ e \in (i - 1)..Len(t) /\ Len(t) \in e..Len(t)
  BY <1>0, Within, Zenon
<1>2. SubSeq(t, i, e) = SubSeq(t, i, e - 1) \o <<t[e]>>
  BY SubSeqRecursiveSecond
<1>3. SubSeq(t, i, e) \o SubSeq(t, e + 1, Len(t)) = SubSeq(t, i, Len(t))
  BY <1>1, ConcatAdjacentSubSeq
<1> QED BY <1>2, <1>3, Zenon

(* The positions of parse_line, for n arguments at the most *)
Level(t, n, h) ==
  [i \in 1..(Len(t) + 2) |-> IF n = 0 THEN <<>> ELSE Words(t, i, h)]

Parses(N, t, p) == p = [n \in 0..N |-> Level(t, n, p[n - 1])]

LEMMA ParsesExists ==
  ASSUME NEW t, NEW N \in Nat
  PROVE  \E p : Parses(N, t, p)
<1> DEFINE S == {n \in 0..N : \E p : Parses(n, t, p)}
<1>0. \A g, h : Level(t, 0, g) = Level(t, 0, h)
  BY Zenon DEF Level
<1>1. 0 \in S
  <2> DEFINE p == [n \in 0..0 |-> Level(t, 0, <<>>)]
  <2>1. \A n \in 0..0 : n = 0
    OBVIOUS
  <2>2. Parses(0, t, p)
    BY <1>0, <2>1, Zenon DEF Parses
  <2>3. 0 \in 0..N
    OBVIOUS
  <2> QED BY <2>2, <2>3, Zenon
<1>2. ASSUME NEW n \in 0..(N - 1), n \in S PROVE n + 1 \in S
  <2>1. /\ n + 1 \in 0..N /\ n \in Nat /\ n \in 0..n /\ n \in 0..(n + 1)
        /\ (n + 1) - 1 = n /\ n + 1 # 0 /\ n # n + 1
    OBVIOUS
  <2>2. PICK h : Parses(n, t, h)
    BY <1>2
  <2>3. \A i \in 0..n : h[i] = Level(t, i, h[i - 1])
    BY <2>2, Zenon DEF Parses
  <2> DEFINE d == [i \in 0..(n + 1) |->
                     IF i = n + 1 THEN Level(t, i, h[n]) ELSE h[i]]
  <2>4. ASSUME NEW i \in 0..n PROVE d[i] = h[i]
    <3>1. i \in 0..(n + 1) /\ i # n + 1
      BY <2>1
    <3> QED BY <3>1, Zenon
  <2>5. ASSUME NEW i \in 0..(n + 1)
        PROVE  d[i] = Level(t, i, d[i - 1])
    <3>1. CASE i = n + 1
      <4>1. d[n] = h[n] /\ i - 1 = n
        BY <2>1, <2>4, <3>1
      <4>2. d[i] = Level(t, i, h[n])
        BY <3>1, Zenon
      <4> QED BY <4>1, <4>2, Zenon
    <3>2. CASE i # n + 1
      <4>1. i \in 0..n /\ (i # 0 => i - 1 \in 0..n)
        BY <2>1, <3>2
      <4>2. d[i] = h[i] /\ (i # 0 => d[i - 1] = h[i - 1])
        BY <2>4, <4>1, Zenon
      <4> QED BY <1>0, <2>3, <4>1, <4>2, Zenon
    <3> QED BY <3>1, <3>2
  <2>6. Parses(n + 1, t, d)
    <3>1. d = [i \in 0..(n + 1) |-> d[i]]
      BY Zenon
    <3> HIDE DEF d
    <3> QED BY <2>5, <3>1, Zenon DEF Parses
  <2> QED BY <2>1, <2>6, Zenon
<1> HIDE DEF S
<1>3. \A n \in 0..N : n \in S
  BY <1>1, <1>2, SetInduction, Zenon
<1>4. N \in 0..N
  OBVIOUS
<1>5. N \in S
  BY <1>3, <1>4, Zenon
<1> QED BY <1>5, Zenon DEF S

LEMMA ParseIs ==
  ASSUME NEW t
  PROVE  \E p : Parses(CFG_MAXARGS, t, p) /\ parse_line(t) = p[CFG_MAXARGS][1]
<1> DEFINE p == CHOOSE p : Parses(CFG_MAXARGS, t, p)
<1>1. CFG_MAXARGS \in Nat
  BY LineAssumption
<1>2. Parses(CFG_MAXARGS, t, p)
  BY <1>1, ParsesExists, Zenon
<1>3. parse_line(t) = p[CFG_MAXARGS][1]
  BY Zenon DEF parse_line, Parses, Level
<1> QED BY <1>2, <1>3, Zenon

(* The blanks of t from position i on *)
Blanks(t, i) == {k \in i..Len(t) : Blank(t[k])}

LEMMA SkipEnd ==
  ASSUME NEW t, Len(t) \in Nat, NEW i \in 1..Len(t), ~Blank(t[i])
  PROVE  /\ Skip(t, i) = i
         /\ End(t, i) \in (i + 1)..(Len(t) + 1)
         /\ End(t, i) <= Len(t) => Blank(t[End(t, i)])
<1> DEFINE A == {j \in i..Len(t) : ~Blank(t[j])} \union {Len(t) + 1}
           B == {j \in i..Len(t) : Blank(t[j])} \union {Len(t) + 1}
<1>1. /\ A \subseteq Nat /\ B \subseteq Nat /\ i \in i..Len(t) /\ i \in Nat
      /\ A # {} /\ B # {}
      /\ \A y \in A : i <= y
  OBVIOUS
<1>2. Skip(t, i) = Min(A) /\ End(t, i) = Min(B)
  BY Zenon DEF Skip, End
<1>3. i \in A
  BY <1>1
<1>4. Skip(t, i) = i
  <2> HIDE DEF A
  <2>1. Min(A) \in A /\ \A y \in A : Min(A) <= y
    BY <1>1, LeastIs, Zenon
  <2>2. Min(A) <= i /\ i <= Min(A) /\ Min(A) \in Nat
    BY <1>1, <1>3, <2>1, Zenon
  <2> QED BY <1>1, <1>2, <2>2
<1>5. End(t, i) \in B
  BY <1>1, <1>2, LeastIs, Zenon
<1>6. \A j \in B : j \in (i + 1)..(Len(t) + 1) /\ (j <= Len(t) => Blank(t[j]))
  <2> SUFFICES ASSUME NEW j \in B
               PROVE  j \in (i + 1)..(Len(t) + 1) /\ (j <= Len(t) => Blank(t[j]))
    OBVIOUS
  <2>1. CASE j \in i..Len(t) /\ Blank(t[j])
    <3>1. j # i
      BY <2>1, Zenon
    <3> QED BY <2>1, <3>1
  <2>2. CASE j = Len(t) + 1
    BY <2>2
  <2> QED BY <2>1, <2>2, Zenon
<1> QED BY <1>4, <1>5, <1>6, Zenon

LEMMA BlanksFewer ==
  ASSUME NEW t, Len(t) \in Nat, NEW i \in 1..Len(t), NEW e \in i..Len(t),
         Blank(t[e]), NEW n \in Nat, Cardinality(Blanks(t, i)) < n + 1
  PROVE  Cardinality(Blanks(t, e + 1)) < n
<1> DEFINE A == Blanks(t, e + 1)
           B == Blanks(t, i)
<1>1. /\ e \notin (e + 1)..Len(t) /\ i \in Int /\ Len(t) \in Int
      /\ \A k \in (e + 1)..Len(t) : k \in i..Len(t)
  OBVIOUS
<1>2. IsFiniteSet(i..Len(t))
  BY <1>1, FS_Interval
<1>3. B \in SUBSET (i..Len(t)) /\ A \union {e} \in SUBSET B /\ A \in SUBSET B
      /\ e \notin A
  BY <1>1, Zenon DEF Blanks
<1> HIDE DEF A, B
<1>4. IsFiniteSet(B)
  BY <1>2, <1>3, FS_Subset
<1>5. IsFiniteSet(A) /\ Cardinality(A \union {e}) <= Cardinality(B)
  BY <1>3, <1>4, FS_Subset
<1>6. Cardinality(A \union {e}) = Cardinality(A) + 1
  BY <1>3, <1>5, FS_AddElement
<1>7. Cardinality(A) \in Nat /\ Cardinality(B) \in Nat
  BY <1>4, <1>5, FS_CardinalityType
<1>8. Cardinality(B) < n + 1
  BY Zenon DEF B
<1>9. Cardinality(A) < n
  BY <1>5, <1>6, <1>7, <1>8
<1> QED BY <1>9, Zenon DEF A

(* Joined to what is there, ws is the text t from position i on. *)
Whole(t, i, ws) ==
  /\ ws \in Seq(Seq(Letter))
  /\ \A a \in Seq(Letter) : \A f :
       Glues(ws, a, f) => f[Len(ws)] = Join(a, SubSeq(t, i, Len(t)))

LEMMA LastWord ==
  ASSUME NEW t, NEW i, NEW w \in Seq(Letter), w = SubSeq(t, i, Len(t))
  PROVE  Whole(t, i, <<w>> \o <<>>)
<1> DEFINE ws == <<w>>
<1>1. ws \in Seq(Seq(Letter)) /\ Len(ws) = 1 /\ ws[1] = w
  OBVIOUS
<1> HIDE DEF ws
<1>2. ws \o <<>> = ws
  BY <1>1, ConcatEmptySeq
<1>3. 1 \in 1..Len(ws) /\ 1 - 1 = 0
  BY <1>1
<1>4. ASSUME NEW a, NEW f, Glues(ws, a, f)
      PROVE  f[Len(ws)] = Join(a, SubSeq(t, i, Len(t)))
  <2>1. f[0] = a /\ f[1] = Join(f[1 - 1], ws[1])
    BY <1>3, <1>4, Zenon DEF Glues
  <2> QED BY <1>1, <1>3, <2>1, Zenon
<1>5. Whole(t, i, ws)
  BY <1>1, <1>4, Zenon DEF Whole
<1> QED BY <1>2, <1>5, Zenon DEF ws

IsSpace(c) == c = " "

LEMMA NextWord ==
  ASSUME NEW t \in Seq(Letter), NEW i \in 1..Len(t), NEW e \in i..Len(t),
         IsSpace(t[e]), NEW w \in Seq(Letter), w = SubSeq(t, i, e - 1), w # <<>>,
         NEW r, Whole(t, e + 1, r), SubSeq(t, e + 1, Len(t)) \in Seq(Letter)
  PROVE  Whole(t, i, <<w>> \o r)
<1> DEFINE q == <<w>>
           ws == q \o r
           u == SubSeq(t, e + 1, Len(t))
           R == Len(r)
<1>1. /\ q \in Seq(Seq(Letter)) /\ Len(q) = 1 /\ q[1] = w
      /\ r \in Seq(Seq(Letter))
  BY DEF Whole
<1>2. R \in Nat
  BY <1>1, LenProperties
<1> HIDE DEF q
<1>3. /\ ws \in Seq(Seq(Letter)) /\ Len(ws) = 1 + R
      /\ \A k \in 1..(1 + R) : ws[k] = IF k <= 1 THEN q[k] ELSE r[k - 1]
  <2>1. /\ q \o r \in Seq(Seq(Letter)) /\ Len(q \o r) = Len(q) + Len(r)
        /\ \A k \in 1..(Len(q) + Len(r)) :
             (q \o r)[k] = IF k <= Len(q) THEN q[k] ELSE r[k - Len(q)]
    BY <1>1, ConcatProperties
  <2> QED BY <1>1, <2>1, Zenon
<1> HIDE DEF ws
<1>4. ws[1] = w
  <2>1. 1 \in 1..(1 + R) /\ 1 <= 1
    BY <1>2
  <2> QED BY <1>1, <1>3, <2>1, Zenon
<1>5. ASSUME NEW k \in 1..R PROVE ws[k + 1] = r[k]
  <2>1. k + 1 \in 1..(1 + R) /\ ~(k + 1 <= 1) /\ (k + 1) - 1 = k
    BY <1>2
  <2> QED BY <1>3, <2>1, Zenon
<1>6. ASSUME NEW a \in Seq(Letter), NEW f, Glues(ws, a, f)
      PROVE  f[Len(ws)] = Join(a, SubSeq(t, i, Len(t)))
  <2> DEFINE g == [k \in 0..R |-> f[k + 1]]
  <2>1. f[1] = Join(a, w)
    <3>1. 1 \in 1..Len(ws) /\ 1 - 1 = 0
      BY <1>2, <1>3
    <3>2. f[0] = a /\ f[1] = Join(f[1 - 1], ws[1])
      BY <1>6, <3>1, Zenon DEF Glues
    <3> QED BY <1>4, <3>1, <3>2, Zenon
  <2>2. g[0] = f[1] /\ g[R] = f[R + 1] /\ R + 1 = Len(ws)
    <3>1. 0 \in 0..R /\ R \in 0..R /\ 0 + 1 = 1 /\ R + 1 = 1 + R
      BY <1>2
    <3> QED BY <1>3, <3>1, Zenon
  <2>3. ASSUME NEW k \in 1..R PROVE g[k] = Join(g[k - 1], r[k])
    <3>1. /\ k \in 0..R /\ k - 1 \in 0..R /\ (k - 1) + 1 = k
          /\ k + 1 \in 1..Len(ws) /\ (k + 1) - 1 = k
      BY <1>2, <1>3
    <3>2. g[k] = f[k + 1] /\ g[k - 1] = f[k]
      BY <3>1, Zenon
    <3>3. f[k + 1] = Join(f[k], ws[k + 1])
      BY <1>6, <3>1, Zenon DEF Glues
    <3> QED BY <1>5, <3>2, <3>3, Zenon
  <2> HIDE DEF g
  <2>4. Glues(r, Join(a, w), g)
    BY <2>1, <2>2, <2>3, Zenon DEF Glues
  <2>5. /\ Join(a, w) \in Seq(Letter)
        /\ Join(Join(a, w), u) = Join(a, w \o <<" ">> \o u)
    BY JoinJoin
  <2>6. g[R] = Join(Join(a, w), u)
    BY <2>4, <2>5, Zenon DEF Whole
  <2>7. w \o <<" ">> \o u = SubSeq(t, i, Len(t))
    BY WordSplit, Zenon DEF IsSpace
  <2> QED BY <2>2, <2>5, <2>6, <2>7, Zenon
<1>7. Whole(t, i, ws)
  BY <1>3, <1>6, Zenon DEF Whole
<1> QED BY <1>7, Zenon DEF ws, q

LEMMA ParsedWhole ==
  ASSUME NEW t \in Seq(STRING), Tidy(t)
  PROVE  Joins(parse_line(t)) = t
<1> DEFINE M == CFG_MAXARGS
           L == Len(t)
<1>1. M \in Nat \ {0} /\ L \in Nat
  BY LineAssumption, LenProperties
<1>2. t \in Seq(Letter) /\ \A k \in 1..L : t[k] \in Letter
  <2>1. \A k \in 1..L : t[k] \in STRING
    BY ElementOfSeq
  <2>2. \A c : c \in STRING => c \in Letter
    BY Zenon DEF Letter
  <2>3. \A k \in 1..L : t[k] \in Letter
    BY <2>1, <2>2, Zenon
  <2>4. STRING \subseteq Letter
    BY <2>2, Zenon
  <2>5. t \in Seq(Letter)
    BY <2>4, SeqMonotonic, Zenon
  <2> QED BY <2>3, <2>5, Zenon
<1>3. PICK p : Parses(M, t, p) /\ parse_line(t) = p[M][1]
  BY ParseIs, Zenon
<1>4. ASSUME NEW n \in 0..M, n # 0, NEW i \in 1..(L + 2)
      PROVE  p[n][i] = Words(t, i, p[n - 1])
  <2>1. p[n] = Level(t, n, p[n - 1])
    BY <1>3, Zenon DEF Parses
  <2> QED BY <1>4, <2>1, Zenon DEF Level
<1>5. /\ t # <<>> => ~Blank(t[1]) /\ ~Blank(t[L])
      /\ \A k \in 2..L : ~(Blank(t[k - 1]) /\ Blank(t[k]))
      /\ Cardinality({k \in 1..L : Blank(t[k])}) < M
  BY Zenon DEF Tidy
<1>6. ASSUME NEW k \in 1..L, Blank(t[k]) PROVE IsSpace(t[k])
  <2>1. k \in DOMAIN t
    BY <1>1
  <2>2. t[k] \in ToSet(t)
    BY <2>1, Zenon DEF ToSet
  <2>3. t[k] # "\t"
    BY <2>2, Zenon DEF Tidy
  <2> QED BY <1>6, <2>3, Zenon DEF Blank, IsSpace
<1> HIDE DEF M, L
<1>8. ASSUME NEW m \in 1..(L + 1), NEW n \in 0..L
      PROVE  /\ SubSeq(t, m, n) \in Seq(Letter)
             /\ m <= n => SubSeq(t, m, n) # <<>>
  <2>1. \A k \in m..n : t[k] \in Letter
    BY <1>1, <1>2
  <2>2. m \in Int /\ n \in Int
    BY <1>1
  <2>3. /\ SubSeq(t, m, n) \in Seq(Letter)
        /\ Len(SubSeq(t, m, n)) = IF m <= n THEN n - m + 1 ELSE 0
    BY <2>1, <2>2, SubSeqProperties
  <2>4. Len(<<>>) = 0
    OBVIOUS
  <2>5. ASSUME m <= n PROVE SubSeq(t, m, n) # <<>>
    <3>1. Len(SubSeq(t, m, n)) # 0
      BY <1>1, <2>2, <2>3, <2>5
    <3> QED BY <2>4, <3>1, Zenon
  <2> QED BY <2>3, <2>5, Zenon
<1> DEFINE P(n) == \A i \in 1..L : /\ ~Blank(t[i])
                                   /\ Cardinality(Blanks(t, i)) < n
                                   => Whole(t, i, p[n][i])
           S == {n \in 0..M : P(n)}
<1>9. 0 \in S
  <2>1. 0 \in 0..M
    BY <1>1
  <2>2. ASSUME NEW i \in 1..L PROVE ~(Cardinality(Blanks(t, i)) < 0)
    <3>1. i \in Int /\ L \in Int
      BY <1>1
    <3>2. IsFiniteSet(i..L)
      BY <3>1, FS_Interval
    <3>3. Blanks(t, i) \in SUBSET (i..L)
      BY Zenon DEF Blanks, L
    <3>4. IsFiniteSet(Blanks(t, i))
      BY <3>2, <3>3, FS_Subset
    <3>5. Cardinality(Blanks(t, i)) \in Nat
      BY <3>4, FS_CardinalityType
    <3> QED BY <3>5
  <2> QED BY <2>1, <2>2, Zenon
<1>10. ASSUME NEW n \in 0..(M - 1), n \in S PROVE n + 1 \in S
  <2>1. n + 1 \in 0..M /\ n \in Nat /\ n + 1 # 0 /\ (n + 1) - 1 = n
    BY <1>1
  <2>2. P(n)
    BY <1>10, Zenon
  <2>3. ASSUME NEW i \in 1..L, ~Blank(t[i]),
               Cardinality(Blanks(t, i)) < n + 1
        PROVE  Whole(t, i, p[n + 1][i])
    <3> DEFINE e == End(t, i)
               w == SubSeq(t, i, e - 1)
    <3>1. /\ Skip(t, i) = i /\ e \in (i + 1)..(L + 1)
          /\ e <= L => Blank(t[e])
      BY <1>1, <2>3, SkipEnd, Zenon DEF L
    <3>2. i \in 1..(L + 2) /\ ~(i > L)
      BY <1>1
    <3>3. p[n + 1][i] = <<w>> \o IF e > L THEN <<>> ELSE p[n][e + 1]
      <4>1. p[n + 1][i] = Words(t, i, p[n])
        BY <1>4, <2>1, <3>2, Zenon
      <4>2. Words(t, i, p[n]) = <<w>> \o IF e > L THEN <<>> ELSE p[n][e + 1]
        BY <3>1, <3>2, Zenon DEF Words, L
      <4> QED BY <4>1, <4>2, Zenon
    <3> HIDE DEF e
    <3>4. /\ i \in 1..(L + 1) /\ e - 1 \in 0..L /\ i <= e - 1
      BY <1>1, <3>1
    <3>5. w \in Seq(Letter) /\ w # <<>>
      BY <1>8, <3>4, Zenon
    <3>6. CASE e > L
      <4>1. e - 1 = L
        BY <1>1, <3>1, <3>6
      <4>2. Whole(t, i, <<w>> \o <<>>)
        BY <3>5, <4>1, LastWord, Zenon DEF L
      <4> QED BY <3>3, <3>6, <4>2, Zenon
    <3>7. CASE ~(e > L)
      <4>1. e \in 1..L /\ e \in i..L /\ e <= L
        BY <1>1, <3>1, <3>7
      <4>2. Blank(t[e]) /\ IsSpace(t[e])
        BY <1>6, <3>1, <4>1, Zenon
      <4>3. e # L
        <5>1. t # <<>>
          <6>1. Len(<<>>) = 0
            OBVIOUS
          <6> QED BY <1>1, <4>1, <6>1 DEF L
        <5> QED BY <1>5, <4>2, <5>1, Zenon
      <4>4. /\ e + 1 \in 1..L /\ e + 1 \in 2..L /\ (e + 1) - 1 = e
            /\ e + 1 \in 1..(L + 1) /\ L \in 0..L
        BY <1>1, <4>1, <4>3
      <4>5. ~Blank(t[e + 1])
        BY <1>5, <4>2, <4>4, Zenon
      <4>6. Cardinality(Blanks(t, e + 1)) < n
        BY <1>1, <2>1, <2>3, <4>1, <4>2, BlanksFewer, Zenon DEF L
      <4>7. Whole(t, e + 1, p[n][e + 1])
        BY <2>2, <4>4, <4>5, <4>6, Zenon
      <4>8. SubSeq(t, e + 1, L) \in Seq(Letter)
        BY <1>8, <4>4, Zenon
      <4>9. Whole(t, i, <<w>> \o p[n][e + 1])
        BY <1>2, <3>5, <4>1, <4>2, <4>7, <4>8, NextWord, Zenon DEF L
      <4> QED BY <3>3, <3>7, <4>9, Zenon
    <3> QED BY <3>6, <3>7
  <2> QED BY <2>1, <2>3, Zenon
<1> HIDE DEF S
<1>11. \A n \in 0..M : n \in S
  BY <1>1, <1>9, <1>10, SetInduction, Zenon
<1>12. M \in 0..M /\ M # 0 /\ 1 \in 1..(L + 2)
  BY <1>1
<1>13. P(M)
  BY <1>11, <1>12, Zenon DEF S
<1>14. parse_line(t) = p[M][1]
  BY <1>3, Zenon
<1>15. Join(<<>>, t) = t /\ <<>> \in Seq(Letter)
  BY DEF Join
<1>16. CASE t = <<>>
  <2>1. L = 0
    BY <1>16 DEF L
  <2>2. Skip(t, 1) > L
    <3> DEFINE A == {j \in 1..L : ~Blank(t[j])} \union {L + 1}
    <3>1. A \subseteq Nat /\ A # {} /\ \A y \in A : y = 1
      BY <2>1
    <3>2. Min(A) \in A
      BY <3>1, LeastIs, Zenon
    <3>3. Skip(t, 1) = Min(A)
      BY Zenon DEF Skip, L
    <3>4. Skip(t, 1) = 1
      BY <3>1, <3>2, <3>3, Zenon
    <3> QED BY <2>1, <3>4
  <2>3. parse_line(t) = <<>>
    BY <1>4, <1>12, <1>14, <2>2, Zenon DEF Words, L
  <2>4. <<>> \in Seq(Seq(Letter)) /\ Len(<<>>) = 0
    OBVIOUS
  <2>5. Joins(<<>>) = <<>>
    BY <2>4, JoinsGlues, Zenon DEF Glues
  <2> QED BY <1>16, <2>3, <2>5, Zenon
<1>17. CASE t # <<>>
  <2>1. 1 \in 1..L
    <3>1. L # 0
      BY <1>17, EmptySeq DEF L
    <3> QED BY <1>1, <3>1
  <2>2. Blanks(t, 1) = {k \in 1..L : Blank(t[k])}
    BY Zenon DEF Blanks, L
  <2>3. Whole(t, 1, p[M][1])
    BY <1>5, <1>13, <1>17, <2>1, <2>2, Zenon
  <2> DEFINE ws == parse_line(t)
  <2>4. Whole(t, 1, ws)
    BY <1>14, <2>3, Zenon
  <2> HIDE DEF ws
  <2>5. ws \in Seq(Seq(Letter))
    BY <2>4, Zenon DEF Whole
  <2>6. PICK f : Glues(ws, <<>>, f) /\ Joins(ws) = f[Len(ws)]
    BY <2>5, JoinsGlues, Zenon
  <2>7. f[Len(ws)] = Join(<<>>, SubSeq(t, 1, L))
    BY <1>15, <2>4, <2>6, Zenon DEF Whole, L
  <2>8. SubSeq(t, 1, L) = t
    BY SubSeqFull DEF L
  <2> QED BY <1>15, <2>6, <2>7, <2>8, Zenon DEF ws
<1> QED BY <1>16, <1>17

(* The one piece of a text in quotes *)
LEMMA SplitEnclosed ==
  ASSUME line \in Seq(STRING), input.meant \in Seq(STRING),
         Encloses(line, input.meant), Len(line) < CFG_CBSIZE, str = 1,
         prior # Backslash
  PROVE  /\ Sep + 1 > Len(line)
         /\ process_macros(SubSeq(line, str, Sep - 1)).out = input.meant
<1> DEFINE m == input.meant
           J == {j \in str..Len(line) : IsSep(j)}
<1>1. /\ Len(m) \in Nat /\ Len(line) = Len(m) + 2
      /\ line[1] = Quote /\ line[Len(m) + 2] = Quote
      /\ \A n \in 1..Len(m) : line[n + 1] = m[n] /\ m[n] # Quote
  BY Enclosed, Zenon
<1>2. PICK f : Scan(line, f) /\ process_macros(line) = f[Len(line)]
  BY MacrosScan, Zenon
<1>3. f[Len(line)].out = m
  BY <1>2, EnclosedScan
<1>4. J = {}
  <2> SUFFICES ASSUME NEW j \in str..Len(line), IsSep(j) PROVE FALSE
    BY Zenon
  <2> DEFINE K == {k \in str..j : line[k] = Quote /\ Before(k) # Backslash}
  <2>1. line[j] = ";" /\ j # str /\ ~(Cardinality(K) % 2 = 1)
    BY Zenon DEF IsSep, InQuotes
  <2>2. line[j] # Quote
    BY <2>1, Zenon DEF Quote
  <2>3. j \in 1..Len(line) /\ j # Len(m) + 2
    BY <1>1, <2>2
  <2>4. \A k \in 1..j : k = 1 \/ (k - 1 \in 1..Len(m) /\ (k - 1) + 1 = k)
    BY <1>1, <2>3
  <2>5. 1 \in 1..j
    BY <1>1, <2>3
  <2>6. Before(1) = prior
    BY Zenon DEF Before
  <2>7. K = {1}
    <3>1. ASSUME NEW k \in 1..j, line[k] = Quote, k # 1 PROVE FALSE
      <4>1. k - 1 \in 1..Len(m) /\ (k - 1) + 1 = k
        BY <2>4, <3>1, Zenon
      <4>2. line[(k - 1) + 1] # Quote
        BY <1>1, <4>1, Zenon
      <4> QED BY <3>1, <4>1, <4>2, Zenon
    <3> QED BY <1>1, <2>5, <2>6, <3>1, Zenon
  <2>8. Cardinality({1}) = 1
    BY FS_Singleton
  <2>9. 1 % 2 = 1
    OBVIOUS
  <2> QED BY <2>1, <2>7, <2>8, <2>9, Zenon
<1>5. Sep = Len(line) + 1
  <2>1. {Len(line) + 1} \subseteq Nat /\ {Len(line) + 1} # {}
    BY <1>1
  <2>2. J \union {Len(line) + 1} = {Len(line) + 1}
    BY <1>4, Zenon
  <2>3. Sep = Min({Len(line) + 1})
    BY <2>2, Zenon DEF Sep
  <2>4. Min({Len(line) + 1}) \in {Len(line) + 1}
    BY <2>1, LeastIs, Zenon
  <2> QED BY <2>3, <2>4, Zenon
<1>6. Sep + 1 > Len(line) /\ Sep - 1 = Len(line)
  BY <1>1, <1>5
<1>7. SubSeq(line, str, Sep - 1) = line
  <2>1. SubSeq(line, 1, Len(line)) = line
    BY SubSeqFull
  <2> QED BY <1>6, <2>1, Zenon
<1> QED BY <1>2, <1>3, <1>6, <1>7, Zenon

Enclosing == input.how = "quoted" /\ prior # Backslash

QuotedInv ==
  Enclosing => /\ str = 1 \/ str > Len(line)
               /\ pc = "parse" => final.out = input.meant
               /\ pc \in {"lookup", "run"} => Joined = input.meant

LEMMA QuotedInit == LineInit => QuotedInv
<1> SUFFICES ASSUME LineInit PROVE QuotedInv
  OBVIOUS
<1>1. str = 1 /\ pc = "call"
  BY Zenon DEF LineInit
<1> QED BY <1>1, Zenon DEF QuotedInv

LEMMA QuotedNext == PieceInv /\ QuotedInv /\ [LineNext]_lineVars => QuotedInv'
<1> SUFFICES ASSUME PieceInv, QuotedInv, [LineNext]_lineVars, Enclosing'
             PROVE  /\ (str = 1 \/ str > Len(line))'
                    /\ (pc = "parse" => final.out = input.meant)'
                    /\ (pc \in {"lookup", "run"} => Joined = input.meant)'
  BY Zenon DEF QuotedInv
<1>1. UNCHANGED <<input, prior>> /\ UNCHANGED line
  <2>1. CASE LineNext
    BY <2>1, Zenon DEF LineNext, TooLong, Accept, Split, Return, Parse, Refuse,
                       Found, RunFound, line
  <2>2. CASE UNCHANGED lineVars
    BY <2>2, Zenon DEF lineVars, line
  <2> QED BY <2>1, <2>2
<1>2. Enclosing
  BY <1>1, Zenon DEF Enclosing
<1>3. /\ input \in Inputs /\ str \in Nat /\ line \in Seq(STRING)
      /\ input.meant \in Seq(STRING) /\ Encloses(line, input.meant)
      /\ pc \notin {"call", "end"} => Len(line) < CFG_CBSIZE
      /\ prior # Backslash
      /\ str = 1 \/ str > Len(line)
      /\ pc = "parse" => final.out = input.meant
      /\ pc \in {"lookup", "run"} => Joined = input.meant
  BY <1>2, LineAssumption, Zenon DEF PieceInv, QuotedInv, Enclosing, line
<1>4. CASE TooLong \/ Accept \/ Return \/ Refuse \/ RunFound
  BY <1>1, <1>3, <1>4, Zenon DEF TooLong, Accept, Return, Refuse, RunFound
<1>5. CASE Split
  <2>1. /\ pc = "split" /\ str <= Len(line) /\ str' = Sep + 1
        /\ final' = process_macros(SubSeq(line, str, Sep - 1))
        /\ pc' = "parse"
    BY <1>5, Zenon DEF Split
  <2>2. ~(str > Len(line))
    BY <1>3, <2>1, LenProperties
  <2>3. str = 1 /\ Len(line) < CFG_CBSIZE
    BY <1>3, <2>1, <2>2, Zenon
  <2>4. /\ Sep + 1 > Len(line)
        /\ process_macros(SubSeq(line, str, Sep - 1)).out = input.meant
    BY <1>3, <2>3, SplitEnclosed, Zenon
  <2> QED BY <1>1, <2>1, <2>4, Zenon
<1>6. CASE Parse
  <2>1. /\ pc = "parse" /\ str' = str /\ pc' \in {"split", "lookup"}
        /\ \E more \in IF Len(final.out) = CFG_CBSIZE THEN Beyond ELSE {<<>>} :
             argv' = parse_line(final.out \o more)
    BY <1>6, Zenon DEF Parse
  <2>2. final.out = input.meant /\ Len(line) < CFG_CBSIZE
    BY <1>3, <2>1, Zenon
  <2>3. Len(input.meant) # CFG_CBSIZE
    <3>1. Len(input.meant) \in Nat /\ Len(line) = Len(input.meant) + 2
      BY <1>3, Enclosed, Zenon
    <3> QED BY <2>2, <3>1, LineAssumption
  <2>4. input.meant \o <<>> = input.meant
    BY <1>3, ConcatEmptySeq
  <2>5. argv' = parse_line(input.meant)
    BY <2>1, <2>2, <2>3, <2>4, Zenon
  <2>6. Joins(parse_line(input.meant)) = input.meant
    <3>1. Tidy(input.meant)
      BY <1>3, Zenon DEF Encloses
    <3> QED BY <1>3, <3>1, ParsedWhole
  <2>7. Joined' = Joins(argv')
    BY DEF Joined, Joins
  <2> QED BY <1>1, <1>3, <2>1, <2>5, <2>6, <2>7, Zenon
<1>7. CASE Found
  <2>1. pc = "lookup" /\ pc' = "run" /\ UNCHANGED <<str, argv>>
    BY <1>7, Zenon DEF Found
  <2>2. Joined' = Joined
    BY <2>1, Zenon DEF Joined
  <2> QED BY <1>1, <1>3, <2>1, <2>2, Zenon
<1>8. CASE UNCHANGED lineVars
  <2>1. UNCHANGED <<str, argv, final, pc>>
    BY <1>8, Zenon DEF lineVars
  <2>2. Joined' = Joined
    BY <2>1, Zenon DEF Joined
  <2> QED BY <1>1, <1>3, <2>1, <2>2, Zenon
<1> QED BY <1>4, <1>5, <1>6, <1>7, <1>8, Zenon DEF LineNext

(* A text of any length in quotes is one piece, and the arguments that     *)
(* parse_line cuts it into, joined by blanks, are the text that was meant. *)
THEOREM QuotedTextArrives == LineSpec => []QuotedArrives
<1>1. QuotedInv => QuotedArrives
  BY Zenon DEF QuotedInv, QuotedArrives, Enclosing
<1> QED BY <1>1, PieceInit, PieceNext, QuotedInit, QuotedNext, PTL DEF LineSpec
=============================================================================
