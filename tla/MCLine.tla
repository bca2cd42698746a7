------------------------------- MODULE MCLine -------------------------------
(* Instances of Line for TLC. *)
EXTENDS Line

(* The text t with a backslash in front of every special character *)
Escaped(t) ==
  FlattenSeq([n \in 1..Len(t) |-> IF Special(t[n]) THEN <<Backslash, t[n]>>
                                                  ELSE <<t[n]>>])
Quoted(t) == <<Quote>> \o t \o <<Quote>>

As(how, T, type(_)) ==
  {[meant |-> t, how |-> how, line |-> type(t)] : t \in T}

Plain(T) == As("plain", T, LAMBDA t : t)

Pieces == {<<"a">>, <<" ">>, <<";">>, <<Backslash>>, <<Quote>>, <<"$">>,
           <<"$", "{", "a", "}">>, <<"$", Quote>>}
PlainLines == {FlattenSeq(p) : p \in BoundedSeq(Pieces, 4)}
TextsToEscape == BoundedSeq({"a", "$", ";", "{", "}"}, 4)
TextsToQuote == {t \in BoundedSeq({"a", " ", "$", ";", "{", Backslash}, 5) :
                   Tidy(t) /\ (t # <<>> => t[Len(t)] # Backslash)}

Long == [n \in 1..(CFG_CBSIZE - 1) |-> "a"]
Variables == <<"a">> :> <<"a", " ", "a", Quote, "a">> @@ <<"b">> :> Long

(* The buffer is full in front of the second quote. *)
FilledLine == <<"$", "{", "b", "}", Quote, "a", Quote, ";", "a">>
Stack == {<<>>, <<"a">>, <<" ", "a">>}

AllInputs == Plain(PlainLines \union {FilledLine})
               \union As("escaped", TextsToEscape, Escaped)
               \union As("quoted", TextsToQuote, Quoted)
=============================================================================
