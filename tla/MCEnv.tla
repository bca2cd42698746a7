------------------------------- MODULE MCEnv --------------------------------
(* Instances of Env for TLC. *)
EXTENDS Env

(* "e" may be set once, "a" begins "ab", both "e" and "a" have a copy      *)
(* elsewhere, and "ab=v" is another way to name "ab".                      *)
SomeNames == {<<"a">>, <<"a", "b">>, <<"a", "b", "=", "v">>, <<"e">>}
SomeChars == {"a", "b", "e", "v", EQ, BLANK}

(* An empty word, and two words *)
SomeArguments == {[word |-> <<>>, rest |-> <<>>],
                  [word |-> <<"v">>, rest |-> <<BLANK, "v">>]}

(* Its value has two words as well, of which the copy begins with both. *)
DefaultEnv == <<"a", "=", "v", BLANK, "v", NUL>>
OnceNames == {<<"e">>}
CopiedNames == {<<"a">>, <<"e">>}
=============================================================================
