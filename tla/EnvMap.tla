------------------------------- MODULE EnvMap -------------------------------
(***************************************************************************)
(* What the environment promises: a map from names to values in a store of *)
(* ENV_SIZE bytes.  A variable that is set has the value last given to it. *)
(* Setting one fails, and then deletes it, only if there is no room.       *)
(***************************************************************************)
EXTENDS Integers, Sequences, FiniteSetsExt

CONSTANTS Keys, Values, ENV_SIZE,
          Fixed   \* keys that keep their value once they are set

Unset == <<"unset">>

VARIABLES
  dict,
  used,      \* bytes taken by the variables that are set, and one
  returned   \* 0, or 1 for an error

vars == <<dict, used, returned>>

(* What variable k takes in d: "name" "=" "value" "\0" *)
Room(d, k) == IF d[k] = Unset THEN 0 ELSE Len(k) + Len(d[k]) + 2

Total(d) == MapThenSumSet(LAMBDA k : Room(d, k), Keys) + 1

MayChange(k) == k \notin Fixed \/ dict[k] = Unset

Fits(k, v) == used - Room(dict, k) + Len(k) + Len(v) + 2 <= ENV_SIZE

(* k gets the value v, or none. *)
Becomes(k, v) == /\ dict' = [dict EXCEPT ![k] = v]
                 /\ used' = used - Room(dict, k) + Room(dict', k)

Set(k, v) == /\ Fits(k, v)
             /\ Becomes(k, v)
             /\ returned' = 0

SetOverflow(k, v) == /\ ~Fits(k, v)
                     /\ Becomes(k, Unset)
                     /\ returned' = 1

Delete(k) == /\ Becomes(k, Unset)
             /\ returned' = 0

Refuse == /\ \E k \in Fixed : dict[k] # Unset
          /\ returned' = 1
          /\ UNCHANGED <<dict, used>>

Init == /\ dict \in [Keys -> Values \union {Unset}]
        /\ used = Total(dict)
        /\ returned = 0

Next == \/ Refuse
        \/ \E k \in Keys :
             /\ MayChange(k)
             /\ \/ Delete(k)
                \/ \E v \in Values : Set(k, v) \/ SetOverflow(k, v)

Spec == Init /\ [][Next]_vars
=============================================================================
