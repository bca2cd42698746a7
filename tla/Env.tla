-------------------------------- MODULE Env ---------------------------------
(***************************************************************************)
(* The environment (common/cmd_nvedit.c): a list of "name=value" strings,  *)
(* each ended by a NUL and the last by two, in ENV_SIZE bytes of memory.   *)
(* setenv finds a definition, moves what follows over it, and appends the  *)
(* new one; some variables are also kept in a place of their own.          *)
(*                                                                         *)
(* The layout is what this module is about, so it is kept byte by byte,    *)
(* over a few characters.  Strings are sequences of them without the NUL.  *)
(***************************************************************************)
EXTENDS Integers, Sequences, FiniteSetsExt

CONSTANTS
  ENV_SIZE,    \* bytes for the list
  Chars,       \* characters, without the NUL
  Names,       \* names given to setenv
  Arguments,   \* what follows the name in a call of setenv: argv[2] as
               \*   word, and the further words, each behind its blank,
               \*   together as rest
  Default,     \* default_environment: the definitions, each with its NUL
  Protected,   \* "serial#", "ethaddr": "can be set only once"
  Followed     \* names with a copy elsewhere: "ethaddr" (bd->bi_enetaddr),
               \*   "ipaddr" (bd->bi_ip_addr), "loadaddr" (load_addr),
               \*   "bootfile" (BootFile)

NUL == "NUL"
EQ == "="
BLANK == " "

(* The words of a call joined to a value: "add '=' for first arg, ' ' for  *)
(* all others".                                                            *)
Text(arg) == arg.word \o arg.rest
Values == {Text(arg) : arg \in Arguments}

(* What may follow the first word of a value *)
Rests == {arg.rest : arg \in Arguments} \union {<<>>}

ASSUME EnvAssumption ==
  /\ ENV_SIZE \in Nat /\ Len(Default) + 1 < ENV_SIZE
  /\ NUL \notin Chars /\ EQ \in Chars /\ "unset" \notin Chars
  /\ Default \in Seq(Chars \union {NUL})
  /\ Names \subseteq Seq(Chars)
  /\ \A arg \in Arguments :
       /\ arg.word \in Seq(Chars) /\ arg.rest \in Seq(Chars)
       /\ arg.rest # <<>> => arg.rest[1] = BLANK
  /\ Protected \union Followed \subseteq Names
  /\ \A k \in Protected \union Followed : \A n \in 1..Len(k) : k[n] # EQ

VARIABLES
  env_data,   \* the list, at indices 0..ENV_SIZE - 1
  copied,     \* the text that the copy of each followed variable was last
              \*   made from
  returned    \* what setenv last returned

vars == <<env_data, copied, returned>>

Addrs == 0..(ENV_SIZE - 1)
None == <<"unset">>
-----------------------------------------------------------------------------
(* Where a loop over the definitions of list m stops: an entry begins at 0 *)
(* and behind every NUL, up to one that is itself a NUL.                   *)
Begins(m, i) == i = 0 \/ m[i - 1] = NUL
Ends(m) == Min({i \in Addrs : Begins(m, i) /\ m[i] = NUL})
Entries(m) == {i \in 0..(Ends(m) - 1) : Begins(m, i)}
EntryEnd(m, i) == Min({j \in i..(ENV_SIZE - 1) : m[j] = NUL})

(* The part of a name that counts, "either a simple 'name', or a           *)
(* 'name=value' pair".                                                     *)
Key(name) ==
  LET eq == {j \in 1..Len(name) : name[j] = EQ}
  IN  IF eq = {} THEN name ELSE SubSeq(name, 1, Min(eq) - 1)

(* Mutant: the '=' behind the name in the list is not looked for. *)
envmatchPrefix(m, name, i) ==
  \A j \in 1..Len(Key(name)) : m[i + j - 1] = Key(name)[j]

(* envmatch: the entry at i is a definition of that name. *)
envmatch(m, name, i) ==
  LET n == Len(Key(name))
  IN  /\ i + n < ENV_SIZE
      /\ \A j \in 1..n : m[i + j - 1] = Key(name)[j]
      /\ m[i + n] = EQ

Matches(m, name) == {i \in Entries(m) : envmatch(m, name, i)}

(* getenv: the value in the first definition *)
getenv(m, name) ==
  LET i == Min(Matches(m, name))
      v == i + Len(Key(name)) + 1
  IN  IF Matches(m, name) = {} THEN None
      ELSE [j \in 1..(EntryEnd(m, i) - v) |-> m[v + j - 1]]
-----------------------------------------------------------------------------
(* Two NULs in a row, at or behind i *)
DoubleNul(m, i) ==
  Min({j \in i..(ENV_SIZE - 2) : m[j] = NUL /\ m[j + 1] = NUL})

(* "Delete any existing definition": the entry at env.  The last entry is  *)
(* cut off, another one is moved over by those behind it.                  *)
Deleted(m, env) ==
  LET nxt == EntryEnd(m, env) + 1
      d == DoubleNul(m, nxt) - nxt
  IN  CASE m[nxt] = NUL /\ env = 0 -> [m EXCEPT ![0] = NUL, ![1] = NUL]
        [] m[nxt] = NUL /\ env > 0 -> [m EXCEPT ![env] = NUL]
        [] OTHER -> [a \in Addrs |-> CASE a \in env..(env + d) ->
                                            m[nxt + a - env]
                                       [] a = env + d + 1 -> NUL
                                       [] OTHER -> m[a]]

Without(name) ==
  IF Matches(env_data, name) = {} THEN env_data
  ELSE Deleted(env_data, Min(Matches(env_data, name)))

(* "Append new definition at the end" *)
AppendAt(m) == IF DoubleNul(m, 0) = 0 THEN 0 ELSE DoubleNul(m, 0) + 1

(* Mutant: room for one NUL at the end. *)
NeededShort(name, val) == Len(name) + Len(val) + 2

(* "name" + "=" + "val" + "\0\0" *)
Needed(name, val) == Len(name) + Len(val) + 3

Overflows(name, val) ==
  Needed(name, val) > ENV_SIZE - AppendAt(Without(name))

Appended(m, name, val) ==
  LET str == name \o <<EQ>> \o val \o <<NUL, NUL>>
      env == AppendAt(m)
  IN  [a \in Addrs |-> IF a - env + 1 \in 1..Len(str)
                       THEN str[a - env + 1] ELSE m[a]]

(* Mutant: only names that are not in the list are compared. *)
UpdatedNew(name, arg) ==
  IF name \in Followed /\ Matches(env_data, name) = {}
  THEN [copied EXCEPT ![name] = arg.word] ELSE copied

(* "Some variables should be updated when the corresponding entry in the   *)
(* enviornment is changed": "always use only one arg".                     *)
Updated(name, arg) ==
  IF name \in Followed THEN [copied EXCEPT ![name] = arg.word] ELSE copied
-----------------------------------------------------------------------------
(* memset and memcpy of the default environment (env_relocate); board.c    *)
(* then fills in the copies.                                               *)
Relocated == [a \in Addrs |-> IF a < Len(Default) THEN Default[a + 1] ELSE NUL]

Init ==
  /\ env_data = Relocated
  /\ copied = [k \in Followed |-> getenv(env_data, k)]
  /\ returned = 0

(* "Ethernet Address and serial# can be set only once" *)
MayWrite(name) == name \notin Protected \/ Matches(env_data, name) = {}

SetRefused(name) ==
  /\ ~MayWrite(name)
  /\ returned' = 1
  /\ UNCHANGED <<env_data, copied>>

(* _do_setenv without a value *)
SetDelete(name) ==
  /\ MayWrite(name)
  /\ env_data' = Without(name)
  /\ returned' = 0
  /\ UNCHANGED copied

(* ... with one that does not fit: the old definition is gone ... *)
SetOverflow(name, val) ==
  /\ MayWrite(name)
  /\ Overflows(name, val)
  /\ env_data' = Without(name)
  /\ returned' = 1
  /\ UNCHANGED copied

(* ... and with one that does. *)
Set(name, arg) ==
  /\ MayWrite(name)
  /\ ~Overflows(name, Text(arg))
  /\ env_data' = Appended(Without(name), name, Text(arg))
  /\ copied' = Updated(name, arg)
  /\ returned' = 0

Next == \E name \in Names :
          \/ SetRefused(name)
          \/ SetDelete(name)
          \/ \E arg \in Arguments :
               SetOverflow(name, Text(arg)) \/ Set(name, arg)

Spec == Init /\ [][Next]_vars
-----------------------------------------------------------------------------
(* Every loop over the list comes to its end inside the store, and every   *)
(* string it meets has the '=' that envmatch stops at.                     *)
WellFormed ==
  /\ \E i \in 0..(ENV_SIZE - 2) : env_data[i] = NUL /\ env_data[i + 1] = NUL
  /\ \A i \in Entries(env_data) :
       \E j \in i..EntryEnd(env_data, i) : env_data[j] = EQ

(* "Some variables should be updated when the corresponding entry in the   *)
(* enviornment is changed": the copy of one that is set is made from its   *)
(* value, or from the first of its words, after any sequence of deletions, *)
(* refusals and overflows in between.  One that was deleted keeps its old  *)
(* copy, about which this says nothing.                                    *)
CopyFollows ==
  \A k \in Followed :
    getenv(env_data, k) # None
      => \E r \in Rests : getenv(env_data, k) = copied[k] \o r
-----------------------------------------------------------------------------
Keys == {Key(name) : name \in Names}

(* With '=' in the name its rest belongs to the value. *)
Given(name, val) ==
  IF Key(name) = name THEN val
  ELSE SubSeq(name, Len(Key(name)) + 2, Len(name)) \o <<EQ>> \o val

AllValues == {Given(name, val) : name \in Names, val \in Values}

Dict(m) == [k \in Keys |-> getenv(m, k)]

Map == INSTANCE EnvMap
         WITH dict <- Dict(env_data), used <- AppendAt(env_data) + 1,
              Values <- AllValues, Fixed <- Protected

(* The list, moved about in place, is a map from names to values: nothing  *)
(* is lost, revived or mixed up, and no room is lost either; "Ethernet     *)
(* Address and serial# can be set only once".                              *)
ListIsMap == Map!Spec
-----------------------------------------------------------------------------
(* What these properties rest on.  The list ends with the first two NULs   *)
(* in a row, at e and e + 1, and it is empty if it begins with a NUL.      *)
Listed(m, e) ==
  /\ e \in 0..(ENV_SIZE - 2)
  /\ m[e] = NUL /\ m[e + 1] = NUL
  /\ m[0] = NUL => e = 0
  /\ \A a \in 0..(e - 1) : m[a] # NUL \/ m[a + 1] # NUL

(* A string of it begins at i and ends with the NUL at j, ... *)
String(m, e, i, j) ==
  /\ i \in 0..e /\ j \in 0..e /\ i < j
  /\ Begins(m, i) /\ m[j] = NUL
  /\ \A a \in i..(j - 1) : m[a] # NUL

(* ... defines the variable k, ... *)
Defines(m, e, k, i, j) ==
  /\ String(m, e, i, j)
  /\ i + Len(k) < j
  /\ \A n \in 1..Len(k) : m[i + n - 1] = k[n]
  /\ m[i + Len(k)] = EQ

(* ... as nothing else does, and gives it the value v. *)
Once(m, e, k) ==
  \A i1, i2, j1, j2 \in 0..e :
    Defines(m, e, k, i1, j1) /\ Defines(m, e, k, i2, j2) => i1 = i2

Gives(m, e, k, v) ==
  \A i, j \in 0..e :
    Defines(m, e, k, i, j)
      => v = [n \in 1..(j - i - Len(k) - 1) |-> m[i + Len(k) + n]]

(* ... or a value of which v is the beginning *)
GivesFirst(m, e, k, v) == \E r \in Rests : Gives(m, e, k, v \o r)

Definitions(m, e) ==
  \A i, j \in 0..e :
    String(m, e, i, j) => \E a \in i..(j - 1) : m[a] = EQ

(* default_environment is such a list: every string in it is a definition, *)
(* of one of the variables, which are defined once and with one of the     *)
(* values, and nothing else takes room.                                    *)
ASSUME DefaultAssumption ==
  /\ \E e \in 0..(ENV_SIZE - 2) :
       /\ Listed(Relocated, e) /\ Definitions(Relocated, e)
       /\ \A k \in Keys : Once(Relocated, e, k)
  /\ \A k \in Keys : getenv(Relocated, k) \in AllValues \union {None}
  /\ AppendAt(Relocated) + 1 = Map!Total(Dict(Relocated))

(* A variable of S is not also set as `name=...', which setenv allows and  *)
(* does not take for the same variable.                                    *)
PlainlySet(S) == \A k \in S, name \in Names : Key(name) = k => name = k

EnvInv ==
  /\ env_data \in [Addrs -> Chars \union {NUL}]
  /\ DOMAIN copied = Followed
  /\ \E e \in 0..(ENV_SIZE - 2) :
       /\ Listed(env_data, e) /\ Definitions(env_data, e)
       /\ \A k \in Keys : Once(env_data, e, k)
       /\ PlainlySet(Followed) =>
            \A k \in Followed : GivesFirst(env_data, e, k, copied[k])
=============================================================================
