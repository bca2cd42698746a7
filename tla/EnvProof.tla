------------------------------ MODULE EnvProof ------------------------------
(***************************************************************************)
(* What Env promises, for a store of any size and any names and values:    *)
(* the list that setenv moves about in place stays a list of definitions,  *)
(* and the copies follow it.                                               *)
(***************************************************************************)
EXTENDS Env, WellFoundedInduction, SequenceTheorems, TLAPS

Store == [Addrs -> Chars \union {NUL}]
-----------------------------------------------------------------------------
(* The least of a set of numbers. *)
LEMMA MinIs ==
  ASSUME NEW S, S \subseteq Nat, S # {}
  PROVE  Min(S) \in S /\ \A y \in S : Min(S) <= y
<1> DEFINE R == OpToRel(<, Nat)
<1>1. IsWellFoundedOn(R, Nat)
  BY NatLessThanWellFounded
<1>2. \A x, y \in Nat : <<y, x>> \in R <=> y < x
  BY DEF OpToRel
<1> HIDE DEF R
<1>3. PICK x \in S : \A y \in S : ~ (<<y, x>> \in R)
  BY <1>1, WFMin
<1>4. x \in Nat /\ \A y \in S : y \in Nat /\ ~(y < x)
  BY <1>2, <1>3, Zenon
<1>5. \A n, m \in Nat : ~(n < m) => m <= n
  OBVIOUS
<1>6. \E z \in S : \A y \in S : z <= y
  BY <1>4, <1>5, Zenon
<1> QED BY <1>6, Zenon DEF Min

LEMMA MinOnly ==
  ASSUME NEW S, S \subseteq Nat, NEW x \in S, \A y \in S : x <= y
  PROVE  Min(S) = x
<1>1. Min(S) \in S /\ Min(S) <= x /\ x <= Min(S)
  BY MinIs
<1>2. Min(S) \in Nat /\ x \in Nat
  BY <1>1
<1> QED BY <1>1, <1>2
-----------------------------------------------------------------------------
(* The strings of a list are what the loops over it find. *)
LEMMA Size == ENV_SIZE \in Nat /\ ENV_SIZE > 1
  BY EnvAssumption, LenProperties

LEMMA FoundEnd ==
  ASSUME NEW m, NEW e, Listed(m, e)
  PROVE  Ends(m) = IF e = 0 THEN 0 ELSE e + 1
<1> DEFINE S == {i \in Addrs : Begins(m, i) /\ m[i] = NUL}
<1>1. e \in 0..(ENV_SIZE - 2) /\ ENV_SIZE \in Nat /\ ENV_SIZE > 1
  BY Size DEF Listed
<1>2. S \subseteq Nat
  BY <1>1 DEF Addrs
<1>3. CASE e = 0
  <2>1. 0 \in S
    BY <1>1, <1>3 DEF Listed, Begins, Addrs
  <2>2. \A y \in S : 0 <= y
    BY <1>2
  <2> HIDE DEF S
  <2>3. Min(S) = 0
    BY <1>2, <2>1, <2>2, MinOnly, Zenon
  <2> QED BY <1>3, <2>3, Zenon DEF Ends, S
<1>4. CASE e # 0
  <2>1. e + 1 \in S
    BY <1>1, <1>4 DEF Listed, Begins, Addrs
  <2>2. \A y \in S : e + 1 <= y
    <3> SUFFICES ASSUME NEW y \in S, y < e + 1 PROVE FALSE
      BY <1>1, <1>2
    <3>1. y \in 0..e /\ Begins(m, y) /\ m[y] = NUL
      BY <1>1 DEF Addrs
    <3>2. y # 0
      BY <1>4, <3>1 DEF Listed
    <3>3. m[y - 1] = NUL /\ y - 1 \in 0..(e - 1) /\ (y - 1) + 1 = y
      BY <1>1, <3>1, <3>2 DEF Begins
    <3> QED BY <3>1, <3>3 DEF Listed
  <2> HIDE DEF S
  <2>3. Min(S) = e + 1
    BY <1>2, <2>1, <2>2, MinOnly, Zenon
  <2> QED BY <1>4, <2>3, Zenon DEF Ends, S
<1> QED BY <1>3, <1>4

LEMMA FoundString ==
  ASSUME NEW m, NEW e, Listed(m, e), NEW i \in Entries(m)
  PROVE  /\ String(m, e, i, EntryEnd(m, i))
         /\ e # 0 /\ i \in 0..e /\ EntryEnd(m, i) \in 0..e
<1>1. e \in 0..(ENV_SIZE - 2) /\ ENV_SIZE \in Nat /\ ENV_SIZE > 1
  BY Size DEF Listed
<1>2. e # 0 /\ i \in 0..e /\ Begins(m, i)
  BY <1>1, FoundEnd DEF Entries
<1>3. m[i] # NUL
  <2>1. CASE i = 0
    BY <1>2, <2>1 DEF Listed
  <2>2. CASE i # 0
    <3>1. m[i - 1] = NUL /\ i - 1 \in 0..(e - 1) /\ (i - 1) + 1 = i
      BY <1>1, <1>2, <2>2 DEF Begins
    <3> QED BY <3>1 DEF Listed
  <2> QED BY <2>1, <2>2
<1> DEFINE S == {j \in i..(ENV_SIZE - 1) : m[j] = NUL}
           j == Min(S)
<1>4. S \subseteq Nat /\ e \in S
  BY <1>1, <1>2 DEF Listed
<1>5. Min(S) \in S /\ \A y \in S : Min(S) <= y
  <2> HIDE DEF S
  <2> QED BY <1>4, MinIs
<1>6. j \in i..(ENV_SIZE - 1) /\ m[j] = NUL /\ j <= e
  BY <1>4, <1>5
<1>7. \A a \in i..(j - 1) : m[a] # NUL
  <2> SUFFICES ASSUME NEW a \in i..(j - 1), m[a] = NUL PROVE FALSE
    OBVIOUS
  <2>1. a \in i..(ENV_SIZE - 1) /\ a < j /\ j \in Nat /\ a \in Nat
    BY <1>1, <1>2, <1>6
  <2>2. a \in S
    BY <2>1
  <2>3. j <= a
    BY <1>5, <2>2, Zenon
  <2> QED BY <2>1, <2>3
<1>8. j = EntryEnd(m, i)
  BY Zenon DEF EntryEnd
<1> HIDE DEF j, S
<1>9. i < j /\ j \in 0..e
  <2>1. i # j
    BY <1>3, <1>6
  <2> QED BY <1>1, <1>2, <1>6, <2>1
<1> QED BY <1>2, <1>6, <1>7, <1>8, <1>9 DEF String

LEMMA StringFound ==
  ASSUME NEW m, NEW e, Listed(m, e), NEW i, NEW j, String(m, e, i, j)
  PROVE  i \in Entries(m) /\ j = EntryEnd(m, i)
<1>1. e \in 0..(ENV_SIZE - 2) /\ ENV_SIZE \in Nat /\ ENV_SIZE > 1
  BY Size DEF Listed
<1>2. /\ i \in 0..e /\ j \in 0..e /\ i < j /\ Begins(m, i) /\ m[j] = NUL
      /\ \A a \in i..(j - 1) : m[a] # NUL
  BY Zenon DEF String
<1>3. e # 0
  BY <1>1, <1>2
<1>4. i \in Entries(m)
  BY <1>1, <1>2, <1>3, FoundEnd DEF Entries
<1> DEFINE S == {a \in i..(ENV_SIZE - 1) : m[a] = NUL}
<1>5. S \subseteq Nat /\ j \in S
  BY <1>1, <1>2
<1>6. \A y \in S : j <= y
  <2> SUFFICES ASSUME NEW y \in S, y < j PROVE FALSE
    BY <1>1, <1>2, <1>5
  <2>1. y \in i..(j - 1) /\ m[y] = NUL
    BY <1>1, <1>2
  <2> QED BY <1>2, <2>1
<1> HIDE DEF S
<1>7. Min(S) = j
  BY <1>5, <1>6, MinOnly, Zenon
<1> QED BY <1>4, <1>7, Zenon DEF EntryEnd, S

LEMMA FoundDoubleNul ==
  ASSUME NEW m, NEW e, Listed(m, e), NEW i \in 0..e
  PROVE  DoubleNul(m, i) = e
<1>1. e \in 0..(ENV_SIZE - 2) /\ ENV_SIZE \in Nat /\ ENV_SIZE > 1
  BY Size DEF Listed
<1> DEFINE S == {j \in i..(ENV_SIZE - 2) : m[j] = NUL /\ m[j + 1] = NUL}
<1>2. S \subseteq Nat /\ e \in S
  BY <1>1 DEF Listed
<1>3. \A y \in S : e <= y
  <2> SUFFICES ASSUME NEW y \in S, y < e PROVE FALSE
    BY <1>1, <1>2
  <2>1. y \in 0..(e - 1) /\ m[y] = NUL /\ m[y + 1] = NUL
    BY <1>1
  <2> QED BY <2>1 DEF Listed
<1> HIDE DEF S
<1>4. Min(S) = e
  BY <1>2, <1>3, MinOnly, Zenon
<1> QED BY <1>4, Zenon DEF DoubleNul, S
-----------------------------------------------------------------------------
(* Names, and the strings that define them. *)
LEMMA KeyIs ==
  ASSUME NEW name \in Seq(Chars)
  PROVE  /\ Key(name) \in Seq(Chars) /\ Len(Key(name)) <= Len(name)
         /\ \A n \in 1..Len(Key(name)) : /\ Key(name)[n] = name[n]
                                         /\ name[n] # EQ
         /\ \/ Key(name) = name
            \/ /\ Len(Key(name)) < Len(name)
               /\ name[Len(Key(name)) + 1] = EQ
<1> DEFINE S == {n \in 1..Len(name) : name[n] = EQ}
<1>1. Len(name) \in Nat /\ S \subseteq Nat
  BY LenProperties
<1>2. CASE S = {}
  <2>1. Key(name) = name
    BY <1>2, Zenon DEF Key
  <2>2. \A n \in 1..Len(name) : name[n] # EQ
    BY <1>2
  <2> QED BY <1>1, <2>1, <2>2
<1>3. CASE S # {}
  <2>1. Min(S) \in S /\ \A y \in S : Min(S) <= y
    <3> HIDE DEF S
    <3> QED BY <1>1, <1>3, MinIs
  <2>2. Key(name) = SubSeq(name, 1, Min(S) - 1)
    BY <1>3, Zenon DEF Key
  <2> DEFINE c == Min(S)
  <2>3. c \in 1..Len(name) /\ name[c] = EQ
    BY <2>1
  <2>4. \A n \in 1..(c - 1) : name[n] # EQ
    <3> SUFFICES ASSUME NEW n \in 1..(c - 1), name[n] = EQ PROVE FALSE
      OBVIOUS
    <3>1. n \in 1..Len(name) /\ n < c
      BY <1>1, <2>3
    <3>2. n \in S
      BY <3>1
    <3>3. c <= n
      BY <2>1, <3>2, Zenon
    <3> QED BY <1>1, <2>3, <3>1, <3>3
  <2> HIDE DEF c, S
  <2>5. Key(name) = SubSeq(name, 1, c - 1)
    BY <2>2 DEF c
  <2>6. /\ Key(name) \in Seq(Chars) /\ Len(Key(name)) = c - 1
        /\ \A n \in 1..(c - 1) : Key(name)[n] = name[n]
    BY <1>1, <2>3, <2>5, SubSeqProperties
  <2> QED BY <1>1, <2>3, <2>4, <2>6
<1> QED BY <1>2, <1>3

LEMMA KeyOfKey ==
  ASSUME NEW k \in Keys
  PROVE  k \in Seq(Chars) /\ Key(k) = k /\ \A n \in 1..Len(k) : k[n] # EQ
<1>1. PICK name \in Names : k = Key(name)
  BY Zenon DEF Keys
<1>2. name \in Seq(Chars)
  BY EnvAssumption
<1>3. /\ k \in Seq(Chars)
      /\ \A n \in 1..Len(k) : k[n] = name[n] /\ name[n] # EQ
  BY <1>1, <1>2, KeyIs, Zenon
<1> DEFINE c == Len(Key(k))
<1>4. /\ Key(k) \in Seq(Chars)
      /\ Key(k) = k \/ (c < Len(k) /\ k[c + 1] = EQ)
  BY <1>3, KeyIs, Zenon
<1>5. c \in Nat /\ Len(k) \in Nat
  BY <1>3, <1>4, LenProperties
<1>6. ~(c < Len(k) /\ k[c + 1] = EQ)
  <2> SUFFICES ASSUME c < Len(k), k[c + 1] = EQ PROVE FALSE
    OBVIOUS
  <2>1. c + 1 \in 1..Len(k)
    BY <1>5
  <2> QED BY <1>3, <2>1
<1>7. \A n \in 1..Len(k) : k[n] # EQ
  BY <1>3
<1> QED BY <1>3, <1>4, <1>6, <1>7, Zenon

LEMMA PlainKey ==
  ASSUME NEW k \in Protected \union Followed
  PROVE  k \in Names /\ k \in Keys /\ Key(k) = k
<1>1. /\ k \in Names /\ k \in Seq(Chars)
      /\ \A n \in 1..Len(k) : k[n] # EQ
  BY EnvAssumption
<1> DEFINE c == Len(Key(k))
<1>2. /\ Key(k) \in Seq(Chars)
      /\ Key(k) = k \/ (c < Len(k) /\ k[c + 1] = EQ)
  BY <1>1, KeyIs, Zenon
<1>3. c \in Nat /\ Len(k) \in Nat
  BY <1>1, <1>2, LenProperties
<1>4. ~(c < Len(k) /\ k[c + 1] = EQ)
  <2> SUFFICES ASSUME c < Len(k), k[c + 1] = EQ PROVE FALSE
    OBVIOUS
  <2>1. c + 1 \in 1..Len(k)
    BY <1>3
  <2> QED BY <1>1, <2>1
<1>5. Key(k) = k
  BY <1>2, <1>4, Zenon
<1> QED BY <1>1, <1>5, Zenon DEF Keys

LEMMA MatchDefines ==
  ASSUME NEW m, NEW e, Listed(m, e), NEW name \in Seq(Chars),
         NEW i \in Matches(m, name)
  PROVE  Defines(m, e, Key(name), i, EntryEnd(m, i))
<1> DEFINE k == Key(name)
           n == Len(k)
           j == EntryEnd(m, i)
<1>1. /\ e \in Nat /\ n \in Nat /\ NUL \notin Chars /\ EQ \in Chars
      /\ k \in Seq(Chars)
  BY KeyIs, LenProperties, EnvAssumption DEF Listed
<1>2. i \in Entries(m) /\ envmatch(m, name, i)
  BY Zenon DEF Matches
<1>3. String(m, e, i, j)
  BY <1>2, FoundString, Zenon
<1>4. /\ i \in 0..e /\ j \in 0..e /\ i < j /\ m[j] = NUL
  BY <1>3, Zenon DEF String
<1> HIDE DEF k, j
<1>5. (\A a \in 1..n : m[i + a - 1] = k[a]) /\ m[i + n] = EQ
  BY <1>2, Zenon DEF envmatch, k
<1>6. i + n < j
  <2> SUFFICES ASSUME j <= i + n PROVE FALSE
    BY <1>1, <1>4
  <2>1. CASE j = i + n
    BY <1>1, <1>4, <1>5, <2>1
  <2>2. CASE j # i + n
    <3>1. j - i + 1 \in 1..n /\ i + (j - i + 1) - 1 = j
      BY <1>1, <1>4, <2>2
    <3>2. m[j] = k[j - i + 1]
      BY <1>5, <3>1
    <3>3. k[j - i + 1] \in Chars
      BY <1>1, <3>1, ElementOfSeq
    <3> QED BY <1>1, <1>4, <3>2, <3>3
  <2> QED BY <2>1, <2>2
<1> QED BY <1>3, <1>5, <1>6, Zenon DEF Defines, k, j

LEMMA DefinesMatch ==
  ASSUME NEW m, NEW e, Listed(m, e), NEW name \in Seq(Chars),
         NEW i, NEW j, Defines(m, e, Key(name), i, j)
  PROVE  i \in Matches(m, name) /\ j = EntryEnd(m, i)
<1> DEFINE n == Len(Key(name))
<1>1. /\ e \in 0..(ENV_SIZE - 2) /\ ENV_SIZE \in Nat /\ n \in Nat
  BY KeyIs, LenProperties, Size DEF Listed
<1>2. /\ String(m, e, i, j) /\ i + n < j
      /\ \A a \in 1..n : m[i + a - 1] = Key(name)[a]
      /\ m[i + n] = EQ
  BY Zenon DEF Defines
<1>3. i \in Entries(m) /\ j = EntryEnd(m, i)
  BY <1>2, StringFound, Zenon
<1>4. i \in 0..e /\ j \in 0..e
  BY <1>2, Zenon DEF String
<1>5. i + n < ENV_SIZE
  BY <1>1, <1>2, <1>4
<1>6. envmatch(m, name, i)
  BY <1>2, <1>5, Zenon DEF envmatch
<1> QED BY <1>3, <1>6, Zenon DEF Matches
-----------------------------------------------------------------------------
(* Deleting the string at gone.  A string of the list m2 that it leaves,   *)
(* with the end e2, was in the list m, at the same place if it is before   *)
(* that string and otherwise L further on.                                 *)
Same(m, m2, i, j) == \A a \in i..j : m2[a] = m[a]
Moved(m, m2, i, j, L) == \A a \in i..j : m2[a] = m[a + L]

Kept(m, e, m2, e2, gone, L) ==
  \A i, j \in 0..e2 :
    String(m2, e2, i, j) =>
      \/ i < gone /\ String(m, e, i, j) /\ Same(m, m2, i, j)
      \/ /\ i >= gone /\ L > 0 /\ String(m, e, i + L, j + L)
         /\ Moved(m, m2, i, j, L)

(* The first string is the last one, ... *)
LEMMA DeleteOnly ==
  ASSUME NEW m \in Store, NEW e, Listed(m, e), NEW m2,
         m2 = [m EXCEPT ![0] = NUL, ![1] = NUL]
  PROVE  m2 \in Store /\ Listed(m2, 0) /\ Kept(m, e, m2, 0, 0, 0)
<1>1. ENV_SIZE \in Nat /\ ENV_SIZE > 1
  BY Size
<1>2. 0 \in Addrs /\ 1 \in Addrs /\ 0 \in 0..(ENV_SIZE - 2)
  BY <1>1 DEF Addrs
<1>3. m2 \in Store /\ m2[0] = NUL /\ m2[1] = NUL
  BY <1>2 DEF Store
<1>4. Listed(m2, 0)
  BY <1>2, <1>3 DEF Listed
<1>5. Kept(m, e, m2, 0, 0, 0)
  BY DEF Kept, String
<1> QED BY <1>3, <1>4, <1>5

(* ... another string is the last one, ... *)
LEMMA DeleteLast ==
  ASSUME NEW m \in Store, NEW e, Listed(m, e), NEW env, NEW q,
         String(m, e, env, q), env > 0, NEW m2, m2 = [m EXCEPT ![env] = NUL]
  PROVE  /\ m2 \in Store /\ env - 1 \in Nat
         /\ Listed(m2, env - 1) /\ Kept(m, e, m2, env - 1, env, 0)
<1>1. e \in 0..(ENV_SIZE - 2) /\ ENV_SIZE \in Nat /\ ENV_SIZE > 1
  BY Size DEF Listed
<1>2. env \in 1..e /\ m[env - 1] = NUL /\ e # 0
  BY <1>1 DEF String, Begins
<1>3. m2 \in Store /\ m2[env] = NUL
  BY <1>1, <1>2 DEF Store, Addrs
<1>4. \A a \in 0..(env - 1) : m2[a] = m[a]
  BY <1>1, <1>2 DEF Store, Addrs
<1>5. Listed(m2, env - 1)
  <2>1. env - 1 \in 0..(ENV_SIZE - 2) /\ (env - 1) + 1 = env
    BY <1>1, <1>2
  <2>2. m2[env - 1] = NUL /\ m2[0] # NUL
    <3>1. m[0] # NUL
      BY <1>2 DEF Listed
    <3>2. 0 \in 0..(env - 1) /\ env - 1 \in 0..(env - 1)
      BY <1>2
    <3> QED BY <1>2, <1>4, <3>1, <3>2
  <2>3. \A a \in 0..((env - 1) - 1) : m2[a] # NUL \/ m2[a + 1] # NUL
    <3> SUFFICES ASSUME NEW a \in 0..((env - 1) - 1)
                 PROVE  m2[a] # NUL \/ m2[a + 1] # NUL
      OBVIOUS
    <3>1. /\ a \in 0..(env - 1) /\ a + 1 \in 0..(env - 1)
          /\ a \in 0..(e - 1)
      BY <1>1, <1>2
    <3>2. m[a] # NUL \/ m[a + 1] # NUL
      BY <3>1 DEF Listed
    <3> QED BY <1>4, <3>1, <3>2
  <2> QED BY <1>3, <2>1, <2>2, <2>3 DEF Listed
<1>6. Kept(m, e, m2, env - 1, env, 0)
  <2> SUFFICES ASSUME NEW i \in 0..(env - 1), NEW j \in 0..(env - 1),
                      String(m2, env - 1, i, j)
               PROVE  /\ i < env /\ String(m, e, i, j)
                      /\ \A a \in i..j : m2[a] = m[a]
    BY Zenon DEF Kept, Same, Moved
  <2>1. /\ i < j /\ Begins(m2, i) /\ m2[j] = NUL
        /\ \A a \in i..(j - 1) : m2[a] # NUL
    BY Zenon DEF String
  <2>2. \A a \in i..j : a \in 0..(env - 1)
    BY <1>2
  <2>3. \A a \in i..j : m2[a] = m[a]
    BY <1>4, <2>2
  <2>4. Begins(m, i)
    <3>1. CASE i = 0
      BY <3>1 DEF Begins
    <3>2. CASE i # 0
      <4>1. m2[i - 1] = NUL /\ i - 1 \in 0..(env - 1)
        BY <1>2, <2>1, <3>2 DEF Begins
      <4> QED BY <1>4, <4>1 DEF Begins
    <3> QED BY <3>1, <3>2
  <2>5. i \in 0..e /\ j \in 0..e /\ i < env
    BY <1>1, <1>2
  <2>6. m[j] = NUL
    BY <1>4, <2>1
  <2>7. \A a \in i..(j - 1) : m[a] # NUL
    BY <1>2, <2>1, <2>3
  <2> QED BY <2>1, <2>3, <2>4, <2>5, <2>6, <2>7 DEF String
<1> QED BY <1>2, <1>3, <1>5, <1>6

(* ... or the strings behind it are moved down. *)
LEMMA DeleteMove ==
  ASSUME NEW m \in Store, NEW e, Listed(m, e), NEW env, NEW q,
         String(m, e, env, q), m[q + 1] # NUL, NEW m2 \in Store,
         \A a \in env..(env + e - (q + 1)) : m2[a] = m[q + 1 + a - env],
         m2[env + e - (q + 1) + 1] = NUL,
         \A a \in 0..(env - 1) : m2[a] = m[a]
  PROVE  /\ env + e - (q + 1) \in Nat
         /\ Listed(m2, env + e - (q + 1))
         /\ Kept(m, e, m2, env + e - (q + 1), env, q + 1 - env)
<1> DEFINE L == q + 1 - env
           z == env + e - (q + 1)
<1>1. e \in 0..(ENV_SIZE - 2) /\ ENV_SIZE \in Nat /\ ENV_SIZE > 1
  BY Size DEF Listed
<1>2. /\ env \in 0..e /\ q \in 0..e /\ env < q /\ Begins(m, env)
      /\ m[q] = NUL
  BY Zenon DEF String
<1>3. q < e /\ e # 0
  <2>1. q # e
    BY DEF Listed
  <2> QED BY <1>1, <1>2, <2>1
<1>4. L \in Nat /\ L > 0 /\ z \in Nat /\ z = e - L /\ env <= z /\ z < e
  BY <1>1, <1>2, <1>3
<1>5. \A a \in env..z : m2[a] = m[a + L]
  <2> SUFFICES ASSUME NEW a \in env..z PROVE m2[a] = m[a + L]
    OBVIOUS
  <2>1. q + 1 + a - env = a + L
    BY <1>2
  <2> QED BY <2>1
<1>6. m2[z + 1] = NUL /\ \A a \in 0..(env - 1) : m2[a] = m[a]
  OBVIOUS
<1>7. m[env + L] # NUL
  <2>1. env + L = q + 1
    BY <1>2
  <2> QED BY <2>1
<1>8. env + L - 1 = q
  BY <1>2
<1>9. /\ z = env + e - (q + 1) /\ L = q + 1 - env
  OBVIOUS
<1> HIDE DEF L, z
<1>10. Listed(m2, z)
  <2>1. z \in 0..(ENV_SIZE - 2)
    BY <1>1, <1>4
  <2>2. m2[z] = NUL
    <3>1. z \in env..z /\ z + L = e
      BY <1>1, <1>2, <1>4
    <3> QED BY <1>5, <3>1 DEF Listed
  <2>3. m2[env] # NUL
    BY <1>2, <1>4, <1>5, <1>7
  <2>4. m2[0] # NUL
    <3>1. CASE env = 0
      BY <2>3, <3>1
    <3>2. CASE env # 0
      <4>1. 0 \in 0..(env - 1)
        BY <1>2, <3>2
      <4> QED BY <1>3, <1>6, <4>1 DEF Listed
    <3> QED BY <3>1, <3>2
  <2>5. \A a \in 0..(z - 1) : m2[a] # NUL \/ m2[a + 1] # NUL
    <3> SUFFICES ASSUME NEW a \in 0..(z - 1)
                 PROVE  m2[a] # NUL \/ m2[a + 1] # NUL
      OBVIOUS
    <3>1. CASE a + 1 < env
      <4>1. a \in 0..(env - 1) /\ a + 1 \in 0..(env - 1) /\ a \in 0..(e - 1)
        BY <1>1, <1>2, <1>4, <3>1
      <4>2. m[a] # NUL \/ m[a + 1] # NUL
        BY <4>1 DEF Listed
      <4> QED BY <1>6, <4>1, <4>2
    <3>2. CASE a + 1 = env
      BY <2>3, <3>2
    <3>3. CASE a + 1 > env
      <4>1. /\ a \in env..z /\ a + 1 \in env..z
            /\ a + L \in 0..(e - 1) /\ (a + 1) + L = (a + L) + 1
        BY <1>1, <1>2, <1>4, <3>3
      <4>2. m[a + L] # NUL \/ m[(a + L) + 1] # NUL
        BY <4>1 DEF Listed
      <4> QED BY <1>5, <4>1, <4>2
    <3> QED BY <1>2, <1>4, <3>1, <3>2, <3>3
  <2> QED BY <1>6, <2>1, <2>2, <2>4, <2>5 DEF Listed
<1>11. Kept(m, e, m2, z, env, L)
  <2> SUFFICES ASSUME NEW i \in 0..z, NEW j \in 0..z, String(m2, z, i, j)
               PROVE  \/ /\ i < env /\ String(m, e, i, j)
                         /\ \A a \in i..j : m2[a] = m[a]
                      \/ /\ i >= env /\ L > 0 /\ String(m, e, i + L, j + L)
                         /\ \A a \in i..j : m2[a] = m[a + L]
    BY Zenon DEF Kept, Same, Moved
  <2>1. /\ i < j /\ Begins(m2, i) /\ m2[j] = NUL
        /\ \A a \in i..(j - 1) : m2[a] # NUL
    BY Zenon DEF String
  <2>2. CASE j < env
    <3>1. \A a \in i..j : m2[a] = m[a]
      BY <1>2, <1>6, <2>2
    <3>2. Begins(m, i)
      <4>1. CASE i = 0
        BY <4>1 DEF Begins
      <4>2. CASE i # 0
        <5>1. m2[i - 1] = NUL /\ i - 1 \in 0..(env - 1)
          BY <1>2, <2>1, <2>2, <4>2 DEF Begins
        <5> QED BY <1>6, <5>1 DEF Begins
      <4> QED BY <4>1, <4>2
    <3>3. i \in 0..e /\ j \in 0..e /\ i < env
      BY <1>1, <1>2, <1>4, <2>1, <2>2
    <3>4. m[j] = NUL /\ \A a \in i..(j - 1) : m[a] # NUL
      BY <2>1, <3>1
    <3> QED BY <2>1, <3>1, <3>2, <3>3, <3>4 DEF String
  <2>3. CASE i >= env
    <3>1. \A a \in i..j : m2[a] = m[a + L]
      <4>1. \A a \in i..j : a \in env..z
        BY <1>2, <1>4, <2>3
      <4> QED BY <1>5, <4>1
    <3>2. Begins(m, i + L)
      <4>1. CASE i = env
        <5>1. (i + L) - 1 = q
          BY <1>2, <1>4, <1>8, <4>1
        <5>2. m[(i + L) - 1] = NUL
          BY <1>2, <5>1, Zenon
        <5> QED BY <5>2, Zenon DEF Begins
      <4>2. CASE i # env
        <5>1. /\ i - 1 \in env..z /\ (i - 1) + L = (i + L) - 1 /\ i # 0
          BY <1>2, <1>4, <2>3, <4>2
        <5>2. m2[i - 1] = NUL
          BY <2>1, <5>1 DEF Begins
        <5> QED BY <1>5, <5>1, <5>2 DEF Begins
      <4> QED BY <4>1, <4>2
    <3>3. i + L \in 0..e /\ j + L \in 0..e /\ i + L < j + L
      BY <1>1, <1>4, <2>1
    <3>4. m[j + L] = NUL
      BY <2>1, <3>1
    <3>5. \A a \in (i + L)..((j + L) - 1) : m[a] # NUL
      <4> SUFFICES ASSUME NEW a \in (i + L)..((j + L) - 1) PROVE m[a] # NUL
        OBVIOUS
      <4>1. a - L \in i..(j - 1) /\ a - L \in i..j /\ (a - L) + L = a
        BY <1>4
      <4> QED BY <2>1, <3>1, <4>1
    <3> QED BY <1>4, <2>3, <3>1, <3>2, <3>3, <3>4, <3>5 DEF String
  <2>4. CASE i < env /\ env <= j
    <3>1. /\ env - 1 \in i..(j - 1) /\ env - 1 \in 0..(env - 1) /\ env # 0
      BY <1>2, <2>4
    <3>2. m[env - 1] = NUL
      BY <1>2, <3>1 DEF Begins
    <3> QED BY <1>6, <2>1, <3>1, <3>2
  <2> QED BY <1>2, <2>2, <2>3, <2>4
<1> QED BY <1>4, <1>9, <1>10, <1>11

(* Conversely the other strings are carried over, and the list is shorter  *)
(* by what the string took.                                                *)
Carried(m, m2, i, j, i2, j2) ==
  /\ j2 - i2 = j - i
  /\ \A a \in 0..(j - i) : m2[i2 + a] = m[i + a]

Left(m, e, m2, e2, gone) ==
  \A i, j \in 0..e :
    String(m, e, i, j) /\ i # gone =>
      \E i2, j2 \in 0..e2 : /\ String(m2, e2, i2, j2)
                            /\ Carried(m, m2, i, j, i2, j2)

End(e) == IF e = 0 THEN 0 ELSE e + 1
Shrunk(e, e2, n) == End(e2) = End(e) - n

(* The last string ends where the list does, and no other begins in it. *)
LEMMA LastString ==
  ASSUME NEW m, NEW e, Listed(m, e), NEW env, NEW q, String(m, e, env, q),
         m[q + 1] = NUL
  PROVE  q = e /\ \A i, j \in 0..e : String(m, e, i, j) => i <= env
<1>1. /\ e \in Nat /\ env \in 0..e /\ q \in 0..e /\ env < q /\ m[q] = NUL
      /\ \A a \in env..(q - 1) : m[a] # NUL
  BY DEF Listed, String
<1>2. q = e
  <2> SUFFICES ASSUME q # e PROVE FALSE
    OBVIOUS
  <2>1. q \in 0..(e - 1)
    BY <1>1
  <2> QED BY <1>1, <2>1 DEF Listed
<1>3. ASSUME NEW i \in 0..e, NEW j \in 0..e, String(m, e, i, j) PROVE i <= env
  <2> SUFFICES ASSUME env < i PROVE FALSE
    BY <1>1
  <2>1. i < j /\ Begins(m, i)
    BY <1>3, Zenon DEF String
  <2>2. i # 0 /\ i - 1 \in env..(q - 1)
    BY <1>1, <1>2, <2>1
  <2> QED BY <1>1, <2>1, <2>2 DEF Begins
<1> QED BY <1>2, <1>3

LEMMA DeleteOnlyLeaves ==
  ASSUME NEW m, NEW e, Listed(m, e), NEW q, String(m, e, 0, q), m[q + 1] = NUL,
         NEW m2
  PROVE  Left(m, e, m2, 0, 0) /\ Shrunk(e, 0, q + 1 - 0)
<1>1. q = e /\ \A i, j \in 0..e : String(m, e, i, j) => i <= 0
  BY LastString
<1>2. e \in Nat /\ q > 0
  BY DEF Listed, String
<1>3. Left(m, e, m2, 0, 0)
  BY <1>1, <1>2 DEF Left
<1>4. Shrunk(e, 0, q + 1 - 0)
  BY <1>1, <1>2 DEF Shrunk, End
<1> QED BY <1>3, <1>4

LEMMA DeleteLastLeaves ==
  ASSUME NEW m \in Store, NEW e, Listed(m, e), NEW env, NEW q,
         String(m, e, env, q), m[q + 1] = NUL, env > 0,
         NEW m2, m2 = [m EXCEPT ![env] = NUL]
  PROVE  Left(m, e, m2, env - 1, env) /\ Shrunk(e, env - 1, q + 1 - env)
<1>1. q = e /\ \A i, j \in 0..e : String(m, e, i, j) => i <= env
  BY LastString
<1>2. /\ e \in 0..(ENV_SIZE - 2) /\ ENV_SIZE \in Nat /\ e \in Nat
      /\ env \in 1..e /\ env < q /\ m[env - 1] = NUL /\ m[0] # NUL
  BY Size DEF Listed, String, Begins
<1>3. env # 1
  BY <1>2
<1>4. \A a \in 0..(env - 1) : m2[a] = m[a]
  BY <1>2 DEF Store, Addrs
<1>5. Left(m, e, m2, env - 1, env)
  <2> SUFFICES ASSUME NEW i \in 0..e, NEW j \in 0..e, String(m, e, i, j), i # env
               PROVE  \E i2, j2 \in 0..(env - 1) :
                         /\ String(m2, env - 1, i2, j2)
                         /\ Carried(m, m2, i, j, i2, j2)
    BY DEF Left
  <2>1. /\ i < j /\ Begins(m, i) /\ m[j] = NUL
        /\ \A a \in i..(j - 1) : m[a] # NUL
    BY Zenon DEF String
  <2>2. i < env
    BY <1>1, <1>2
  <2>3. j < env
    <3> SUFFICES ASSUME ~(j < env) PROVE FALSE
      OBVIOUS
    <3>1. env - 1 \in i..(j - 1)
      BY <1>2, <2>2
    <3> QED BY <1>2, <2>1, <3>1
  <2>4. i \in 0..(env - 1) /\ j \in 0..(env - 1)
    BY <1>2, <2>2, <2>3
  <2>5. Begins(m2, i)
    <3>1. CASE i = 0
      BY <3>1 DEF Begins
    <3>2. CASE i # 0
      <4>1. m[i - 1] = NUL /\ i - 1 \in 0..(env - 1)
        BY <1>2, <2>1, <2>2, <3>2 DEF Begins
      <4> QED BY <1>4, <4>1 DEF Begins
    <3> QED BY <3>1, <3>2
  <2>6. m2[j] = NUL /\ \A a \in i..(j - 1) : m2[a] # NUL
    BY <1>2, <1>4, <2>1, <2>3, <2>4
  <2>7. String(m2, env - 1, i, j)
    BY <2>1, <2>4, <2>5, <2>6 DEF String
  <2>8. Carried(m, m2, i, j, i, j)
    <3>1. \A a \in 0..(j - i) : i + a \in 0..(env - 1)
      BY <1>2, <2>3
    <3> QED BY <1>4, <3>1 DEF Carried
  <2> QED BY <2>4, <2>7, <2>8, Zenon
<1>6. Shrunk(e, env - 1, q + 1 - env)
  BY <1>1, <1>2, <1>3 DEF Shrunk, End
<1> QED BY <1>5, <1>6

LEMMA DeleteMoveLeaves ==
  ASSUME NEW m \in Store, NEW e, Listed(m, e), NEW env, NEW q,
         String(m, e, env, q), m[q + 1] # NUL, NEW m2 \in Store,
         \A a \in env..(env + e - (q + 1)) : m2[a] = m[q + 1 + a - env],
         \A a \in 0..(env - 1) : m2[a] = m[a]
  PROVE  /\ Left(m, e, m2, env + e - (q + 1), env)
         /\ Shrunk(e, env + e - (q + 1), q + 1 - env)
<1> DEFINE L == q + 1 - env
           z == env + e - (q + 1)
<1>1. /\ e \in Nat /\ env \in 0..e /\ q \in 0..e /\ env < q /\ m[q] = NUL
      /\ m[e] = NUL /\ m[e + 1] = NUL /\ Begins(m, env)
      /\ \A a \in env..(q - 1) : m[a] # NUL
  BY DEF Listed, String
<1>2. q + 1 < e
  BY <1>1
<1>3. L \in Nat /\ L > 0 /\ z = e - L /\ env < z /\ z \in Nat /\ env + L = q + 1
  BY <1>1, <1>2
<1>4. \A a \in env..z : m2[a] = m[a + L]
  <2> SUFFICES ASSUME NEW a \in env..z PROVE m2[a] = m[a + L]
    OBVIOUS
  <2>1. q + 1 + a - env = a + L
    BY <1>1
  <2> QED BY <2>1
<1>5. \A a \in 0..(env - 1) : m2[a] = m[a]
  OBVIOUS
<1>6. Shrunk(e, z, L)
  BY <1>1, <1>3 DEF Shrunk, End
<1> HIDE DEF L, z
<1>7. Left(m, e, m2, z, env)
  <2> SUFFICES ASSUME NEW i \in 0..e, NEW j \in 0..e, String(m, e, i, j), i # env
               PROVE  \E i2, j2 \in 0..z : /\ String(m2, z, i2, j2)
                                           /\ Carried(m, m2, i, j, i2, j2)
    BY DEF Left
  <2>1. /\ i < j /\ Begins(m, i) /\ m[j] = NUL
        /\ \A a \in i..(j - 1) : m[a] # NUL
    BY Zenon DEF String
  <2>2. CASE i < env
    <3>1. j < env
      <4> SUFFICES ASSUME ~(j < env) PROVE FALSE
        OBVIOUS
      <4>1. env - 1 \in i..(j - 1) /\ env # 0
        BY <1>1, <2>2
      <4> QED BY <1>1, <2>1, <4>1 DEF Begins
    <3>2. i \in 0..z /\ j \in 0..z
      BY <1>1, <1>3, <2>2, <3>1
    <3>3. Begins(m2, i)
      <4>1. CASE i = 0
        BY <4>1 DEF Begins
      <4>2. CASE i # 0
        <5>1. m[i - 1] = NUL /\ i - 1 \in 0..(env - 1)
          BY <1>1, <2>1, <2>2, <4>2 DEF Begins
        <5> QED BY <1>5, <5>1 DEF Begins
      <4> QED BY <4>1, <4>2
    <3>4. m2[j] = NUL /\ \A a \in i..(j - 1) : m2[a] # NUL
      BY <1>1, <1>5, <2>1, <3>1
    <3>5. String(m2, z, i, j)
      BY <2>1, <3>2, <3>3, <3>4 DEF String
    <3>6. Carried(m, m2, i, j, i, j)
      <4>1. \A a \in 0..(j - i) : i + a \in 0..(env - 1)
        BY <1>1, <3>1
      <4> QED BY <1>5, <4>1 DEF Carried
    <3> QED BY <3>2, <3>5, <3>6, Zenon
  <2>3. CASE i > env
    <3>1. i >= q + 1
      <4> SUFFICES ASSUME i <= q PROVE FALSE
        BY <1>1
      <4>1. i # 0 /\ i - 1 \in env..(q - 1)
        BY <1>1, <2>3
      <4> QED BY <1>1, <2>1, <4>1 DEF Begins
    <3>2. /\ i - L \in 0..z /\ j - L \in 0..z /\ i - L >= env /\ i - L < j - L
          /\ i - L \in env..z /\ j - L \in env..z
          /\ (i - L) + L = i /\ (j - L) + L = j
      BY <1>1, <1>3, <2>1, <3>1
    <3>3. Begins(m2, i - L)
      <4>1. CASE i - L = env
        <5>1. CASE env = 0
          BY <4>1, <5>1 DEF Begins
        <5>2. CASE env # 0
          <6>1. env - 1 \in 0..(env - 1) /\ m[env - 1] = NUL
            BY <1>1, <5>2 DEF Begins
          <6>2. m2[env - 1] = NUL
            BY <1>5, <6>1
          <6> QED BY <4>1, <6>2 DEF Begins
        <5> QED BY <5>1, <5>2
      <4>2. CASE i - L # env
        <5>1. /\ (i - L) - 1 \in env..z /\ ((i - L) - 1) + L = i - 1 /\ i # 0
          BY <1>1, <1>3, <3>2, <4>2
        <5>2. m[i - 1] = NUL
          BY <2>1, <5>1 DEF Begins
        <5>3. m2[(i - L) - 1] = NUL
          BY <1>4, <5>1, <5>2
        <5> QED BY <5>3 DEF Begins
      <4> QED BY <4>1, <4>2
    <3>4. m2[j - L] = NUL
      BY <1>4, <2>1, <3>2
    <3>5. \A a \in (i - L)..((j - L) - 1) : m2[a] # NUL
      <4> SUFFICES ASSUME NEW a \in (i - L)..((j - L) - 1) PROVE m2[a] # NUL
        OBVIOUS
      <4>1. a \in env..z /\ a + L \in i..(j - 1)
        BY <1>1, <1>3, <3>2
      <4> QED BY <1>4, <2>1, <4>1
    <3>6. String(m2, z, i - L, j - L)
      BY <3>2, <3>3, <3>4, <3>5 DEF String
    <3>7. Carried(m, m2, i, j, i - L, j - L)
      <4>1. (j - L) - (i - L) = j - i
        BY <1>3
      <4>2. ASSUME NEW a \in 0..(j - i) PROVE m2[(i - L) + a] = m[i + a]
        <5>1. (i - L) + a \in env..z /\ ((i - L) + a) + L = i + a
          BY <1>1, <1>3, <3>2
        <5> QED BY <1>4, <5>1
      <4> QED BY <4>1, <4>2 DEF Carried
    <3> QED BY <3>2, <3>6, <3>7, Zenon
  <2> QED BY <1>1, <2>2, <2>3
<1> QED BY <1>6, <1>7 DEF L, z

(* Deleted, as a whole *)
LEMMA DeletedKeeps ==
  ASSUME NEW m \in Store, NEW e, Listed(m, e), NEW env \in Entries(m)
  PROVE  /\ Deleted(m, env) \in Store
         /\ \E e2 \in 0..(ENV_SIZE - 2), L \in Nat :
              /\ Listed(Deleted(m, env), e2)
              /\ Kept(m, e, Deleted(m, env), e2, env, L)
              /\ Left(m, e, Deleted(m, env), e2, env)
              /\ Shrunk(e, e2, EntryEnd(m, env) + 1 - env)
<1> DEFINE q == EntryEnd(m, env)
           m2 == Deleted(m, env)
<1>1. e \in 0..(ENV_SIZE - 2) /\ ENV_SIZE \in Nat /\ ENV_SIZE > 1
  BY Size DEF Listed
<1>2. String(m, e, env, q) /\ env \in 0..e /\ q \in 0..e /\ env < q
  BY FoundString, Zenon DEF String
<1>3. CASE m[q + 1] = NUL /\ env = 0
  <2>1. m2 = [m EXCEPT ![0] = NUL, ![1] = NUL]
    BY <1>3 DEF Deleted
  <2>2. m2 \in Store /\ Listed(m2, 0) /\ Kept(m, e, m2, 0, 0, 0)
    <3> HIDE DEF m2
    <3> QED BY <2>1, DeleteOnly, Zenon
  <2>3. 0 \in 0..(ENV_SIZE - 2) /\ 0 \in Nat
    BY <1>1
  <2>4. Left(m, e, m2, 0, 0) /\ Shrunk(e, 0, q + 1 - 0)
    <3>1. String(m, e, 0, q)
      BY <1>2, <1>3
    <3> HIDE DEF m2, q
    <3> QED BY <1>3, <3>1, DeleteOnlyLeaves, Zenon
  <2> QED BY <1>3, <2>2, <2>3, <2>4, Zenon
<1>4. CASE m[q + 1] = NUL /\ env # 0
  <2>1. env > 0
    BY <1>2, <1>4
  <2>2. m2 = [m EXCEPT ![env] = NUL]
    BY <1>4, <2>1 DEF Deleted
  <2>3. /\ m2 \in Store
        /\ Listed(m2, env - 1) /\ Kept(m, e, m2, env - 1, env, 0)
    <3> HIDE DEF m2, q
    <3> QED BY <1>2, <2>1, <2>2, DeleteLast, Zenon
  <2>4. env - 1 \in 0..(ENV_SIZE - 2) /\ 0 \in Nat
    BY <1>1, <1>2, <2>1
  <2>5. Left(m, e, m2, env - 1, env) /\ Shrunk(e, env - 1, q + 1 - env)
    <3> HIDE DEF m2, q
    <3> QED BY <1>2, <1>4, <2>1, <2>2, DeleteLastLeaves, Zenon
  <2> QED BY <2>3, <2>4, <2>5, Zenon
<1>5. CASE m[q + 1] # NUL
  <2> DEFINE nxt == q + 1
             d == DoubleNul(m, nxt) - nxt
             f(a) == CASE a \in env..(env + d) -> m[nxt + a - env]
                       [] a = env + d + 1 -> NUL
                       [] OTHER -> m[a]
  <2>1. m2 = [a \in Addrs |-> f(a)]
    BY <1>5 DEF Deleted
  <2>2. q < e
    <3>1. q # e
      BY <1>5 DEF Listed
    <3> QED BY <1>1, <1>2, <3>1
  <2>3. nxt \in 0..e
    BY <1>1, <1>2, <2>2
  <2>4. d = e - nxt
    BY <2>3, FoundDoubleNul
  <2> HIDE DEF m2, q
  <2>5. /\ nxt = q + 1 /\ d \in Nat /\ d = e - (q + 1)
        /\ env + d = env + e - (q + 1) /\ env + d + 1 <= e /\ env \in Nat
    BY <1>1, <1>2, <2>2, <2>4
  <2> HIDE DEF d
  <2>6. \A a \in env..(env + d) : a \in Addrs /\ m2[a] = m[q + 1 + a - env]
    BY <1>1, <2>1, <2>5 DEF Addrs
  <2>7. m2[env + d + 1] = NUL
    <3>1. env + d + 1 \in Addrs /\ ~(env + d + 1 \in env..(env + d))
      BY <1>1, <2>5 DEF Addrs
    <3> QED BY <2>1, <3>1
  <2>8. \A a \in 0..(env - 1) : m2[a] = m[a]
    <3> SUFFICES ASSUME NEW a \in 0..(env - 1) PROVE m2[a] = m[a]
      OBVIOUS
    <3>1. a \in Addrs /\ ~(a \in env..(env + d)) /\ a # env + d + 1
      BY <1>1, <2>5 DEF Addrs
    <3> QED BY <2>1, <3>1
  <2>9. m2 \in Store
    <3> SUFFICES ASSUME NEW a \in Addrs PROVE f(a) \in Chars \union {NUL}
      BY <2>1 DEF Store
    <3>1. CASE a \in env..(env + d)
      <4>1. nxt + a - env \in Addrs
        BY <1>1, <1>2, <2>5, <3>1 DEF Addrs
      <4> QED BY <3>1, <4>1 DEF Store
    <3>2. CASE ~(a \in env..(env + d)) /\ a = env + d + 1
      BY <3>2
    <3>3. CASE ~(a \in env..(env + d)) /\ a # env + d + 1
      BY <3>3 DEF Store
    <3> QED BY <3>1, <3>2, <3>3
  <2>10. /\ \A a \in env..(env + e - (q + 1)) : m2[a] = m[q + 1 + a - env]
         /\ m2[env + e - (q + 1) + 1] = NUL
    BY <2>5, <2>6, <2>7
  <2>11. /\ Listed(m2, env + e - (q + 1))
         /\ Kept(m, e, m2, env + e - (q + 1), env, q + 1 - env)
    BY <1>2, <1>5, <2>8, <2>9, <2>10, DeleteMove, Zenon
  <2>12. env + e - (q + 1) \in 0..(ENV_SIZE - 2) /\ q + 1 - env \in Nat
    BY <1>1, <1>2, <2>5
  <2>13. /\ Left(m, e, m2, env + e - (q + 1), env)
         /\ Shrunk(e, env + e - (q + 1), q + 1 - env)
    BY <1>2, <1>5, <2>8, <2>9, <2>10, DeleteMoveLeaves, Zenon
  <2> QED BY <2>9, <2>11, <2>12, <2>13, Zenon DEF m2, q
<1> QED BY <1>3, <1>4, <1>5

LEMMA SameDefines ==
  ASSUME NEW m, NEW e \in Nat, NEW m2, NEW e2 \in Nat, NEW k \in Seq(Chars),
         NEW i \in 0..e2, NEW j \in 0..e2, Defines(m2, e2, k, i, j),
         String(m, e, i, j), Same(m, m2, i, j)
  PROVE  Defines(m, e, k, i, j)
<1>1. Len(k) \in Nat
  BY LenProperties
<1>2. /\ i + Len(k) < j
      /\ \A n \in 1..Len(k) : m2[i + n - 1] = k[n]
      /\ m2[i + Len(k)] = EQ
  BY Zenon DEF Defines
<1>3. \A n \in 1..Len(k) : m[i + n - 1] = k[n]
  <2> SUFFICES ASSUME NEW n \in 1..Len(k) PROVE m[i + n - 1] = k[n]
    OBVIOUS
  <2>1. i + n - 1 \in i..j
    BY <1>1, <1>2
  <2> QED BY <1>2, <2>1 DEF Same
<1>4. m[i + Len(k)] = EQ
  <2>1. i + Len(k) \in i..j
    BY <1>1, <1>2
  <2> QED BY <1>2, <2>1 DEF Same
<1> QED BY <1>2, <1>3, <1>4, Zenon DEF Defines

LEMMA KeptDefines ==
  ASSUME NEW m, NEW e \in Nat, NEW m2, NEW e2 \in Nat, NEW gone \in Nat,
         NEW L \in Nat, Kept(m, e, m2, e2, gone, L), NEW k \in Seq(Chars),
         NEW i \in 0..e2, NEW j \in 0..e2, Defines(m2, e2, k, i, j)
  PROVE  \/ i < gone /\ Defines(m, e, k, i, j) /\ Same(m, m2, i, j)
         \/ /\ i >= gone /\ L > 0 /\ Defines(m, e, k, i + L, j + L)
            /\ Moved(m, m2, i, j, L)
<1>1. Len(k) \in Nat
  BY LenProperties
<1>2. /\ String(m2, e2, i, j) /\ i + Len(k) < j
      /\ \A n \in 1..Len(k) : m2[i + n - 1] = k[n]
      /\ m2[i + Len(k)] = EQ
  BY Zenon DEF Defines
<1>3. CASE i < gone /\ String(m, e, i, j) /\ Same(m, m2, i, j)
  BY <1>3, SameDefines, Zenon
<1>4. CASE /\ i >= gone /\ L > 0 /\ String(m, e, i + L, j + L)
           /\ Moved(m, m2, i, j, L)
  <2>1. \A n \in 1..Len(k) : m[(i + L) + n - 1] = k[n]
    <3> SUFFICES ASSUME NEW n \in 1..Len(k) PROVE m[(i + L) + n - 1] = k[n]
      OBVIOUS
    <3>1. i + n - 1 \in i..j /\ (i + n - 1) + L = (i + L) + n - 1
      BY <1>1, <1>2
    <3>2. m2[i + n - 1] = m[(i + n - 1) + L]
      BY <1>4, <3>1, Zenon DEF Moved
    <3> QED BY <1>2, <3>1, <3>2
  <2>2. m[(i + L) + Len(k)] = EQ
    <3>1. i + Len(k) \in i..j /\ (i + Len(k)) + L = (i + L) + Len(k)
      BY <1>1, <1>2
    <3>2. m2[i + Len(k)] = m[(i + Len(k)) + L]
      BY <1>4, <3>1, Zenon DEF Moved
    <3> QED BY <1>2, <3>1, <3>2
  <2>3. (i + L) + Len(k) < j + L
    BY <1>1, <1>2
  <2> QED BY <1>2, <1>4, <2>1, <2>2, <2>3, Zenon DEF Defines
<1> QED BY <1>2, <1>3, <1>4, Zenon DEF Kept

LEMMA InList ==
  ASSUME NEW m, NEW e, NEW k, NEW i, NEW j, Defines(m, e, k, i, j)
  PROVE  i \in 0..e /\ j \in 0..e
  BY Zenon DEF Defines, String

(* A string defines one variable. *)
LEMMA OneKey ==
  ASSUME NEW m, NEW e, NEW i \in Nat, NEW j, NEW q, NEW k \in Keys, NEW K \in Keys,
         Defines(m, e, k, i, j), Defines(m, e, K, i, q)
  PROVE  k = K
<1> DEFINE c == Len(K)
           p == Len(k)
<1>1. /\ k \in Seq(Chars) /\ \A n \in 1..p : k[n] # EQ
      /\ K \in Seq(Chars) /\ \A n \in 1..c : K[n] # EQ
  BY KeyOfKey, Zenon
<1>2. c \in Nat /\ p \in Nat
  BY <1>1, LenProperties
<1>3. /\ \A n \in 1..p : m[i + n - 1] = k[n]
      /\ m[i + p] = EQ
      /\ \A n \in 1..c : m[i + n - 1] = K[n]
      /\ m[i + c] = EQ
  BY Zenon DEF Defines
<1> HIDE DEF c, p
<1>4. ~(p < c)
  <2> SUFFICES ASSUME p < c PROVE FALSE
    OBVIOUS
  <2>1. p + 1 \in 1..c /\ i + (p + 1) - 1 = i + p
    BY <1>2
  <2> QED BY <1>1, <1>3, <2>1
<1>5. ~(c < p)
  <2> SUFFICES ASSUME c < p PROVE FALSE
    OBVIOUS
  <2>1. c + 1 \in 1..p /\ i + (c + 1) - 1 = i + c
    BY <1>2
  <2> QED BY <1>1, <1>3, <2>1
<1>6. c = p
  BY <1>2, <1>4, <1>5
<1>7. Len(k) = Len(K) /\ \A n \in 1..Len(k) : k[n] = K[n]
  BY <1>3, <1>6 DEF c, p
<1> QED BY <1>1, <1>7, SeqEqual, Zenon

Defined(m, e, k) == \E i, j \in 0..e : Defines(m, e, k, i, j)

LEMMA LeftDefined ==
  ASSUME NEW m, NEW e \in Nat, NEW m2, NEW e2 \in Nat, NEW gone,
         Left(m, e, m2, e2, gone), NEW k \in Seq(Chars),
         NEW i, NEW j, Defines(m, e, k, i, j), i # gone
  PROVE  Defined(m2, e2, k)
<1>1. Len(k) \in Nat
  BY LenProperties
<1>2. /\ String(m, e, i, j) /\ i + Len(k) < j
      /\ \A n \in 1..Len(k) : m[i + n - 1] = k[n]
      /\ m[i + Len(k)] = EQ
      /\ i \in 0..e /\ j \in 0..e
  BY InList, Zenon DEF Defines
<1>3. PICK i2 \in 0..e2, j2 \in 0..e2 :
        String(m2, e2, i2, j2) /\ Carried(m, m2, i, j, i2, j2)
  BY <1>2, Zenon DEF Left
<1>4. /\ j2 - i2 = j - i
      /\ \A a \in 0..(j - i) : m2[i2 + a] = m[i + a]
  BY <1>3, Zenon DEF Carried
<1>5. i2 + Len(k) < j2
  BY <1>1, <1>2, <1>4
<1>6. ASSUME NEW n \in 1..Len(k) PROVE m2[i2 + n - 1] = k[n]
  <2>1. n - 1 \in 0..(j - i) /\ i2 + (n - 1) = i2 + n - 1 /\ i + (n - 1) = i + n - 1
    BY <1>1, <1>2
  <2> QED BY <1>2, <1>4, <2>1
<1>7. m2[i2 + Len(k)] = EQ
  <2>1. Len(k) \in 0..(j - i)
    BY <1>1, <1>2
  <2> QED BY <1>2, <1>4, <2>1
<1>8. Defines(m2, e2, k, i2, j2)
  BY <1>3, <1>5, <1>6, <1>7, Zenon DEF Defines
<1> QED BY <1>8, Zenon DEF Defined

LEMMA KeptOnce ==
  ASSUME NEW m, NEW e \in Nat, NEW m2, NEW e2 \in Nat, NEW gone \in Nat,
         NEW L \in Nat, Kept(m, e, m2, e2, gone, L), NEW k \in Seq(Chars),
         Once(m, e, k)
  PROVE  Once(m2, e2, k)
<1>0. ASSUME NEW i \in 0..e2, NEW j \in 0..e2, Defines(m2, e2, k, i, j)
      PROVE  \/ i < gone /\ Defines(m, e, k, i, j)
             \/ i >= gone /\ L > 0 /\ Defines(m, e, k, i + L, j + L)
  BY <1>0, KeptDefines, Zenon
<1> SUFFICES ASSUME NEW i1 \in 0..e2, NEW i2 \in 0..e2,
                    NEW j1 \in 0..e2, NEW j2 \in 0..e2,
                    Defines(m2, e2, k, i1, j1), Defines(m2, e2, k, i2, j2)
             PROVE  i1 = i2
  BY Zenon DEF Once
<1>1. \A i3, i4, j3, j4 :
        Defines(m, e, k, i3, j3) /\ Defines(m, e, k, i4, j4) => i3 = i4
  BY InList, Zenon DEF Once
<1>2. \/ i1 < gone /\ Defines(m, e, k, i1, j1)
      \/ i1 >= gone /\ L > 0 /\ Defines(m, e, k, i1 + L, j1 + L)
  BY <1>0, Zenon
<1>3. \/ i2 < gone /\ Defines(m, e, k, i2, j2)
      \/ i2 >= gone /\ L > 0 /\ Defines(m, e, k, i2 + L, j2 + L)
  BY <1>0, Zenon
<1>4. i1 = i2 \/ i1 + L = i2 + L \/ (i1 < gone /\ i2 >= gone /\ i1 = i2 + L)
        \/ (i2 < gone /\ i1 >= gone /\ i2 = i1 + L)
  BY <1>1, <1>2, <1>3, Zenon
<1> QED BY <1>4

IsValue(v, m, k, i, j) ==
  v = [n \in 1..(j - i - Len(k) - 1) |-> m[i + Len(k) + n]]

LEMMA SameGives ==
  ASSUME NEW m, NEW e \in Nat, NEW m2, NEW e2 \in Nat, NEW k \in Seq(Chars),
         NEW i \in 0..e2, NEW j \in 0..e2, Same(m, m2, i, j),
         Defines(m, e, k, i, j), NEW v, Gives(m, e, k, v)
  PROVE  IsValue(v, m2, k, i, j)
<1>1. Len(k) \in Nat
  BY LenProperties
<1>2. v = [n \in 1..(j - i - Len(k) - 1) |-> m[i + Len(k) + n]]
  BY InList, Zenon DEF Gives
<1>3. \A n \in 1..(j - i - Len(k) - 1) :
        m[i + Len(k) + n] = m2[i + Len(k) + n]
  <2>1. \A n \in 1..(j - i - Len(k) - 1) : i + Len(k) + n \in i..j
    BY <1>1
  <2> QED BY <2>1 DEF Same
<1> QED BY <1>2, <1>3, Zenon DEF IsValue

LEMMA KeptGives ==
  ASSUME NEW m, NEW e \in Nat, NEW m2, NEW e2 \in Nat, NEW gone \in Nat,
         NEW L \in Nat, Kept(m, e, m2, e2, gone, L), NEW k \in Seq(Chars),
         NEW v, Gives(m, e, k, v)
  PROVE  Gives(m2, e2, k, v)
<1> SUFFICES ASSUME NEW i \in 0..e2, NEW j \in 0..e2, Defines(m2, e2, k, i, j)
             PROVE  v = [n \in 1..(j - i - Len(k) - 1) |-> m2[i + Len(k) + n]]
  BY Zenon DEF Gives
<1>1. Len(k) \in Nat
  BY LenProperties
<1>2. CASE Defines(m, e, k, i, j) /\ Same(m, m2, i, j)
  <2>1. IsValue(v, m2, k, i, j)
    BY <1>2, SameGives, Zenon
  <2> QED BY <2>1, Zenon DEF IsValue
<1>3. CASE Defines(m, e, k, i + L, j + L) /\ Moved(m, m2, i, j, L)
  <2>1. v = [n \in 1..((j + L) - (i + L) - Len(k) - 1) |->
               m[(i + L) + Len(k) + n]]
    BY <1>3, InList, Zenon DEF Gives
  <2>2. (j + L) - (i + L) - Len(k) - 1 = j - i - Len(k) - 1
    BY <1>1
  <2>3. \A n \in 1..(j - i - Len(k) - 1) :
          m[(i + L) + Len(k) + n] = m2[i + Len(k) + n]
    <3> SUFFICES ASSUME NEW n \in 1..(j - i - Len(k) - 1)
                 PROVE  m[(i + L) + Len(k) + n] = m2[i + Len(k) + n]
      OBVIOUS
    <3>1. /\ i + Len(k) + n \in i..j
          /\ (i + Len(k) + n) + L = (i + L) + Len(k) + n
      BY <1>1
    <3>2. m2[i + Len(k) + n] = m[(i + Len(k) + n) + L]
      BY <1>3, <3>1, Zenon DEF Moved
    <3> QED BY <3>1, <3>2
  <2>4. v = [n \in 1..(j - i - Len(k) - 1) |-> m[(i + L) + Len(k) + n]]
    BY <2>1, <2>2, Zenon
  <2> QED BY <2>3, <2>4, Zenon
<1> QED BY <1>2, <1>3, KeptDefines, Zenon

(* What was defined once is gone when its definition is deleted. *)
LEMMA KeptNot ==
  ASSUME NEW m, NEW e \in Nat, NEW m2, NEW e2 \in Nat, NEW gone \in Nat,
         NEW L \in Nat, Kept(m, e, m2, e2, gone, L), NEW k \in Seq(Chars),
         Once(m, e, k), NEW q, Defines(m, e, k, gone, q)
  PROVE  \A i, j \in 0..e2 : ~Defines(m2, e2, k, i, j)
<1> SUFFICES ASSUME NEW i \in 0..e2, NEW j \in 0..e2, Defines(m2, e2, k, i, j)
             PROVE  FALSE
  OBVIOUS
<1>1. \A i3, j3 : Defines(m, e, k, i3, j3) => i3 = gone
  BY InList, Zenon DEF Once
<1>2. \/ i < gone /\ Defines(m, e, k, i, j)
      \/ i >= gone /\ L > 0 /\ Defines(m, e, k, i + L, j + L)
  BY KeptDefines, Zenon
<1>3. (i < gone /\ i = gone) \/ (i >= gone /\ L > 0 /\ i + L = gone)
  BY <1>1, <1>2, Zenon
<1> QED BY <1>3

LEMMA KeptDefinitions ==
  ASSUME NEW m, NEW e \in Nat, NEW m2, NEW e2 \in Nat, NEW gone \in Nat,
         NEW L \in Nat, Kept(m, e, m2, e2, gone, L), Definitions(m, e)
  PROVE  Definitions(m2, e2)
<1> SUFFICES ASSUME NEW i \in 0..e2, NEW j \in 0..e2, String(m2, e2, i, j)
             PROVE  \E a \in i..(j - 1) : m2[a] = EQ
  BY Zenon DEF Definitions
<1>1. CASE String(m, e, i, j) /\ Same(m, m2, i, j)
  <2>1. PICK a \in i..(j - 1) : m[a] = EQ
    BY <1>1, Zenon DEF Definitions, String
  <2>2. a \in i..j
    OBVIOUS
  <2> QED BY <1>1, <2>1, <2>2, Zenon DEF Same
<1>2. CASE String(m, e, i + L, j + L) /\ Moved(m, m2, i, j, L)
  <2>1. PICK a \in (i + L)..((j + L) - 1) : m[a] = EQ
    BY <1>2, Zenon DEF Definitions, String
  <2>2. a - L \in i..j /\ a - L \in i..(j - 1) /\ (a - L) + L = a
    OBVIOUS
  <2>3. m2[a - L] = m[(a - L) + L]
    BY <1>2, <2>2, Zenon DEF Moved
  <2>4. m2[a - L] = EQ
    BY <2>1, <2>2, <2>3
  <2> QED BY <2>2, <2>4, Zenon
<1> QED BY <1>1, <1>2, Zenon DEF Kept
-----------------------------------------------------------------------------
(* What the deletion in setenv leaves of variable k: nothing if it is the  *)
(* one to be set, and otherwise what it was.                               *)
Stays(m, e, m2, e2, k, name) ==
  /\ Once(m2, e2, k)
  /\ \A v : Gives(m, e, k, v) => Gives(m2, e2, k, v)
  /\ Key(name) = k => ~Defined(m2, e2, k)
  /\ Key(name) # k => (Defined(m2, e2, k) <=> Defined(m, e, k))

(* ... and the room it frees. *)
Freed(m, e, k, e2) ==
  \/ ~Defined(m, e, k) /\ e2 = e
  \/ \E i, j \in 0..e : Defines(m, e, k, i, j) /\ Shrunk(e, e2, j + 1 - i)

LEMMA WithoutKeeps ==
  ASSUME env_data \in Store, NEW e, Listed(env_data, e),
         Definitions(env_data, e), \A k \in Keys : Once(env_data, e, k),
         NEW name \in Names
  PROVE  /\ Without(name) \in Store
         /\ \E e2 \in 0..(ENV_SIZE - 2) :
              /\ Listed(Without(name), e2) /\ Definitions(Without(name), e2)
              /\ \A k \in Keys : Stays(env_data, e, Without(name), e2, k, name)
              /\ Freed(env_data, e, Key(name), e2)
<1>1. e \in 0..(ENV_SIZE - 2) /\ ENV_SIZE \in Nat /\ e \in Nat
  BY Size DEF Listed
<1>2. name \in Seq(Chars) /\ Keys \subseteq Seq(Chars) /\ Key(name) \in Keys
  <2>1. name \in Seq(Chars)
    BY EnvAssumption
  <2>2. Keys \subseteq Seq(Chars)
    BY KeyOfKey, Zenon
  <2>3. Key(name) \in Keys
    BY Zenon DEF Keys
  <2> QED BY <2>1, <2>2, <2>3
<1> DEFINE M == Matches(env_data, name)
<1>3. CASE M = {}
  <2>1. Without(name) = env_data
    BY <1>3, Zenon DEF Without
  <2>2. ~Defined(env_data, e, Key(name))
    BY <1>2, <1>3, DefinesMatch, Zenon DEF Defined
  <2>3. \A k \in Keys : Stays(env_data, e, env_data, e, k, name)
    BY <2>2, Zenon DEF Stays
  <2>4. Freed(env_data, e, Key(name), e)
    BY <2>2, Zenon DEF Freed
  <2> QED BY <1>1, <2>1, <2>3, <2>4, Zenon
<1>4. CASE M # {}
  <2> DEFINE env == Min(M)
             m2 == Deleted(env_data, env)
             q == EntryEnd(env_data, env)
  <2>1. M \subseteq Nat
    <3>1. M \subseteq Entries(env_data)
      BY Zenon DEF Matches
    <3>2. Entries(env_data) \subseteq 0..e
      BY FoundString, Zenon
    <3> QED BY <1>1, <3>1, <3>2
  <2> HIDE DEF M
  <2>2. env \in M /\ env \in Nat
    BY <1>4, <2>1, MinIs
  <2>3. Without(name) = m2
    BY <1>4, Zenon DEF Without, M
  <2> HIDE DEF env
  <2>4. env \in Entries(env_data)
    BY <2>2, Zenon DEF M, Matches
  <2>5. Defines(env_data, e, Key(name), env, q)
    BY <1>2, <2>2, MatchDefines, Zenon DEF M
  <2>6. m2 \in Store
    BY <2>4, DeletedKeeps, Zenon
  <2>7. PICK e2 \in 0..(ENV_SIZE - 2), L \in Nat :
          /\ Listed(m2, e2) /\ Kept(env_data, e, m2, e2, env, L)
          /\ Left(env_data, e, m2, e2, env) /\ Shrunk(e, e2, q + 1 - env)
    BY <2>4, DeletedKeeps, Zenon
  <2>8. e2 \in Nat
    BY <1>1
  <2> HIDE DEF m2, q
  <2>9. Definitions(m2, e2)
    BY <1>1, <2>2, <2>7, <2>8, KeptDefinitions, Zenon
  <2>10. ASSUME NEW k \in Keys
         PROVE  Stays(env_data, e, m2, e2, k, name)
    <3>1. Once(m2, e2, k)
      BY <1>1, <1>2, <2>2, <2>7, <2>8, KeptOnce, Zenon
    <3>2. \A v : Gives(env_data, e, k, v) => Gives(m2, e2, k, v)
      BY <1>1, <1>2, <2>2, <2>7, <2>8, KeptGives, Zenon
    <3>3. Key(name) = k => ~Defined(m2, e2, k)
      BY <1>1, <1>2, <2>2, <2>5, <2>7, <2>8, KeptNot, Zenon DEF Defined
    <3>4. ASSUME Defined(m2, e2, k) PROVE Defined(env_data, e, k)
      <4>1. PICK i \in 0..e2, j \in 0..e2 : Defines(m2, e2, k, i, j)
        BY <3>4, Zenon DEF Defined
      <4>2. \/ Defines(env_data, e, k, i, j)
            \/ Defines(env_data, e, k, i + L, j + L)
        BY <1>1, <1>2, <2>2, <2>7, <2>8, <4>1, KeptDefines, Zenon
      <4> QED BY <4>2, InList, Zenon DEF Defined
    <3>5. ASSUME Key(name) # k, Defined(env_data, e, k)
          PROVE  Defined(m2, e2, k)
      <4>1. PICK i \in 0..e, j \in 0..e : Defines(env_data, e, k, i, j)
        BY <3>5, Zenon DEF Defined
      <4>2. i # env
        BY <1>2, <2>2, <2>5, <3>5, <4>1, OneKey, Zenon
      <4> QED BY <1>1, <1>2, <2>7, <2>8, <4>1, <4>2, LeftDefined, Zenon
    <3> QED BY <3>1, <3>2, <3>3, <3>4, <3>5, Zenon DEF Stays
  <2>11. Freed(env_data, e, Key(name), e2)
    BY <2>5, <2>7, InList, Zenon DEF Freed
  <2> QED BY <2>3, <2>6, <2>7, <2>9, <2>10, <2>11, Zenon
<1> QED BY <1>3, <1>4
-----------------------------------------------------------------------------
(* Appending `name=val' at place at, up to the NUL at z. *)
Written(m2, at, z, name, val) ==
  /\ z = at + Len(name) + 1 + Len(val)
  /\ \A n \in 1..Len(name) : m2[at + n - 1] = name[n]
  /\ m2[at + Len(name)] = EQ
  /\ \A n \in 1..Len(val) : m2[at + Len(name) + n] = val[n]
  /\ m2[z] = NUL /\ m2[z + 1] = NUL

LEMMA AppendWrites ==
  ASSUME NEW m \in Store, NEW name \in Seq(Chars), NEW val \in Seq(Chars),
         NEW at \in Addrs, AppendAt(m) = at, NEW z,
         z = at + Len(name) + 1 + Len(val), z <= ENV_SIZE - 2
  PROVE  /\ Appended(m, name, val) \in Store
         /\ Written(Appended(m, name, val), at, z, name, val)
         /\ \A a \in 0..(at - 1) : Appended(m, name, val)[a] = m[a]
<1> DEFINE C == Chars \union {NUL}
           s1 == name \o <<EQ>>
           s2 == s1 \o val
           str == s2 \o <<NUL, NUL>>
           m2 == Appended(m, name, val)
           l == Len(name)
           v == Len(val)
<1>1. /\ ENV_SIZE \in Nat /\ at \in Nat /\ l \in Nat /\ v \in Nat
      /\ z \in Nat /\ z + 1 < ENV_SIZE /\ z = at + l + v + 1
  BY Size, LenProperties DEF Addrs
<1>2. EQ \in C /\ NUL \in C /\ name \in Seq(C) /\ val \in Seq(C)
  BY EnvAssumption
<1> HIDE DEF C
<1>3. /\ s1 \in Seq(C) /\ Len(s1) = l + 1
      /\ \A n \in 1..l : s1[n] = name[n]
      /\ s1[l + 1] = EQ
  BY <1>1, <1>2
<1> HIDE DEF s1
<1>4. /\ s2 \in Seq(C) /\ Len(s2) = l + 1 + v
      /\ \A n \in 1..(l + 1) : s2[n] = s1[n]
      /\ \A n \in 1..v : s2[l + 1 + n] = val[n]
  <2>1. /\ s2 \in Seq(C) /\ Len(s2) = l + 1 + v
        /\ \A n \in 1..(l + 1 + v) : s2[n] = IF n <= l + 1 THEN s1[n]
                                                          ELSE val[n - (l + 1)]
    <3>1. /\ s2 \in Seq(C) /\ Len(s2) = Len(s1) + Len(val)
          /\ \A n \in 1..(Len(s1) + Len(val)) :
               s2[n] = IF n <= Len(s1) THEN s1[n] ELSE val[n - Len(s1)]
      BY <1>2, <1>3, ConcatProperties, Zenon
    <3> QED BY <1>3, <3>1, Zenon
  <2> HIDE DEF s2
  <2>2. \A n \in 1..(l + 1) : s2[n] = s1[n]
    BY <1>1, <2>1
  <2>3. ASSUME NEW n \in 1..v PROVE s2[l + 1 + n] = val[n]
    <3>1. /\ l + 1 + n \in 1..(l + 1 + v) /\ ~(l + 1 + n <= l + 1)
          /\ (l + 1 + n) - (l + 1) = n
      BY <1>1
    <3> QED BY <2>1, <3>1
  <2> QED BY <2>1, <2>2, <2>3
<1> HIDE DEF s2
<1>5. /\ str \in Seq(C) /\ Len(str) = l + v + 3
      /\ \A n \in 1..(l + v + 1) : str[n] = s2[n]
      /\ str[l + v + 2] = NUL /\ str[l + v + 3] = NUL
  BY <1>1, <1>2, <1>4
<1>6. m2 = [a \in Addrs |-> IF a - at + 1 \in 1..Len(str)
                            THEN str[a - at + 1] ELSE m[a]]
  BY Zenon DEF Appended, s1, s2
<1> HIDE DEF str, m2
<1>7. m2 \in Store
  <2> SUFFICES ASSUME NEW a \in Addrs
               PROVE  (IF a - at + 1 \in 1..Len(str)
                       THEN str[a - at + 1] ELSE m[a]) \in C
    BY <1>6 DEF Store, C
  <2>1. m[a] \in C
    BY DEF Store, C
  <2>2. a - at + 1 \in 1..Len(str) => str[a - at + 1] \in C
    BY <1>5, ElementOfSeq
  <2> QED BY <2>1, <2>2
<1>8. \A a \in 0..(at - 1) : m2[a] = m[a]
  <2> SUFFICES ASSUME NEW a \in 0..(at - 1) PROVE m2[a] = m[a]
    OBVIOUS
  <2>1. a \in Addrs /\ ~(a - at + 1 \in 1..Len(str))
    BY <1>1, <1>5 DEF Addrs
  <2> QED BY <1>6, <2>1
<1>9. \A n \in 1..(l + v + 3) : m2[at + n - 1] = str[n]
  <2> SUFFICES ASSUME NEW n \in 1..(l + v + 3) PROVE m2[at + n - 1] = str[n]
    OBVIOUS
  <2>1. /\ at + n - 1 \in Addrs /\ at + n - 1 - at + 1 = n
        /\ (at + n - 1) - at + 1 = n
    BY <1>1 DEF Addrs
  <2> QED BY <1>5, <1>6, <2>1
<1>10. \A n \in 1..l : m2[at + n - 1] = name[n]
  <2> SUFFICES ASSUME NEW n \in 1..l PROVE m2[at + n - 1] = name[n]
    OBVIOUS
  <2>1. n \in 1..(l + 1) /\ n \in 1..(l + v + 1) /\ n \in 1..(l + v + 3)
    BY <1>1
  <2> QED BY <1>3, <1>4, <1>5, <1>9, <2>1
<1>11. m2[at + l] = EQ
  <2>1. /\ l + 1 \in 1..(l + 1) /\ l + 1 \in 1..(l + v + 1)
        /\ l + 1 \in 1..(l + v + 3) /\ at + (l + 1) - 1 = at + l
    BY <1>1
  <2> QED BY <1>3, <1>4, <1>5, <1>9, <2>1
<1>12. \A n \in 1..v : m2[at + l + n] = val[n]
  <2> SUFFICES ASSUME NEW n \in 1..v PROVE m2[at + l + n] = val[n]
    OBVIOUS
  <2>1. /\ l + 1 + n \in 1..(l + v + 1) /\ l + 1 + n \in 1..(l + v + 3)
        /\ at + (l + 1 + n) - 1 = at + l + n
    BY <1>1
  <2> QED BY <1>4, <1>5, <1>9, <2>1
<1>13. m2[z] = NUL /\ m2[z + 1] = NUL
  <2>1. /\ l + v + 2 \in 1..(l + v + 3) /\ at + (l + v + 2) - 1 = z
        /\ l + v + 3 \in 1..(l + v + 3) /\ at + (l + v + 3) - 1 = z + 1
    BY <1>1
  <2> QED BY <1>5, <1>9, <2>1
<1> QED BY <1>7, <1>8, <1>10, <1>11, <1>12, <1>13, Zenon DEF Written, m2

(* It is one string behind the others, which stay where they are. *)
Joined(m, e, m2, at, z) ==
  \A i, j \in 0..z :
    String(m2, z, i, j) => \/ i = at /\ j = z
                           \/ i < at /\ String(m, e, i, j) /\ Same(m, m2, i, j)

Remains(m, e, m2, at, z) ==
  /\ String(m2, z, at, z)
  /\ \A i, j \in 0..e :
       String(m, e, i, j) => String(m2, z, i, j) /\ Same(m2, m, i, j)

LEMMA AppendJoins ==
  ASSUME NEW m \in Store, NEW e, Listed(m, e), NEW m2, NEW at, NEW z,
         NEW name \in Seq(Chars), NEW val \in Seq(Chars),
         at = IF e = 0 THEN 0 ELSE e + 1,
         z <= ENV_SIZE - 2, Written(m2, at, z, name, val),
         \A a \in 0..(at - 1) : m2[a] = m[a]
  PROVE  /\ Listed(m2, z) /\ Joined(m, e, m2, at, z)
         /\ Remains(m, e, m2, at, z)
<1> DEFINE l == Len(name)
           v == Len(val)
<1>1. /\ e \in 0..(ENV_SIZE - 2) /\ ENV_SIZE \in Nat /\ ENV_SIZE > 1
      /\ at \in Nat /\ l \in Nat /\ v \in Nat /\ z \in Nat /\ at < z
      /\ z = at + l + 1 + v /\ z \in 0..(ENV_SIZE - 2) /\ e \in Nat
      /\ (e = 0 => at = 0) /\ (e # 0 => at = e + 1)
  BY Size, LenProperties DEF Listed, Written
<1>2. NUL \notin Chars /\ EQ \in Chars /\ NUL # EQ
  BY EnvAssumption
<1>3. /\ \A n \in 1..l : m2[at + n - 1] = name[n]
      /\ m2[at + l] = EQ
      /\ \A n \in 1..v : m2[at + l + n] = val[n]
      /\ m2[z] = NUL /\ m2[z + 1] = NUL
  BY Zenon DEF Written
<1>4. /\ \A n \in 1..l : name[n] \in Chars
      /\ \A n \in 1..v : val[n] \in Chars
  BY ElementOfSeq
<1> HIDE DEF l, v
<1>5. ASSUME NEW a \in at..(z - 1) PROVE m2[a] # NUL
  <2>1. CASE a < at + l
    <3>1. a - at + 1 \in 1..l /\ at + (a - at + 1) - 1 = a
      BY <1>1, <2>1
    <3>2. m2[a] = name[a - at + 1]
      BY <1>3, <3>1
    <3> QED BY <1>2, <1>4, <3>1, <3>2
  <2>2. CASE a = at + l
    BY <1>2, <1>3, <2>2
  <2>3. CASE a > at + l
    <3>1. a - at - l \in 1..v /\ at + l + (a - at - l) = a
      BY <1>1, <2>3
    <3>2. m2[a] = val[a - at - l]
      BY <1>3, <3>1
    <3> QED BY <1>2, <1>4, <3>1, <3>2
  <2> QED BY <1>1, <2>1, <2>2, <2>3
<1>6. Listed(m2, z)
  <2>1. m2[0] # NUL
    <3>1. CASE e = 0
      <4>1. 0 \in at..(z - 1)
        BY <1>1, <3>1
      <4> QED BY <1>5, <4>1
    <3>2. CASE e # 0
      <4>1. 0 \in 0..(at - 1) /\ m[0] # NUL
        BY <1>1, <3>2 DEF Listed
      <4> QED BY <4>1
    <3> QED BY <3>1, <3>2
  <2>2. ASSUME NEW a \in 0..(z - 1) PROVE m2[a] # NUL \/ m2[a + 1] # NUL
    <3>1. CASE a >= at
      BY <1>1, <1>5, <3>1
    <3>2. CASE a + 1 = at
      <4>1. a + 1 \in at..(z - 1)
        BY <1>1, <3>2
      <4> QED BY <1>5, <4>1
    <3>3. CASE a + 1 < at
      <4>1. a \in 0..(at - 1) /\ a + 1 \in 0..(at - 1) /\ a \in 0..(e - 1)
        BY <1>1, <3>3
      <4>2. m[a] # NUL \/ m[a + 1] # NUL
        BY <4>1 DEF Listed
      <4> QED BY <4>1, <4>2
    <3> QED BY <1>1, <3>1, <3>2, <3>3
  <2> QED BY <1>1, <1>3, <2>1, <2>2 DEF Listed
<1>7. Joined(m, e, m2, at, z)
  <2> SUFFICES ASSUME NEW i \in 0..z, NEW j \in 0..z, String(m2, z, i, j)
               PROVE  \/ i = at /\ j = z
                      \/ i < at /\ String(m, e, i, j) /\ Same(m, m2, i, j)
    BY Zenon DEF Joined
  <2>1. /\ i < j /\ Begins(m2, i) /\ m2[j] = NUL
        /\ \A a \in i..(j - 1) : m2[a] # NUL
    BY Zenon DEF String
  <2>2. CASE i >= at
    <3>1. j = z
      <4> SUFFICES ASSUME j # z PROVE FALSE
        OBVIOUS
      <4>1. j \in at..(z - 1)
        BY <1>1, <2>1, <2>2
      <4> QED BY <1>5, <2>1, <4>1
    <3>2. i = at
      <4> SUFFICES ASSUME i # at PROVE FALSE
        OBVIOUS
      <4>1. i - 1 \in at..(z - 1) /\ i # 0
        BY <1>1, <2>1, <2>2
      <4> QED BY <1>5, <2>1, <4>1 DEF Begins
    <3> QED BY <3>1, <3>2
  <2>3. CASE i < at
    <3>1. e # 0 /\ at = e + 1 /\ e \in 0..(at - 1) /\ m2[e] = NUL
      <4>1. e # 0 /\ at = e + 1 /\ e \in 0..(at - 1)
        BY <1>1, <2>3
      <4> QED BY <4>1 DEF Listed
    <3>2. j <= e
      <4> SUFFICES ASSUME ~(j <= e) PROVE FALSE
        OBVIOUS
      <4>1. e \in i..(j - 1)
        BY <1>1, <2>3, <3>1
      <4> QED BY <2>1, <3>1, <4>1
    <3>3. \A a \in i..j : a \in 0..(at - 1)
      BY <1>1, <3>1, <3>2
    <3>4. \A a \in i..j : m2[a] = m[a]
      BY <3>3
    <3>5. Begins(m, i)
      <4>1. CASE i = 0
        BY <4>1 DEF Begins
      <4>2. CASE i # 0
        <5>1. m2[i - 1] = NUL /\ i - 1 \in 0..(at - 1)
          BY <1>1, <2>1, <2>3, <4>2 DEF Begins
        <5> QED BY <5>1 DEF Begins
      <4> QED BY <4>1, <4>2
    <3>6. i \in 0..e /\ j \in 0..e
      BY <1>1, <2>1, <3>2
    <3>7. m[j] = NUL /\ \A a \in i..(j - 1) : m[a] # NUL
      BY <2>1, <3>4
    <3> QED BY <2>1, <2>3, <3>4, <3>5, <3>6, <3>7, Zenon DEF String, Same
  <2> QED BY <1>1, <2>2, <2>3
<1>8. String(m2, z, at, z)
  <2>1. at \in 0..z /\ z \in 0..z
    BY <1>1
  <2>2. Begins(m2, at)
    <3>1. CASE e = 0
      BY <1>1, <3>1 DEF Begins
    <3>2. CASE e # 0
      <4>1. at - 1 = e /\ e \in 0..(at - 1)
        BY <1>1, <3>2
      <4>2. m[e] = NUL
        BY DEF Listed
      <4>3. m2[e] = NUL
        BY <4>1, <4>2
      <4> QED BY <4>1, <4>3 DEF Begins
    <3> QED BY <3>1, <3>2
  <2> QED BY <1>1, <1>3, <1>5, <2>1, <2>2, Zenon DEF String
<1>9. ASSUME NEW i \in 0..e, NEW j \in 0..e, String(m, e, i, j)
      PROVE  String(m2, z, i, j) /\ Same(m2, m, i, j)
  <2>1. /\ i < j /\ Begins(m, i) /\ m[j] = NUL
        /\ \A a \in i..(j - 1) : m[a] # NUL
    BY <1>9, Zenon DEF String
  <2>2. at = e + 1 /\ i \in 0..z /\ j \in 0..z
    BY <1>1, <2>1
  <2>3. \A a \in i..j : a \in 0..(at - 1)
    BY <1>1, <2>2
  <2>4. \A a \in i..j : m[a] = m2[a]
    BY <2>3
  <2>5. Begins(m2, i)
    <3>1. CASE i = 0
      BY <3>1 DEF Begins
    <3>2. CASE i # 0
      <4>1. m[i - 1] = NUL /\ i - 1 \in 0..(at - 1)
        BY <1>1, <2>1, <2>2, <3>2 DEF Begins
      <4> QED BY <4>1 DEF Begins
    <3> QED BY <3>1, <3>2
  <2>6. m2[j] = NUL /\ \A a \in i..(j - 1) : m2[a] # NUL
    BY <2>1, <2>4
  <2> QED BY <2>1, <2>2, <2>4, <2>5, <2>6, Zenon DEF String, Same
<1> QED BY <1>6, <1>7, <1>8, <1>9, Zenon DEF Remains

(* The new string defines the name that counts and no other. *)
LEMMA NewDefines ==
  ASSUME NEW m2, NEW at \in Nat, NEW z, NEW name \in Seq(Chars), NEW val,
         Written(m2, at, z, name, val), NEW k \in Seq(Chars),
         \A n \in 1..Len(k) : k[n] # EQ, NEW e, Defines(m2, e, k, at, z)
  PROVE  Key(name) = k
<1> DEFINE K == Key(name)
           c == Len(K)
           p == Len(k)
           l == Len(name)
<1>1. /\ K \in Seq(Chars) /\ c <= l
      /\ \A n \in 1..c : K[n] = name[n] /\ name[n] # EQ
      /\ K = name \/ (c < l /\ name[c + 1] = EQ)
  BY KeyIs, Zenon
<1>2. c \in Nat /\ p \in Nat /\ l \in Nat
  BY <1>1, LenProperties
<1>3. K = name => c = l
  OBVIOUS
<1>4. /\ \A n \in 1..l : m2[at + n - 1] = name[n]
      /\ m2[at + l] = EQ
  BY Zenon DEF Written
<1>5. /\ \A n \in 1..p : m2[at + n - 1] = k[n]
      /\ m2[at + p] = EQ
  BY Zenon DEF Defines
<1>6. \A n \in 1..p : k[n] # EQ
  OBVIOUS
<1> HIDE DEF K, c, p, l
<1>7. m2[at + c] = EQ
  <2>1. CASE K = name
    BY <1>3, <1>4, <2>1
  <2>2. CASE c < l /\ name[c + 1] = EQ
    <3>1. c + 1 \in 1..l /\ at + (c + 1) - 1 = at + c
      BY <1>2, <2>2
    <3> QED BY <1>4, <2>2, <3>1
  <2> QED BY <1>1, <2>1, <2>2
<1>8. ~(p < c)
  <2> SUFFICES ASSUME p < c PROVE FALSE
    OBVIOUS
  <2>1. p + 1 \in 1..c /\ p + 1 \in 1..l /\ at + (p + 1) - 1 = at + p
    BY <1>1, <1>2
  <2> QED BY <1>1, <1>4, <1>5, <2>1
<1>9. ~(c < p)
  <2> SUFFICES ASSUME c < p PROVE FALSE
    OBVIOUS
  <2>1. c + 1 \in 1..p /\ at + (c + 1) - 1 = at + c
    BY <1>2
  <2> QED BY <1>5, <1>6, <1>7, <2>1
<1>10. c = p
  BY <1>2, <1>8, <1>9
<1>11. \A n \in 1..c : K[n] = k[n]
  <2> SUFFICES ASSUME NEW n \in 1..c PROVE K[n] = k[n]
    OBVIOUS
  <2>1. n \in 1..l /\ n \in 1..p
    BY <1>1, <1>2, <1>10
  <2> QED BY <1>1, <1>4, <1>5, <2>1
<1>12. Len(K) = Len(k) /\ \A n \in 1..Len(K) : K[n] = k[n]
  BY <1>10, <1>11, Zenon DEF c, p
<1> QED BY <1>1, <1>12, SeqEqual, Zenon DEF K

LEMMA NewDefined ==
  ASSUME NEW m2, NEW at \in Nat, NEW z \in Nat, NEW name \in Seq(Chars),
         NEW val \in Seq(Chars), Written(m2, at, z, name, val),
         String(m2, z, at, z)
  PROVE  /\ Defines(m2, z, Key(name), at, z)
         /\ IsValue(Given(name, val), m2, Key(name), at, z)
<1> DEFINE K == Key(name)
           c == Len(K)
           l == Len(name)
           v == Len(val)
           g == Given(name, val)
<1>1. /\ K \in Seq(Chars) /\ c <= l
      /\ \A n \in 1..c : K[n] = name[n]
      /\ K = name \/ (c < l /\ name[c + 1] = EQ)
  BY KeyIs, Zenon
<1>2. c \in Nat /\ l \in Nat /\ v \in Nat
  BY <1>1, LenProperties
<1>3. /\ z = at + l + 1 + v
      /\ \A n \in 1..l : m2[at + n - 1] = name[n]
      /\ m2[at + l] = EQ
      /\ \A n \in 1..v : m2[at + l + n] = val[n]
  BY Zenon DEF Written
<1>4. K = name => c = l
  OBVIOUS
<1>5. /\ Len(g) = l + v - c /\ g \in Seq(Chars)
      /\ \A n \in 1..(l + v - c) : g[n] = m2[at + c + n]
  <2>1. CASE K = name
    <3>1. g = val
      BY <2>1, Zenon DEF Given
    <3>2. l + v - c = v
      BY <1>2, <1>4, <2>1
    <3> QED BY <1>3, <1>4, <2>1, <3>1, <3>2
  <2>2. CASE K # name
    <3> DEFINE s == SubSeq(name, c + 2, l)
               s1 == s \o <<EQ>>
    <3>1. g = s1 \o val
      BY <2>2, Zenon DEF Given
    <3>2. c < l /\ name[c + 1] = EQ /\ EQ \in Chars
      BY <1>1, <2>2, EnvAssumption
    <3> HIDE DEF K, c, l, v, g
    <3>3. /\ s \in Seq(Chars) /\ Len(s) = l - c - 1
          /\ \A n \in 1..(l - c - 1) : s[n] = name[c + 1 + n]
      BY <1>2, <3>2, SubSeqProperties DEF l
    <3> HIDE DEF s
    <3>4. /\ s1 \in Seq(Chars) /\ Len(s1) = l - c
          /\ \A n \in 1..(l - c - 1) : s1[n] = name[c + 1 + n]
          /\ s1[l - c] = EQ
      <4>1. <<EQ>> \in Seq(Chars) /\ Len(<<EQ>>) = 1 /\ <<EQ>>[1] = EQ
        BY <3>2
      <4> DEFINE t == <<EQ>>
      <4> HIDE DEF t
      <4>2. t \in Seq(Chars) /\ Len(t) = 1 /\ t[1] = EQ
        BY <4>1 DEF t
      <4>3. /\ s \o t \in Seq(Chars) /\ Len(s \o t) = Len(s) + Len(t)
            /\ \A n \in 1..(Len(s) + Len(t)) :
                 (s \o t)[n] = IF n <= Len(s) THEN s[n] ELSE t[n - Len(s)]
        BY <3>3, <4>2, ConcatProperties, Zenon
      <4>4. s1 = s \o t
        BY DEF t
      <4> HIDE DEF s1
      <4>5. /\ s1 \in Seq(Chars) /\ Len(s1) = Len(s) + 1
            /\ \A n \in 1..(Len(s) + 1) :
                 s1[n] = IF n <= Len(s) THEN s[n] ELSE t[n - Len(s)]
        BY <4>2, <4>3, <4>4, Zenon
      <4>6. /\ Len(s1) = l - c
            /\ \A n \in 1..(l - c - 1) : s1[n] = s[n]
        BY <1>2, <3>2, <3>3, <4>5
      <4>7. s1[l - c] = t[1]
        <5>1. l - c \in 1..(Len(s) + 1) /\ ~(l - c <= Len(s))
              /\ (l - c) - Len(s) = 1
          BY <1>2, <3>2, <3>3
        <5> QED BY <4>5, <5>1
      <4> QED BY <3>3, <4>2, <4>5, <4>6, <4>7, Zenon
    <3> HIDE DEF s1
    <3>5. /\ g \in Seq(Chars) /\ Len(g) = Len(s1) + Len(val)
          /\ \A n \in 1..(Len(s1) + Len(val)) :
               g[n] = IF n <= Len(s1) THEN s1[n] ELSE val[n - Len(s1)]
      BY <3>1, <3>4, ConcatProperties, Zenon
    <3>6. Len(g) = l + v - c
      BY <1>2, <3>4, <3>5 DEF v
    <3>7. ASSUME NEW n \in 1..(l + v - c) PROVE g[n] = m2[at + c + n]
      <4>1. n \in 1..(Len(s1) + Len(val))
        BY <1>2, <3>2, <3>4 DEF v
      <4>2. g[n] = IF n <= l - c THEN s1[n] ELSE val[n - (l - c)]
        BY <3>4, <3>5, <4>1, Zenon
      <4>3. CASE n < l - c
        <5>1. /\ n \in 1..(l - c - 1) /\ n <= l - c /\ c + 1 + n \in 1..l
              /\ at + (c + 1 + n) - 1 = at + c + n
          BY <1>2, <4>3
        <5> QED BY <1>3, <3>4, <4>2, <5>1
      <4>4. CASE n = l - c
        <5>1. n <= l - c /\ at + c + n = at + l
          BY <1>2, <4>4
        <5> QED BY <1>3, <3>4, <4>2, <4>4, <5>1
      <4>5. CASE n > l - c
        <5>1. /\ ~(n <= l - c) /\ n - (l - c) \in 1..v
              /\ at + l + (n - (l - c)) = at + c + n
          BY <1>2, <4>5
        <5> QED BY <1>3, <4>2, <5>1
      <4> QED BY <1>2, <4>3, <4>4, <4>5
    <3> QED BY <3>5, <3>6, <3>7
  <2> QED BY <2>1, <2>2
<1> HIDE DEF K, c, l, v, g
<1>6. Defines(m2, z, K, at, z)
  <2>1. at + c < z
    BY <1>1, <1>2, <1>3
  <2>2. ASSUME NEW n \in 1..c PROVE m2[at + n - 1] = K[n]
    <3>1. n \in 1..l
      BY <1>1, <1>2
    <3> QED BY <1>1, <1>3, <3>1
  <2>3. m2[at + c] = EQ
    <3>1. CASE K = name
      BY <1>3, <1>4, <3>1
    <3>2. CASE c < l /\ name[c + 1] = EQ
      <4>1. c + 1 \in 1..l /\ at + (c + 1) - 1 = at + c
        BY <1>2, <3>2
      <4> QED BY <1>3, <3>2, <4>1
    <3> QED BY <1>1, <3>1, <3>2
  <2> QED BY <2>1, <2>2, <2>3, Zenon DEF Defines, c
<1>7. IsValue(g, m2, K, at, z)
  <2>1. z - at - Len(K) - 1 = l + v - c
    BY <1>2, <1>3 DEF c
  <2>2. g = [n \in 1..(l + v - c) |-> g[n]]
    BY <1>5
  <2>3. g = [n \in 1..(l + v - c) |-> m2[at + Len(K) + n]]
    BY <1>5, <2>2, Zenon DEF c
  <2> QED BY <2>1, <2>3, Zenon DEF IsValue
<1> QED BY <1>6, <1>7, Zenon DEF K, g

(* What is appended to a list leaves the other variables what they were,   *)
(* and gives the one it defines the new value, if it had none left.        *)
Sets(m, e, m2, e2, k, name, val) ==
  /\ Key(name) # k => /\ Once(m, e, k) => Once(m2, e2, k)
                      /\ \A v : Gives(m, e, k, v) => Gives(m2, e2, k, v)
                      /\ Defined(m2, e2, k) <=> Defined(m, e, k)
  /\ Key(name) = k /\ ~Defined(m, e, k)
       => /\ Once(m2, e2, k) /\ Defined(m2, e2, k)
          /\ Gives(m2, e2, k, Given(name, val))

LEMMA JoinedSets ==
  ASSUME NEW m, NEW e \in Nat, NEW m2, NEW at \in Nat, NEW z \in Nat,
         NEW name \in Seq(Chars), NEW val \in Seq(Chars),
         Joined(m, e, m2, at, z), Remains(m, e, m2, at, z),
         Written(m2, at, z, name, val), NEW k \in Keys
  PROVE  Sets(m, e, m2, z, k, name, val)
<1>1. k \in Seq(Chars) /\ \A n \in 1..Len(k) : k[n] # EQ
  BY KeyOfKey, Zenon
<1>2. ASSUME NEW i \in 0..z, NEW j \in 0..z, Defines(m2, z, k, i, j)
      PROVE  \/ i = at /\ j = z /\ Key(name) = k
             \/ Defines(m, e, k, i, j) /\ Same(m, m2, i, j)
  <2>1. String(m2, z, i, j)
    BY <1>2, Zenon DEF Defines
  <2>2. \/ i = at /\ j = z
        \/ String(m, e, i, j) /\ Same(m, m2, i, j)
    BY <2>1, Zenon DEF Joined
  <2>3. CASE i = at /\ j = z
    <3>1. Defines(m2, z, k, at, z)
      BY <1>2, <2>3, Zenon
    <3> QED BY <1>1, <2>3, <3>1, NewDefines, Zenon
  <2>4. CASE String(m, e, i, j) /\ Same(m, m2, i, j)
    BY <1>1, <1>2, <2>4, SameDefines, Zenon
  <2> QED BY <2>2, <2>3, <2>4, Zenon
<1>3. ASSUME Key(name) # k, Once(m, e, k) PROVE Once(m2, z, k)
  <2> SUFFICES ASSUME NEW i1 \in 0..z, NEW i2 \in 0..z,
                      NEW j1 \in 0..z, NEW j2 \in 0..z,
                      Defines(m2, z, k, i1, j1), Defines(m2, z, k, i2, j2)
               PROVE  i1 = i2
    BY Zenon DEF Once
  <2>1. Defines(m, e, k, i1, j1) /\ Defines(m, e, k, i2, j2)
    BY <1>2, <1>3, Zenon
  <2> QED BY <1>3, <2>1, InList, Zenon DEF Once
<1>4. ASSUME Key(name) # k, NEW v, Gives(m, e, k, v) PROVE Gives(m2, z, k, v)
  <2> SUFFICES ASSUME NEW i \in 0..z, NEW j \in 0..z, Defines(m2, z, k, i, j)
               PROVE  IsValue(v, m2, k, i, j)
    BY Zenon DEF Gives, IsValue
  <2>1. Defines(m, e, k, i, j) /\ Same(m, m2, i, j)
    BY <1>2, <1>4, Zenon
  <2>2. k \in Seq(Chars) /\ Gives(m, e, k, v)
    BY <1>1, <1>4
  <2> QED BY <2>1, <2>2, SameGives, Zenon
<1>5. ASSUME Key(name) # k, Defined(m2, z, k) PROVE Defined(m, e, k)
  BY <1>2, <1>5, InList, Zenon DEF Defined
<1>6. ASSUME Defined(m, e, k) PROVE Defined(m2, z, k)
  <2>1. PICK i \in 0..e, j \in 0..e : Defines(m, e, k, i, j)
    BY <1>6, Zenon DEF Defined
  <2>2. String(m2, z, i, j) /\ Same(m2, m, i, j)
    BY <2>1, Zenon DEF Defines, Remains
  <2>3. Defines(m2, z, k, i, j)
    BY <1>1, <2>1, <2>2, SameDefines, Zenon
  <2> QED BY <2>3, InList, Zenon DEF Defined
<1>7. ASSUME Key(name) = k, ~Defined(m, e, k)
      PROVE  /\ Once(m2, z, k) /\ Defined(m2, z, k)
             /\ Gives(m2, z, k, Given(name, val))
  <2>1. ASSUME NEW i \in 0..z, NEW j \in 0..z, Defines(m2, z, k, i, j)
        PROVE  i = at /\ j = z
    BY <1>2, <1>7, <2>1, InList, Zenon DEF Defined
  <2>2. Once(m2, z, k)
    BY <2>1, Zenon DEF Once
  <2>3. String(m2, z, at, z)
    BY Zenon DEF Remains
  <2>4. /\ Defines(m2, z, Key(name), at, z)
        /\ IsValue(Given(name, val), m2, Key(name), at, z)
    BY <2>3, NewDefined, Zenon
  <2>5. Defined(m2, z, k)
    BY <1>7, <2>4, InList, Zenon DEF Defined
  <2>6. Gives(m2, z, k, Given(name, val))
    BY <1>7, <2>1, <2>4, Zenon DEF Gives, IsValue
  <2> QED BY <2>2, <2>5, <2>6
<1> QED BY <1>3, <1>4, <1>5, <1>6, <1>7, Zenon DEF Sets

LEMMA JoinedDefinitions ==
  ASSUME NEW m, NEW e \in Nat, NEW m2, NEW at \in Nat, NEW z \in Nat,
         NEW name \in Seq(Chars), NEW val \in Seq(Chars),
         Joined(m, e, m2, at, z), Written(m2, at, z, name, val),
         Definitions(m, e)
  PROVE  Definitions(m2, z)
<1> SUFFICES ASSUME NEW i \in 0..z, NEW j \in 0..z, String(m2, z, i, j)
             PROVE  \E a \in i..(j - 1) : m2[a] = EQ
  BY Zenon DEF Definitions
<1>1. CASE String(m, e, i, j) /\ Same(m, m2, i, j)
  <2>1. PICK a \in i..(j - 1) : m[a] = EQ
    BY <1>1, Zenon DEF Definitions, String
  <2>2. a \in i..j
    OBVIOUS
  <2> QED BY <1>1, <2>1, <2>2, Zenon DEF Same
<1>2. CASE i = at /\ j = z
  <2>1. at + Len(name) \in i..(j - 1)
    BY <1>2, LenProperties DEF Written
  <2> QED BY <2>1, Zenon DEF Written
<1> QED BY <1>1, <1>2, Zenon DEF Joined

LEMMA AppendEnd ==
  ASSUME NEW m, NEW e, Listed(m, e)
  PROVE  AppendAt(m) = End(e) /\ End(e) \in Nat
<1>1. e \in 0..(ENV_SIZE - 2) /\ ENV_SIZE \in Nat /\ e \in Nat
  BY Size DEF Listed
<1>2. 0 \in 0..e
  BY <1>1
<1>3. DoubleNul(m, 0) = e
  BY <1>2, FoundDoubleNul, Zenon
<1>4. AppendAt(m) = End(e)
  BY <1>3, Zenon DEF AppendAt, End
<1> QED BY <1>1, <1>4 DEF End

LEMMA AppendKeeps ==
  ASSUME NEW m \in Store, NEW e, Listed(m, e), Definitions(m, e),
         NEW name \in Seq(Chars), NEW val \in Seq(Chars),
         ~(Needed(name, val) > ENV_SIZE - AppendAt(m))
  PROVE  /\ Appended(m, name, val) \in Store
         /\ \E z \in 0..(ENV_SIZE - 2) :
              /\ Listed(Appended(m, name, val), z)
              /\ Definitions(Appended(m, name, val), z)
              /\ \A k \in Keys :
                   Sets(m, e, Appended(m, name, val), z, k, name, val)
              /\ Freed(Appended(m, name, val), z, Key(name), e)
<1> DEFINE at == End(e)
           z == at + Len(name) + 1 + Len(val)
           m2 == Appended(m, name, val)
<1>1. e \in 0..(ENV_SIZE - 2) /\ ENV_SIZE \in Nat /\ e \in Nat
  BY Size DEF Listed
<1>2. Len(name) \in Nat /\ Len(val) \in Nat
  BY LenProperties
<1>3. AppendAt(m) = at /\ at \in Nat
  BY AppendEnd
<1>4. /\ at \in Addrs /\ z \in Nat /\ z <= ENV_SIZE - 2
      /\ z \in 0..(ENV_SIZE - 2)
  <2>1. ~(Len(name) + Len(val) + 3 > ENV_SIZE - at)
    BY <1>3, Zenon DEF Needed
  <2> HIDE DEF at
  <2> QED BY <1>1, <1>2, <1>3, <2>1 DEF Addrs
<1>5. at = (IF e = 0 THEN 0 ELSE e + 1) /\ z = at + Len(name) + 1 + Len(val)
  BY DEF End
<1> HIDE DEF at, z, m2
<1>6. /\ m2 \in Store /\ Written(m2, at, z, name, val)
      /\ \A a \in 0..(at - 1) : m2[a] = m[a]
  BY <1>3, <1>4, <1>5, AppendWrites, Zenon DEF m2
<1>7. Listed(m2, z) /\ Joined(m, e, m2, at, z) /\ Remains(m, e, m2, at, z)
  BY <1>4, <1>5, <1>6, AppendJoins, Zenon
<1>8. Definitions(m2, z)
  BY <1>1, <1>3, <1>4, <1>6, <1>7, JoinedDefinitions, Zenon
<1>9. \A k \in Keys : Sets(m, e, m2, z, k, name, val)
  BY <1>1, <1>3, <1>4, <1>6, <1>7, JoinedSets, Zenon
<1>10. Freed(m2, z, Key(name), e)
  <2>1. String(m2, z, at, z)
    BY <1>7, Zenon DEF Remains
  <2>2. Defines(m2, z, Key(name), at, z)
    BY <1>3, <1>4, <1>6, <2>1, NewDefined, Zenon
  <2>3. Shrunk(z, e, z + 1 - at)
    <3>1. End(z) = z + 1
      BY <1>2, <1>3, <1>4, <1>5 DEF End
    <3>2. End(e) = at
      BY Zenon DEF at
    <3> QED BY <1>3, <1>4, <3>1, <3>2 DEF Shrunk
  <2> QED BY <2>2, <2>3, InList, Zenon DEF Freed
<1> QED BY <1>4, <1>6, <1>7, <1>8, <1>9, <1>10, Zenon DEF m2
-----------------------------------------------------------------------------
(* What getenv finds. *)
LEMMA GetFinds ==
  ASSUME NEW m, NEW e, Listed(m, e), NEW k \in Keys, Matches(m, k) # {}
  PROVE  \E i, j \in 0..e : /\ Defines(m, e, k, i, j)
                            /\ IsValue(getenv(m, k), m, k, i, j)
<1> DEFINE S == Matches(m, k)
           i == Min(S)
           j == EntryEnd(m, i)
<1>1. k \in Seq(Chars) /\ Key(k) = k /\ Len(k) \in Nat /\ e \in Nat
  BY KeyOfKey, LenProperties DEF Listed
<1>2. S \subseteq Nat
  <2>1. S \subseteq Entries(m)
    BY Zenon DEF Matches
  <2>2. Entries(m) \subseteq 0..e
    BY FoundString, Zenon
  <2> QED BY <1>1, <2>1, <2>2
<1>3. i \in S
  <2> HIDE DEF S
  <2>1. S # {}
    BY Zenon DEF S
  <2> QED BY <1>2, <2>1, MinIs, Zenon
<1> DEFINE v == i + Len(k) + 1
<1>4. getenv(m, k) = [n \in 1..(j - v) |-> m[v + n - 1]]
  BY <1>1, Zenon DEF getenv
<1> HIDE DEF i
<1>5. Defines(m, e, Key(k), i, j)
  BY <1>1, <1>3, MatchDefines, Zenon
<1>6. Defines(m, e, k, i, j) /\ i \in 0..e /\ j \in 0..e
  BY <1>1, <1>5, InList, Zenon
<1> HIDE DEF j
<1>7. j - v = j - i - Len(k) - 1
  BY <1>1, <1>6
<1>8. \A n \in 1..(j - v) : m[v + n - 1] = m[i + Len(k) + n]
  <2> SUFFICES ASSUME NEW n \in 1..(j - v)
               PROVE  v + n - 1 = i + Len(k) + n
    BY Zenon
  <2> QED BY <1>1, <1>6
<1> HIDE DEF v
<1>9. IsValue(getenv(m, k), m, k, i, j)
  <2>1. getenv(m, k) = [n \in 1..(j - v) |-> m[i + Len(k) + n]]
    BY <1>4, <1>8, Zenon
  <2> QED BY <1>7, <2>1, Zenon DEF IsValue
<1> QED BY <1>6, <1>9, Zenon

LEMMA DefinedMatch ==
  ASSUME NEW m, NEW e, Listed(m, e), NEW k \in Keys
  PROVE  Defined(m, e, k) <=> Matches(m, k) # {}
<1>1. k \in Seq(Chars) /\ Key(k) = k
  BY KeyOfKey, Zenon
<1>2. ASSUME Defined(m, e, k) PROVE Matches(m, k) # {}
  <2>1. PICK i \in 0..e, j \in 0..e : Defines(m, e, k, i, j)
    BY <1>2, Zenon DEF Defined
  <2>2. Defines(m, e, Key(k), i, j)
    BY <1>1, <2>1, Zenon
  <2>3. i \in Matches(m, k)
    BY <1>1, <2>2, DefinesMatch, Zenon
  <2> QED BY <2>3, Zenon
<1>3. ASSUME Matches(m, k) # {} PROVE Defined(m, e, k)
  BY <1>3, GetFinds, Zenon DEF Defined
<1> QED BY <1>2, <1>3

LEMMA GetGives ==
  ASSUME NEW m, NEW e, Listed(m, e), NEW k \in Keys, Once(m, e, k)
  PROVE  Gives(m, e, k, getenv(m, k))
<1> SUFFICES ASSUME NEW i \in 0..e, NEW j \in 0..e, Defines(m, e, k, i, j)
             PROVE  IsValue(getenv(m, k), m, k, i, j)
  BY Zenon DEF Gives, IsValue
<1>1. k \in Seq(Chars) /\ Key(k) = k
  BY KeyOfKey, Zenon
<1>2. Defines(m, e, Key(k), i, j)
  BY <1>1, Zenon
<1>3. i \in Matches(m, k) /\ j = EntryEnd(m, i)
  BY <1>1, <1>2, DefinesMatch, Zenon
<1>4. PICK i2 \in 0..e, j2 \in 0..e :
        Defines(m, e, k, i2, j2) /\ IsValue(getenv(m, k), m, k, i2, j2)
  BY <1>3, GetFinds, Zenon
<1>5. Defines(m, e, Key(k), i2, j2)
  BY <1>1, <1>4, Zenon
<1>6. j2 = EntryEnd(m, i2)
  BY <1>1, <1>5, DefinesMatch, Zenon
<1>7. i = i2
  BY <1>4, Zenon DEF Once
<1> QED BY <1>3, <1>4, <1>6, <1>7, Zenon
-----------------------------------------------------------------------------
(* The words of a call are one text. *)
LEMMA TextIs ==
  ASSUME NEW arg \in Arguments
  PROVE  /\ Text(arg) \in Values /\ Text(arg) \in Seq(Chars)
         /\ arg.rest \in Rests
<1>1. arg.word \in Seq(Chars) /\ arg.rest \in Seq(Chars)
  BY EnvAssumption, Zenon
<1>2. Text(arg) \in Seq(Chars)
  BY <1>1, ConcatProperties, Zenon DEF Text
<1> QED BY <1>2, Zenon DEF Values, Rests

LEMMA ValuesAre == Values \subseteq Seq(Chars)
  BY TextIs, Zenon DEF Values

(* What begins with all of a value begins with its first words. *)
LEMMA GivesWhole ==
  ASSUME NEW m, NEW e \in 0..(ENV_SIZE - 2), NEW k \in Keys, NEW v,
         Gives(m, e, k, v)
  PROVE  GivesFirst(m, e, k, v)
<1>1. <<>> \in Rests
  BY Zenon DEF Rests
<1> SUFFICES Gives(m, e, k, v \o <<>>)
  BY <1>1, Zenon DEF GivesFirst
<1> SUFFICES ASSUME NEW i \in 0..e, NEW j \in 0..e, Defines(m, e, k, i, j)
             PROVE  IsValue(v \o <<>>, m, k, i, j)
  BY Zenon DEF Gives, IsValue
<1>2. IsValue(v, m, k, i, j)
  BY Zenon DEF Gives, IsValue
<1> DEFINE N == j - i - Len(k) - 1
           w == [n \in 1..N |-> m[i + Len(k) + n]]
           S == {w[n] : n \in 1..N}
<1>3. v = w
  BY <1>2, Zenon DEF IsValue
<1>4. k \in Seq(Chars)
  BY KeyOfKey, Zenon
<1>5. Len(k) \in Nat /\ i + Len(k) < j
  BY <1>4, LenProperties DEF Defines
<1>6. N \in Nat
  BY <1>5, Size
<1>7. w \in Seq(S)
  <2>1. \A n \in 1..N : w[n] \in S
    OBVIOUS
  <2> HIDE DEF N, S
  <2> QED BY <1>6, <2>1, IsASeq
<1> HIDE DEF w, N, S
<1>8. w \o <<>> = w
  BY <1>7, ConcatEmptySeq
<1>9. v \o <<>> = v
  BY <1>3, <1>8
<1> QED BY <1>2, <1>9

(* The invariant: its part about one list, and the one about each copy. *)
Holds(m, e) == /\ Listed(m, e) /\ Definitions(m, e)
               /\ \A k \in Keys : Once(m, e, k)

LEMMA InitInv == Init => EnvInv
<1> SUFFICES ASSUME Init PROVE EnvInv
  OBVIOUS
<1>1. /\ env_data = Relocated
      /\ copied = [k \in Followed |-> getenv(env_data, k)]
  BY Zenon DEF Init
<1>2. Relocated \in [Addrs -> Chars \union {NUL}]
  <2> DEFINE C == Chars \union {NUL}
  <2>1. Default \in Seq(C) /\ NUL \in C /\ ENV_SIZE \in Nat
    BY EnvAssumption
  <2> HIDE DEF C
  <2>2. Len(Default) \in Nat
    BY <2>1, LenProperties
  <2>3. ASSUME NEW a \in Addrs
        PROVE  (IF a < Len(Default) THEN Default[a + 1] ELSE NUL) \in C
    <3>1. a < Len(Default) => a + 1 \in 1..Len(Default)
      BY <2>1, <2>2 DEF Addrs
    <3>2. a < Len(Default) => Default[a + 1] \in C
      BY <2>1, <3>1, ElementOfSeq
    <3> QED BY <2>1, <3>2
  <2> QED BY <2>3 DEF Relocated, C
<1>3. PICK e \in 0..(ENV_SIZE - 2) : Holds(env_data, e)
  BY <1>1, DefaultAssumption, Zenon DEF Holds
<1>4. ASSUME NEW k \in Followed PROVE GivesFirst(env_data, e, k, copied[k])
  <2>1. k \in Keys
    BY PlainKey, Zenon
  <2>2. Gives(env_data, e, k, getenv(env_data, k))
    BY <1>3, <2>1, GetGives, Zenon DEF Holds
  <2>3. copied[k] = getenv(env_data, k)
    BY <1>1, Zenon
  <2>4. Gives(env_data, e, k, copied[k])
    BY <2>2, <2>3, Zenon
  <2> QED BY <2>1, <2>4, GivesWhole, Zenon
<1>5. DOMAIN copied = Followed
  BY <1>1, Zenon
<1>6. env_data \in [Addrs -> Chars \union {NUL}]
  BY <1>1, <1>2, Zenon
<1> QED BY <1>3, <1>4, <1>5, <1>6, Zenon DEF EnvInv, Holds

(* What setenv has deleted, and what it has appended to that. *)
LEMMA WithoutHolds ==
  ASSUME env_data \in Store, NEW e, Holds(env_data, e), NEW name \in Names
  PROVE  /\ Without(name) \in Store
         /\ \E e2 \in 0..(ENV_SIZE - 2) :
              /\ Holds(Without(name), e2)
              /\ \A k \in Keys : Stays(env_data, e, Without(name), e2, k, name)
              /\ Freed(env_data, e, Key(name), e2)
  BY WithoutKeeps, Zenon DEF Holds, Stays

LEMMA AppendHolds ==
  ASSUME NEW m \in Store, NEW e, Holds(m, e),
         NEW name \in Names, NEW val \in Values, ~Defined(m, e, Key(name)),
         ~(Needed(name, val) > ENV_SIZE - AppendAt(m))
  PROVE  /\ Appended(m, name, val) \in Store
         /\ \E z \in 0..(ENV_SIZE - 2) :
              /\ Holds(Appended(m, name, val), z)
              /\ \A k \in Keys :
                   Sets(m, e, Appended(m, name, val), z, k, name, val)
              /\ Freed(Appended(m, name, val), z, Key(name), e)
<1> DEFINE m2 == Appended(m, name, val)
<1>1. name \in Seq(Chars) /\ val \in Seq(Chars)
  BY EnvAssumption, ValuesAre
<1>2. Listed(m, e) /\ Definitions(m, e) /\ \A k \in Keys : Once(m, e, k)
  BY Zenon DEF Holds
<1>3. m2 \in Store
  BY <1>1, <1>2, AppendKeeps, Zenon
<1>4. PICK z \in 0..(ENV_SIZE - 2) :
        /\ Listed(m2, z) /\ Definitions(m2, z)
        /\ \A k \in Keys : Sets(m, e, m2, z, k, name, val)
        /\ Freed(m2, z, Key(name), e)
  BY <1>1, <1>2, AppendKeeps, Zenon
<1> HIDE DEF m2
<1>5. ASSUME NEW k \in Keys PROVE Once(m2, z, k)
  BY <1>2, <1>4, Zenon DEF Sets
<1>6. Holds(m2, z)
  BY <1>4, <1>5, Zenon DEF Holds
<1> QED BY <1>3, <1>4, <1>6, Zenon DEF m2

(* Deleting, with or without success afterwards *)
LEMMA WithoutInv ==
  ASSUME EnvInv, NEW name \in Names, env_data' = Without(name),
         UNCHANGED copied
  PROVE  EnvInv'
<1>1. env_data \in Store /\ DOMAIN copied = Followed
  BY Zenon DEF EnvInv, Store
<1>2. PICK e \in 0..(ENV_SIZE - 2) :
        /\ Holds(env_data, e)
        /\ PlainlySet(Followed) =>
             \A k \in Followed : GivesFirst(env_data, e, k, copied[k])
  BY Zenon DEF EnvInv, Holds
<1> DEFINE W == Without(name)
<1>3. W \in Store
  BY <1>1, <1>2, WithoutHolds, Zenon
<1>4. PICK e2 \in 0..(ENV_SIZE - 2) :
        /\ Holds(W, e2)
        /\ \A k \in Keys : Stays(env_data, e, W, e2, k, name)
  BY <1>1, <1>2, WithoutHolds, Zenon
<1> HIDE DEF W
<1>5. ASSUME PlainlySet(Followed), NEW k \in Followed
      PROVE  GivesFirst(W, e2, k, copied[k])
  <2>1. PICK r \in Rests : Gives(env_data, e, k, copied[k] \o r)
    BY <1>2, <1>5, Zenon DEF GivesFirst
  <2>2. Gives(W, e2, k, copied[k] \o r)
    BY <1>4, <2>1, PlainKey, Zenon DEF Stays
  <2> QED BY <2>2, Zenon DEF GivesFirst
<1>6. env_data' = W /\ copied' = copied
  BY Zenon DEF W
<1> QED BY <1>1, <1>3, <1>4, <1>5, <1>6, Zenon DEF EnvInv, Holds, Store

LEMMA SetInv ==
  ASSUME EnvInv, NEW name \in Names, NEW arg \in Arguments, Set(name, arg)
  PROVE  EnvInv'
<1>1. env_data \in Store /\ DOMAIN copied = Followed
  BY Zenon DEF EnvInv, Store
<1>2. PICK e \in 0..(ENV_SIZE - 2) :
        /\ Holds(env_data, e)
        /\ PlainlySet(Followed) =>
             \A k \in Followed : GivesFirst(env_data, e, k, copied[k])
  BY Zenon DEF EnvInv, Holds
<1> DEFINE W == Without(name)
           val == Text(arg)
           m2 == Appended(W, name, val)
<1> val \in Values /\ arg.rest \in Rests
  BY TextIs, Zenon
<1>3. W \in Store
  BY <1>1, <1>2, WithoutHolds, Zenon
<1>4. PICK e2 \in 0..(ENV_SIZE - 2) :
        /\ Holds(W, e2)
        /\ \A k \in Keys : Stays(env_data, e, W, e2, k, name)
  BY <1>1, <1>2, WithoutHolds, Zenon
<1>5. ~Defined(W, e2, Key(name))
  <2>1. Key(name) \in Keys
    BY Zenon DEF Keys
  <2> QED BY <1>4, <2>1, Zenon DEF Stays
<1>6. ~(Needed(name, val) > ENV_SIZE - AppendAt(W))
  BY Zenon DEF Set, Overflows
<1>7. env_data' = m2 /\ copied' = Updated(name, arg)
  BY Zenon DEF Set
<1> val = arg.word \o arg.rest
  BY Zenon DEF Text
<1> HIDE DEF W, val
<1>8. m2 \in Store
  BY <1>3, <1>4, <1>5, <1>6, AppendHolds, Zenon
<1>9. PICK z \in 0..(ENV_SIZE - 2) :
        /\ Holds(m2, z)
        /\ \A k \in Keys : Sets(W, e2, m2, z, k, name, val)
  BY <1>3, <1>4, <1>5, <1>6, AppendHolds, Zenon
<1> HIDE DEF m2
<1>10. DOMAIN copied' = Followed
  BY <1>1, <1>7 DEF Updated
<1>11. ASSUME PlainlySet(Followed), NEW k \in Followed
       PROVE  GivesFirst(m2, z, k, copied'[k])
  <2>1. GivesFirst(env_data, e, k, copied[k]) /\ k \in Keys /\ Key(k) = k
    BY <1>2, <1>11, PlainKey, Zenon
  <2>2. Stays(env_data, e, W, e2, k, name) /\ Sets(W, e2, m2, z, k, name, val)
    BY <1>4, <1>9, <2>1, Zenon
  <2>3. CASE Key(name) = k
    <3>1. name = k /\ Given(name, val) = val
      BY <1>11, <2>1, <2>3, Zenon DEF PlainlySet, Given
    <3>2. copied'[k] = arg.word
      BY <1>1, <1>7, <3>1 DEF Updated
    <3>3. ~Defined(W, e2, k)
      BY <1>5, <2>3, Zenon
    <3>4. Gives(m2, z, k, Given(name, val))
      BY <2>2, <2>3, <3>3, Zenon DEF Sets
    <3>5. Gives(m2, z, k, copied'[k] \o arg.rest)
      BY <3>1, <3>2, <3>4, Zenon
    <3> QED BY <3>5, Zenon DEF GivesFirst
  <2>4. CASE Key(name) # k
    <3>1. name # k
      BY <2>1, <2>4, Zenon
    <3>2. copied'[k] = copied[k]
      BY <1>1, <1>7, <3>1 DEF Updated
    <3>3. PICK r \in Rests : Gives(env_data, e, k, copied[k] \o r)
      BY <2>1, Zenon DEF GivesFirst
    <3>4. Gives(W, e2, k, copied[k] \o r)
      BY <2>1, <2>2, <3>3, Zenon DEF Stays
    <3>5. Gives(m2, z, k, copied'[k] \o r)
      BY <2>2, <2>4, <3>2, <3>4, Zenon DEF Sets
    <3> QED BY <3>5, Zenon DEF GivesFirst
  <2> QED BY <2>3, <2>4
<1> QED BY <1>7, <1>8, <1>9, <1>10, <1>11, Zenon DEF EnvInv, Holds, Store

LEMMA NextInv == EnvInv /\ [Next]_vars => EnvInv'
<1> SUFFICES ASSUME EnvInv, [Next]_vars PROVE EnvInv'
  OBVIOUS
<1>1. ASSUME NEW name \in Names, SetRefused(name) PROVE EnvInv'
  <2>1. env_data' = env_data /\ copied' = copied
    BY <1>1 DEF SetRefused
  <2> QED BY <2>1, Zenon DEF EnvInv
<1>2. ASSUME NEW name \in Names, SetDelete(name) PROVE EnvInv'
  <2>1. env_data' = Without(name) /\ UNCHANGED copied
    BY <1>2, Zenon DEF SetDelete
  <2> QED BY <2>1, WithoutInv, Zenon
<1>3. ASSUME NEW name \in Names, NEW arg \in Arguments,
             SetOverflow(name, Text(arg))
      PROVE  EnvInv'
  <2>1. env_data' = Without(name) /\ UNCHANGED copied
    BY <1>3, Zenon DEF SetOverflow
  <2> QED BY <2>1, WithoutInv, Zenon
<1>4. ASSUME NEW name \in Names, NEW arg \in Arguments, Set(name, arg)
      PROVE  EnvInv'
  BY <1>4, SetInv, Zenon
<1>5. CASE UNCHANGED vars
  <2>1. env_data' = env_data /\ copied' = copied
    BY <1>5 DEF vars
  <2> QED BY <2>1, Zenon DEF EnvInv
<1> QED BY <1>1, <1>2, <1>3, <1>4, <1>5, Zenon DEF Next

(* EnvInv holds after every sequence of setenv calls.                      *)
THEOREM EnvInvariance == Spec => []EnvInv
<1>1. Init => EnvInv
  BY InitInv
<1>2. EnvInv /\ [Next]_vars => EnvInv'
  BY NextInv
<1> QED BY <1>1, <1>2, PTL DEF Spec

(* Whatever is set, deleted, refused or does not fit, in a store of any    *)
(* size: the two NULs at which the loops of cmd_nvedit.c stop are in the   *)
(* store, and every string in front of them has its '='.                   *)
THEOREM ListStaysWellFormed == Spec => []WellFormed
<1>1. EnvInv => WellFormed
  <2> SUFFICES ASSUME EnvInv PROVE WellFormed
    OBVIOUS
  <2>1. PICK e \in 0..(ENV_SIZE - 2) :
          Listed(env_data, e) /\ Definitions(env_data, e)
    BY Zenon DEF EnvInv
  <2>2. env_data[e] = NUL /\ env_data[e + 1] = NUL
    BY <2>1, Zenon DEF Listed
  <2>3. ASSUME NEW i \in Entries(env_data)
        PROVE  \E j \in i..EntryEnd(env_data, i) : env_data[j] = EQ
    <3> DEFINE q == EntryEnd(env_data, i)
    <3>1. String(env_data, e, i, q) /\ i \in 0..e /\ q \in 0..e
      BY <2>1, <2>3, FoundString, Zenon
    <3> HIDE DEF q
    <3>2. PICK a \in i..(q - 1) : env_data[a] = EQ
      BY <2>1, <3>1, Zenon DEF Definitions
    <3>3. a \in i..q
      BY <3>1
    <3> QED BY <3>2, <3>3, Zenon DEF q
  <2> QED BY <2>2, <2>3, Zenon DEF WellFormed
<1> QED BY <1>1, EnvInvariance, PTL

(* "Some variables should be updated when the corresponding entry in the   *)
(* enviornment is changed": if no name is given with an '=' in it to set a *)
(* followed variable, the copy of each one that getenv finds is made from  *)
(* what getenv returns, or from the first word of it, for any names, any   *)
(* numbers of words and any store.                                         *)
THEOREM CopiesFollow == PlainlySet(Followed) => (Spec => []CopyFollows)
<1> SUFFICES ASSUME PlainlySet(Followed) PROVE Spec => []CopyFollows
  OBVIOUS
<1>1. EnvInv => CopyFollows
  <2> SUFFICES ASSUME EnvInv, NEW k \in Followed, getenv(env_data, k) # None
               PROVE  \E r \in Rests : getenv(env_data, k) = copied[k] \o r
    BY Zenon DEF CopyFollows
  <2>0. PICK e \in 0..(ENV_SIZE - 2) :
          Listed(env_data, e) /\ GivesFirst(env_data, e, k, copied[k])
    BY Zenon DEF EnvInv
  <2>1. PICK r \in Rests :
          Listed(env_data, e) /\ Gives(env_data, e, k, copied[k] \o r)
    BY <2>0, Zenon DEF GivesFirst
  <2> k \in Keys
    BY PlainKey, Zenon
  <2>2. Matches(env_data, k) # {}
    BY Zenon DEF getenv
  <2>3. PICK i \in 0..e, j \in 0..e :
          /\ Defines(env_data, e, k, i, j)
          /\ IsValue(getenv(env_data, k), env_data, k, i, j)
    BY <2>1, <2>2, GetFinds, Zenon
  <2>4. IsValue(copied[k] \o r, env_data, k, i, j)
    BY <2>1, <2>3, Zenon DEF Gives, IsValue
  <2> QED BY <2>3, <2>4, Zenon DEF IsValue
<1> QED BY <1>1, EnvInvariance, PTL
-----------------------------------------------------------------------------
(* The list as a map.  What getenv returns is the value that is given, and *)
(* None only for a variable that is not defined.                           *)
Reads(m, k, v) == getenv(m, k) = v

LEMMA ReadsNone ==
  ASSUME NEW m, NEW e, Listed(m, e), NEW k \in Keys, ~Defined(m, e, k)
  PROVE  Reads(m, k, None)
<1>1. Matches(m, k) = {}
  BY DefinedMatch, Zenon
<1> QED BY <1>1, Zenon DEF getenv, Reads

LEMMA ReadsGiven ==
  ASSUME NEW m, NEW e, Listed(m, e), NEW k \in Keys, Defined(m, e, k),
         NEW v, Gives(m, e, k, v)
  PROVE  Reads(m, k, v)
<1>1. Matches(m, k) # {}
  BY DefinedMatch, Zenon
<1>2. PICK i \in 0..e, j \in 0..e :
        Defines(m, e, k, i, j) /\ IsValue(getenv(m, k), m, k, i, j)
  BY <1>1, GetFinds, Zenon
<1>3. IsValue(v, m, k, i, j)
  BY <1>2, Zenon DEF Gives, IsValue
<1> QED BY <1>2, <1>3, Zenon DEF IsValue, Reads

LEMMA ReadsSome ==
  ASSUME NEW m \in Store, NEW e, Listed(m, e), NEW k \in Keys, Once(m, e, k),
         NEW i, NEW j, Defines(m, e, k, i, j)
  PROVE  ~Reads(m, k, None) /\ Len(getenv(m, k)) = j - i - Len(k) - 1
<1> DEFINE v == getenv(m, k)
           N == j - i - Len(k) - 1
<1>1. /\ k \in Seq(Chars) /\ Len(k) \in Nat /\ e \in Nat
      /\ e \in 0..(ENV_SIZE - 2) /\ ENV_SIZE \in Nat
  BY KeyOfKey, LenProperties, Size DEF Listed
<1>2. i \in 0..e /\ j \in 0..e /\ i + Len(k) < j
  BY InList, Zenon DEF Defines
<1>3. N \in Nat
  BY <1>1, <1>2
<1>4. Gives(m, e, k, v)
  BY GetGives, Zenon
<1>5. v = [n \in 1..N |-> m[i + Len(k) + n]]
  BY <1>2, <1>4, Zenon DEF Gives
<1> HIDE DEF v, N
<1>6. Len(v) = N
  BY <1>3, <1>5
<1>7. ASSUME v = None PROVE FALSE
  <2>1. N = 1
    BY <1>6, <1>7 DEF None
  <2>2. v[1] = m[i + Len(k) + 1]
    BY <1>5, <2>1
  <2>3. i + Len(k) + 1 \in Addrs
    BY <1>1, <1>2 DEF Addrs
  <2>4. v[1] \in Chars \union {NUL}
    BY <2>2, <2>3 DEF Store
  <2>5. v[1] = "unset"
    BY <1>7 DEF None
  <2> QED BY <2>4, <2>5, EnvAssumption DEF NUL
<1> QED BY <1>6, <1>7, Zenon DEF v, N, Reads

(* The room a variable takes in the map is what its string takes. *)
LEMMA RoomFreed ==
  ASSUME NEW m \in Store, NEW e, Holds(m, e), NEW k \in Keys, NEW e2 \in Nat,
         Freed(m, e, k, e2)
  PROVE  /\ Map!Room(Dict(m), k) \in Int
         /\ Shrunk(e, e2, Map!Room(Dict(m), k))
<1>1. Listed(m, e) /\ Once(m, e, k)
  BY Zenon DEF Holds
<1>2. Dict(m)[k] = getenv(m, k) /\ Map!Unset = None
  BY DEF Dict, Map!Unset, None
<1>3. End(e) \in Nat /\ e \in Nat
  <2>1. End(e) \in Nat
    BY <1>1, AppendEnd, Zenon
  <2>2. e \in 0..(ENV_SIZE - 2)
    BY <1>1, Zenon DEF Listed
  <2> QED BY <2>1, <2>2, Size
<1>4. CASE ~Defined(m, e, k) /\ e2 = e
  <2>1. Reads(m, k, None)
    BY <1>1, <1>4, ReadsNone, Zenon
  <2>2. Map!Room(Dict(m), k) = 0
    BY <1>2, <2>1, Zenon DEF Map!Room, Reads
  <2> QED BY <1>3, <1>4, <2>2 DEF Shrunk
<1>5. ASSUME NEW i \in 0..e, NEW j \in 0..e, Defines(m, e, k, i, j),
             Shrunk(e, e2, j + 1 - i)
      PROVE  /\ Map!Room(Dict(m), k) \in Int
             /\ Shrunk(e, e2, Map!Room(Dict(m), k))
  <2>1. ~Reads(m, k, None) /\ Len(getenv(m, k)) = j - i - Len(k) - 1
    BY <1>1, <1>5, ReadsSome
  <2>2. Map!Room(Dict(m), k) = Len(k) + Len(getenv(m, k)) + 2
    BY <1>2, <2>1, Zenon DEF Map!Room, Reads
  <2>3. Len(k) \in Nat
    BY KeyOfKey, LenProperties
  <2>4. Map!Room(Dict(m), k) = j + 1 - i
    BY <1>3, <2>1, <2>2, <2>3
  <2> QED BY <1>3, <1>5, <2>4
<1> QED BY <1>4, <1>5, Zenon DEF Freed

(* The list m has become m2: variable k has got the value v. *)
Agrees(m, m2, k, v) == Dict(m2) = [Dict(m) EXCEPT ![k] = v]

LEMMA AgreesIf ==
  ASSUME NEW m, NEW m2, NEW k \in Keys, NEW v, Reads(m2, k, v),
         \A K \in Keys \ {k} : Reads(m2, K, getenv(m, K))
  PROVE  Agrees(m, m2, k, v)
<1>1. DOMAIN Dict(m) = Keys /\ \A K \in Keys : Dict(m)[K] = getenv(m, K)
  BY DEF Dict
<1>2. Dict(m2) = [K \in Keys |-> getenv(m2, K)]
  BY DEF Dict
<1>3. \A K \in Keys : getenv(m2, K) = IF K = k THEN v ELSE Dict(m)[K]
  BY <1>1, Zenon DEF Reads
<1> QED BY <1>1, <1>2, <1>3 DEF Agrees

(* Another variable is read as before. *)
LEMMA ReadsSame ==
  ASSUME NEW m, NEW e, Holds(m, e), NEW m2, NEW e2, Holds(m2, e2),
         NEW k \in Keys, Defined(m2, e2, k) <=> Defined(m, e, k),
         \A v : Gives(m, e, k, v) => Gives(m2, e2, k, v)
  PROVE  Reads(m2, k, getenv(m, k))
<1>1. Listed(m, e) /\ Listed(m2, e2) /\ Once(m, e, k)
  BY Zenon DEF Holds
<1>2. CASE Defined(m, e, k)
  <2>1. Gives(m2, e2, k, getenv(m, k))
    BY <1>1, GetGives, Zenon
  <2> QED BY <1>1, <1>2, <2>1, ReadsGiven, Zenon
<1>3. CASE ~Defined(m, e, k)
  <2>1. Reads(m, k, None) /\ Reads(m2, k, None)
    BY <1>1, <1>3, ReadsNone, Zenon
  <2> QED BY <2>1, Zenon DEF Reads
<1> QED BY <1>2, <1>3

LEMMA WithoutAgrees ==
  ASSUME NEW m, NEW e, Holds(m, e), NEW m2, NEW e2, Holds(m2, e2),
         NEW name \in Names, \A k \in Keys : Stays(m, e, m2, e2, k, name)
  PROVE  Agrees(m, m2, Key(name), None)
<1>1. Key(name) \in Keys
  BY Zenon DEF Keys
<1>2. Reads(m2, Key(name), None)
  <2>1. Listed(m2, e2) /\ ~Defined(m2, e2, Key(name))
    BY <1>1, Zenon DEF Holds, Stays
  <2> QED BY <1>1, <2>1, ReadsNone, Zenon
<1>3. ASSUME NEW k \in Keys \ {Key(name)} PROVE Reads(m2, k, getenv(m, k))
  <2>1. k \in Keys /\ Key(name) # k
    BY <1>3, Zenon
  <2>2. /\ Defined(m2, e2, k) <=> Defined(m, e, k)
        /\ \A v : Gives(m, e, k, v) => Gives(m2, e2, k, v)
    BY <2>1, Zenon DEF Stays
  <2> QED BY <2>1, <2>2, ReadsSame, Zenon
<1> QED BY <1>1, <1>2, <1>3, AgreesIf, Zenon

LEMMA AppendAgrees ==
  ASSUME NEW m, NEW e, Holds(m, e), NEW W, NEW e2, Holds(W, e2),
         NEW m2, NEW z, Holds(m2, z), NEW name \in Names, NEW val,
         \A k \in Keys : Stays(m, e, W, e2, k, name),
         \A k \in Keys : Sets(W, e2, m2, z, k, name, val)
  PROVE  Agrees(m, m2, Key(name), Given(name, val))
<1>1. Key(name) \in Keys
  BY Zenon DEF Keys
<1>2. Reads(m2, Key(name), Given(name, val))
  <2>1. Listed(m2, z) /\ ~Defined(W, e2, Key(name))
    BY <1>1, Zenon DEF Holds, Stays
  <2>2. /\ Defined(m2, z, Key(name))
        /\ Gives(m2, z, Key(name), Given(name, val))
    BY <1>1, <2>1, Zenon DEF Sets
  <2> QED BY <1>1, <2>1, <2>2, ReadsGiven, Zenon
<1>3. ASSUME NEW k \in Keys \ {Key(name)} PROVE Reads(m2, k, getenv(m, k))
  <2>1. k \in Keys /\ Key(name) # k
    BY <1>3, Zenon
  <2>2. /\ Defined(W, e2, k) <=> Defined(m, e, k)
        /\ \A v : Gives(m, e, k, v) => Gives(W, e2, k, v)
    BY <2>1, Zenon DEF Stays
  <2>3. /\ Defined(m2, z, k) <=> Defined(W, e2, k)
        /\ \A v : Gives(W, e2, k, v) => Gives(m2, z, k, v)
    BY <2>1, Zenon DEF Sets
  <2> QED BY <2>1, <2>2, <2>3, ReadsSame, Zenon
<1> QED BY <1>1, <1>2, <1>3, AgreesIf, Zenon

(* What a call that deletes means for the map, and one that also sets. *)
LEMMA DeleteBecomes ==
  ASSUME EnvInv, NEW name \in Names
  PROVE  \E e2 \in 0..(ENV_SIZE - 2) :
           /\ Holds(Without(name), e2) /\ ~Defined(Without(name), e2, Key(name))
           /\ Agrees(env_data, Without(name), Key(name), None)
           /\ AppendAt(Without(name)) + Map!Room(Dict(env_data), Key(name))
                = AppendAt(env_data)
           /\ AppendAt(env_data) \in Nat /\ AppendAt(Without(name)) \in Nat
           /\ Map!Room(Dict(env_data), Key(name)) \in Int
           /\ \A val \in Values :
                ~(Needed(name, val) > ENV_SIZE - AppendAt(Without(name))) =>
                  /\ Agrees(env_data, Appended(Without(name), name, val),
                            Key(name), Given(name, val))
                  /\ AppendAt(Appended(Without(name), name, val))
                       = AppendAt(Without(name))
                           + Map!Room(Dict(Appended(Without(name), name, val)),
                                      Key(name))
                  /\ Map!Room(Dict(Appended(Without(name), name, val)),
                              Key(name)) \in Int
<1> DEFINE W == Without(name)
           k == Key(name)
           R(m) == Map!Room(Dict(m), k)
<1>1. env_data \in Store /\ k \in Keys
  BY Zenon DEF EnvInv, Store, Keys
<1>2. PICK e \in 0..(ENV_SIZE - 2) : Holds(env_data, e)
  BY Zenon DEF EnvInv, Holds
<1>3. W \in Store
  BY <1>1, <1>2, WithoutHolds, Zenon
<1>4. PICK e2 \in 0..(ENV_SIZE - 2) :
        /\ Holds(W, e2)
        /\ \A K \in Keys : Stays(env_data, e, W, e2, K, name)
        /\ Freed(env_data, e, k, e2)
  BY <1>1, <1>2, WithoutHolds, Zenon
<1> HIDE DEF W
<1>5. Agrees(env_data, W, k, None)
  BY <1>2, <1>4, WithoutAgrees, Zenon
<1>6. ~Defined(W, e2, k)
  BY <1>1, <1>4, Zenon DEF Stays
<1>7. e2 \in Nat /\ ENV_SIZE \in Nat
  BY Size
<1> HIDE DEF k
<1>8. R(env_data) \in Int /\ Shrunk(e, e2, R(env_data))
  BY <1>1, <1>2, <1>4, <1>7, RoomFreed, Zenon
<1>9. /\ AppendAt(env_data) = End(e) /\ End(e) \in Nat
      /\ AppendAt(W) = End(e2) /\ End(e2) \in Nat
  BY <1>2, <1>4, AppendEnd DEF Holds
<1> HIDE DEF R
<1>10. AppendAt(W) + R(env_data) = AppendAt(env_data)
  BY <1>8, <1>9 DEF Shrunk
<1>11. ASSUME NEW val \in Values,
              ~(Needed(name, val) > ENV_SIZE - AppendAt(W))
       PROVE  /\ Agrees(env_data, Appended(W, name, val), k, Given(name, val))
              /\ AppendAt(Appended(W, name, val))
                   = AppendAt(W) + R(Appended(W, name, val))
              /\ R(Appended(W, name, val)) \in Int
  <2> DEFINE m2 == Appended(W, name, val)
  <2>1. m2 \in Store
    BY <1>3, <1>4, <1>6, <1>11, AppendHolds, Zenon DEF k
  <2>2. PICK z \in 0..(ENV_SIZE - 2) :
          /\ Holds(m2, z)
          /\ \A K \in Keys : Sets(W, e2, m2, z, K, name, val)
          /\ Freed(m2, z, k, e2)
    BY <1>3, <1>4, <1>6, <1>11, AppendHolds, Zenon DEF k
  <2> HIDE DEF m2
  <2>3. Agrees(env_data, m2, k, Given(name, val))
    BY <1>2, <1>4, <2>2, AppendAgrees, Zenon DEF k
  <2>4. R(m2) \in Int /\ Shrunk(z, e2, R(m2))
    BY <1>1, <1>7, <2>1, <2>2, RoomFreed, Zenon DEF R
  <2>5. AppendAt(m2) = End(z) /\ End(z) \in Nat
    BY <2>2, AppendEnd DEF Holds
  <2>6. AppendAt(m2) = AppendAt(W) + R(m2)
    BY <1>9, <2>4, <2>5 DEF Shrunk
  <2> QED BY <2>3, <2>4, <2>6, Zenon DEF m2
<1> QED BY <1>4, <1>5, <1>6, <1>8, <1>9, <1>10, <1>11, Zenon DEF W, k, R

(* An '=' in the name moves what follows it to the value. *)
LEMMA GivenLen ==
  ASSUME NEW name \in Seq(Chars), NEW val \in Seq(Chars)
  PROVE  /\ Len(Key(name)) + Len(Given(name, val)) = Len(name) + Len(val)
         /\ Len(Key(name)) \in Nat /\ Len(Given(name, val)) \in Nat
<1> DEFINE c == Len(Key(name))
           l == Len(name)
           g == Given(name, val)
           s == SubSeq(name, c + 2, l)
<1>1. Key(name) \in Seq(Chars) /\ (Key(name) = name \/ c < l)
  BY KeyIs, Zenon
<1>2. c \in Nat /\ l \in Nat /\ Len(val) \in Nat
  BY <1>1, LenProperties
<1>3. CASE Key(name) = name
  <2>1. g = val /\ c = l
    BY <1>3, Zenon DEF Given
  <2> QED BY <1>2, <2>1
<1>4. CASE Key(name) # name
  <2>1. g = s \o <<EQ>> \o val
    BY <1>4, Zenon DEF Given
  <2>2. c < l /\ EQ \in Chars
    BY <1>1, <1>4, EnvAssumption
  <2> HIDE DEF g, c
  <2>3. s \in Seq(Chars) /\ Len(s) = l - c - 1
    BY <1>2, <2>2, SubSeqProperties
  <2> HIDE DEF s, l
  <2>4. s \o <<EQ>> \in Seq(Chars) /\ Len(s \o <<EQ>>) = l - c
    BY <1>2, <2>2, <2>3
  <2>5. Len(g) = Len(s \o <<EQ>>) + Len(val)
    BY <2>1, <2>4, ConcatProperties, Zenon
  <2> QED BY <1>2, <2>2, <2>4, <2>5 DEF c, g, l
<1> QED BY <1>3, <1>4

(* The value fits in the map if it does in the list. *)
LEMMA FitsIf ==
  ASSUME EnvInv, NEW name \in Names, NEW val \in Values
  PROVE  Map!Fits(Key(name), Given(name, val)) <=> ~Overflows(name, val)
<1> DEFINE A == AppendAt(Without(name))
           B == AppendAt(env_data)
           R == Map!Room(Dict(env_data), Key(name))
           c == Len(Key(name))
           g == Len(Given(name, val))
<1>1. A + R = B /\ A \in Nat /\ B \in Nat /\ R \in Int
  BY DeleteBecomes, Zenon
<1>2. name \in Seq(Chars) /\ val \in Seq(Chars) /\ ENV_SIZE \in Nat
  BY EnvAssumption, ValuesAre
<1>3. c + g = Len(name) + Len(val) /\ c \in Nat /\ g \in Nat
  BY <1>2, GivenLen
<1>4. Len(name) \in Nat /\ Len(val) \in Nat
  BY <1>2, LenProperties
<1>5. Overflows(name, val) <=> Len(name) + Len(val) + 3 > ENV_SIZE - A
  BY DEF Overflows, Needed
<1>6. Map!Fits(Key(name), Given(name, val))
        <=> (B + 1) - R + c + g + 2 <= ENV_SIZE
  BY Zenon DEF Map!Fits
<1> HIDE DEF A, B, R, c, g
<1> QED BY <1>1, <1>2, <1>3, <1>4, <1>5, <1>6

(* The set-once test of setenv looks at the name as it is given, the one   *)
(* of the map at the variable.                                             *)
LEMMA MayChangeIf ==
  ASSUME PlainlySet(Protected), NEW name \in Names, MayWrite(name)
  PROVE  Map!MayChange(Key(name))
<1>1. Key(name) \in Keys
  BY Zenon DEF Keys
<1>2. Dict(env_data)[Key(name)] = getenv(env_data, Key(name))
  BY <1>1 DEF Dict
<1>3. CASE Key(name) \in Protected
  <2>1. name = Key(name)
    BY <1>3, Zenon DEF PlainlySet
  <2>2. Matches(env_data, Key(name)) = {}
    BY <1>3, <2>1, Zenon DEF MayWrite
  <2>3. getenv(env_data, Key(name)) = None
    BY <2>2, Zenon DEF getenv
  <2> QED BY <1>2, <2>3 DEF Map!MayChange, Map!Unset, None
<1>4. CASE Key(name) \notin Protected
  BY <1>4 DEF Map!MayChange
<1> QED BY <1>3, <1>4

LEMMA BecomesNone ==
  ASSUME EnvInv, NEW name \in Names, env_data' = Without(name)
  PROVE  Map!Becomes(Key(name), Map!Unset)
<1> DEFINE W == Without(name)
           k == Key(name)
<1>1. k \in Keys /\ Map!Unset = None
  BY Zenon DEF Keys, Map!Unset, None
<1>2. /\ Agrees(env_data, W, k, None)
      /\ AppendAt(W) + Map!Room(Dict(env_data), k) = AppendAt(env_data)
      /\ AppendAt(env_data) \in Nat /\ AppendAt(W) \in Nat
      /\ Map!Room(Dict(env_data), k) \in Int
  BY DeleteBecomes, Zenon
<1> HIDE DEF W, k
<1>3. Dict(W) = [Dict(env_data) EXCEPT ![k] = None]
  BY <1>2, Zenon DEF Agrees
<1>4. Dict(W)[k] = None
  BY <1>1, <1>3 DEF Dict
<1>5. Map!Room(Dict(W), k) = 0
  BY <1>1, <1>4, Zenon DEF Map!Room
<1>6. AppendAt(W) + 1
        = (AppendAt(env_data) + 1) - Map!Room(Dict(env_data), k)
            + Map!Room(Dict(W), k)
  BY <1>2, <1>5
<1>7. env_data' = W
  BY Zenon DEF W
<1>8. /\ Dict(env_data)' = Dict(W)
      /\ (AppendAt(env_data) + 1)' = AppendAt(W) + 1
  BY <1>7
<1> QED BY <1>1, <1>3, <1>6, <1>8, Zenon DEF Map!Becomes, k

LEMMA BecomesGiven ==
  ASSUME EnvInv, NEW name \in Names, NEW arg \in Arguments, Set(name, arg)
  PROVE  Map!Becomes(Key(name), Given(name, Text(arg)))
<1> DEFINE W == Without(name)
           k == Key(name)
           val == Text(arg)
           m2 == Appended(W, name, val)
<1>1. ~(Needed(name, val) > ENV_SIZE - AppendAt(W)) /\ env_data' = m2
  BY Zenon DEF Set, Overflows
<1> val \in Values
  BY TextIs, Zenon
<1> HIDE DEF val
<1>2. /\ Agrees(env_data, m2, k, Given(name, val))
      /\ AppendAt(m2) = AppendAt(W) + Map!Room(Dict(m2), k)
      /\ Map!Room(Dict(m2), k) \in Int
      /\ AppendAt(W) + Map!Room(Dict(env_data), k) = AppendAt(env_data)
      /\ AppendAt(env_data) \in Nat /\ AppendAt(W) \in Nat
      /\ Map!Room(Dict(env_data), k) \in Int
  BY <1>1, DeleteBecomes, Zenon
<1> HIDE DEF W, k, m2
<1>3. Dict(m2) = [Dict(env_data) EXCEPT ![k] = Given(name, val)]
  BY <1>2, Zenon DEF Agrees
<1>4. AppendAt(m2) + 1
        = (AppendAt(env_data) + 1) - Map!Room(Dict(env_data), k)
            + Map!Room(Dict(m2), k)
  BY <1>2
<1>5. /\ Dict(env_data)' = Dict(m2)
      /\ (AppendAt(env_data) + 1)' = AppendAt(m2) + 1
  BY <1>1
<1> QED BY <1>3, <1>4, <1>5, Zenon DEF Map!Becomes, k, val
-----------------------------------------------------------------------------
(* Every call of setenv is a step of the map, ... *)
LEMMA InitMap == Init => Map!Init
<1> SUFFICES ASSUME Init PROVE Map!Init
  OBVIOUS
<1>1. env_data = Relocated /\ returned = 0
  BY Zenon DEF Init
<1>2. Dict(env_data) \in [Keys -> AllValues \union {Map!Unset}]
  <2>1. \A k \in Keys : getenv(Relocated, k) \in AllValues \union {None}
    BY DefaultAssumption, Zenon
  <2>2. \A k \in Keys : getenv(env_data, k) \in AllValues \union {Map!Unset}
    BY <1>1, <2>1, Zenon DEF None, Map!Unset
  <2> QED BY <2>2, Zenon DEF Dict
<1>3. AppendAt(env_data) + 1 = Map!Total(Dict(env_data))
  BY <1>1, DefaultAssumption, Zenon
<1> QED BY <1>1, <1>2, <1>3, Zenon DEF Map!Init

LEMMA RefusedMap ==
  ASSUME EnvInv, NEW name \in Names, SetRefused(name)
  PROVE  Map!Refuse
<1>1. /\ name \in Protected /\ Matches(env_data, name) # {}
      /\ returned' = 1 /\ env_data' = env_data
  BY Zenon DEF SetRefused, MayWrite
<1>2. name \in Keys
  BY <1>1, PlainKey, Zenon
<1>3. PICK e \in 0..(ENV_SIZE - 2) : Holds(env_data, e)
  BY Zenon DEF EnvInv, Holds
<1>4. Listed(env_data, e) /\ Once(env_data, e, name) /\ env_data \in Store
  BY <1>2, <1>3, Zenon DEF EnvInv, Holds, Store
<1>5. PICK i \in 0..e, j \in 0..e : Defines(env_data, e, name, i, j)
  BY <1>1, <1>2, <1>4, GetFinds, Zenon
<1>6. ~Reads(env_data, name, None)
  BY <1>2, <1>4, <1>5, ReadsSome
<1>7. Dict(env_data)[name] # Map!Unset
  BY <1>2, <1>6 DEF Dict, Map!Unset, None, Reads
<1>8. /\ Dict(env_data)' = Dict(env_data)
      /\ (AppendAt(env_data) + 1)' = AppendAt(env_data) + 1
  BY <1>1
<1> QED BY <1>1, <1>7, <1>8, Zenon DEF Map!Refuse

LEMMA StepMap ==
  ASSUME EnvInv, PlainlySet(Protected), [Next]_vars
  PROVE  [Map!Next]_(Map!vars)
<1>1. \A name \in Names : Key(name) \in Keys
  BY Zenon DEF Keys
<1>2. \A name \in Names, val \in Values : Given(name, val) \in AllValues
  BY DEF AllValues
<1>3. ASSUME NEW name \in Names, SetRefused(name) PROVE Map!Next
  <2>1. Map!Refuse
    BY <1>3, RefusedMap, Zenon
  <2> QED BY <2>1, Zenon DEF Map!Next
<1>4. ASSUME NEW name \in Names, SetDelete(name) PROVE Map!Next
  <2>1. MayWrite(name) /\ env_data' = Without(name) /\ returned' = 0
    BY <1>4, Zenon DEF SetDelete
  <2>2. Map!MayChange(Key(name))
    BY <2>1, MayChangeIf, Zenon
  <2>3. Map!Becomes(Key(name), Map!Unset)
    BY <2>1, BecomesNone, Zenon
  <2>4. Map!Delete(Key(name))
    BY <2>1, <2>3, Zenon DEF Map!Delete
  <2> QED BY <1>1, <2>2, <2>4, Zenon DEF Map!Next
<1>5. ASSUME NEW name \in Names, NEW arg \in Arguments,
             SetOverflow(name, Text(arg))
      PROVE  Map!Next
  <2> DEFINE val == Text(arg)
  <2>0. val \in Values
    BY TextIs, Zenon
  <2>1. /\ MayWrite(name) /\ Overflows(name, val)
        /\ env_data' = Without(name) /\ returned' = 1
    BY <1>5, Zenon DEF SetOverflow
  <2> HIDE DEF val
  <2>2. Map!MayChange(Key(name))
    BY <2>1, MayChangeIf, Zenon
  <2>3. Map!Becomes(Key(name), Map!Unset)
    BY <2>1, BecomesNone, Zenon
  <2>4. ~Map!Fits(Key(name), Given(name, val))
    BY <2>0, <2>1, FitsIf, Zenon
  <2>5. Map!SetOverflow(Key(name), Given(name, val))
    BY <2>1, <2>3, <2>4, Zenon DEF Map!SetOverflow
  <2> QED BY <1>1, <1>2, <2>0, <2>2, <2>5, Zenon DEF Map!Next
<1>6. ASSUME NEW name \in Names, NEW arg \in Arguments, Set(name, arg)
      PROVE  Map!Next
  <2> DEFINE val == Text(arg)
  <2>0. val \in Values
    BY TextIs, Zenon
  <2>1. MayWrite(name) /\ ~Overflows(name, val) /\ returned' = 0
    BY <1>6, Zenon DEF Set
  <2>2. Map!MayChange(Key(name))
    BY <2>1, MayChangeIf, Zenon
  <2>3. Map!Becomes(Key(name), Given(name, val))
    BY <1>6, BecomesGiven, Zenon
  <2> HIDE DEF val
  <2>4. Map!Fits(Key(name), Given(name, val))
    BY <2>0, <2>1, FitsIf, Zenon
  <2>5. Map!Set(Key(name), Given(name, val))
    BY <2>1, <2>3, <2>4, Zenon DEF Map!Set
  <2> QED BY <1>1, <1>2, <2>0, <2>2, <2>5, Zenon DEF Map!Next
<1>7. CASE UNCHANGED vars
  <2>1. env_data' = env_data /\ returned' = returned
    BY <1>7 DEF vars
  <2>2. /\ Dict(env_data)' = Dict(env_data)
        /\ (AppendAt(env_data) + 1)' = AppendAt(env_data) + 1
    BY <2>1
  <2> QED BY <2>1, <2>2 DEF Map!vars
<1>8. CASE Next
  BY <1>3, <1>4, <1>5, <1>6, <1>8, Zenon DEF Next
<1> QED BY <1>7, <1>8

(* ... so the list is the map that EnvMap promises, for any names, values  *)
(* and store: setenv gives the variable the value and leaves every other   *)
(* one alone, wherever the strings are moved to, and it fails for want of  *)
(* room only when the variables really take it.  The variables that "can   *)
(* be set only once" must not be set as `name=...', which setenv does not  *)
(* compare with them.                                                      *)
THEOREM ListImplementsMap == PlainlySet(Protected) => (Spec => ListIsMap)
<1> SUFFICES ASSUME PlainlySet(Protected) PROVE Spec => ListIsMap
  OBVIOUS
<1>1. Init => Map!Init
  BY InitMap
<1>2. EnvInv /\ [Next]_vars => [Map!Next]_(Map!vars)
  BY StepMap
<1> QED BY <1>1, <1>2, EnvInvariance, PTL DEF Spec, ListIsMap, Map!Spec
=============================================================================
