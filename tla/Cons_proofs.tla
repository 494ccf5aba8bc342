----------------------------- MODULE Cons_proofs -----------------------------
(***************************************************************************)
(* Proofs about module Cons, for any number of readers, any kinds of keys  *)
(* and any size of kbd.line.  The invariant Inv has two parts.             *)
(*                                                                         *)
(* Hands: who does what.  The line of kbd.lk has whoever has business in   *)
(* the console, its holder alone is in qread of kbdq, kbd.ctl counts who   *)
(* has /dev/consctl, and kbdq holds the bytes gone+1 to sent, of which the *)
(* holder has taken one at most beyond those dealt with (a raw read, as    *)
(* many as it has room for).                                               *)
(*                                                                         *)
(* Lines(b): what became of the bytes.  Up to byte b they are of finished  *)
(* lines or were read raw, and those that survive are in got, buf and      *)
(* lineq; kbd.line holds what is left of b+1 to used, and the n-th byte    *)
(* from its end has n more bytes of text than backspaces after it, which   *)
(* is why one backspace takes back exactly the last byte.                  *)
(***************************************************************************)
EXTENDS Cons, Integers, FiniteSetTheorems, WellFoundedInduction, SequenceTheorems, TLAPS

(* a set of naturals has a least element *)
LEMMA LeastNat ==
  ASSUME NEW T, T \in SUBSET Nat, T # {}
  PROVE  \E m \in T : \A k \in T : m <= k
<1> DEFINE F == {0 .. c-1 : c \in T}
           R == StrictSubsetOrdering(Nat)
<1>1. IsWellFoundedOn(R, FiniteSubsetsOf(Nat))
  BY FS_StrictSubsetOrderingWellFounded
<1>2. F \subseteq FiniteSubsetsOf(Nat)
  <2>1. ASSUME NEW c \in T PROVE 0 .. c-1 \in SUBSET Nat /\ IsFiniteSet(0 .. c-1)
    <3>1. c \in Nat /\ 0 \in Int /\ c - 1 \in Int
      OBVIOUS
    <3> QED BY <3>1, FS_Interval
  <2> QED BY <2>1 DEF FiniteSubsetsOf
<1>3. F # {}
  OBVIOUS
<1>4. \E x \in F : \A y \in F : ~ (<<y, x>> \in R)
  <2> HIDE DEF F, R
  <2> QED BY <1>1, <1>2, <1>3, WFMin
<1>5. PICK m \in T : \A y \in F : ~ (<<y, 0 .. m-1>> \in R)
  BY <1>4
<1>6. ASSUME NEW k \in T, k < m PROVE FALSE
  <2>1. 0 .. k-1 \in F
    OBVIOUS
  <2>2. 0 .. k-1 \subseteq 0 .. m-1 /\ 0 .. k-1 # 0 .. m-1
    <3>1. k \in 0 .. m-1 /\ k \notin 0 .. k-1
      BY <1>6
    <3> QED BY <3>1, <1>6
  <2>3. 0 .. k-1 \in SUBSET Nat /\ 0 .. m-1 \in SUBSET Nat
    OBVIOUS
  <2>4. <<0 .. k-1, 0 .. m-1>> \in R
    BY <2>2, <2>3 DEF StrictSubsetOrdering
  <2> QED BY <1>5, <2>1, <2>4
<1> QED BY <1>6

(* induction over the naturals, about a set *)
LEMMA NatInd ==
  ASSUME NEW G, 0 \in G, \A c \in Nat : c \in G => c + 1 \in G
  PROVE  Nat \subseteq G
<1> SUFFICES ASSUME Nat \ G # {} PROVE FALSE
  OBVIOUS
<1>1. PICK m \in Nat \ G : \A k \in Nat \ G : m <= k
  BY LeastNat
<1>2. m # 0 /\ m - 1 \in Nat
  BY <1>1
<1>3. m - 1 \in G
  BY <1>1, <1>2
<1> QED BY <1>1, <1>2, <1>3

(* the function that FlattenSeq defines *)
FlatRec(ss, c, f) == f = [i \in 1 .. c |-> IF i = 1 THEN ss[i] ELSE f[i-1] \o ss[i]]

(* there is such a function for each length *)
LEMMA FlatExists ==
  ASSUME NEW ss
  PROVE  \A c \in Nat : \E f : FlatRec(ss, c, f)
<1> DEFINE G == {c \in Nat : \E f : FlatRec(ss, c, f)}
<1>1. 0 \in G
  <2>1. FlatRec(ss, 0, [i \in 1..0 |-> 0])
    BY DEF FlatRec
  <2> QED BY <2>1
<1>2. ASSUME NEW c \in Nat, c \in G PROVE c + 1 \in G
  <2>1. PICK f : FlatRec(ss, c, f)
    BY <1>2
  <2> DEFINE g == [i \in 1 .. c+1 |-> IF i = 1 THEN ss[i] ELSE f[i-1] \o ss[i]]
  <2>2. ASSUME NEW i \in 1 .. c PROVE g[i] = f[i]
    <3>1. f[i] = IF i = 1 THEN ss[i] ELSE f[i-1] \o ss[i]
      BY <2>1 DEF FlatRec
    <3>2. i \in 1 .. c+1
      OBVIOUS
    <3> QED BY <3>1, <3>2
  <2>3. g = [i \in 1 .. c+1 |-> IF i = 1 THEN ss[i] ELSE g[i-1] \o ss[i]]
    <3>1. ASSUME NEW i \in 1 .. c+1, i # 1 PROVE g[i-1] = f[i-1]
      <4>1. i - 1 \in 1 .. c
        BY <3>1
      <4> HIDE DEF g
      <4> QED BY <4>1, <2>2
    <3> QED BY <3>1
  <2>4. FlatRec(ss, c+1, g)
    BY <2>3 DEF FlatRec
  <2> QED BY <2>4
<1> HIDE DEF G
<1>3. Nat \subseteq G
  BY <1>1, <1>2, NatInd
<1> QED BY <1>3 DEF G

(* FlattenSeq is its last value *)
LEMMA FlattenDef ==
  ASSUME NEW ss, Len(ss) \in Nat, Len(ss) # 0
  PROVE  \E f : FlatRec(ss, Len(ss), f) /\ FlattenSeq(ss) = f[Len(ss)]
<1>1. \E f : FlatRec(ss, Len(ss), f)
  BY FlatExists
<1> DEFINE h == CHOOSE f : f = [i \in 1 .. Len(ss) |-> IF i = 1 THEN ss[i] ELSE f[i-1] \o ss[i]]
<1>2. FlatRec(ss, Len(ss), h)
  BY <1>1 DEF FlatRec
<1>3. FlattenSeq(ss) = h[Len(ss)]
  BY DEF FlattenSeq
<1> QED BY <1>2, <1>3

(* one element more *)
LEMMA FlatNext ==
  ASSUME NEW ss, NEW c \in Nat, NEW f, FlatRec(ss, c, f), NEW i \in Nat, i + 1 \in 1 .. c
  PROVE  f[i+1] = IF i = 0 THEN ss[1] ELSE f[i] \o ss[i+1]
<1> DEFINE j == i + 1
<1>1. j \in 1 .. c /\ j - 1 = i /\ (j = 1 <=> i = 0)
  OBVIOUS
<1> HIDE DEF j
<1>2. f[j] = IF j = 1 THEN ss[j] ELSE f[j-1] \o ss[j]
  BY <1>1 DEF FlatRec
<1>3. f[j] = IF i = 0 THEN ss[1] ELSE f[i] \o ss[j]
  BY <1>1, <1>2
<1> QED BY <1>3 DEF j

(* its values are sequences *)
LEMMA FlatType ==
  ASSUME NEW S, NEW ss \in Seq(Seq(S)), NEW c \in 0 .. Len(ss), NEW f, FlatRec(ss, c, f)
  PROVE  \A i \in 1 .. c : f[i] \in Seq(S)
<1> DEFINE G == {i \in Nat : i \in 1 .. c => f[i] \in Seq(S)}
<1>0. c \in Nat
  OBVIOUS
<1>1. 0 \in G
  OBVIOUS
<1>2. ASSUME NEW i \in Nat, i \in G PROVE i + 1 \in G
  <2>1. CASE i + 1 \in 1 .. c
    <3>1. f[i+1] = IF i = 0 THEN ss[1] ELSE f[i] \o ss[i+1]
      BY <2>1, <1>0, FlatNext
    <3>2. ss[i+1] \in Seq(S)
      BY <2>1
    <3>3. i # 0 => f[i] \in Seq(S)
      BY <1>2, <2>1
    <3>4. CASE i = 0
      BY <3>1, <3>2, <3>4
    <3>5. CASE i # 0
      <4>1. f[i] \o ss[i+1] \in Seq(S)
        BY <3>2, <3>3, <3>5, ConcatProperties
      <4>2. f[i+1] = f[i] \o ss[i+1]
        BY <3>1, <3>5
      <4>3. f[i+1] \in Seq(S)
        BY <4>1, <4>2
      <4> QED BY <4>3
    <3> QED BY <3>4, <3>5
  <2>2. CASE i + 1 \notin 1 .. c
    BY <2>2
  <2> QED BY <2>1, <2>2
<1> HIDE DEF G
<1>3. Nat \subseteq G
  BY <1>1, <1>2, NatInd
<1> QED BY <1>3 DEF G

(* ss and tt have the first c elements in common *)
FlatPair(ss, tt, c, m, f, g) ==
  /\ c \in Nat /\ m \in Nat /\ c <= m /\ \A i \in 1 .. c : ss[i] = tt[i]
  /\ FlatRec(ss, c, f) /\ FlatRec(tt, m, g)

(* it depends on the elements up to there only *)
LEMMA FlatAgree ==
  ASSUME NEW ss, NEW tt, NEW c, NEW m, NEW f, NEW g, FlatPair(ss, tt, c, m, f, g)
  PROVE  \A i \in 1 .. c : f[i] = g[i]
<1> DEFINE G == {i \in Nat : i \in 1 .. c => f[i] = g[i]}
<1>0. /\ c \in Nat /\ m \in Nat /\ c <= m /\ \A i \in 1 .. c : ss[i] = tt[i]
      /\ FlatRec(ss, c, f) /\ FlatRec(tt, m, g)
  BY DEF FlatPair
<1>1. 0 \in G
  OBVIOUS
<1>2. ASSUME NEW i \in Nat, i \in G PROVE i + 1 \in G
  <2>1. CASE i + 1 \in 1 .. c
    <3>1. f[i+1] = IF i = 0 THEN ss[1] ELSE f[i] \o ss[i+1]
      BY <1>0, <2>1, FlatNext
    <3>2. g[i+1] = IF i = 0 THEN tt[1] ELSE g[i] \o tt[i+1]
      <4>1. i + 1 \in 1 .. m
        BY <1>0, <2>1
      <4> QED BY <1>0, <4>1, FlatNext
    <3>3. i # 0 => f[i] = g[i]
      BY <1>0, <1>2, <2>1
    <3>4. ss[i+1] = tt[i+1]
      BY <1>0, <2>1
    <3>5. f[i+1] = g[i+1]
      <4>1. CASE i = 0
        BY <3>1, <3>2, <3>4, <4>1
      <4>2. CASE i # 0
        BY <3>1, <3>2, <3>3, <3>4, <4>2
      <4> QED BY <4>1, <4>2
    <3> QED BY <3>5
  <2>2. CASE i + 1 \notin 1 .. c
    BY <2>2
  <2> QED BY <2>1, <2>2
<1> HIDE DEF G
<1>3. Nat \subseteq G
  BY <1>1, <1>2, NatInd
<1> QED BY <1>0, <1>3 DEF G

(* FlattenSeq of sequences is a sequence *)
LEMMA FlatInSeq ==
  ASSUME NEW S, NEW ss \in Seq(Seq(S))
  PROVE  FlattenSeq(ss) \in Seq(S)
<1>1. CASE Len(ss) = 0
  <2>1. FlattenSeq(ss) = ss
    BY <1>1 DEF FlattenSeq
  <2>2. ss = <<>>
    BY <1>1
  <2> QED BY <2>1, <2>2
<1>2. CASE Len(ss) # 0
  <2>1. PICK f : FlatRec(ss, Len(ss), f) /\ FlattenSeq(ss) = f[Len(ss)]
    BY <1>2, FlattenDef
  <2>2. Len(ss) \in 0 .. Len(ss) /\ Len(ss) \in 1 .. Len(ss)
    BY <1>2
  <2> QED BY <2>1, <2>2, FlatType
<1> QED BY <1>1, <1>2

(* FlattenSeq, when a sequence is appended *)
LEMMA FlatAppend ==
  ASSUME NEW S, NEW ss \in Seq(Seq(S)), NEW x \in Seq(S)
  PROVE  FlattenSeq(Append(ss, x)) = FlattenSeq(ss) \o x
<1> DEFINE tt == Append(ss, x)
<1>1. tt \in Seq(Seq(S)) /\ Len(tt) = Len(ss) + 1 /\ tt[Len(ss) + 1] = x
      /\ \A i \in 1 .. Len(ss) : ss[i] = tt[i]
  OBVIOUS
<1> HIDE DEF tt
<1>2. PICK g : FlatRec(tt, Len(tt), g) /\ FlattenSeq(tt) = g[Len(tt)]
  BY <1>1, FlattenDef
<1>3. CASE Len(ss) = 0
  <2>1. FlattenSeq(ss) = ss
    BY <1>3 DEF FlattenSeq
  <2>2. ss = <<>>
    BY <1>3
  <2>3. g[1] = tt[1]
    BY <1>1, <1>2, <1>3 DEF FlatRec
  <2>4. <<>> \o x = x
    BY ConcatEmptySeq
  <2> QED BY <1>1, <1>2, <1>3, <2>1, <2>2, <2>3, <2>4 DEF tt
<1>4. CASE Len(ss) # 0
  <2>1. PICK f : FlatRec(ss, Len(ss), f) /\ FlattenSeq(ss) = f[Len(ss)]
    BY <1>4, FlattenDef
  <2>2. f[Len(ss)] = g[Len(ss)]
    <3>1. Len(ss) \in Nat /\ Len(tt) \in Nat /\ Len(ss) <= Len(tt)
      BY <1>1
    <3>2. \A i \in 1 .. Len(ss) : f[i] = g[i]
      <4>1. FlatPair(ss, tt, Len(ss), Len(tt), f, g)
        BY <1>1, <1>2, <2>1, <3>1 DEF FlatPair
      <4> QED BY <4>1, FlatAgree
    <3>3. Len(ss) \in 1 .. Len(ss)
      BY <1>4
    <3> QED BY <3>2, <3>3
  <2>3. g[Len(ss)+1] = g[Len(ss)] \o tt[Len(ss)+1]
    <3>1. Len(tt) \in Nat /\ Len(ss) \in Nat /\ Len(ss) + 1 \in 1 .. Len(tt)
      BY <1>1
    <3> QED BY <1>2, <1>4, <3>1, FlatNext
  <2> QED BY <1>1, <1>2, <2>1, <2>2, <2>3 DEF tt
<1> QED BY <1>3, <1>4

-----------------------------------------------------------------------------
(* FlattenSeq of nothing, and of one sequence *)
LEMMA FlatOne ==
  ASSUME NEW S, NEW x \in Seq(S)
  PROVE  FlattenSeq(<<>>) = <<>> /\ FlattenSeq(<<x>>) = x
<1> DEFINE e == <<>>
<1>1. e \in Seq(Seq(S)) /\ Len(e) = 0 /\ Append(e, x) = <<x>> /\ e \o x = x
  OBVIOUS
<1>2. FlattenSeq(e) = e
  BY <1>1 DEF FlattenSeq
<1>3. FlattenSeq(Append(e, x)) = FlattenSeq(e) \o x
  <2> HIDE DEF e
  <2> QED BY <1>1, FlatAppend
<1> QED BY <1>1, <1>2, <1>3

(* s lists the members of S in order *)
Lists(s, S) ==
  /\ Range(s) = S
  /\ \A j, k \in DOMAIN s : j < k => s[j] < s[k]

(* a list and one of greater numbers *)
LEMMA ListsConcat ==
  ASSUME NEW s \in Seq(Nat), NEW t \in Seq(Nat), NEW S, NEW T, Lists(s, S), Lists(t, T),
         \A i \in S, j \in T : i < j
  PROVE  Lists(s \o t, S \cup T)
<1> DEFINE r == s \o t
<1>1. /\ r \in Seq(Nat) /\ Len(r) = Len(s) + Len(t)
      /\ \A k \in 1 .. Len(s) : r[k] = s[k]
      /\ \A k \in 1 .. Len(t) : r[Len(s) + k] = t[k]
  OBVIOUS
<1>0. DOMAIN r = 1 .. Len(r) /\ DOMAIN s = 1 .. Len(s) /\ DOMAIN t = 1 .. Len(t)
  BY <1>1
<1> HIDE DEF r
<1>2. S = {s[k] : k \in 1 .. Len(s)} /\ T = {t[k] : k \in 1 .. Len(t)}
  BY <1>0 DEF Lists, Range
<1>3. \A k \in 1 .. Len(r) : \/ k \in 1 .. Len(s) /\ r[k] = s[k]
                             \/ k - Len(s) \in 1 .. Len(t) /\ r[k] = t[k - Len(s)]
  <2>1. ASSUME NEW k \in 1 .. Len(r), k \notin 1 .. Len(s)
        PROVE  k - Len(s) \in 1 .. Len(t) /\ r[k] = t[k - Len(s)]
    <3>1. k - Len(s) \in 1 .. Len(t) /\ Len(s) + (k - Len(s)) = k
      BY <1>1, <2>1
    <3> QED BY <1>1, <3>1
  <2> QED BY <1>1, <2>1
<1>4. Range(r) = S \cup T
  <2>1. ASSUME NEW x \in S \cup T PROVE x \in Range(r)
    <3>1. CASE x \in S
      <4>1. PICK k \in 1 .. Len(s) : x = s[k]
        BY <1>2, <3>1
      <4>2. k \in 1 .. Len(r) /\ r[k] = x
        BY <1>1, <4>1
      <4> QED BY <1>0, <4>2 DEF Range
    <3>2. CASE x \in T
      <4>1. PICK k \in 1 .. Len(t) : x = t[k]
        BY <1>2, <3>2
      <4>2. Len(s) + k \in 1 .. Len(r) /\ r[Len(s) + k] = x
        BY <1>1, <4>1
      <4> QED BY <1>0, <4>2 DEF Range
    <3> QED BY <3>1, <3>2
  <2>2. ASSUME NEW x \in Range(r) PROVE x \in S \cup T
    <3>1. PICK k \in 1 .. Len(r) : x = r[k]
      BY <1>1 DEF Range
    <3> QED BY <1>2, <1>3, <3>1
  <2> QED BY <2>1, <2>2
<1>5. ASSUME NEW j \in 1 .. Len(r), NEW k \in 1 .. Len(r), j < k PROVE r[j] < r[k]
  <2>1. CASE j \in 1 .. Len(s) /\ k \in 1 .. Len(s)
    <3>1. s[j] < s[k] /\ r[j] = s[j] /\ r[k] = s[k]
      BY <1>0, <1>1, <1>5, <2>1 DEF Lists
    <3> QED BY <3>1
  <2>2. CASE j \in 1 .. Len(s) /\ k \notin 1 .. Len(s)
    <3>1. r[j] = s[j] /\ s[j] \in S
      BY <1>1, <1>2, <2>2
    <3>2. k - Len(s) \in 1 .. Len(t) /\ r[k] = t[k - Len(s)]
      BY <1>3, <2>2
    <3>3. r[k] \in T
      BY <1>2, <3>2
    <3>4. s[j] < r[k]
      BY <3>1, <3>3
    <3> QED BY <3>1, <3>4
  <2>3. CASE j \notin 1 .. Len(s)
    <3>1. k \notin 1 .. Len(s)
      BY <1>5, <2>3
    <3>2. /\ j - Len(s) \in 1 .. Len(t) /\ r[j] = t[j - Len(s)]
          /\ k - Len(s) \in 1 .. Len(t) /\ r[k] = t[k - Len(s)]
      BY <1>3, <2>3, <3>1
    <3>3. j - Len(s) < k - Len(s)
      BY <1>1, <1>5
    <3>4. t[j - Len(s)] < t[k - Len(s)]
      BY <1>0, <3>2, <3>3 DEF Lists
    <3> QED BY <3>2, <3>4
  <2> QED BY <2>1, <2>2, <2>3
<1>6. \A j, k \in DOMAIN r : j < k => r[j] < r[k]
  BY <1>1, <1>5
<1> QED BY <1>4, <1>6 DEF Lists, r

(* the empty list, and one number *)
LEMMA ListsOne ==
  ASSUME NEW x \in Nat
  PROVE  Lists(<<>>, {}) /\ Lists(<<x>>, {x})
<1>1. Range(<<>>) = {} /\ Range(<<x>>) = {x}
  BY DEF Range
<1> QED BY <1>1 DEF Lists

(* all numbers from a to z, counted from a *)
LEMMA ListsInterval ==
  ASSUME NEW a \in Nat, NEW z \in Nat, a <= z
  PROVE  Lists([i \in 1 .. z - a |-> a + i], a + 1 .. z)
<1> DEFINE r == [i \in 1 .. z - a |-> a + i]
<1>1. DOMAIN r = 1 .. z - a /\ \A i \in 1 .. z - a : r[i] = a + i
  OBVIOUS
<1> HIDE DEF r
<1>2. ASSUME NEW x \in a + 1 .. z PROVE x \in Range(r)
  <2>1. x - a \in 1 .. z - a /\ a + (x - a) = x
    OBVIOUS
  <2>2. r[x - a] = x
    BY <1>1, <2>1
  <2> QED BY <1>1, <2>1, <2>2 DEF Range
<1>3. ASSUME NEW x \in Range(r) PROVE x \in a + 1 .. z
  <2>1. PICK i \in 1 .. z - a : x = r[i]
    BY <1>1 DEF Range
  <2> QED BY <1>1, <2>1
<1>4. \A j, k \in DOMAIN r : j < k => r[j] < r[k]
  BY <1>1
<1> QED BY <1>2, <1>3, <1>4 DEF Lists, r

(* a list without its last number, which is the greatest *)
LEMMA ListsFront ==
  ASSUME NEW s \in Seq(Nat), NEW S, Lists(s, S), s # <<>>
  PROVE  /\ Lists(Front(s), S \ {s[Len(s)]})
         /\ s[Len(s)] \in S /\ \A x \in S : x <= s[Len(s)]
<1> DEFINE t == Front(s)
           m == s[Len(s)]
<1>0. Len(s) \in Nat \ {0}
  OBVIOUS
<1>1. t \in Seq(Nat) /\ Len(t) = Len(s) - 1 /\ \A k \in 1 .. Len(t) : t[k] = s[k]
  <2>1. t = SubSeq(s, 1, Len(s) - 1)
    BY DEF Front
  <2>2. \A i \in 1 .. Len(s) - 1 : s[i] \in Nat
    BY <1>0
  <2>3. Len(s) - 1 \in Int /\ (1 <= Len(s) - 1 \/ Len(s) - 1 = 0)
    <3> DEFINE c == Len(s)
    <3>1. c \in Nat \ {0}
      BY <1>0
    <3> HIDE DEF c
    <3>2. c - 1 \in Int /\ (1 <= c - 1 \/ c - 1 = 0)
      BY <3>1
    <3> QED BY <3>2 DEF c
  <2>4. /\ t \in Seq(Nat)
        /\ Len(t) = IF 1 <= Len(s) - 1 THEN Len(s) - 1 - 1 + 1 ELSE 0
        /\ \A i \in 1 .. Len(s) - 1 - 1 + 1 : t[i] = s[1 + i - 1]
    <3> HIDE DEF t
    <3> QED BY <2>1, <2>2, <2>3, SubSeqProperties
  <2>5. Len(t) = Len(s) - 1
    BY <1>0, <2>3, <2>4
  <2>6. \A i \in 1 .. Len(t) : i \in 1 .. Len(s) - 1 - 1 + 1 /\ 1 + i - 1 = i
    BY <1>0, <2>5
  <2> QED BY <2>4, <2>5, <2>6
<1>2. S = {s[k] : k \in 1 .. Len(s)} /\ \A j, k \in 1 .. Len(s) : j < k => s[j] < s[k]
  BY DEF Lists, Range
<1>3. m \in Nat /\ m \in S /\ \A k \in 1 .. Len(s) : k # Len(s) => s[k] < m
  <2>1. Len(s) \in 1 .. Len(s)
    BY <1>0
  <2> QED BY <1>0, <1>2, <2>1
<1>4. \A x \in S : x <= m
  <2>1. ASSUME NEW x \in S PROVE x <= m
    <3>1. PICK k \in 1 .. Len(s) : x = s[k]
      BY <1>2
    <3>2. CASE k = Len(s)
      BY <1>3, <3>1, <3>2
    <3>3. CASE k # Len(s)
      BY <1>3, <3>1, <3>3
    <3> QED BY <3>2, <3>3
  <2> QED BY <2>1
<1> HIDE DEF t, m
<1>5. ASSUME NEW x \in S \ {m} PROVE x \in Range(t)
  <2>1. PICK k \in 1 .. Len(s) : x = s[k]
    BY <1>2
  <2>2. k \in 1 .. Len(t)
    BY <1>0, <1>1, <2>1, <1>5 DEF m
  <2>3. DOMAIN t = 1 .. Len(t) /\ t[k] = x
    BY <1>1, <2>1, <2>2
  <2> QED BY <2>2, <2>3 DEF Range
<1>6. ASSUME NEW x \in Range(t) PROVE x \in S \ {m}
  <2>1. PICK k \in 1 .. Len(t) : x = t[k]
    BY <1>1 DEF Range
  <2>2. k \in 1 .. Len(s) /\ k # Len(s) /\ x = s[k]
    BY <1>0, <1>1, <2>1
  <2>3. s[k] \in Nat /\ s[k] < m
    BY <1>3, <2>2
  <2> QED BY <1>2, <1>3, <2>2, <2>3
<1>7. \A j, k \in DOMAIN t : j < k => t[j] < t[k]
  <2>1. \A k \in 1 .. Len(t) : k \in 1 .. Len(s)
    BY <1>0, <1>1
  <2>2. \A k \in DOMAIN t : k \in 1 .. Len(s) /\ t[k] = s[k]
    <3>1. DOMAIN t = 1 .. Len(t)
      BY <1>1
    <3> QED BY <1>1, <2>1, <3>1
  <2> QED BY <1>2, <2>2
<1>8. Range(t) = S \ {m}
  BY <1>5, <1>6
<1> QED BY <1>3, <1>4, <1>7, <1>8 DEF Lists, t, m

-----------------------------------------------------------------------------
(* The line discipline over any sequence K of kinds of keys. *)

(* the text, and the backspaces, among bytes i+1 to j *)
TextIn(K, i, j) == {x \in i+1 .. j : K[x] \in {"char", "rune", "nl"}}

BackIn(K, i, j) == {x \in i+1 .. j : K[x] = "bs"}

(* byte i is text, and nothing up to byte z removes it *)
StaysIn(K, i, z) ==
  /\ K[i] \in {"char", "rune", "nl"}
  /\ \A j \in i+1 .. z : K[j] # "kill" /\ Cardinality(BackIn(K, i, j)) <= Cardinality(TextIn(K, i, j))

(* what is left at byte z of the line that began after byte b *)
LeftIn(K, b, z) == {i \in b+1 .. z : StaysIn(K, i, z)}

(* line l has exactly that, and the n-th byte from its end is taken back   *)
(* by n+1 backspaces more than there will be text                          *)
EditingIn(l, K, b, z) ==
  /\ l \in Seq(b+1 .. z)
  /\ Lists(l, LeftIn(K, b, z))
  /\ \A k \in 1 .. Len(l) :
       Cardinality(TextIn(K, l[k], z)) = Cardinality(BackIn(K, l[k], z)) + (Len(l) - k)

(* the line after byte i, which does not complete it *)
EditIn(K, l, i) ==
  CASE K[i] = "bs"   -> IF l = <<>> THEN l ELSE Front(l)
    [] K[i] = "kill" -> <<>>
    [] OTHER         -> Append(l, i)

(* how many keys of one kind are typed *)
LEMMA CountOne ==
  ASSUME NEW i \in Nat, NEW j \in Nat, i <= j, NEW P
  PROVE  LET C(m) == {x \in i+1 .. m : x \in P} IN
         /\ IsFiniteSet(C(j)) /\ Cardinality(C(j)) \in Nat
         /\ Cardinality(C(j+1)) = Cardinality(C(j)) + (IF j+1 \in P THEN 1 ELSE 0)
<1> DEFINE C(m) == {x \in i+1 .. m : x \in P}
           D == C(j)
           E == C(j+1)
<1>1. IsFiniteSet(i+1 .. j)
  <2>1. i+1 \in Int /\ j \in Int
    OBVIOUS
  <2> QED BY <2>1, FS_Interval
<1>2. IsFiniteSet(D)
  <2>1. D \subseteq i+1 .. j
    OBVIOUS
  <2> QED BY <1>1, <2>1, FS_Subset
<1>3. Cardinality(D) \in Nat
  BY <1>2, FS_CardinalityType
<1>4. IF j+1 \in P THEN E = D \cup {j+1} ELSE E = D
  <2>1. \A x : x \in i+1 .. j+1 <=> x \in i+1 .. j \/ x = j+1
    OBVIOUS
  <2> QED BY <2>1
<1>5. j+1 \notin D
  OBVIOUS
<1> HIDE DEF D, E
<1>6. Cardinality(E) = Cardinality(D) + (IF j+1 \in P THEN 1 ELSE 0)
  <2>1. CASE j+1 \in P
    <3>1. Cardinality(D \cup {j+1}) = Cardinality(D) + 1
      BY <1>2, <1>5, FS_AddElement
    <3> QED BY <1>4, <2>1, <3>1
  <2>2. CASE j+1 \notin P
    BY <1>3, <1>4, <2>2
  <2> QED BY <2>1, <2>2
<1> QED BY <1>2, <1>3, <1>6 DEF D, E

(* the counts at a byte, and at the next *)
LEMMA CountNext ==
  ASSUME NEW K, NEW i \in Nat, NEW j \in Nat, i <= j
  PROVE  /\ Cardinality(TextIn(K, i, j)) \in Nat /\ Cardinality(BackIn(K, i, j)) \in Nat
         /\ Cardinality(TextIn(K, i, j+1)) =
              Cardinality(TextIn(K, i, j)) + (IF K[j+1] \in {"char", "rune", "nl"} THEN 1 ELSE 0)
         /\ Cardinality(BackIn(K, i, j+1)) =
              Cardinality(BackIn(K, i, j)) + (IF K[j+1] = "bs" THEN 1 ELSE 0)
<1>1. /\ Cardinality(TextIn(K, i, j)) \in Nat
      /\ Cardinality(TextIn(K, i, j+1)) =
           Cardinality(TextIn(K, i, j)) + (IF K[j+1] \in {"char", "rune", "nl"} THEN 1 ELSE 0)
  <2> DEFINE P == {x \in Int : K[x] \in {"char", "rune", "nl"}}
  <2>1. \A m \in Nat : TextIn(K, i, m) = {x \in i+1 .. m : x \in P}
    BY DEF TextIn
  <2>2. j+1 \in P <=> K[j+1] \in {"char", "rune", "nl"}
    OBVIOUS
  <2> HIDE DEF P
  <2>3. /\ Cardinality({x \in i+1 .. j : x \in P}) \in Nat
        /\ Cardinality({x \in i+1 .. j+1 : x \in P}) =
             Cardinality({x \in i+1 .. j : x \in P}) + (IF j+1 \in P THEN 1 ELSE 0)
    BY CountOne
  <2>4. j+1 \in Nat
    OBVIOUS
  <2> QED BY <2>1, <2>2, <2>3, <2>4
<1>2. /\ Cardinality(BackIn(K, i, j)) \in Nat
      /\ Cardinality(BackIn(K, i, j+1)) =
           Cardinality(BackIn(K, i, j)) + (IF K[j+1] = "bs" THEN 1 ELSE 0)
  <2> DEFINE P == {x \in Int : K[x] = "bs"}
  <2>1. \A m \in Nat : BackIn(K, i, m) = {x \in i+1 .. m : x \in P}
    BY DEF BackIn
  <2>2. j+1 \in P <=> K[j+1] = "bs"
    OBVIOUS
  <2> HIDE DEF P
  <2>3. /\ Cardinality({x \in i+1 .. j : x \in P}) \in Nat
        /\ Cardinality({x \in i+1 .. j+1 : x \in P}) =
             Cardinality({x \in i+1 .. j : x \in P}) + (IF j+1 \in P THEN 1 ELSE 0)
    BY CountOne
  <2>4. j+1 \in Nat
    OBVIOUS
  <2> QED BY <2>1, <2>2, <2>3, <2>4
<1> QED BY <1>1, <1>2

(* nothing has come after the last byte *)
LEMMA CountNone ==
  ASSUME NEW K, NEW i \in Nat
  PROVE  Cardinality(TextIn(K, i, i)) = 0 /\ Cardinality(BackIn(K, i, i)) = 0
<1>1. TextIn(K, i, i) = {} /\ BackIn(K, i, i) = {}
  BY DEF TextIn, BackIn
<1> QED BY <1>1, FS_EmptySet

(* what one more byte takes to stay *)
LEMMA StaysNext ==
  ASSUME NEW K, NEW i \in Nat, NEW z \in Nat, i <= z
  PROVE  /\ StaysIn(K, i, z+1) <=>
              /\ StaysIn(K, i, z) /\ K[z+1] # "kill"
              /\ Cardinality(BackIn(K, i, z+1)) <= Cardinality(TextIn(K, i, z+1))
         /\ StaysIn(K, i, z) => Cardinality(BackIn(K, i, z)) <= Cardinality(TextIn(K, i, z))
<1>1. \A j : j \in i+1 .. z+1 <=> j \in i+1 .. z \/ j = z+1
  OBVIOUS
<1>2. ASSUME StaysIn(K, i, z) PROVE Cardinality(BackIn(K, i, z)) <= Cardinality(TextIn(K, i, z))
  <2>1. CASE i = z
    <3>1. Cardinality(BackIn(K, i, z)) = 0 /\ Cardinality(TextIn(K, i, z)) = 0
      BY <2>1, CountNone
    <3> QED BY <3>1
  <2>2. CASE i # z
    <3>1. z \in i+1 .. z
      BY <2>2
    <3> QED BY <1>2, <3>1 DEF StaysIn
  <2> QED BY <2>1, <2>2
<1>3. StaysIn(K, i, z+1) <=>
        /\ StaysIn(K, i, z) /\ K[z+1] # "kill"
        /\ Cardinality(BackIn(K, i, z+1)) <= Cardinality(TextIn(K, i, z+1))
  BY <1>1 DEF StaysIn
<1> QED BY <1>2, <1>3

(* the bytes left after a byte, and after the next *)
LEMMA LeftNext ==
  ASSUME NEW K, NEW b \in Nat, NEW z \in Nat, b <= z
  PROVE  LeftIn(K, b, z+1) =
           {i \in LeftIn(K, b, z) :
              K[z+1] # "kill" /\ Cardinality(BackIn(K, i, z+1)) <= Cardinality(TextIn(K, i, z+1))}
           \cup (IF K[z+1] \in {"char", "rune", "nl"} THEN {z+1} ELSE {})
<1>1. \A i : i \in b+1 .. z+1 <=> i \in b+1 .. z \/ i = z+1
  OBVIOUS
<1>2. StaysIn(K, z+1, z+1) <=> K[z+1] \in {"char", "rune", "nl"}
  <2>1. z+1+1 .. z+1 = {}
    OBVIOUS
  <2> QED BY <2>1 DEF StaysIn
<1>3. ASSUME NEW i \in b+1 .. z
      PROVE  StaysIn(K, i, z+1) <=>
              /\ StaysIn(K, i, z) /\ K[z+1] # "kill"
              /\ Cardinality(BackIn(K, i, z+1)) <= Cardinality(TextIn(K, i, z+1))
  <2>1. i \in Nat /\ i <= z
    OBVIOUS
  <2> QED BY <2>1, StaysNext
<1> QED BY <1>1, <1>2, <1>3 DEF LeftIn

(* a line's bytes are among those typed for it *)
LEMMA OfLine ==
  ASSUME NEW l, NEW K, NEW b \in Nat, NEW z \in Nat, b <= z, EditingIn(l, K, b, z)
  PROVE  /\ l \in Seq(Nat) /\ l \in Seq(b+1 .. z+1)
         /\ \A k \in 1 .. Len(l) : l[k] \in b+1 .. z /\ l[k] \in LeftIn(K, b, z)
         /\ \A i \in LeftIn(K, b, z) : i \in b+1 .. z /\ \E k \in 1 .. Len(l) : l[k] = i
<1>1. l \in Seq(b+1 .. z) /\ Range(l) = LeftIn(K, b, z)
  BY DEF EditingIn, Lists
<1>2. DOMAIN l = 1 .. Len(l) /\ \A k \in 1 .. Len(l) : l[k] \in b+1 .. z
  BY <1>1
<1>3. \A k \in 1 .. Len(l) : l[k] \in Nat /\ l[k] \in b+1 .. z+1
  <2>1. ASSUME NEW k \in 1 .. Len(l) PROVE l[k] \in Nat /\ l[k] \in b+1 .. z+1
    <3>1. l[k] \in b+1 .. z
      BY <1>2
    <3> QED BY <3>1
  <2> QED BY <2>1
<1>4. l \in Seq(Nat) /\ l \in Seq(b+1 .. z+1)
  <2>1. Len(l) \in Nat /\ l = [k \in 1 .. Len(l) |-> l[k]]
    BY <1>1
  <2>2. [k \in 1 .. Len(l) |-> l[k]] \in Seq(Nat) /\ [k \in 1 .. Len(l) |-> l[k]] \in Seq(b+1 .. z+1)
    BY <1>3, <2>1, IsASeq
  <2> QED BY <2>1, <2>2
<1>5. \A k \in 1 .. Len(l) : l[k] \in LeftIn(K, b, z)
  BY <1>1, <1>2 DEF Range
<1>6. ASSUME NEW i \in LeftIn(K, b, z) PROVE i \in b+1 .. z /\ \E k \in 1 .. Len(l) : l[k] = i
  BY <1>1, <1>2 DEF Range, LeftIn
<1> QED BY <1>2, <1>4, <1>5, <1>6

(* text goes to the end of the line *)
LEMMA TextEdits ==
  ASSUME NEW l, NEW K, NEW b \in Nat, NEW z \in Nat, b <= z, EditingIn(l, K, b, z),
         K[z+1] \in {"char", "rune", "nl"}
  PROVE  EditingIn(Append(l, z+1), K, b, z+1)
<1> DEFINE r == Append(l, z+1)
           S == LeftIn(K, b, z)
           T == LeftIn(K, b, z+1)
<1>0. /\ l \in Seq(Nat) /\ l \in Seq(b+1 .. z+1)
      /\ \A k \in 1 .. Len(l) : l[k] \in b+1 .. z
      /\ \A i \in S : i \in b+1 .. z
  BY OfLine
<1>1. z+1 \in Nat /\ z+1 \in b+1 .. z+1
  OBVIOUS
<1>2. T = S \cup {z+1}
  <2>1. ASSUME NEW i \in S PROVE Cardinality(BackIn(K, i, z+1)) <= Cardinality(TextIn(K, i, z+1))
    <3>1. i \in Nat /\ i <= z /\ StaysIn(K, i, z)
      BY <1>0 DEF LeftIn
    <3>2. Cardinality(BackIn(K, i, z)) <= Cardinality(TextIn(K, i, z))
      BY <3>1, StaysNext
    <3>3. /\ Cardinality(TextIn(K, i, z)) \in Nat /\ Cardinality(BackIn(K, i, z)) \in Nat
          /\ Cardinality(TextIn(K, i, z+1)) = Cardinality(TextIn(K, i, z)) + 1
          /\ Cardinality(BackIn(K, i, z+1)) = Cardinality(BackIn(K, i, z)) + 0
      <4>1. K[z+1] # "bs"
        OBVIOUS
      <4> QED BY <3>1, <4>1, CountNext
    <3> QED BY <3>2, <3>3
  <2>2. K[z+1] # "kill"
    OBVIOUS
  <2> QED BY <2>1, <2>2, LeftNext
<1>3. r = l \o <<z+1>>
  BY <1>0, <1>1
<1>4. Lists(r, T)
  <2>1. Lists(l, S) /\ Lists(<<z+1>>, {z+1})
    BY <1>1, ListsOne DEF EditingIn
  <2>2. \A i \in S, j \in {z+1} : i < j
    <3>1. ASSUME NEW i \in S PROVE i < z+1
      <4>1. i \in b+1 .. z
        BY <1>0
      <4> QED BY <4>1
    <3> QED BY <3>1
  <2>3. <<z+1>> \in Seq(Nat)
    BY <1>1
  <2>4. Lists(l \o <<z+1>>, S \cup {z+1})
    <3> HIDE DEF S
    <3> QED BY <1>0, <2>1, <2>2, <2>3, ListsConcat
  <2> QED BY <1>2, <1>3, <2>4
<1>5. r \in Seq(b+1 .. z+1)
  BY <1>0, <1>1
<1>6. /\ Len(r) = Len(l) + 1 /\ Len(l) \in Nat /\ r[Len(l) + 1] = z+1
      /\ \A k \in 1 .. Len(l) : r[k] = l[k]
  BY <1>0
<1> HIDE DEF r
<1>7. ASSUME NEW k \in 1 .. Len(r)
      PROVE  Cardinality(TextIn(K, r[k], z+1)) = Cardinality(BackIn(K, r[k], z+1)) + (Len(r) - k)
  <2>1. CASE k = Len(r)
    <3>1. r[k] = z+1 /\ Len(r) - k = 0
      BY <1>6, <2>1
    <3>2. Cardinality(TextIn(K, z+1, z+1)) = 0 /\ Cardinality(BackIn(K, z+1, z+1)) = 0
      BY <1>1, CountNone
    <3> QED BY <3>1, <3>2
  <2>2. CASE k # Len(r)
    <3>1. k \in 1 .. Len(l) /\ r[k] = l[k]
      BY <1>6, <2>2
    <3> DEFINE i == l[k]
    <3>2. i \in Nat /\ i <= z
      BY <1>0, <3>1
    <3>3. Cardinality(TextIn(K, i, z)) = Cardinality(BackIn(K, i, z)) + (Len(l) - k)
      BY <3>1 DEF EditingIn
    <3>4. /\ Cardinality(TextIn(K, i, z)) \in Nat /\ Cardinality(BackIn(K, i, z)) \in Nat
          /\ Cardinality(TextIn(K, i, z+1)) = Cardinality(TextIn(K, i, z)) + 1
          /\ Cardinality(BackIn(K, i, z+1)) = Cardinality(BackIn(K, i, z)) + 0
      <4>1. K[z+1] # "bs"
        OBVIOUS
      <4> HIDE DEF i
      <4> QED BY <3>2, <4>1, CountNext
    <3>5. Cardinality(TextIn(K, i, z+1)) = Cardinality(BackIn(K, i, z+1)) + (Len(r) - k)
      BY <1>6, <3>1, <3>3, <3>4
    <3> QED BY <3>1, <3>5
  <2> QED BY <2>1, <2>2
<1> QED BY <1>4, <1>5, <1>7 DEF EditingIn, r

(* ^D leaves the line as it is *)
LEMMA EofEdits ==
  ASSUME NEW l, NEW K, NEW b \in Nat, NEW z \in Nat, b <= z, EditingIn(l, K, b, z),
         K[z+1] = "eof"
  PROVE  EditingIn(l, K, b, z+1)
<1> DEFINE S == LeftIn(K, b, z)
           T == LeftIn(K, b, z+1)
<1>0. /\ l \in Seq(Nat) /\ l \in Seq(b+1 .. z+1)
      /\ \A k \in 1 .. Len(l) : l[k] \in b+1 .. z
      /\ \A i \in S : i \in b+1 .. z
  BY OfLine
<1>1. K[z+1] # "bs" /\ K[z+1] # "kill" /\ K[z+1] \notin {"char", "rune", "nl"}
  OBVIOUS
<1>2. ASSUME NEW i \in Nat, i <= z
      PROVE  /\ Cardinality(TextIn(K, i, z+1)) = Cardinality(TextIn(K, i, z))
             /\ Cardinality(BackIn(K, i, z+1)) = Cardinality(BackIn(K, i, z))
  <2>1. /\ Cardinality(TextIn(K, i, z)) \in Nat /\ Cardinality(BackIn(K, i, z)) \in Nat
        /\ Cardinality(TextIn(K, i, z+1)) = Cardinality(TextIn(K, i, z)) + 0
        /\ Cardinality(BackIn(K, i, z+1)) = Cardinality(BackIn(K, i, z)) + 0
    BY <1>1, <1>2, CountNext
  <2> QED BY <2>1
<1>3. T = S
  <2>1. ASSUME NEW i \in S PROVE Cardinality(BackIn(K, i, z+1)) <= Cardinality(TextIn(K, i, z+1))
    <3>1. i \in Nat /\ i <= z /\ StaysIn(K, i, z)
      BY <1>0 DEF LeftIn
    <3>2. Cardinality(BackIn(K, i, z)) <= Cardinality(TextIn(K, i, z))
      BY <3>1, StaysNext
    <3> QED BY <1>2, <3>1, <3>2
  <2>2. T = {i \in S : K[z+1] # "kill" /\ Cardinality(BackIn(K, i, z+1)) <= Cardinality(TextIn(K, i, z+1))}
    BY <1>1, LeftNext
  <2> HIDE DEF S, T
  <2> QED BY <1>1, <2>1, <2>2
<1>4. ASSUME NEW k \in 1 .. Len(l)
      PROVE  Cardinality(TextIn(K, l[k], z+1)) = Cardinality(BackIn(K, l[k], z+1)) + (Len(l) - k)
  <2>1. l[k] \in Nat /\ l[k] <= z
    <3>1. l[k] \in b+1 .. z
      BY <1>0
    <3> QED BY <3>1
  <2>2. Cardinality(TextIn(K, l[k], z)) = Cardinality(BackIn(K, l[k], z)) + (Len(l) - k)
    BY DEF EditingIn
  <2> QED BY <1>2, <2>1, <2>2
<1> QED BY <1>0, <1>3, <1>4 DEF EditingIn

(* kill removes the line *)
LEMMA KillEdits ==
  ASSUME NEW K, NEW b \in Nat, NEW z \in Nat, b <= z, K[z+1] = "kill"
  PROVE  EditingIn(<<>>, K, b, z+1)
<1>1. LeftIn(K, b, z+1) = {}
  <2>1. ASSUME NEW i \in b+1 .. z+1, StaysIn(K, i, z+1) PROVE FALSE
    <3>1. CASE i = z+1
      BY <2>1, <3>1 DEF StaysIn
    <3>2. CASE i # z+1
      <4>1. z+1 \in i+1 .. z+1
        BY <3>2
      <4> QED BY <2>1, <4>1 DEF StaysIn
    <3> QED BY <3>1, <3>2
  <2> QED BY <2>1 DEF LeftIn
<1>2. Lists(<<>>, {})
  <2>1. 0 \in Nat
    OBVIOUS
  <2> QED BY <2>1, ListsOne
<1>3. <<>> \in Seq(b+1 .. z+1) /\ 1 .. Len(<<>>) = {}
  OBVIOUS
<1> QED BY <1>1, <1>2, <1>3 DEF EditingIn

(* a backspace on an empty line changes nothing *)
LEMMA BackEditsNone ==
  ASSUME NEW K, NEW b \in Nat, NEW z \in Nat, b <= z, EditingIn(<<>>, K, b, z), K[z+1] = "bs"
  PROVE  EditingIn(<<>>, K, b, z+1)
<1>0. Range(<<>>) = {}
  BY DEF Range
<1>1. LeftIn(K, b, z) = {}
  BY <1>0 DEF EditingIn, Lists
<1>2. LeftIn(K, b, z+1) = {}
  <2>1. K[z+1] \notin {"char", "rune", "nl"}
    OBVIOUS
  <2> QED BY <1>1, <2>1, LeftNext
<1>3. Lists(<<>>, {})
  BY <1>0 DEF Lists
<1>4. <<>> \in Seq(b+1 .. z+1) /\ 1 .. Len(<<>>) = {}
  OBVIOUS
<1> QED BY <1>2, <1>3, <1>4 DEF EditingIn

(* a backspace takes back the last byte that is left, and no other *)
LEMMA BackEdits ==
  ASSUME NEW l, NEW K, NEW b \in Nat, NEW z \in Nat, b <= z, EditingIn(l, K, b, z),
         K[z+1] = "bs", l # <<>>
  PROVE  EditingIn(Front(l), K, b, z+1)
<1> DEFINE r == Front(l)
           S == LeftIn(K, b, z)
           T == LeftIn(K, b, z+1)
           m == l[Len(l)]
<1>0. /\ l \in Seq(Nat) /\ l \in Seq(b+1 .. z+1)
      /\ \A k \in 1 .. Len(l) : l[k] \in b+1 .. z
      /\ \A i \in S : i \in b+1 .. z /\ \E k \in 1 .. Len(l) : l[k] = i
  BY OfLine
<1>1. K[z+1] = "bs" /\ K[z+1] # "kill" /\ K[z+1] \notin {"char", "rune", "nl"}
  OBVIOUS
<1>2. Len(l) \in Nat \ {0}
  BY <1>0
<1>3. Lists(l, S)
  BY DEF EditingIn
<1>4. Lists(r, S \ {m}) /\ m \in S
  <2> HIDE DEF S
  <2> QED BY <1>0, <1>3, ListsFront
<1>5. ASSUME NEW k \in 1 .. Len(l)
      PROVE  /\ Cardinality(TextIn(K, l[k], z+1)) + 1 =
                  Cardinality(BackIn(K, l[k], z+1)) + (Len(l) - k)
             /\ Cardinality(BackIn(K, l[k], z+1)) <= Cardinality(TextIn(K, l[k], z+1)) <=> k # Len(l)
  <2> DEFINE i == l[k]
             Te == Cardinality(TextIn(K, i, z))
             Ba == Cardinality(BackIn(K, i, z))
  <2>1. i \in Nat /\ i <= z
    <3>1. l[k] \in b+1 .. z
      BY <1>0
    <3> QED BY <3>1
  <2>2. Te = Ba + (Len(l) - k)
    BY DEF EditingIn
  <2>3. /\ Te \in Nat /\ Ba \in Nat
        /\ Cardinality(TextIn(K, i, z+1)) = Te + 0 /\ Cardinality(BackIn(K, i, z+1)) = Ba + 1
    <3> HIDE DEF i
    <3> QED BY <1>1, <2>1, CountNext
  <2> HIDE DEF Te, Ba
  <2>4. /\ Te + 1 = (Ba + 1) + (Len(l) - k)
        /\ Ba + 1 <= Te <=> k # Len(l)
    BY <1>2, <2>2, <2>3
  <2> QED BY <2>3, <2>4
<1>6. T = S \ {m}
  <2>1. T = {i \in S : Cardinality(BackIn(K, i, z+1)) <= Cardinality(TextIn(K, i, z+1))}
    BY <1>1, LeftNext
  <2>2. ASSUME NEW i \in S
        PROVE  Cardinality(BackIn(K, i, z+1)) <= Cardinality(TextIn(K, i, z+1)) <=> i # m
    <3>1. PICK k \in 1 .. Len(l) : l[k] = i
      BY <1>0
    <3>2. k # Len(l) => l[k] # m
      <4>1. ASSUME k # Len(l) PROVE l[k] # m
        <5>1. k < Len(l) /\ Len(l) \in 1 .. Len(l) /\ DOMAIN l = 1 .. Len(l)
          BY <1>0, <1>2, <4>1
        <5>2. l[k] < m
          BY <1>3, <5>1 DEF Lists
        <5>3. l[k] \in Nat /\ m \in Nat
          BY <1>0, <5>1
        <5> QED BY <5>2, <5>3
      <4> QED BY <4>1
    <3> QED BY <1>5, <3>1, <3>2
  <2> QED BY <2>1, <2>2
<1>7. r = SubSeq(l, 1, Len(l) - 1)
  BY DEF Front
<1>8. r \in Seq(b+1 .. z+1) /\ Len(r) = Len(l) - 1 /\ \A k \in 1 .. Len(r) : r[k] = l[k]
  <2> DEFINE c == Len(l)
  <2>1. c - 1 \in Int /\ 1 \in Int
    BY <1>2
  <2>2. \A k \in 1 .. c - 1 : l[k] \in b+1 .. z+1
    BY <1>0, <1>2
  <2>3. /\ r \in Seq(b+1 .. z+1) /\ Len(r) = IF 1 <= c - 1 THEN c - 1 - 1 + 1 ELSE 0
        /\ \A k \in 1 .. c - 1 - 1 + 1 : r[k] = l[1 + k - 1]
    <3> HIDE DEF r
    <3> QED BY <1>7, <2>1, <2>2, SubSeqProperties
  <2>4. c \in Nat \ {0}
    BY <1>2
  <2> HIDE DEF c, r
  <2>5. Len(r) = c - 1
    BY <2>3, <2>4
  <2>6. \A k \in 1 .. Len(r) : k \in 1 .. c - 1 - 1 + 1 /\ 1 + k - 1 = k
    BY <2>4, <2>5
  <2>7. \A k \in 1 .. Len(r) : r[k] = l[k]
    BY <2>3, <2>6
  <2> QED BY <2>3, <2>5, <2>7 DEF c
<1>9. ASSUME NEW k \in 1 .. Len(r)
      PROVE  Cardinality(TextIn(K, r[k], z+1)) = Cardinality(BackIn(K, r[k], z+1)) + (Len(r) - k)
  <2>1. k \in 1 .. Len(l) /\ r[k] = l[k] /\ l[k] \in Nat /\ l[k] <= z
    <3>1. k \in 1 .. Len(l) /\ r[k] = l[k]
      BY <1>2, <1>8
    <3>2. l[k] \in b+1 .. z
      BY <1>0, <3>1
    <3> QED BY <3>1, <3>2
  <2>2. Cardinality(TextIn(K, l[k], z+1)) + 1 = Cardinality(BackIn(K, l[k], z+1)) + (Len(l) - k)
    BY <1>5, <2>1
  <2>3. Cardinality(TextIn(K, l[k], z+1)) \in Nat /\ Cardinality(BackIn(K, l[k], z+1)) \in Nat
    <3>1. z+1 \in Nat /\ l[k] <= z+1
      BY <2>1
    <3> QED BY <2>1, <3>1, CountNext
  <2>4. Len(r) = Len(l) - 1
    BY <1>8
  <2>5. Cardinality(TextIn(K, l[k], z+1)) = Cardinality(BackIn(K, l[k], z+1)) + (Len(r) - k)
    BY <1>2, <2>2, <2>3, <2>4
  <2> QED BY <2>1, <2>5
<1>10. Lists(r, T)
  BY <1>4, <1>6
<1> QED BY <1>8, <1>9, <1>10 DEF EditingIn

(* Edit does what the line discipline says, and ^D is no part of a line *)
LEMMA KeyEdits ==
  ASSUME NEW l, NEW K, NEW b \in Nat, NEW z \in Nat, b <= z, EditingIn(l, K, b, z),
         K[z+1] \in {"char", "rune", "bs", "kill", "nl", "eof"}
  PROVE  IF K[z+1] = "eof" THEN EditingIn(l, K, b, z+1)
         ELSE EditingIn(EditIn(K, l, z+1), K, b, z+1)
<1>1. CASE K[z+1] = "eof"
  BY <1>1, EofEdits
<1>2. CASE K[z+1] = "kill"
  <2>1. EditIn(K, l, z+1) = <<>>
    BY <1>2 DEF EditIn
  <2> QED BY <1>2, <2>1, KillEdits
<1>3. CASE K[z+1] = "bs" /\ l = <<>>
  <2>1. EditIn(K, l, z+1) = <<>>
    BY <1>3 DEF EditIn
  <2> QED BY <1>3, <2>1, BackEditsNone
<1>4. CASE K[z+1] = "bs" /\ l # <<>>
  <2>1. EditIn(K, l, z+1) = Front(l)
    BY <1>4 DEF EditIn
  <2> QED BY <1>4, <2>1, BackEdits
<1>5. CASE K[z+1] \in {"char", "rune", "nl"}
  <2>1. EditIn(K, l, z+1) = Append(l, z+1)
    BY <1>5 DEF EditIn
  <2> QED BY <1>5, <2>1, TextEdits
<1> QED BY <1>1, <1>2, <1>3, <1>4, <1>5

-----------------------------------------------------------------------------
(* Which bytes of finished lines are read, over kinds K, raw bytes R, ends *)
(* E and the last byte u. *)

(* the last byte of the line of byte i *)
LastIn(E, u, i) ==
  IF \E e \in E : e >= i THEN CHOOSE e \in E : e >= i /\ \A f \in E : f >= i => f >= e ELSE u

(* byte i is read raw, or stays in its line *)
SurvivesIn(K, R, E, u, i) == i \in R \/ StaysIn(K, i, LastIn(E, u, i))

(* those up to byte b that do *)
KeptIn(K, R, E, u, b) == {i \in 1 .. b : SurvivesIn(K, R, E, u, i)}

(* the ends of lines of which nothing stays *)
BareIn(K, R, E, u) ==
  {e \in E : ~\E i \in 1 .. e : LastIn(E, u, i) = e /\ i \notin R /\ SurvivesIn(K, R, E, u, i)}

(* the lines up to byte b are finished *)
FinishedIn(R, E, b) ==
  /\ b \in Nat /\ R \subseteq 1 .. b /\ E \subseteq 1 .. b
  /\ \A i \in 1 .. b : i \in R \/ \E e \in E : i <= e

(* the least end from a byte on, and no other *)
LEMMA LastIs ==
  ASSUME NEW E \in SUBSET Nat, NEW u, NEW i \in Nat
  PROVE  IF \E e \in E : e >= i
         THEN /\ LastIn(E, u, i) \in E /\ LastIn(E, u, i) >= i
              /\ \A f \in E : f >= i => f >= LastIn(E, u, i)
         ELSE LastIn(E, u, i) = u
<1>1. CASE \E e \in E : e >= i
  <2> DEFINE T == {e \in E : e >= i}
  <2>1. T \in SUBSET Nat /\ T # {}
    BY <1>1
  <2>2. PICK m \in T : \A k \in T : m <= k
    BY <2>1, LeastNat
  <2>3. m \in E /\ m >= i /\ \A f \in E : f >= i => f >= m
    <3>1. ASSUME NEW f \in E, f >= i PROVE f >= m
      <4>1. f \in T /\ f \in Nat /\ m \in Nat
        BY <3>1
      <4> QED BY <2>2, <4>1
    <3> QED BY <3>1
  <2>4. LastIn(E, u, i) = CHOOSE e \in E : e >= i /\ \A f \in E : f >= i => f >= e
    BY <1>1 DEF LastIn
  <2> QED BY <1>1, <2>3, <2>4
<1>2. CASE ~\E e \in E : e >= i
  BY <1>2 DEF LastIn
<1> QED BY <1>1, <1>2

(* it is the only one *)
LEMMA LastOnly ==
  ASSUME NEW E \in SUBSET Nat, NEW u, NEW i \in Nat, NEW m \in E, m >= i,
         \A f \in E : f >= i => f >= m
  PROVE  LastIn(E, u, i) = m
<1> DEFINE l == LastIn(E, u, i)
<1>1. \E e \in E : e >= i
  OBVIOUS
<1>2. l \in E /\ l >= i /\ \A f \in E : f >= i => f >= l
  BY <1>1, LastIs
<1> HIDE DEF l
<1>3. l \in Nat /\ m \in Nat /\ l >= m /\ m >= l
  BY <1>2
<1>4. l = m
  BY <1>3
<1> QED BY <1>4 DEF l

(* what happens after the finished lines: other keys, raw reads and ends *)
After(K, R, E, K2, R2, E2, b) ==
  /\ \A x \in 1 .. b : K2[x] = K[x] /\ (x \in R2 <=> x \in R)
  /\ E \subseteq E2 /\ E2 \subseteq Nat /\ \A e \in E2 : e \in E \/ b < e

(* does not change where they end *)
LEMMA EndsStay ==
  ASSUME NEW K, NEW R, NEW E, NEW u, NEW K2, NEW R2, NEW E2, NEW u2, NEW b,
         FinishedIn(R, E, b), After(K, R, E, K2, R2, E2, b),
         NEW i \in 1 .. b, i \notin R
  PROVE  LastIn(E2, u2, i) = LastIn(E, u, i) /\ LastIn(E, u, i) \in E /\ LastIn(E, u, i) \in i .. b
<1> DEFINE m == LastIn(E, u, i)
<1>0. b \in Nat /\ E \in SUBSET Nat /\ E2 \in SUBSET Nat /\ i \in Nat
  BY DEF FinishedIn, After
<1>1. \E e \in E : e >= i
  <2>1. PICK e \in E : i <= e
    BY DEF FinishedIn
  <2> QED BY <1>0, <2>1
<1>2. m \in E /\ m >= i /\ \A f \in E : f >= i => f >= m
  BY <1>0, <1>1, LastIs
<1>3. m \in Nat /\ m <= b
  <2>1. m \in 1 .. b
    BY <1>2 DEF FinishedIn
  <2> QED BY <1>0, <2>1
<1> HIDE DEF m
<1>4. m \in E2
  BY <1>2 DEF After
<1>5. ASSUME NEW f \in E2, f >= i PROVE f >= m
  <2>1. CASE f \in E
    BY <1>2, <1>5, <2>1
  <2>2. CASE f \notin E
    <3>1. b < f /\ f \in Nat
      BY <1>0, <2>2 DEF After
    <3> QED BY <1>0, <1>3, <3>1
  <2> QED BY <2>1, <2>2
<1>6. LastIn(E2, u2, i) = m
  BY <1>0, <1>2, <1>4, <1>5, LastOnly
<1> QED BY <1>0, <1>2, <1>3, <1>6 DEF m

(* a byte's fate depends on the keys up to there *)
LEMMA StaysSame ==
  ASSUME NEW K, NEW K2, NEW b \in Nat, NEW i \in 1 .. b, NEW z \in i .. b,
         \A x \in 1 .. b : K2[x] = K[x]
  PROVE  StaysIn(K2, i, z) <=> StaysIn(K, i, z)
<1>1. K2[i] = K[i]
  OBVIOUS
<1>2. ASSUME NEW j \in i+1 .. z
      PROVE  K2[j] = K[j] /\ BackIn(K2, i, j) = BackIn(K, i, j) /\ TextIn(K2, i, j) = TextIn(K, i, j)
  <2>1. \A x \in i+1 .. j : x \in 1 .. b
    OBVIOUS
  <2>2. j \in 1 .. b
    OBVIOUS
  <2>3. \A x \in i+1 .. j : K2[x] = K[x]
    BY <2>1
  <2> QED BY <2>2, <2>3 DEF BackIn, TextIn
<1> QED BY <1>1, <1>2 DEF StaysIn

(* nor which of their bytes are read *)
LEMMA KeptStays ==
  ASSUME NEW K, NEW R, NEW E, NEW u, NEW K2, NEW R2, NEW E2, NEW u2, NEW b,
         FinishedIn(R, E, b), After(K, R, E, K2, R2, E2, b)
  PROVE  /\ \A i \in 1 .. b : SurvivesIn(K2, R2, E2, u2, i) <=> SurvivesIn(K, R, E, u, i)
         /\ KeptIn(K2, R2, E2, u2, b) = KeptIn(K, R, E, u, b)
<1>0. b \in Nat /\ \A x \in 1 .. b : K2[x] = K[x]
  BY DEF FinishedIn, After
<1>1. ASSUME NEW i \in 1 .. b
      PROVE  SurvivesIn(K2, R2, E2, u2, i) <=> SurvivesIn(K, R, E, u, i)
  <2>1. i \in R2 <=> i \in R
    BY DEF After
  <2>2. CASE i \in R
    BY <2>1, <2>2 DEF SurvivesIn
  <2>3. CASE i \notin R
    <3>1. LastIn(E2, u2, i) = LastIn(E, u, i) /\ LastIn(E, u, i) \in i .. b
      BY <2>3, EndsStay
    <3>2. StaysIn(K2, i, LastIn(E, u, i)) <=> StaysIn(K, i, LastIn(E, u, i))
      BY <1>0, <3>1, StaysSame
    <3> QED BY <2>1, <2>3, <3>1, <3>2 DEF SurvivesIn
  <2> QED BY <2>2, <2>3
<1> QED BY <1>1 DEF KeptIn

(* nor which of them were empty *)
LEMMA BareStays ==
  ASSUME NEW K, NEW R, NEW E, NEW u, NEW K2, NEW R2, NEW E2, NEW u2, NEW b,
         FinishedIn(R, E, b), After(K, R, E, K2, R2, E2, b)
  PROVE  \A e \in E : e \in BareIn(K2, R2, E2, u2) <=> e \in BareIn(K, R, E, u)
<1> SUFFICES ASSUME NEW e \in E
             PROVE  e \in BareIn(K2, R2, E2, u2) <=> e \in BareIn(K, R, E, u)
  OBVIOUS
<1>1. e \in E2 /\ \A i \in 1 .. e : i \in 1 .. b
  BY DEF FinishedIn, After
<1>2. ASSUME NEW i \in 1 .. e
      PROVE  /\ i \notin R2 <=> i \notin R
             /\ SurvivesIn(K2, R2, E2, u2, i) <=> SurvivesIn(K, R, E, u, i)
             /\ i \notin R => LastIn(E2, u2, i) = LastIn(E, u, i)
  <2>1. i \in 1 .. b
    BY <1>1
  <2>2. i \notin R2 <=> i \notin R
    BY <2>1 DEF After
  <2>3. SurvivesIn(K2, R2, E2, u2, i) <=> SurvivesIn(K, R, E, u, i)
    BY <2>1, KeptStays
  <2>4. i \notin R => LastIn(E2, u2, i) = LastIn(E, u, i)
    BY <2>1, EndsStay
  <2> QED BY <2>2, <2>3, <2>4
<1> QED BY <1>1, <1>2 DEF BareIn

(* bytes up to g read raw are read, and end no line *)
LEMMA RawKept ==
  ASSUME NEW K, NEW R, NEW E, NEW b, FinishedIn(R, E, b), NEW g \in Nat, b <= g,
         NEW R2, R2 = R \cup (b+1 .. g)
  PROVE  /\ FinishedIn(R2, E, g)
         /\ KeptIn(K, R2, E, g, g) = KeptIn(K, R, E, b, b) \cup (b+1 .. g)
         /\ BareIn(K, R2, E, g) = BareIn(K, R, E, b)
<1>0. b \in Nat /\ R \subseteq 1 .. b /\ E \subseteq 1 .. b
  BY DEF FinishedIn
<1>1. \A x : x \in 1 .. g <=> x \in 1 .. b \/ x \in b+1 .. g
  BY <1>0
<1>2. FinishedIn(R2, E, g)
  BY <1>0, <1>1 DEF FinishedIn
<1>3. After(K, R, E, K, R2, E, b)
  <2>1. \A x \in 1 .. b : x \in R2 <=> x \in R
    BY <1>0
  <2>2. E \subseteq Nat
    BY <1>0
  <2> QED BY <2>1, <2>2 DEF After
<1>4. \A i \in b+1 .. g : SurvivesIn(K, R2, E, g, i)
  BY DEF SurvivesIn
<1>5. \A i \in 1 .. b : SurvivesIn(K, R2, E, g, i) <=> SurvivesIn(K, R, E, b, i)
  <2>1. PICK Q : Q = R2
    OBVIOUS
  <2>2. After(K, R, E, K, Q, E, b)
    BY <1>3, <2>1
  <2>3. \A i \in 1 .. b : SurvivesIn(K, Q, E, g, i) <=> SurvivesIn(K, R, E, b, i)
    BY <2>2, KeptStays
  <2> QED BY <2>1, <2>3
<1>6. KeptIn(K, R2, E, g, g) = KeptIn(K, R, E, b, b) \cup (b+1 .. g)
  BY <1>1, <1>4, <1>5 DEF KeptIn
<1>7. \A e \in E : e \in BareIn(K, R2, E, g) <=> e \in BareIn(K, R, E, b)
  BY <1>3, BareStays
<1>8. BareIn(K, R2, E, g) = BareIn(K, R, E, b)
  BY <1>7 DEF BareIn
<1> QED BY <1>2, <1>6, <1>8

(* byte g ends the line that began after byte b: what is left of it is     *)
(* kept, and it is bare if nothing is                                      *)
Ended(K, R, E, u, b, E2, g) ==
  /\ FinishedIn(R, E2, g)
  /\ KeptIn(K, R, E2, g, g) = KeptIn(K, R, E, u, b) \cup LeftIn(K, b, g)
  /\ LeftIn(K, b, g) = {} => BareIn(K, R, E2, g) = BareIn(K, R, E, u) \cup {g}
  /\ LeftIn(K, b, g) # {} => BareIn(K, R, E2, g) = BareIn(K, R, E, u)

(* it does so *)
LEMMA LineKept ==
  ASSUME NEW K, NEW R, NEW E, NEW u, NEW b, FinishedIn(R, E, b), NEW g \in Nat, b < g,
         NEW E2, E2 = E \cup {g}
  PROVE  Ended(K, R, E, u, b, E2, g)
<1>0. b \in Nat /\ R \subseteq 1 .. b /\ E \subseteq 1 .. b
  BY DEF FinishedIn
<1>1. \A x : x \in 1 .. g <=> x \in 1 .. b \/ x \in b+1 .. g
  BY <1>0
<1>2. g \in E2 /\ g \in 1 .. g /\ E2 \in SUBSET Nat /\ (\A x \in b+1 .. g : x <= g) /\ E2 \subseteq 1 .. g /\ R \subseteq 1 .. g
  BY <1>0
<1>3. FinishedIn(R, E2, g)
  BY <1>0, <1>1, <1>2 DEF FinishedIn
<1>4. After(K, R, E, K, R, E2, b)
  BY <1>0, <1>2 DEF After
<1>5. ASSUME NEW i \in b+1 .. g
      PROVE  /\ LastIn(E2, g, i) = g /\ i \notin R
             /\ SurvivesIn(K, R, E2, g, i) <=> StaysIn(K, i, g)
  <2>1. i \in Nat /\ g >= i
    BY <1>0
  <2>2. ASSUME NEW f \in E2, f >= i PROVE f >= g
    <3>1. f \in 1 .. b \/ f = g
      BY <1>0
    <3> QED BY <1>0, <2>2, <3>1
  <2>3. LastIn(E2, g, i) = g
    BY <1>2, <2>1, <2>2, LastOnly
  <2>4. i \notin R
    BY <1>0
  <2> QED BY <2>3, <2>4 DEF SurvivesIn
<1>6. \A i \in 1 .. b : SurvivesIn(K, R, E2, g, i) <=> SurvivesIn(K, R, E, u, i)
  BY <1>4, KeptStays
<1>7. KeptIn(K, R, E2, g, g) = KeptIn(K, R, E, u, b) \cup LeftIn(K, b, g)
  BY <1>1, <1>5, <1>6 DEF KeptIn, LeftIn
<1>8. \A e \in E : e \in BareIn(K, R, E2, g) <=> e \in BareIn(K, R, E, u)
  BY <1>4, BareStays
<1>9. g \in BareIn(K, R, E2, g) <=> LeftIn(K, b, g) = {}
  <2>1. ASSUME NEW i \in 1 .. b, i \notin R PROVE LastIn(E2, g, i) # g
    <3>1. LastIn(E2, g, i) = LastIn(E, u, i) /\ LastIn(E, u, i) \in i .. b
      BY <1>4, <2>1, EndsStay
    <3> QED BY <1>0, <3>1
  <2>2. g \in BareIn(K, R, E2, g) <=>
          ~\E i \in 1 .. g : LastIn(E2, g, i) = g /\ i \notin R /\ SurvivesIn(K, R, E2, g, i)
    BY <1>2 DEF BareIn
  <2>3. (\E i \in 1 .. g : LastIn(E2, g, i) = g /\ i \notin R /\ SurvivesIn(K, R, E2, g, i))
          <=> \E i \in b+1 .. g : StaysIn(K, i, g)
    <3> QED BY <1>1, <1>5, <2>1
  <2> QED BY <2>2, <2>3 DEF LeftIn
<1>10. g \notin E
  BY <1>0
<1>11. /\ LeftIn(K, b, g) = {} => BareIn(K, R, E2, g) = BareIn(K, R, E, u) \cup {g}
       /\ LeftIn(K, b, g) # {} => BareIn(K, R, E2, g) = BareIn(K, R, E, u)
  <2>1. BareIn(K, R, E2, g) \subseteq E \cup {g} /\ BareIn(K, R, E, u) \subseteq E
    BY DEF BareIn
  <2> QED BY <1>8, <1>9, <1>10, <2>1
<1> QED BY <1>3, <1>7, <1>11 DEF Ended

-----------------------------------------------------------------------------
(* The blocks of kbdq. *)

(* what follows the first k elements *)
LEMMA FromThere ==
  ASSUME NEW S, NEW s \in Seq(S), NEW k \in 0 .. Len(s)
  PROVE  /\ SubSeq(s, k + 1, Len(s)) \in Seq(S)
         /\ Len(SubSeq(s, k + 1, Len(s))) = Len(s) - k
         /\ \A i \in 1 .. Len(s) - k : SubSeq(s, k + 1, Len(s))[i] = s[k + i]
<1>1. PICK a \in Int : a = k + 1
  OBVIOUS
<1>2. PICK c \in Int : c = Len(s)
  OBVIOUS
<1>3. \A i \in a .. c : s[i] \in S
  BY <1>1, <1>2
<1>4. /\ SubSeq(s, a, c) \in Seq(S)
      /\ Len(SubSeq(s, a, c)) = IF a <= c THEN c - a + 1 ELSE 0
      /\ \A i \in 1 .. c - a + 1 : SubSeq(s, a, c)[i] = s[a + i - 1]
  BY <1>3, SubSeqProperties
<1>5. PICK t \in Seq(S) : t = SubSeq(s, a, c)
  BY <1>4
<1>6. Len(t) = IF a <= c THEN c - a + 1 ELSE 0
  BY <1>4, <1>5
<1>7. Len(t) = Len(s) - k
  BY <1>1, <1>2, <1>6
<1>8. ASSUME NEW i \in 1 .. Len(s) - k PROVE t[i] = s[k + i]
  <2>1. i \in 1 .. c - a + 1 /\ a + i - 1 = k + i
    BY <1>1, <1>2
  <2> QED BY <1>4, <1>5, <2>1
<1> QED BY <1>1, <1>2, <1>5, <1>7, <1>8

(* a block of kbdq *)
Block == [data : Seq(Nat), alloc : Nat]

(* bytes numbered one after the other *)
Consecutive(d) == d \in Seq(Nat) /\ d # <<>> /\ \A j \in 1 .. Len(d) : d[j] = d[1] + (j - 1)

(* the byte that comes after a block *)
Beyond(b) == b.data[1] + Len(b.data)

(* the blocks bs hold the bytes a+1 to z *)
Chain(bs, a, z) ==
  /\ bs \in Seq(Block)
  /\ \A i \in 1 .. Len(bs) :
       /\ Consecutive(bs[i].data) /\ Beyond(bs[i]) <= z + 1
       /\ bs[i].data[1] = (IF i = 1 THEN a + 1 ELSE Beyond(bs[i-1]))
  /\ IF Len(bs) = 0 THEN a = z ELSE Beyond(bs[Len(bs)]) = z + 1

(* a block has bytes, numbered *)
LEMMA BlockBytes ==
  ASSUME NEW b \in Block, Consecutive(b.data)
  PROVE  /\ b.data \in Seq(Nat) /\ Len(b.data) \in Nat /\ Len(b.data) > 0
         /\ b.data[1] \in Nat /\ Beyond(b) \in Nat /\ Beyond(b) > b.data[1]
<1>1. PICK d \in Seq(Nat) : d = b.data /\ d # <<>>
  BY DEF Consecutive
<1>2. Len(d) \in Nat /\ Len(d) > 0 /\ d[1] \in Nat
  BY <1>1
<1> QED BY <1>1, <1>2 DEF Beyond

(* a new block *)
LEMMA ChainAppend ==
  ASSUME NEW bs, NEW a \in Nat, NEW z \in Nat, Chain(bs, a, z), NEW k \in Nat, k > 0, NEW b \in Block,
         b.data = [i \in 1 .. k |-> z + i]
  PROVE  Chain(Append(bs, b), a, z + k)
<1> DEFINE us == Append(bs, b)
<1>1. /\ bs \in Seq(Block) /\ us \in Seq(Block) /\ Len(us) = Len(bs) + 1 /\ us[Len(bs) + 1] = b
      /\ \A i \in 1 .. Len(bs) : us[i] = bs[i]
  BY DEF Chain
<1>2. Len(bs) \in Nat
  BY <1>1
<1>3. PICK d \in Seq(Nat) : d = b.data
  BY DEF Block
<1>4. Len(d) = k /\ d[1] = z + 1 /\ \A j \in 1 .. k : d[j] = z + j
  <2>1. d = [i \in 1 .. k |-> z + i]
    BY <1>3
  <2>2. DOMAIN d = 1 .. k /\ DOMAIN d = 1 .. Len(d)
    BY <2>1
  <2>3. Len(d) = k
    BY <2>2
  <2>4. 1 \in 1 .. k
    OBVIOUS
  <2> QED BY <2>1, <2>3, <2>4
<1>5. Consecutive(b.data) /\ Beyond(b) = z + k + 1 /\ b.data[1] = z + 1
  <2>1. \A j \in 1 .. Len(d) : d[j] = d[1] + (j - 1)
    BY <1>4
  <2>2. d # <<>>
    BY <1>4
  <2>3. Consecutive(d)
    BY <2>1, <2>2 DEF Consecutive
  <2>4. d[1] + Len(d) = z + k + 1
    BY <1>4
  <2> QED BY <1>3, <1>4, <2>3, <2>4 DEF Beyond
<1> HIDE DEF us
<1>6. ASSUME NEW i \in 1 .. Len(us)
      PROVE  /\ Consecutive(us[i].data) /\ Beyond(us[i]) <= z + k + 1
             /\ us[i].data[1] = (IF i = 1 THEN a + 1 ELSE Beyond(us[i-1]))
  <2>1. CASE i \in 1 .. Len(bs)
    <3>1. us[i] = bs[i] /\ (i # 1 => us[i-1] = bs[i-1]) /\ bs[i] \in Block
      <4>1. i # 1 => i-1 \in 1 .. Len(bs)
        BY <1>2, <2>1
      <4> QED BY <1>1, <2>1, <4>1
    <3>2. /\ Consecutive(bs[i].data) /\ Beyond(bs[i]) <= z + 1
          /\ bs[i].data[1] = (IF i = 1 THEN a + 1 ELSE Beyond(bs[i-1]))
      BY <2>1 DEF Chain
    <3>3. Beyond(bs[i]) \in Nat
      BY <3>1, <3>2, BlockBytes
    <3>4. Beyond(bs[i]) <= z + k + 1
      BY <3>2, <3>3
    <3> QED BY <3>1, <3>2, <3>4
  <2>2. CASE i = Len(bs) + 1
    <3>1. us[i] = b
      BY <1>1, <2>2
    <3>2. CASE Len(bs) = 0
      <4>1. a = z /\ i = 1
        BY <2>2, <3>2 DEF Chain
      <4> QED BY <1>5, <3>1, <4>1
    <3>3. CASE Len(bs) # 0
      <4>1. Beyond(bs[Len(bs)]) = z + 1 /\ i # 1 /\ i - 1 = Len(bs) /\ i - 1 \in 1 .. Len(bs)
        BY <1>2, <2>2, <3>3 DEF Chain
      <4>2. us[i-1] = bs[Len(bs)]
        BY <1>1, <4>1
      <4> QED BY <1>5, <3>1, <4>1, <4>2
    <3> QED BY <3>2, <3>3
  <2> QED BY <1>1, <1>2, <2>1, <2>2
<1>7. Len(us) # 0 /\ Beyond(us[Len(us)]) = z + k + 1
  BY <1>1, <1>2, <1>5
<1> QED BY <1>1, <1>6, <1>7 DEF Chain, us

(* there is no more in the blocks than was typed *)
LEMMA ChainRoom ==
  ASSUME NEW bs, NEW a \in Nat, NEW z \in Nat, Chain(bs, a, z)
  PROVE  a <= z
<1>1. CASE Len(bs) = 0
  BY <1>1 DEF Chain
<1>2. CASE Len(bs) # 0
  <2>1. 1 \in 1 .. Len(bs) /\ bs[1] \in Block
    <3>1. Len(bs) \in Nat /\ bs \in Seq(Block)
      BY DEF Chain
    <3>2. 1 \in 1 .. Len(bs)
      BY <1>2, <3>1
    <3> QED BY <3>1, <3>2
  <2>2. Consecutive(bs[1].data) /\ Beyond(bs[1]) <= z + 1 /\ bs[1].data[1] = a + 1
    BY <2>1 DEF Chain
  <2>3. Beyond(bs[1]) \in Nat /\ Beyond(bs[1]) > a + 1
    BY <2>1, <2>2, BlockBytes
  <2> QED BY <2>2, <2>3
<1> QED BY <1>1, <1>2

(* the first block is taken, or its first g bytes *)
LEMMA ChainCut ==
  ASSUME NEW b \in Block, NEW ts \in Seq(Block), NEW a \in Nat, NEW z \in Nat,
         Chain(<<b>> \o ts, a, z), NEW g \in 1 .. Len(b.data)
  PROVE  /\ Consecutive(b.data) /\ a + g <= z
         /\ g = Len(b.data) => Chain(ts, a + g, z)
         /\ \A r \in Block : g < Len(b.data) /\ r.data = SubSeq(b.data, g + 1, Len(b.data))
              => Chain(<<r>> \o ts, a + g, z)
<1> DEFINE bs == <<b>> \o ts
           m == Len(b.data)
<1>1. /\ bs \in Seq(Block) /\ Len(bs) = Len(ts) + 1 /\ bs[1] = b /\ Len(ts) \in Nat
      /\ \A i \in 1 .. Len(ts) : bs[i + 1] = ts[i]
  <2>1. <<b>> \in Seq(Block) /\ Len(<<b>>) = 1 /\ <<b>>[1] = b
    OBVIOUS
  <2>2. /\ bs \in Seq(Block) /\ Len(bs) = Len(<<b>>) + Len(ts)
        /\ \A i \in 1 .. Len(bs) : bs[i] = IF i <= Len(<<b>>) THEN <<b>>[i] ELSE ts[i - Len(<<b>>)]
    BY <2>1, ConcatProperties
  <2>3. Len(ts) \in Nat /\ Len(bs) = Len(ts) + 1
    BY <2>1, <2>2
  <2>4. 1 \in 1 .. Len(bs) /\ \A i \in 1 .. Len(ts) : i + 1 \in 1 .. Len(bs) /\ ~(i + 1 <= 1) /\ (i + 1) - 1 = i
    BY <2>3
  <2> HIDE DEF bs
  <2> QED BY <2>1, <2>2, <2>3, <2>4
<1> HIDE DEF bs
<1>2. \A i \in 1 .. Len(bs) :
       /\ Consecutive(bs[i].data) /\ Beyond(bs[i]) <= z + 1
       /\ bs[i].data[1] = (IF i = 1 THEN a + 1 ELSE Beyond(bs[i-1]))
  BY DEF Chain, bs
<1>3. Beyond(bs[Len(bs)]) = z + 1
  BY <1>1 DEF Chain, bs
<1>4. Consecutive(b.data) /\ Beyond(b) <= z + 1 /\ b.data[1] = a + 1
  BY <1>1, <1>2
<1>5. /\ b.data \in Seq(Nat) /\ m \in Nat /\ m > 0 /\ Beyond(b) = a + 1 + m
      /\ \A j \in 1 .. m : b.data[j] = a + j
  <2>1. b.data \in Seq(Nat) /\ m \in Nat /\ m > 0
    BY <1>4, BlockBytes
  <2>2. \A j \in 1 .. m : b.data[j] = (a + 1) + (j - 1)
    BY <1>4 DEF Consecutive
  <2>3. \A j \in 1 .. m : (a + 1) + (j - 1) = a + j
    BY <2>1
  <2> QED BY <1>4, <2>1, <2>2, <2>3 DEF Beyond
<1>6. g \in Nat /\ g > 0 /\ g <= m
  BY <1>5
<1> HIDE DEF m
<1>7. a + g <= z
  BY <1>4, <1>5, <1>6
<1>8. ASSUME NEW i \in 1 .. Len(ts)
      PROVE  /\ Consecutive(ts[i].data) /\ Beyond(ts[i]) <= z + 1
             /\ ts[i].data[1] = (IF i = 1 THEN a + m + 1 ELSE Beyond(ts[i-1]))
  <2>1. i + 1 \in 1 .. Len(bs) /\ i + 1 # 1 /\ bs[i+1] = ts[i] /\ (i+1)-1 = i
    BY <1>1
  <2>2. Consecutive(ts[i].data) /\ Beyond(ts[i]) <= z + 1 /\ ts[i].data[1] = Beyond(bs[i])
    BY <1>2, <2>1
  <2>3. CASE i = 1
    <3>1. Beyond(bs[i]) = a + m + 1
      BY <1>1, <1>5, <2>3
    <3> QED BY <2>2, <2>3, <3>1
  <2>4. CASE i # 1
    <3>1. i - 1 \in 1 .. Len(ts) /\ (i - 1) + 1 = i
      BY <1>1, <2>4
    <3>2. bs[i] = ts[i-1]
      BY <1>1, <3>1
    <3> QED BY <2>2, <2>4, <3>2
  <2> QED BY <2>3, <2>4
<1>9. IF Len(ts) = 0 THEN a + m = z ELSE Beyond(ts[Len(ts)]) = z + 1
  <2>1. CASE Len(ts) = 0
    <3>1. Beyond(b) = z + 1
      BY <1>1, <1>3, <2>1
    <3>2. a + m = z
      BY <1>5, <3>1
    <3> QED BY <2>1, <3>2
  <2>2. CASE Len(ts) # 0
    <3>1. Len(ts) \in 1 .. Len(ts)
      BY <1>1, <2>2
    <3>2. bs[Len(bs)] = ts[Len(ts)]
      BY <1>1, <3>1
    <3> QED BY <1>3, <2>2, <3>2
  <2> QED BY <2>1, <2>2
<1>10. ASSUME g = m PROVE Chain(ts, a + g, z)
  BY <1>8, <1>9, <1>10 DEF Chain
<1>11. ASSUME NEW r \in Block, g < m, r.data = SubSeq(b.data, g + 1, m)
       PROVE  Chain(<<r>> \o ts, a + g, z)
  <2> DEFINE us == <<r>> \o ts
  <2>1. /\ us \in Seq(Block) /\ Len(us) = Len(ts) + 1 /\ us[1] = r
        /\ \A i \in 2 .. Len(us) : us[i] = ts[i - 1] /\ i - 1 \in 1 .. Len(ts)
    <3>1. <<r>> \in Seq(Block) /\ Len(<<r>>) = 1 /\ <<r>>[1] = r
      OBVIOUS
    <3>2. /\ us \in Seq(Block) /\ Len(us) = Len(<<r>>) + Len(ts)
          /\ \A i \in 1 .. Len(us) : us[i] = IF i <= Len(<<r>>) THEN <<r>>[i] ELSE ts[i - Len(<<r>>)]
      BY <3>1, ConcatProperties
    <3>3. Len(us) = Len(ts) + 1
      BY <1>1, <3>1, <3>2
    <3>4. 1 \in 1 .. Len(us) /\ \A i \in 2 .. Len(us) : i \in 1 .. Len(us) /\ ~(i <= 1) /\ i - 1 \in 1 .. Len(ts)
      BY <1>1, <3>3
    <3> HIDE DEF us
    <3> QED BY <3>1, <3>2, <3>3, <3>4
  <2> HIDE DEF us
  <2>2. PICK d \in Seq(Nat) : d = r.data
    BY <1>11 DEF Block
  <2>3. Len(d) = m - g /\ \A j \in 1 .. m - g : d[j] = a + g + j
    <3>1. PICK e \in Seq(Nat) : e = b.data
      BY <1>5
    <3>2. Len(e) = m /\ g \in 0 .. Len(e) /\ d = SubSeq(e, g + 1, Len(e))
      BY <1>6, <1>11, <2>2, <3>1 DEF m
    <3>3. Len(d) = Len(e) - g /\ \A j \in 1 .. Len(e) - g : d[j] = e[g + j]
      BY <3>2, FromThere
    <3>4. ASSUME NEW j \in 1 .. m - g PROVE g + j \in 1 .. m /\ a + (g + j) = a + g + j
      <4>1. PICK h \in Nat : h = m /\ g \in 1 .. h
        BY <1>5, <1>6
      <4>2. j \in 1 .. h - g
        BY <3>4, <4>1
      <4>3. g + j \in 1 .. h /\ a + (g + j) = a + g + j
        BY <4>1, <4>2
      <4> QED BY <4>1, <4>3
    <3> QED BY <1>5, <3>1, <3>2, <3>3, <3>4
  <2>4. d # <<>> /\ d[1] = a + g + 1 /\ \A j \in 1 .. Len(d) : d[j] = d[1] + (j - 1)
    <3>1. 1 \in 1 .. m - g /\ Len(d) > 0
      BY <1>5, <1>6, <1>11, <2>3
    <3> QED BY <2>3, <3>1
  <2>5. Consecutive(r.data) /\ r.data[1] = a + g + 1 /\ Beyond(r) = Beyond(b)
    <3>1. d[1] + Len(d) = a + 1 + m
      BY <1>5, <1>6, <2>3, <2>4
    <3> QED BY <1>5, <2>2, <2>4, <3>1 DEF Consecutive, Beyond
  <2>6. ASSUME NEW i \in 1 .. Len(us)
        PROVE  /\ Consecutive(us[i].data) /\ Beyond(us[i]) <= z + 1
               /\ us[i].data[1] = (IF i = 1 THEN a + g + 1 ELSE Beyond(us[i-1]))
    <3>1. CASE i = 1
      BY <1>4, <2>1, <2>5, <3>1
    <3>2. CASE i # 1
      <4>1. i \in 2 .. Len(us) /\ us[i] = ts[i-1] /\ i - 1 \in 1 .. Len(ts)
        BY <2>1, <3>2
      <4>2. /\ Consecutive(ts[i-1].data) /\ Beyond(ts[i-1]) <= z + 1
            /\ ts[i-1].data[1] = (IF i-1 = 1 THEN a + m + 1 ELSE Beyond(ts[(i-1)-1]))
        BY <1>8, <4>1
      <4>3. CASE i - 1 = 1
        <5>1. us[i-1] = r
          BY <2>1, <4>3
        <5>2. Beyond(r) = a + m + 1
          BY <1>5, <2>5
        <5> QED BY <3>2, <4>1, <4>2, <4>3, <5>1, <5>2
      <4>4. CASE i - 1 # 1
        <5>1. i - 1 \in 2 .. Len(us)
          BY <2>1, <4>1, <4>4
        <5>2. us[i-1] = ts[(i-1)-1]
          BY <2>1, <5>1
        <5> QED BY <3>2, <4>1, <4>2, <4>4, <5>2
      <4> QED BY <4>3, <4>4
    <3> QED BY <3>1, <3>2
  <2>7. Len(us) # 0 /\ Beyond(us[Len(us)]) = z + 1
    <3>1. CASE Len(ts) = 0
      <4>1. us[Len(us)] = r /\ bs[Len(bs)] = b
        BY <1>1, <2>1, <3>1
      <4> QED BY <1>1, <1>3, <2>1, <2>5, <4>1
    <3>2. CASE Len(ts) # 0
      <4>1. Len(us) \in 2 .. Len(us) /\ Len(us) - 1 = Len(ts)
        BY <1>1, <2>1, <3>2
      <4>2. us[Len(us)] = ts[Len(ts)]
        BY <2>1, <4>1
      <4> QED BY <1>9, <2>1, <3>2, <4>2, <4>1
    <3> QED BY <3>1, <3>2
  <2> QED BY <2>1, <2>6, <2>7 DEF Chain, us
<1> QED BY <1>4, <1>7, <1>10, <1>11 DEF m

(* the bytes of one block *)
LEMMA BytesOfOne ==
  ASSUME NEW b \in Block
  PROVE  Bytes(<<>>) = <<>> /\ Bytes(<<b>>) = b.data
<1>1. [i \in DOMAIN <<b>> |-> <<b>>[i].data] = <<b.data>> /\ [i \in DOMAIN <<>> |-> <<>>[i].data] = <<>>
  OBVIOUS
<1>2. b.data \in Seq(Nat)
  BY DEF Block
<1> QED BY <1>1, <1>2, FlatOne DEF Bytes

(* bl2mem of the one block that a reader copies *)
LEMMA Bl2memOne ==
  ASSUME NEW b \in Block, Consecutive(b.data), NEW k \in Nat, k > 0
  PROVE  \E g \in 1 .. Len(b.data) :
           /\ g <= k /\ LeastOf(Len(Bytes(<<b>>)), k) = g
           /\ g = Len(b.data) => Bl2mem(<<b>>, k) = <<>>
           /\ g < Len(b.data) => \E r \in Block :
                /\ r.data = SubSeq(b.data, g + 1, Len(b.data))
                /\ Bl2mem(<<b>>, k) = <<r>>
<1>1. PICK d \in Seq(Nat) : d = b.data
  BY DEF Block
<1>2. Len(d) \in Nat /\ Len(d) > 0
  BY <1>1, BlockBytes
<1>3. Bytes(<<b>>) = d /\ Bytes(<<>>) = <<>>
  BY <1>1, BytesOfOne
<1>4. CASE Len(d) <= k
  <2>1. Bl2mem(<<b>>, k) = <<>> /\ LeastOf(Len(d), k) = Len(d)
    BY <1>2, <1>3, <1>4 DEF Bl2mem, LeastOf
  <2>2. Len(d) \in 1 .. Len(d) /\ ~(Len(d) < Len(d))
    BY <1>2
  <2> QED BY <1>1, <1>3, <1>4, <2>1, <2>2
<1>5. CASE ~(Len(d) <= k)
  <2> DEFINE bs == <<b>>
  <2>1. bs \in Seq(Block) /\ DOMAIN bs = {1} /\ Len(bs) = 1 /\ bs[1] = b
    OBVIOUS
  <2> HIDE DEF bs
  <2>2. SubSeq(bs, 1, 1 - 1) = <<>> /\ SubSeq(bs, 1, 1) = bs
    <3>1. 1 - 1 < 1
      OBVIOUS
    <3>2. SubSeq(bs, 1, 1 - 1) = <<>>
      BY <3>1, SubSeqEmpty
    <3> QED BY <2>1, <3>2, SubSeqFull
  <2>3. Len(Bytes(SubSeq(bs, 1, 1 - 1))) = 0 /\ Len(Bytes(SubSeq(bs, 1, 1))) = Len(d) /\ Bytes(bs) = d
    <3>1. Len(<<>>) = 0
      OBVIOUS
    <3> QED BY <1>3, <2>2, <3>1 DEF bs
  <2>4. (CHOOSE i \in DOMAIN bs :
           /\ Len(Bytes(SubSeq(bs, 1, i - 1))) <= k
           /\ Len(Bytes(SubSeq(bs, 1, i))) > k) = 1
    <3>1. /\ 1 \in DOMAIN bs
          /\ Len(Bytes(SubSeq(bs, 1, 1 - 1))) <= k
          /\ Len(Bytes(SubSeq(bs, 1, 1))) > k
      BY <1>2, <1>5, <2>1, <2>3
    <3> QED BY <2>1, <3>1
  <2>5. k - 0 = k
    OBVIOUS
  <2>6. Bl2mem(bs, k) = <<[b EXCEPT !.data = SubSeq(b.data, k + 1, Len(b.data))]>>
    BY <1>2, <1>5, <2>1, <2>3, <2>4, <2>5 DEF Bl2mem
  <2>7. k \in 1 .. Len(d) /\ k < Len(d) /\ k \in 0 .. Len(d) /\ LeastOf(Len(d), k) = k
    BY <1>2, <1>5 DEF LeastOf
  <2>8. PICK x \in Seq(Nat) : x = SubSeq(d, k + 1, Len(d))
    BY <2>7, FromThere
  <2>9. PICK r \in Block : r = [b EXCEPT !.data = x]
    BY DEF Block
  <2>10. r.data = x
    BY <2>9 DEF Block
  <2>11. Bl2mem(bs, k) = <<r>>
    BY <1>1, <2>6, <2>8, <2>9
  <2>12. /\ k \in 1 .. Len(b.data) /\ k <= k /\ LeastOf(Len(Bytes(bs)), k) = k /\ k < Len(b.data)
         /\ r.data = SubSeq(b.data, k + 1, Len(b.data)) /\ Bl2mem(bs, k) = <<r>>
    BY <1>1, <2>3, <2>7, <2>8, <2>10, <2>11
  <2>13. ~(k = Len(b.data))
    BY <1>1, <1>2, <2>7
  <2> QED BY <2>12, <2>13 DEF bs
<1> QED BY <1>4, <1>5

-----------------------------------------------------------------------------
(* The invariant: who does what in the console and in kbdq. *)

(* what a process does in the console *)
Jobs == {"out", "read", "key", "raw", "open", "close", "rawon", "rawoff"}

(* where p is in qread before it takes bytes *)
Fetching == {"rwait", "rsleep", "rslept", "rcopy"}

(* p reads keys: it is in qread, or about to use what that has read *)
Keying(p) == job[p] \in {"key", "raw"}

(* how many bytes it asks for *)
Room(p) == IF job[p] = "key" THEN 1 ELSE want[p]

(* kbdq is never closed, and nobody waits for room in it *)
Shape ==
  /\ closed = FALSE /\ wr = None
  /\ pc \in [Procs -> PC] /\ n \in [Procs -> Nat] /\ left = [p \in Procs |-> 0]
  /\ want \in [Readers -> Nat]
  /\ sent \in Nat /\ gone \in Nat /\ used \in Nat /\ used <= gone

(* who has business in the console stands in the line of kbd.lk, once *)
StandingIn(l, jb) ==
  /\ l \in Seq(Readers) /\ jb \in [Readers -> Jobs]
  /\ \A i, j \in 1 .. Len(l) : l[i] = l[j] => i = j
  /\ \A p \in Readers : jb[p] # "out" <=> \E i \in 1 .. Len(l) : l[i] = p

(* they do *)
Standing == StandingIn(kbdlk, job)

(* only the holder of kbd.lk is in qread of kbdq *)
Places ==
  /\ \A p \in Readers :
       /\ Keying(p) => Holds(kbdlk, p)
       /\ pc[p] # "idle" => Keying(p) /\ pc[p] \in Fetching \cup {"rwake", "rdone"}
  /\ \A p \in Writers : pc[p] \in {"idle", "iwake"}
  /\ rr # None => rr \in Readers /\ pc[rr] = "rslept"

(* kbd.ctl counts those that have /dev/consctl open; who closes it or      *)
(* switches modes is one of them                                           *)
Control ==
  /\ raw \in BOOLEAN
  /\ hasctl \subseteq Readers /\ IsFiniteSet(hasctl) /\ ctl = Cardinality(hasctl)
  /\ \A p \in Readers : job[p] \in {"close", "rawon", "rawoff"} => p \in hasctl
  /\ \A p \in Readers : job[p] = "open" => p \notin hasctl
  /\ raw => ctl # 0

(* what is in kbdq was typed and not read yet *)
Typed ==
  /\ hand \in Seq(Block) /\ blocks \in Seq(Block) /\ Chain(hand \o blocks, gone, sent)
  /\ \A p \in Readers : pc[p] = "rcopy" => Len(hand) = 1
  /\ (\A p \in Readers : pc[p] # "rcopy") => hand = <<>>
  /\ key \in Seq(Keys) /\ Len(key) = sent

(* qread returns at least one byte, one only to the line editor, and no    *)
(* more than a raw read has room for                                       *)
PaceOf(p) ==
  /\ job[p] = "read" \/ Keying(p) => want[p] > 0
  /\ Keying(p) => IF pc[p] \in Fetching THEN gone = used /\ n[p] = Room(p)
                  ELSE used < gone /\ gone <= used + Room(p)

(* nobody else takes bytes *)
Pace ==
  /\ \A p \in Readers : PaceOf(p)
  /\ (\A p \in Readers : ~Keying(p)) => gone = used

(* all of it *)
Hands == Shape /\ Standing /\ Places /\ Control /\ Typed /\ Pace

(* a process is a reader or a writer, and nil is neither *)
LEMMA Roles ==
  /\ \A p \in Readers : p \in Procs /\ p \notin Writers
  /\ \A p \in Writers : p \in Procs /\ p \notin Readers
  /\ None \notin Procs /\ None \notin Readers
BY RolesDiffer, NoneIsNil DEF Procs

(* one process reads keys at a time *)
LEMMA OneKeys ==
  ASSUME Places, NEW p \in Readers, Holds(kbdlk, p), NEW q \in Readers, q # p
  PROVE  ~Keying(q) /\ pc[q] = "idle"
BY DEF Places, Holds

(* the line of kbd.lk grows *)
LEMMA Joins ==
  ASSUME NEW l, NEW jb, StandingIn(l, jb), NEW p \in Readers, jb[p] = "out", NEW j \in Jobs, j # "out"
  PROVE  /\ StandingIn(Append(l, p), [jb EXCEPT ![p] = j])
         /\ \A q : Holds(l, q) => Holds(Append(l, p), q)
<1> DEFINE m == Append(l, p)
           kb == [jb EXCEPT ![p] = j]
<1>0. /\ l \in Seq(Readers) /\ jb \in [Readers -> Jobs] /\ Len(l) \in Nat
      /\ \A a, c \in 1 .. Len(l) : l[a] = l[c] => a = c
      /\ \A q \in Readers : jb[q] # "out" <=> \E i \in 1 .. Len(l) : l[i] = q
  BY DEF StandingIn
<1>1. /\ m \in Seq(Readers) /\ Len(m) = Len(l) + 1 /\ m[Len(l) + 1] = p
      /\ \A i \in 1 .. Len(l) : m[i] = l[i]
  BY <1>0
<1>2. kb \in [Readers -> Jobs] /\ kb[p] = j /\ \A q \in Readers : q # p => kb[q] = jb[q]
  BY <1>0
<1> HIDE DEF m, kb
<1>3. \A i \in 1 .. Len(l) : l[i] # p
  BY <1>0
<1>4. \A i \in 1 .. Len(m) : i \in 1 .. Len(l) \/ i = Len(m)
  BY <1>0, <1>1
<1>5. ASSUME NEW a \in 1 .. Len(m), NEW c \in 1 .. Len(m), m[a] = m[c] PROVE a = c
  BY <1>0, <1>1, <1>3, <1>4, <1>5
<1>6. ASSUME NEW q \in Readers PROVE kb[q] # "out" <=> \E i \in 1 .. Len(m) : m[i] = q
  <2>1. CASE q = p
    <3>1. Len(m) \in 1 .. Len(m)
      BY <1>0, <1>1
    <3> QED BY <1>1, <1>2, <2>1, <3>1
  <2>2. CASE q # p
    <3>1. \A i \in 1 .. Len(l) : i \in 1 .. Len(m)
      BY <1>0, <1>1
    <3>2. (\E i \in 1 .. Len(m) : m[i] = q) <=> \E i \in 1 .. Len(l) : l[i] = q
      BY <1>1, <1>4, <2>2, <3>1
    <3> QED BY <1>0, <1>2, <2>2, <3>2
  <2> QED BY <2>1, <2>2
<1>7. StandingIn(m, kb)
  BY <1>1, <1>2, <1>5, <1>6 DEF StandingIn
<1>8. ASSUME NEW q, Holds(l, q) PROVE Holds(m, q)
  <2>1. l # <<>> /\ Head(l) = q
    BY <1>8 DEF Holds
  <2>2. m # <<>> /\ Head(m) = Head(l)
    BY <1>0, <2>1 DEF m
  <2> QED BY <2>1, <2>2 DEF Holds
<1> QED BY <1>7, <1>8 DEF m, kb

(* the holder has business *)
LEMMA HolderIsIn ==
  ASSUME NEW l, NEW jb, StandingIn(l, jb), NEW p, Holds(l, p)
  PROVE  p \in Readers /\ jb[p] # "out" /\ Len(l) \in Nat /\ Len(l) > 0 /\ l[1] = p
<1>1. l \in Seq(Readers) /\ l # <<>> /\ Head(l) = p
  BY DEF StandingIn, Holds
<1>2. Len(l) \in Nat /\ Len(l) > 0 /\ l[1] = p /\ p \in Readers
  BY <1>1
<1>3. 1 \in 1 .. Len(l)
  BY <1>2
<1> QED BY <1>2, <1>3 DEF StandingIn

(* the holder of kbd.lk leaves *)
LEMMA Leaves ==
  ASSUME NEW l, NEW jb, StandingIn(l, jb), NEW p, Holds(l, p)
  PROVE  StandingIn(Tail(l), [jb EXCEPT ![p] = "out"])
<1> DEFINE m == Tail(l)
           kb == [jb EXCEPT ![p] = "out"]
<1>0. /\ l \in Seq(Readers) /\ jb \in [Readers -> Jobs] /\ Len(l) \in Nat /\ Len(l) > 0
      /\ \A a, c \in 1 .. Len(l) : l[a] = l[c] => a = c
      /\ \A q \in Readers : jb[q] # "out" <=> \E i \in 1 .. Len(l) : l[i] = q
      /\ l[1] = p /\ p \in Readers
  BY HolderIsIn DEF StandingIn
<1>1. m \in Seq(Readers) /\ Len(m) = Len(l) - 1 /\ \A i \in 1 .. Len(m) : m[i] = l[i+1]
  BY <1>0
<1>2. kb \in [Readers -> Jobs] /\ kb[p] = "out" /\ \A q \in Readers : q # p => kb[q] = jb[q]
  BY <1>0 DEF Jobs
<1> HIDE DEF m, kb
<1>3. \A i \in 1 .. Len(m) : i + 1 \in 1 .. Len(l) /\ i + 1 # 1
  BY <1>0, <1>1
<1>4. ASSUME NEW a \in 1 .. Len(m), NEW c \in 1 .. Len(m), m[a] = m[c] PROVE a = c
  <2>1. l[a+1] = l[c+1]
    BY <1>1, <1>4
  <2>2. a + 1 = c + 1
    BY <1>0, <1>3, <2>1
  <2> QED BY <2>2
<1>5. ASSUME NEW q \in Readers PROVE kb[q] # "out" <=> \E i \in 1 .. Len(m) : m[i] = q
  <2>1. CASE q = p
    <3>1. ASSUME NEW i \in 1 .. Len(m), m[i] = p PROVE FALSE
      <4>1. l[i+1] = l[1] /\ 1 \in 1 .. Len(l)
        BY <1>0, <1>1, <3>1
      <4> QED BY <1>0, <1>3, <4>1
    <3> QED BY <1>2, <2>1, <3>1
  <2>2. CASE q # p
    <3>1. ASSUME NEW i \in 1 .. Len(l), l[i] = q PROVE i - 1 \in 1 .. Len(m) /\ m[i-1] = q
      <4>1. i # 1
        BY <1>0, <2>2, <3>1
      <4>2. i - 1 \in 1 .. Len(m) /\ (i - 1) + 1 = i
        BY <1>0, <1>1, <4>1
      <4> QED BY <1>1, <3>1, <4>2
    <3>2. (\E i \in 1 .. Len(m) : m[i] = q) <=> \E i \in 1 .. Len(l) : l[i] = q
      BY <1>1, <1>3, <3>1
    <3> QED BY <1>0, <1>2, <2>2, <3>2
  <2> QED BY <2>1, <2>2
<1>6. StandingIn(m, kb)
  BY <1>1, <1>2, <1>4, <1>5 DEF StandingIn
<1> QED BY <1>6 DEF m, kb

(* the holder goes on to something else *)
LEMMA Turns ==
  ASSUME NEW l, NEW jb, StandingIn(l, jb), NEW p, Holds(l, p), NEW j \in Jobs, j # "out"
  PROVE  StandingIn(l, [jb EXCEPT ![p] = j])
<1>1. p \in Readers /\ jb[p] # "out"
  BY HolderIsIn
<1> QED BY <1>1 DEF StandingIn

(* what a step of the holder in qread has to keep *)
LEMMA ReadMoves ==
  ASSUME Hands, NEW p \in Readers, pc[p] # "idle",
         NEW l \in Fetching \cup {"rwake", "rdone", "idle"}, pc' = [pc EXCEPT ![p] = l],
         UNCHANGED <<cvars, closed, wr, left, sent>>,
         n' \in [Procs -> Nat], gone' \in Nat,
         rr' # None => rr' \in Readers /\ pc'[rr'] = "rslept",
         hand' \in Seq(Block), blocks' \in Seq(Block), Chain(hand' \o blocks', gone', sent),
         IF l = "rcopy" THEN Len(hand') = 1 ELSE hand' = <<>>,
         IF l \in Fetching THEN gone' = used /\ n'[p] = Room(p)
         ELSE used < gone' /\ gone' <= used + Room(p)
  PROVE  Hands'
<1>0. p \in Procs /\ Keying(p) /\ Holds(kbdlk, p)
  BY Roles DEF Hands, Places
<1>1. /\ pc' \in [Procs -> PC] /\ pc'[p] = l /\ \A q \in Procs : q # p => pc'[q] = pc[q]
      /\ UNCHANGED <<kbdlk, job, want, used, key, raw, ctl, hasctl>>
  <2>1. l \in PC
    BY DEF Fetching, PC
  <2> QED BY <1>0, <2>1 DEF Hands, Shape, cvars, kbd, history
<1>2. \A q \in Readers : (Keying(q)' <=> Keying(q)) /\ (q # p => ~Keying(q) /\ pc[q] = "idle" /\ pc'[q] = "idle")
  BY <1>0, <1>1, OneKeys, Roles DEF Keying, Hands
<1>3. Shape'
  <2>1. used <= gone' /\ want[p] \in Nat /\ used \in Nat
    BY DEF Hands, Shape
  <2> QED BY <1>1, <2>1 DEF Hands, Shape
<1>4. Standing'
  BY <1>1 DEF Hands, Standing
<1>5. Places'
  <2>1. ASSUME NEW q \in Readers
        PROVE  /\ Keying(q)' => Holds(kbdlk, q)
               /\ pc'[q] # "idle" => Keying(q)' /\ pc'[q] \in Fetching \cup {"rwake", "rdone"}
    BY <1>0, <1>1, <1>2 DEF Hands, Places
  <2>2. \A q \in Writers : pc'[q] \in {"idle", "iwake"}
    BY <1>1, Roles DEF Hands, Places
  <2> QED BY <1>1, <2>1, <2>2 DEF Places
<1>6. Control'
  BY <1>1 DEF Hands, Control
<1>7. Typed'
  <2>1. \A q \in Readers : pc'[q] = "rcopy" => Len(hand') = 1
    BY <1>1, <1>2
  <2>2. (\A q \in Readers : pc'[q] # "rcopy") => hand' = <<>>
    BY <1>1
  <2> QED BY <1>1, <2>1, <2>2 DEF Hands, Typed
<1>8. Pace'
  <2>1. ASSUME NEW q \in Readers PROVE PaceOf(q)'
    BY <1>0, <1>1, <1>2 DEF Hands, Pace, PaceOf, Room, Keying
  <2> QED BY <1>0, <1>1, <1>2, <2>1 DEF Pace
<1> QED BY <1>3, <1>4, <1>5, <1>6, <1>7, <1>8 DEF Hands

(* who is in qread is a reader that reads keys *)
LEMMA ReaderAt ==
  ASSUME Hands, NEW p \in Procs, pc[p] \notin {"idle", "iwake"}
  PROVE  p \in Readers /\ p \in Procs /\ Keying(p) /\ want[p] \in Nat /\ Room(p) > 0
<1>1. p \in Readers
  BY DEF Hands, Places, Procs
<1>2. Keying(p)
  BY <1>1 DEF Hands, Places
<1>3. want[p] \in Nat /\ want[p] > 0
  BY <1>1, <1>2 DEF Hands, Shape, Pace, PaceOf
<1> QED BY <1>1, <1>2, <1>3 DEF Room

(* steps that take no bytes *)
LEMMA WaitKeeps ==
  ASSUME Hands, NEW p \in Procs, UNCHANGED cvars, QWaitStarve(p) \/ RSleep(p)
  PROVE  Hands'
<1>1. p \in Readers /\ pc[p] \in {"rwait", "rsleep"}
  BY ReaderAt DEF QWaitStarve, InQWait, RSleep, At
<1>2. PICK l \in {"rwait", "rsleep", "rslept"} :
        /\ pc' = [pc EXCEPT ![p] = l]
        /\ rr' = rr \/ (l = "rslept" /\ rr' = p)
        /\ UNCHANGED <<closed, wr, left, sent, gone, n, hand, blocks>>
  BY DEF QWaitStarve, RSleep, Goto, data, state, sleepers
<1>3. pc'[p] = l /\ \A q \in Procs : q # p => pc'[q] = pc[q]
  BY <1>2 DEF Hands, Shape
<1>4. rr' # None => rr' \in Readers /\ pc'[rr'] = "rslept"
  BY <1>1, <1>2, <1>3, Roles DEF Hands, Places
<1>5. pc[p] # "rcopy" /\ pc[p] \in Fetching /\ l \in Fetching /\ l # "rcopy"
  BY <1>1 DEF Fetching
<1>6. Keying(p) /\ gone = used /\ n[p] = Room(p)
  BY <1>1, <1>5 DEF Hands, Places, Pace, PaceOf
<1>7. hand = <<>>
  <2>1. \A q \in Readers : q # p => pc[q] = "idle"
    BY <1>1, <1>6, OneKeys DEF Hands, Places
  <2> QED BY <1>5, <2>1 DEF Hands, Typed
<1>8. /\ n' \in [Procs -> Nat] /\ gone' \in Nat /\ hand' \in Seq(Block) /\ blocks' \in Seq(Block)
      /\ Chain(hand' \o blocks', gone', sent)
  BY <1>2 DEF Hands, Shape, Typed
<1> QED BY <1>1, <1>2, <1>4, <1>5, <1>6, <1>7, <1>8, ReadMoves

(* qread takes the first block *)
LEMMA GrabKeeps ==
  ASSUME Hands, NEW p \in Procs, UNCHANGED cvars, QReadGrab(p)
  PROVE  Hands'
<1>1. p \in Readers /\ pc[p] = "rwait" /\ blocks # <<>>
  BY ReaderAt DEF QReadGrab, InQWait, At
<1>2. /\ hand' = SubSeq(blocks, 1, 1) /\ blocks' = SubSeq(blocks, 1 + 1, Len(blocks))
      /\ pc' = [pc EXCEPT ![p] = "rcopy"]
      /\ UNCHANGED <<closed, wr, left, sent, gone, n, rr>>
  BY ConsQueues DEF QReadGrab, Grabs, Goto, state, sleepers
<1>3. pc'[p] = "rcopy" /\ \A q \in Procs : q # p => pc'[q] = pc[q]
  BY <1>2 DEF Hands, Shape
<1>4. rr' # None => rr' \in Readers /\ pc'[rr'] = "rslept"
  BY <1>1, <1>2, <1>3, Roles DEF Hands, Places
<1>5. pc[p] # "rcopy" /\ pc[p] \in Fetching /\ "rcopy" \in Fetching
  BY <1>1 DEF Fetching
<1>6. Keying(p) /\ gone = used /\ n[p] = Room(p)
  BY <1>1, <1>5 DEF Hands, Places, Pace, PaceOf
<1>7. hand = <<>>
  <2>1. \A q \in Readers : q # p => pc[q] = "idle"
    BY <1>1, <1>6, OneKeys DEF Hands, Places
  <2> QED BY <1>5, <2>1 DEF Hands, Typed
<1>8. blocks \in Seq(Block) /\ Chain(blocks, gone, sent)
  <2>1. blocks \in Seq(Block) /\ Chain(<<>> \o blocks, gone, sent)
    BY <1>7 DEF Hands, Typed
  <2>2. <<>> \o blocks = blocks
    BY <2>1, ConcatEmptySeq
  <2> QED BY <2>1, <2>2
<1>9. hand' \in Seq(Block) /\ blocks' \in Seq(Block) /\ hand' \o blocks' = blocks /\ Len(hand') = 1
  <2>0. Len(blocks) \in Nat /\ Len(blocks) > 0
    BY <1>1, <1>8
  <2>1. 1 \in 0 .. Len(blocks) /\ 1 \in 1 .. Len(blocks)
    BY <2>0
  <2>2. /\ blocks' \in Seq(Block) /\ Len(blocks') = Len(blocks) - 1
        /\ \A i \in 1 .. Len(blocks) - 1 : blocks'[i] = blocks[1 + i]
    BY <1>2, <1>8, <2>1, FromThere
  <2>3. \A i \in 1 .. 1 : blocks[i] \in Block
    BY <1>8, <2>1
  <2>4. hand' \in Seq(Block) /\ Len(hand') = 1 /\ hand'[1] = blocks[1]
    <3>1. /\ SubSeq(blocks, 1, 1) \in Seq(Block)
          /\ Len(SubSeq(blocks, 1, 1)) = IF 1 <= 1 THEN 1 - 1 + 1 ELSE 0
          /\ \A i \in 1 .. 1 - 1 + 1 : SubSeq(blocks, 1, 1)[i] = blocks[1 + i - 1]
      <4>1. 1 \in Int
        OBVIOUS
      <4> QED BY <2>3, <4>1, SubSeqProperties
    <3>2. 1 \in 1 .. 1 - 1 + 1 /\ 1 + 1 - 1 = 1
      OBVIOUS
    <3> QED BY <1>2, <3>1, <3>2
  <2>5. PICK s \in Seq(Block) : s = hand' \o blocks'
    BY <2>2, <2>4, ConcatProperties
  <2>6. /\ Len(s) = Len(blocks)
        /\ \A i \in 1 .. Len(s) : s[i] = IF i <= 1 THEN hand'[i] ELSE blocks'[i - 1]
    <3>1. /\ Len(hand' \o blocks') = Len(hand') + Len(blocks')
          /\ \A i \in 1 .. Len(hand' \o blocks') :
               (hand' \o blocks')[i] = IF i <= Len(hand') THEN hand'[i] ELSE blocks'[i - Len(hand')]
      BY <2>2, <2>4, ConcatProperties
    <3>2. Len(s) = Len(blocks)
      BY <2>0, <2>2, <2>4, <2>5, <3>1
    <3> QED BY <2>4, <2>5, <3>1, <3>2
  <2>7. ASSUME NEW i \in 1 .. Len(blocks) PROVE s[i] = blocks[i]
    <3>1. CASE i = 1
      BY <2>4, <2>6, <3>1
    <3>2. CASE i # 1
      <4>1. i - 1 \in 1 .. Len(blocks) - 1 /\ 1 + (i - 1) = i /\ ~(i <= 1)
        BY <2>0, <3>2
      <4> QED BY <2>2, <2>6, <4>1
    <3> QED BY <3>1, <3>2
  <2>8. s = blocks
    BY <1>8, <2>5, <2>6, <2>7, SeqEqual
  <2> QED BY <2>2, <2>4, <2>5, <2>8
<1>10. /\ n' \in [Procs -> Nat] /\ gone' \in Nat /\ Chain(hand' \o blocks', gone', sent)
  BY <1>2, <1>8, <1>9 DEF Hands, Shape
<1> QED BY <1>1, <1>2, <1>4, <1>5, <1>6, <1>9, <1>10, ReadMoves

(* the copy is made; what did not fit goes back *)
LEMMA FinishKeeps ==
  ASSUME Hands, NEW p \in Procs, UNCHANGED cvars, QReadFinish(p)
  PROVE  Hands'
<1>1. p \in Readers /\ pc[p] = "rcopy" /\ Room(p) > 0 /\ want[p] \in Nat
  BY ReaderAt DEF QReadFinish, At
<1>2. /\ hand' = <<>> /\ blocks' = Bl2mem(hand, n[p]) \o blocks
      /\ gone' = gone + LeastOf(Len(Bytes(hand)), n[p])
      /\ UNCHANGED <<closed, wr, left, sent, n, rr>>
  BY DEF QReadFinish, sleepers
<1>3. PICK l \in {"rwake", "rdone"} : pc' = [pc EXCEPT ![p] = l]
  BY DEF QReadFinish, RestartWriter, Goto
<1>4. pc'[p] = l /\ \A q \in Procs : q # p => pc'[q] = pc[q]
  BY <1>3 DEF Hands, Shape
<1>5. rr' # None => rr' \in Readers /\ pc'[rr'] = "rslept"
  BY <1>1, <1>2, <1>4, Roles DEF Hands, Places
<1>6. pc[p] \in Fetching /\ l \notin Fetching /\ l # "rcopy"
  BY <1>1, <1>3 DEF Fetching
<1>7. Keying(p) /\ gone = used /\ n[p] = Room(p)
  BY <1>1, <1>6 DEF Hands, Places, Pace, PaceOf
<1>8. Room(p) \in Nat
  BY <1>1 DEF Room
<1>9. hand \in Seq(Block) /\ Len(hand) = 1 /\ blocks \in Seq(Block) /\ Chain(hand \o blocks, gone, sent)
  BY <1>1 DEF Hands, Typed
<1>10. PICK b \in Block : hand = <<b>>
  <2>1. hand = <<hand[1]>> /\ hand[1] \in Block
    BY <1>9
  <2> QED BY <2>1
<1>11. gone \in Nat /\ sent \in Nat
  BY DEF Hands, Shape
<1>12. PICK k \in Nat : k = n[p] /\ k > 0
  BY <1>1, <1>7, <1>8
<1>13. Consecutive(b.data)
  <2>1. 1 \in 1 .. Len(hand \o blocks) /\ (hand \o blocks)[1] = b
    BY <1>9, <1>10
  <2> QED BY <1>9, <2>1 DEF Chain
<1>14. PICK g \in 1 .. Len(b.data) :
         /\ g <= k /\ LeastOf(Len(Bytes(<<b>>)), k) = g
         /\ g = Len(b.data) => Bl2mem(<<b>>, k) = <<>>
         /\ g < Len(b.data) => \E r \in Block :
              /\ r.data = SubSeq(b.data, g + 1, Len(b.data))
              /\ Bl2mem(<<b>>, k) = <<r>>
  BY <1>12, <1>13, Bl2memOne
<1>15. Len(b.data) \in Nat /\ g \in Nat /\ g > 0
  BY <1>13, BlockBytes
<1>16. gone' = gone + g
  BY <1>2, <1>10, <1>12, <1>14
<1>17. blocks' \in Seq(Block) /\ Chain(blocks', gone + g, sent)
  <2>0. Chain(<<b>> \o blocks, gone, sent)
    BY <1>9, <1>10
  <2>1. CASE g = Len(b.data)
    <3>1. blocks' = <<>> \o blocks
      BY <1>2, <1>10, <1>12, <1>14, <2>1
    <3>2. blocks' = blocks
      BY <1>9, <3>1, ConcatEmptySeq
    <3> QED BY <1>9, <1>11, <2>0, <2>1, <3>2, ChainCut
  <2>2. CASE g # Len(b.data)
    <3>1. g < Len(b.data)
      BY <1>15, <2>2
    <3>2. PICK r \in Block : /\ r.data = SubSeq(b.data, g + 1, Len(b.data))
                             /\ Bl2mem(<<b>>, k) = <<r>>
      BY <1>14, <3>1
    <3>3. blocks' = <<r>> \o blocks
      BY <1>2, <1>10, <1>12, <3>2
    <3>4. Chain(<<r>> \o blocks, gone + g, sent)
      BY <1>9, <1>11, <2>0, <3>1, <3>2, ChainCut
    <3>5. blocks' \in Seq(Block)
      BY <1>9, <3>3
    <3> QED BY <3>3, <3>4, <3>5
  <2> QED BY <2>1, <2>2
<1>18. hand' \in Seq(Block) /\ hand' \o blocks' = blocks'
  <2>1. <<>> \in Seq(Block)
    OBVIOUS
  <2> QED BY <1>2, <1>17, <2>1, ConcatEmptySeq
<1>19. used < gone' /\ gone' <= used + Room(p) /\ gone' \in Nat
  BY <1>7, <1>8, <1>11, <1>12, <1>14, <1>15, <1>16
<1>20. n' \in [Procs -> Nat] /\ Chain(hand' \o blocks', gone', sent)
  BY <1>2, <1>16, <1>17, <1>18 DEF Hands, Shape
<1>21. l \in Fetching \cup {"rwake", "rdone", "idle"} /\ pc[p] # "idle"
  BY <1>1
<1> QED BY <1>1, <1>2, <1>3, <1>5, <1>6, <1>17, <1>18, <1>19, <1>20, <1>21, ReadMoves

(* the way out of qread *)
LEMMA EndKeeps ==
  ASSUME Hands, NEW p \in Procs, UNCHANGED cvars, RWake(p) \/ QReadReturn(p)
  PROVE  Hands'
<1>1. p \in Readers /\ pc[p] \in {"rwake", "rdone"}
  BY ReaderAt DEF RWake, QReadReturn, At
<1>2. PICK l \in {"rdone", "idle"} :
        /\ pc' = [pc EXCEPT ![p] = l]
        /\ UNCHANGED <<closed, wr, left, sent, gone, rr, hand, blocks>> /\ n' \in [Procs -> Nat]
  <2>1. CASE RWake(p)
    <3>1. /\ pc' = [q \in Procs |-> IF q = p THEN "rdone" ELSE IF q = wr THEN "wflow" ELSE pc[q]]
          /\ wr' = None /\ UNCHANGED <<closed, left, sent, gone, rr, hand, blocks, n>>
      BY <2>1 DEF RWake, WakeWriter, WakeAndGoto, data, state
    <3>2. wr = None /\ pc \in [Procs -> PC] /\ n \in [Procs -> Nat]
      BY DEF Hands, Shape
    <3>3. pc' = [pc EXCEPT ![p] = "rdone"]
      <4>1. \A q \in Procs : q # wr
        BY <3>2, Roles
      <4> QED BY <3>1, <3>2, <4>1
    <3> QED BY <3>1, <3>2, <3>3
  <2>2. CASE QReadReturn(p)
    <3>1. /\ pc' = [pc EXCEPT ![p] = "idle"] /\ n' = [n EXCEPT ![p] = 0]
          /\ UNCHANGED <<closed, wr, left, sent, gone, rr, hand, blocks>>
      BY <2>2 DEF QReadReturn, Goto, data, state, sleepers
    <3>2. n' \in [Procs -> Nat]
      BY <3>1 DEF Hands, Shape
    <3> QED BY <3>1, <3>2
  <2> QED BY <2>1, <2>2
<1>3. pc'[p] = l /\ \A q \in Procs : q # p => pc'[q] = pc[q]
  BY <1>2 DEF Hands, Shape
<1>4. rr' # None => rr' \in Readers /\ pc'[rr'] = "rslept"
  BY <1>1, <1>2, <1>3, Roles DEF Hands, Places
<1>5. pc[p] # "rcopy" /\ pc[p] \notin Fetching /\ l \notin Fetching /\ l # "rcopy"
  BY <1>1 DEF Fetching
<1>6. Keying(p) /\ used < gone /\ gone <= used + Room(p)
  BY <1>1, <1>5 DEF Hands, Places, Pace, PaceOf
<1>7. hand = <<>>
  <2>1. \A q \in Readers : q # p => pc[q] = "idle"
    BY <1>1, <1>6, OneKeys DEF Hands, Places
  <2> QED BY <1>5, <2>1 DEF Hands, Typed
<1>8. /\ gone' \in Nat /\ hand' \in Seq(Block) /\ blocks' \in Seq(Block)
      /\ Chain(hand' \o blocks', gone', sent)
  BY <1>2 DEF Hands, Shape, Typed
<1>9. l \in Fetching \cup {"rwake", "rdone", "idle"} /\ pc[p] # "idle"
  BY <1>1
<1> QED BY <1>1, <1>2, <1>4, <1>5, <1>6, <1>7, <1>8, <1>9, ReadMoves

(* the steps of a qread *)
LEMMA ReadKeeps ==
  ASSUME Hands, NEW p \in Procs, UNCHANGED cvars, ReadStep(p)
  PROVE  Hands'
<1>1. ~QWaitClosed(p)
  BY DEF QWaitClosed, Hands, Shape
<1>2. ~QReadDrop(p) /\ ~QBRead(p)
  BY ConsQueues DEF QReadDrop, QBRead
<1> QED BY <1>1, <1>2, WaitKeeps, GrabKeeps, FinishKeeps, EndKeeps DEF ReadStep

(* a wakeup sends whoever sleeps on q->rr round again *)
LEMMA IWakeKeeps ==
  ASSUME Hands, NEW p \in Procs, UNCHANGED cvars, IWake(p)
  PROVE  Hands'
<1>1. p \in Writers /\ p \in Procs /\ left[p] = 0
  <2>1. pc[p] = "iwake" /\ "iwake" \notin Fetching \cup {"rwake", "rdone"}
    BY DEF IWake, At, Fetching
  <2>2. p \notin Readers
    BY <2>1 DEF Hands, Places
  <2>3. left[p] = 0
    BY DEF Hands, Shape
  <2> QED BY <2>2, <2>3 DEF Procs
<1>2. /\ pc' = [q \in Procs |-> IF q = p THEN "idle" ELSE IF q = rr THEN "rwait" ELSE pc[q]]
      /\ rr' = None
      /\ UNCHANGED <<closed, wr, left, sent, gone, n, hand, blocks>>
  BY <1>1 DEF IWake, WakeReader, WakeAndGoto, data, state
<1>3. UNCHANGED <<kbdlk, job, want, used, key, raw, ctl, hasctl>>
  BY DEF cvars, kbd, history
<1>4. ASSUME NEW q \in Readers
      PROVE  pc'[q] = pc[q] \/ (pc[q] = "rslept" /\ pc'[q] = "rwait")
  BY <1>1, <1>2, Roles DEF Hands, Places
<1>5. \A q \in Writers : pc'[q] \in {"idle", "iwake"}
  <2>1. \A q \in Writers : q # rr
    BY Roles DEF Hands, Places
  <2> QED BY <1>2, <2>1, Roles DEF Hands, Places
<1>6. ASSUME NEW q \in Readers
      PROVE  /\ pc'[q] = "idle" <=> pc[q] = "idle"
             /\ pc'[q] \in Fetching <=> pc[q] \in Fetching
             /\ pc'[q] = "rcopy" <=> pc[q] = "rcopy"
             /\ Keying(q)' <=> Keying(q)
             /\ Room(q)' = Room(q)
  BY <1>3, <1>4 DEF Fetching, Keying, Room
<1>7. Shape'
  <2>1. pc' \in [Procs -> PC]
    <3>1. "idle" \in PC /\ "rwait" \in PC /\ pc \in [Procs -> PC]
      BY DEF PC, Hands, Shape
    <3> QED BY <1>2, <3>1
  <2> QED BY <1>2, <1>3, <2>1 DEF Hands, Shape
<1>8. Standing' /\ Control'
  BY <1>3 DEF Hands, Standing, Control
<1>9. Places'
  <2>1. ASSUME NEW q \in Readers
        PROVE  /\ Keying(q)' => Holds(kbdlk, q)'
               /\ pc'[q] # "idle" => Keying(q)' /\ pc'[q] \in Fetching \cup {"rwake", "rdone"}
    <3>1. Keying(q)' => Holds(kbdlk, q)'
      BY <1>3, <1>6 DEF Hands, Places
    <3>2. pc'[q] # "idle" => Keying(q)'
      BY <1>6 DEF Hands, Places
    <3>3. pc'[q] # "idle" => pc'[q] \in Fetching \cup {"rwake", "rdone"}
      BY <1>4, <1>6 DEF Hands, Places
    <3> QED BY <3>1, <3>2, <3>3
  <2> QED BY <1>2, <1>5, <2>1 DEF Places
<1>10. Typed'
  BY <1>2, <1>3, <1>6 DEF Hands, Typed
<1>11. Pace'
  <2>1. ASSUME NEW q \in Readers PROVE PaceOf(q)'
    <3>1. PaceOf(q)
      BY DEF Hands, Pace
    <3>2. n'[q] = n[q] /\ gone' = gone /\ used' = used /\ want'[q] = want[q] /\ job'[q] = job[q]
      BY <1>2, <1>3
    <3> QED BY <1>6, <3>1, <3>2 DEF PaceOf
  <2> QED BY <1>2, <1>3, <1>6, <2>1 DEF Hands, Pace
<1> QED BY <1>7, <1>8, <1>9, <1>10, <1>11 DEF Hands

(* a key is typed: its bytes are queued together *)
LEMMA ProduceKeeps ==
  ASSUME Hands, NEW p, NEW k \in Keys, QProduce(p, Size(k)),
         key' = key \o [i \in 1 .. Size(k) |-> k],
         UNCHANGED <<kbd, job, want, hasctl, used>>
  PROVE  Hands' /\ \A x \in 1 .. sent : key'[x] = key[x]
<1>0. PICK c \in Nat : c = Size(k) /\ c > 0
  BY DEF Size
<1>1. /\ p \in Writers /\ p \in Procs
      /\ blocks' = Append(blocks, [data |-> [i \in 1 .. c |-> sent + i], alloc |-> c + Hdr])
      /\ sent' = sent + c
      /\ UNCHANGED <<closed, wr, rr, left, gone, n, hand>>
  BY <1>0, Roles DEF QProduce, Queue, sleepers
<1>2. PICK l \in {"idle", "iwake"} : pc' = [pc EXCEPT ![p] = l]
  BY DEF QProduce, Goto
<1>3. UNCHANGED <<kbdlk, job, want, used, raw, ctl, hasctl>>
  BY DEF kbd
<1>4. pc \in [Procs -> PC] /\ sent \in Nat /\ gone \in Nat /\ Hdr \in Nat
  BY SizesAreNat DEF Hands, Shape
<1>5. ASSUME NEW q \in Readers
      PROVE  pc'[q] = pc[q] /\ (Keying(q)' <=> Keying(q)) /\ Room(q)' = Room(q)
  BY <1>1, <1>2, <1>3, <1>4, Roles DEF Keying, Room
<1>6. Shape'
  <2>1. pc' \in [Procs -> PC] /\ sent' \in Nat
    BY <1>1, <1>2, <1>4 DEF PC
  <2> QED BY <1>1, <1>3, <2>1 DEF Hands, Shape
<1>7. Standing' /\ Control'
  BY <1>3 DEF Hands, Standing, Control
<1>8. Places'
  <2>1. \A q \in Writers : pc'[q] \in {"idle", "iwake"}
    BY <1>2, <1>4, Roles DEF Hands, Places
  <2>2. rr' # None => rr' \in Readers /\ pc'[rr'] = "rslept"
    BY <1>1, <1>5 DEF Hands, Places
  <2> QED BY <1>3, <1>5, <2>1, <2>2 DEF Hands, Places
<1>9. /\ hand' \in Seq(Block) /\ blocks' \in Seq(Block) /\ Chain(hand' \o blocks', gone', sent')
  <2>1. hand \in Seq(Block) /\ blocks \in Seq(Block) /\ Chain(hand \o blocks, gone, sent)
    BY DEF Hands, Typed
  <2>2. PICK b \in Block : b = [data |-> [i \in 1 .. c |-> sent + i], alloc |-> c + Hdr]
    <3>1. [i \in 1 .. c |-> sent + i] \in Seq(Nat)
      <4>1. \A i \in 1 .. c : sent + i \in Nat
        BY <1>4
      <4> QED BY <4>1
    <3>2. PICK x \in Seq(Nat) : x = [i \in 1 .. c |-> sent + i]
      BY <3>1
    <3>3. [data |-> x, alloc |-> c + Hdr] \in Block
      BY <1>4 DEF Block
    <3> QED BY <3>2, <3>3
  <2>3. b.data = [i \in 1 .. c |-> sent + i] /\ blocks' = Append(blocks, b)
    BY <1>1, <2>2
  <2>4. PICK s \in Seq(Block) : s = hand \o blocks
    BY <2>1, ConcatProperties
  <2>5. hand \o Append(blocks, b) = Append(s, b)
    BY <2>1, <2>4
  <2>6. Chain(Append(s, b), gone, sent + c)
    BY <1>0, <1>4, <2>1, <2>3, <2>4, ChainAppend
  <2>7. Append(blocks, b) \in Seq(Block)
    BY <2>1
  <2>8. Chain(hand \o Append(blocks, b), gone, sent + c)
    BY <2>5, <2>6
  <2> QED BY <1>1, <2>1, <2>3, <2>7, <2>8
<1>10. key' \in Seq(Keys) /\ Len(key') = sent' /\ \A x \in 1 .. sent : key'[x] = key[x]
  <2>1. PICK t \in Seq(Keys) : t = [i \in 1 .. c |-> k]
    <3>1. \A i \in 1 .. c : k \in Keys
      OBVIOUS
    <3>2. [i \in 1 .. c |-> k] \in Seq(Keys)
      BY <1>0, <3>1, IsASeq
    <3> QED BY <3>2
  <2>2. key \in Seq(Keys) /\ Len(key) = sent /\ Len(t) = c /\ key' = key \o t
    <3>1. DOMAIN t = 1 .. c /\ DOMAIN t = 1 .. Len(t)
      BY <2>1
    <3>2. Len(t) \in Nat
      BY <2>1
    <3>3. Len(t) = c
      BY <3>1, <3>2
    <3> QED BY <1>0, <2>1, <3>3 DEF Hands, Typed
  <2>3. /\ key \o t \in Seq(Keys) /\ Len(key \o t) = Len(key) + Len(t)
        /\ \A i \in 1 .. Len(key \o t) : (key \o t)[i] = IF i <= Len(key) THEN key[i] ELSE t[i - Len(key)]
    BY <2>1, <2>2, ConcatProperties
  <2>4. \A x \in 1 .. sent : x \in 1 .. sent + c /\ x <= sent
    BY <1>4
  <2> QED BY <1>1, <2>2, <2>3, <2>4
<1>11. Typed'
  BY <1>1, <1>5, <1>9, <1>10 DEF Hands, Typed
<1>12. Pace'
  <2>1. ASSUME NEW q \in Readers PROVE PaceOf(q)'
    <3>1. PaceOf(q)
      BY DEF Hands, Pace
    <3>2. n'[q] = n[q] /\ gone' = gone /\ used' = used /\ want'[q] = want[q] /\ job'[q] = job[q]
      BY <1>1, <1>3
    <3> QED BY <1>5, <3>1, <3>2 DEF PaceOf
  <2> QED BY <1>1, <1>3, <1>5, <2>1 DEF Hands, Pace
<1> QED BY <1>6, <1>7, <1>8, <1>10, <1>11, <1>12 DEF Hands

(* kbdq is left alone *)
LEMMA HandsStay ==
  ASSUME Hands, UNCHANGED cvars, UNCHANGED <<closed, wr, rr, left, sent, gone, n, hand, blocks, pc>>
  PROVE  Hands'
<1>1. UNCHANGED <<kbdlk, job, want, used, key, raw, ctl, hasctl>>
  BY DEF cvars, kbd, history
<1>2. \A q \in Readers : (Keying(q)' <=> Keying(q)) /\ Room(q)' = Room(q) /\ (PaceOf(q)' <=> PaceOf(q))
  BY <1>1 DEF Keying, Room, PaceOf
<1>3. Shape' /\ Standing' /\ Control' /\ Typed'
  BY <1>1 DEF Hands, Shape, Standing, Control, Typed
<1>4. Places' /\ Pace'
  BY <1>1, <1>2 DEF Hands, Places, Pace
<1> QED BY <1>3, <1>4 DEF Hands

(* somebody comes to the console *)
LEMMA CallKeeps ==
  ASSUME Hands, NEW p, NEW j \in {"read", "open", "close", "rawon", "rawoff"}, Call(p, j),
         UNCHANGED <<qvars, raw, ctl, hasctl, used, key>>,
         want' \in [Readers -> Nat], \A q \in Readers : q # p => want'[q] = want[q],
         j = "read" => want'[p] > 0,
         j = "open" => p \notin hasctl, j \in {"close", "rawon", "rawoff"} => p \in hasctl
  PROVE  Hands'
<1>1. p \in Readers /\ job[p] = "out" /\ job' = [job EXCEPT ![p] = j] /\ kbdlk' = Append(kbdlk, p)
  BY DEF Call
<1>2. UNCHANGED <<closed, wr, rr, left, sent, gone, n, hand, blocks, pc>>
  BY DEF qvars, data, state, sleepers
<1>3. Standing' /\ \A q \in Readers : Holds(kbdlk, q) => Holds(kbdlk', q)
  <2>1. j \in Jobs /\ j # "out"
    BY DEF Jobs
  <2> QED BY <1>1, <2>1, Joins DEF Hands, Standing
<1>4. job \in [Readers -> Jobs]
  BY DEF Hands, Standing, StandingIn
<1>5. /\ ~Keying(p) /\ ~Keying(p)' /\ job'[p] = j
      /\ \A q \in Readers : q # p => job'[q] = job[q] /\ (Keying(q)' <=> Keying(q)) /\ Room(q)' = Room(q)
  BY <1>1, <1>4 DEF Keying, Room
<1>6. Shape'
  BY <1>2 DEF Hands, Shape
<1>7. Places'
  <2>1. ASSUME NEW q \in Readers
        PROVE  /\ Keying(q)' => Holds(kbdlk', q)
               /\ pc'[q] # "idle" => Keying(q)' /\ pc'[q] \in Fetching \cup {"rwake", "rdone"}
    BY <1>1, <1>2, <1>3, <1>5 DEF Hands, Places
  <2> QED BY <1>2, <2>1 DEF Hands, Places
<1>8. Control'
  BY <1>1, <1>5 DEF Hands, Control
<1>9. Typed'
  BY <1>2 DEF Hands, Typed
<1>10. Pace'
  <2>1. ASSUME NEW q \in Readers PROVE PaceOf(q)'
    <3>1. CASE q = p
      BY <1>5, <3>1 DEF PaceOf
    <3>2. CASE q # p
      <4>1. PaceOf(q)
        BY DEF Hands, Pace
      <4>2. /\ n'[q] = n[q] /\ gone' = gone /\ used' = used /\ want'[q] = want[q] /\ job'[q] = job[q]
            /\ pc'[q] = pc[q]
        BY <1>2, <1>5, <3>2
      <4> QED BY <1>5, <3>2, <4>1, <4>2 DEF PaceOf
    <3> QED BY <3>1, <3>2
  <2>2. (\A q \in Readers : ~Keying(q)') => gone' = used'
    BY <1>2, <1>5 DEF Hands, Pace
  <2> QED BY <2>1, <2>2 DEF Pace
<1> QED BY <1>3, <1>6, <1>7, <1>8, <1>9, <1>10 DEF Hands

(* what a step of the holder of kbd.lk, outside of qread, has to keep *)
LEMMA HolderMoves ==
  ASSUME Hands, NEW p \in Readers, Holds(kbdlk, p), pc[p] = "idle",
         NEW j \in Jobs, job' = [job EXCEPT ![p] = j],
         IF j = "out" THEN kbdlk' = Tail(kbdlk) ELSE kbdlk' = kbdlk,
         want' \in [Readers -> Nat], \A q \in Readers : q # p => want'[q] = want[q],
         used' = gone, UNCHANGED key, Control',
         \/ j \in {"out", "read"} /\ UNCHANGED qvars
         \/ j \in {"key", "raw"} /\ QRead(p, IF j = "key" THEN 1 ELSE want'[p]),
         j # "out" => want'[p] > 0
  PROVE  Hands'
<1>1. UNCHANGED <<closed, wr, rr, left, sent, gone, hand, blocks>>
  BY DEF qvars, data, state, sleepers, QRead
<1>2. p \in Procs /\ pc \in [Procs -> PC] /\ n \in [Procs -> Nat]
  BY Roles DEF Hands, Shape
<1>3. /\ job \in [Readers -> Jobs]
      /\ job'[p] = j /\ \A q \in Readers : q # p => job'[q] = job[q]
  BY DEF Hands, Standing, StandingIn
<1>4. /\ pc' \in [Procs -> PC] /\ n' \in [Procs -> Nat]
      /\ \A q \in Procs : q # p => pc'[q] = pc[q] /\ n'[q] = n[q]
      /\ IF j \in {"key", "raw"} THEN pc'[p] = "rwait" /\ n'[p] = (IF j = "key" THEN 1 ELSE want'[p])
         ELSE pc'[p] = "idle"
  <2>1. CASE j \in {"out", "read"} /\ UNCHANGED qvars
    BY <1>2, <2>1 DEF qvars
  <2>2. CASE j \in {"key", "raw"} /\ QRead(p, IF j = "key" THEN 1 ELSE want'[p])
    <3>1. PICK k \in Nat : k = IF j = "key" THEN 1 ELSE want'[p]
      OBVIOUS
    <3>2. n' = [n EXCEPT ![p] = k] /\ pc' = [pc EXCEPT ![p] = "rwait"]
      BY <2>2, <3>1 DEF QRead, Goto
    <3>3. "rwait" \in PC
      BY DEF PC
    <3> QED BY <1>2, <2>2, <3>1, <3>2, <3>3
  <2> QED BY <2>1, <2>2
<1>5. \A q \in Readers : q # p => ~Keying(q) /\ ~Keying(q)' /\ pc[q] = "idle" /\ pc'[q] = "idle"
  BY <1>2, <1>3, <1>4, OneKeys, Roles DEF Hands, Keying
<1>6. Keying(p)' <=> j \in {"key", "raw"}
  BY <1>3 DEF Keying
<1>7. Standing'
  <2>1. CASE j = "out"
    <3>1. StandingIn(kbdlk, job)
      BY DEF Hands, Standing
    <3>2. StandingIn(Tail(kbdlk), [job EXCEPT ![p] = "out"])
      BY <3>1, Leaves
    <3>3. kbdlk' = Tail(kbdlk) /\ job' = [job EXCEPT ![p] = "out"]
      BY <2>1
    <3> QED BY <3>2, <3>3 DEF Standing
  <2>2. CASE j # "out"
    BY <2>2, Turns DEF Hands, Standing
  <2> QED BY <2>1, <2>2
<1>8. Shape'
  <2>1. gone' \in Nat /\ used' \in Nat /\ used' <= gone'
    BY <1>1 DEF Hands, Shape
  <2> QED BY <1>1, <1>4, <2>1 DEF Hands, Shape
<1>9. Places'
  <2>1. Keying(p)' => Holds(kbdlk', p)
    BY <1>6
  <2>2. pc'[p] # "idle" => Keying(p)' /\ pc'[p] \in Fetching \cup {"rwake", "rdone"}
    BY <1>4, <1>6 DEF Fetching
  <2>3. \A q \in Writers : pc'[q] \in {"idle", "iwake"}
    BY <1>4, Roles DEF Hands, Places
  <2>4. rr' # None => rr' \in Readers /\ pc'[rr'] = "rslept"
    <3>1. rr # None => rr \in Readers /\ rr # p /\ pc[rr] = "rslept"
      BY DEF Hands, Places
    <3>2. rr = None
      BY <1>5, <3>1
    <3> QED BY <1>1, <3>2
  <2> QED BY <1>5, <2>1, <2>2, <2>3, <2>4 DEF Places
<1>10. Typed'
  <2>1. \A q \in Readers : pc[q] # "rcopy"
    BY <1>5
  <2>2. \A q \in Readers : pc'[q] # "rcopy"
    BY <1>4, <1>5
  <2> QED BY <1>1, <2>1, <2>2 DEF Hands, Typed
<1>11. Pace'
  <2>1. ASSUME NEW q \in Readers PROVE PaceOf(q)'
    <3>1. CASE q = p
      <4>1. CASE j \in {"key", "raw"}
        <5>1. pc'[p] \in Fetching /\ gone' = used' /\ n'[p] = Room(p)'
          BY <1>1, <1>3, <1>4, <4>1 DEF Fetching, Room
        <5> QED BY <3>1, <4>1, <5>1 DEF PaceOf
      <4>2. CASE j \notin {"key", "raw"}
        BY <1>3, <1>6, <3>1, <4>2 DEF PaceOf
      <4> QED BY <4>1, <4>2
    <3>2. CASE q # p
      <4>1. job'[q] = "read" => want'[q] > 0
        BY <1>3, <3>2 DEF Hands, Pace, PaceOf
      <4> QED BY <1>5, <3>2, <4>1 DEF PaceOf
    <3> QED BY <3>1, <3>2
  <2> QED BY <1>1, <2>1 DEF Pace
<1> QED BY <1>7, <1>8, <1>9, <1>10, <1>11 DEF Hands

(* who goes to and fro reading does not touch /dev/consctl *)
LEMMA ControlStays ==
  ASSUME Hands, NEW p \in Readers, UNCHANGED <<raw, ctl, hasctl>>,
         NEW j \in {"out", "read", "key", "raw"}, job' = [job EXCEPT ![p] = j]
  PROVE  Control'
<1>1. /\ job'[p] = j /\ \A q \in Readers : q # p => job'[q] = job[q]
  BY DEF Hands, Standing, StandingIn
<1> QED BY <1>1 DEF Hands, Control

-----------------------------------------------------------------------------
(* Each step keeps Hands. *)

(* a call to the console or to its control file *)
LEMMA CallsKeep ==
  ASSUME Hands, NEW p, ConsRead(p) \/ CtlCall(p)
  PROVE  Hands' /\ UNCHANGED <<qvars, line, lineq, buf, history>>
         /\ \A q \in Readers : (job'[q] = "key" <=> job[q] = "key") /\ (job'[q] = "raw" <=> job[q] = "raw")
<1>0. want \in [Readers -> Nat] /\ job \in [Readers -> Jobs]
  BY DEF Hands, Shape, Standing, StandingIn
<1>1. CASE ConsRead(p)
  <2>1. Call(p, "read") /\ p \in Readers
    BY <1>1 DEF ConsRead, Call
  <2>2. UNCHANGED <<qvars, raw, ctl, line, lineq, hasctl, buf, history>>
    BY <1>1 DEF ConsRead
  <2>3. PICK k \in ReadSizes : want' = [want EXCEPT ![p] = k]
    BY <1>1 DEF ConsRead
  <2>4. k \in Nat /\ k > 0
    <3>1. k \in Nat /\ k # 0
      BY ConsQueues, SizesAreNat
    <3> QED BY <3>1
  <2>5. want' \in [Readers -> Nat] /\ want'[p] > 0 /\ \A q \in Readers : q # p => want'[q] = want[q]
    BY <1>0, <2>1, <2>3, <2>4
  <2>6. UNCHANGED <<used, key>>
    BY <2>2 DEF history
  <2>7. Hands'
    BY <2>1, <2>2, <2>5, <2>6, CallKeeps
  <2>8. job[p] = "out" /\ job' = [job EXCEPT ![p] = "read"]
    BY <2>1 DEF Call
  <2> QED BY <1>0, <2>1, <2>2, <2>7, <2>8
<1>2. CASE CtlCall(p)
  <2>1. PICK j \in {"open", "close", "rawon", "rawoff"} :
          Call(p, j) /\ (j = "open" => p \notin hasctl) /\ (j # "open" => p \in hasctl)
    BY <1>2 DEF CtlCall
  <2>2. UNCHANGED <<qvars, raw, ctl, line, lineq, want, hasctl, buf, history>>
    BY <1>2 DEF CtlCall
  <2>3. want' \in [Readers -> Nat] /\ \A q \in Readers : want'[q] = want[q]
    BY <1>0, <2>2
  <2>4. UNCHANGED <<used, key>>
    BY <2>2 DEF history
  <2>5. j \in {"read", "open", "close", "rawon", "rawoff"} /\ j # "read"
    BY <2>1
  <2>6. j \in {"close", "rawon", "rawoff"} => p \in hasctl
    BY <2>1
  <2>7. Hands'
    BY <2>1, <2>2, <2>3, <2>4, <2>5, <2>6, CallKeeps
  <2>8. job[p] = "out" /\ job' = [job EXCEPT ![p] = j] /\ p \in Readers
    BY <2>1 DEF Call
  <2> QED BY <1>0, <2>2, <2>5, <2>7, <2>8
<1> QED BY <1>1, <1>2

(* while the holder of kbd.lk does not read keys, all bytes are dealt with *)
LEMMA Quiet ==
  ASSUME Hands, NEW p, NEW j, Doing(p, j)
  PROVE  /\ p \in Readers /\ Holds(kbdlk, p) /\ pc[p] = "idle" /\ job[p] = j
         /\ \A q \in Readers : q # p => ~Keying(q)
         /\ j \notin {"key", "raw"} => gone = used
         /\ j \in {"key", "raw"} => used < gone /\ gone <= used + Room(p)
         /\ j \in {"key", "raw", "read"} => want[p] > 0
         /\ job \in [Readers -> Jobs] /\ want \in [Readers -> Nat]
         /\ used \in Nat /\ gone \in Nat /\ sent \in Nat /\ gone <= sent
<1>1. Holds(kbdlk, p) /\ pc[p] = "idle" /\ job[p] = j
  BY DEF Doing, At
<1>2. p \in Readers
  BY <1>1, HolderIsIn DEF Hands, Standing
<1>3. \A q \in Readers : q # p => ~Keying(q)
  BY <1>1, <1>2, OneKeys DEF Hands
<1>4. Keying(p) <=> j \in {"key", "raw"}
  BY <1>1 DEF Keying
<1>5. j \notin {"key", "raw"} => gone = used
  BY <1>2, <1>3, <1>4 DEF Hands, Pace
<1>6. j \in {"key", "raw"} => used < gone /\ gone <= used + Room(p)
  <2>1. pc[p] \notin Fetching
    BY <1>1 DEF Fetching
  <2> QED BY <1>2, <1>4, <2>1 DEF Hands, Pace, PaceOf
<1>7. j \in {"key", "raw", "read"} => want[p] > 0
  BY <1>1, <1>2, <1>4 DEF Hands, Pace, PaceOf
<1>8. job \in [Readers -> Jobs] /\ want \in [Readers -> Nat] /\ used \in Nat /\ gone \in Nat /\ sent \in Nat
  BY DEF Hands, Shape, Standing, StandingIn
<1>9. gone <= sent
  BY <1>8, ChainRoom DEF Hands, Typed
<1> QED BY <1>1, <1>2, <1>3, <1>5, <1>6, <1>7, <1>8, <1>9

(* a read of a line that is there *)
LEMMA TakeKeeps ==
  ASSUME Hands, NEW p, ConsTakeLine(p)
  PROVE  Hands'
<1>1. Doing(p, "read")
  BY DEF ConsTakeLine
<1>2. /\ UNCHANGED <<qvars, raw, ctl, hasctl, used, key>>
      /\ want' = [want EXCEPT ![p] = 0]
      /\ kbdlk' = Tail(kbdlk) /\ job' = [job EXCEPT ![p] = "out"]
  BY DEF ConsTakeLine, Leave
<1>3. /\ p \in Readers /\ Holds(kbdlk, p) /\ pc[p] = "idle" /\ gone = used
      /\ job \in [Readers -> Jobs] /\ want \in [Readers -> Nat]
  BY <1>1, Quiet
<1>4. want' \in [Readers -> Nat] /\ \A q \in Readers : q # p => want'[q] = want[q]
  BY <1>2, <1>3
<1>5. Control' /\ "out" \in Jobs
  <2>1. UNCHANGED <<raw, ctl, hasctl>>
    BY <1>2
  <2> QED BY <1>2, <1>3, <2>1, ControlStays DEF Jobs
<1>6. used' = gone /\ key' = key
  BY <1>2, <1>3
<1> QED BY <1>2, <1>3, <1>4, <1>5, <1>6, HolderMoves

(* a read begins to take keys *)
LEMMA WaitKeyKeeps ==
  ASSUME Hands, NEW p, ConsWaitKey(p)
  PROVE  Hands'
<1>1. Doing(p, "read")
  BY DEF ConsWaitKey
<1>2. PICK j \in {"key", "raw"} : j = IF raw THEN "raw" ELSE "key"
  OBVIOUS
<1>3. /\ UNCHANGED <<kbdlk, raw, ctl, hasctl, want, used, key>>
      /\ job' = [job EXCEPT ![p] = j]
      /\ QRead(p, IF raw THEN want[p] ELSE 1)
  BY <1>2 DEF ConsWaitKey, kbd, history
<1>4. /\ p \in Readers /\ Holds(kbdlk, p) /\ pc[p] = "idle" /\ gone = used /\ want[p] > 0
      /\ job \in [Readers -> Jobs] /\ want \in [Readers -> Nat]
  BY <1>1, Quiet
<1>5. Control' /\ j \in Jobs /\ j # "out"
  <2>1. UNCHANGED <<raw, ctl, hasctl>>
    BY <1>3
  <2> QED BY <1>3, <1>4, <2>1, ControlStays DEF Jobs
<1>6. want' \in [Readers -> Nat] /\ (\A q \in Readers : q # p => want'[q] = want[q]) /\ want'[p] > 0
  BY <1>3, <1>4
<1>7. QRead(p, IF j = "key" THEN 1 ELSE want'[p])
  BY <1>2, <1>3
<1>8. used' = gone /\ key' = key
  BY <1>3, <1>4
<1> QED BY <1>3, <1>4, <1>5, <1>6, <1>7, <1>8, HolderMoves

(* a raw read has got bytes *)
LEMMA RawReadKeeps ==
  ASSUME Hands, NEW p, ConsRawRead(p)
  PROVE  Hands'
<1>1. Doing(p, "raw")
  BY DEF ConsRawRead
<1>2. /\ p \in Readers /\ Holds(kbdlk, p) /\ pc[p] = "idle" /\ used < gone /\ gone <= used + want[p]
      /\ job \in [Readers -> Jobs] /\ want \in [Readers -> Nat] /\ job[p] = "raw"
      /\ used \in Nat /\ gone \in Nat
  <2>1. job[p] = "raw"
    BY <1>1 DEF Doing
  <2>2. Room(p) = want[p]
    BY <2>1 DEF Room
  <2> QED BY <1>1, <2>1, <2>2, Quiet
<1>3. UNCHANGED <<raw, ctl, hasctl, key>> /\ used' = gone
  BY DEF ConsRawRead
<1>4. want' = [want EXCEPT ![p] = @ - Len([i \in 1 .. gone - used |-> used + i])]
  BY DEF ConsRawRead
<1>5. PICK c \in Nat : c = gone - used /\ c <= want[p]
  BY <1>2
<1>6. Len([i \in 1 .. c |-> used + i]) = c
  OBVIOUS
<1>7. want' = [want EXCEPT ![p] = want[p] - c] /\ want[p] - c \in Nat
  BY <1>2, <1>4, <1>5, <1>6
<1>8. want' \in [Readers -> Nat] /\ \A q \in Readers : q # p => want'[q] = want[q]
  BY <1>2, <1>7
<1>9. CASE want'[p] > 0 /\ blocks # <<>>
  <2>1. QRead(p, want'[p]) /\ UNCHANGED <<job, kbdlk>>
    BY <1>9 DEF ConsRawRead
  <2>2. job' = [job EXCEPT ![p] = "raw"]
    BY <1>2, <2>1
  <2>3. Control' /\ "raw" \in Jobs /\ "raw" # "out"
    <3>1. UNCHANGED <<raw, ctl, hasctl>>
      BY <1>3
    <3> QED BY <1>2, <2>2, <3>1, ControlStays DEF Jobs
  <2>4. QRead(p, IF "raw" = "key" THEN 1 ELSE want'[p]) /\ kbdlk' = kbdlk /\ key' = key
    BY <1>3, <2>1
  <2> QED BY <1>2, <1>3, <1>8, <1>9, <2>2, <2>3, <2>4, HolderMoves
<1>10. CASE ~(want'[p] > 0 /\ blocks # <<>>)
  <2>1. UNCHANGED qvars /\ kbdlk' = Tail(kbdlk) /\ job' = [job EXCEPT ![p] = "out"]
    BY <1>10 DEF ConsRawRead, Leave
  <2>2. Control' /\ "out" \in Jobs
    <3>1. UNCHANGED <<raw, ctl, hasctl>>
      BY <1>3
    <3> QED BY <1>2, <2>1, <3>1, ControlStays DEF Jobs
  <2>3. key' = key
    BY <1>3
  <2> QED BY <1>2, <1>3, <1>8, <2>1, <2>2, <2>3, HolderMoves
<1> QED BY <1>9, <1>10

(* the line editor has got a byte *)
LEMMA KeyKeeps ==
  ASSUME Hands, NEW p, ConsKey(p)
  PROVE  Hands'
<1>1. Doing(p, "key")
  BY DEF ConsKey
<1>2. /\ p \in Readers /\ Holds(kbdlk, p) /\ pc[p] = "idle" /\ want[p] > 0
      /\ job \in [Readers -> Jobs] /\ want \in [Readers -> Nat] /\ job[p] = "key"
  BY <1>1, Quiet
<1>3. UNCHANGED <<raw, ctl, hasctl, key, want>> /\ used' = gone
  BY DEF ConsKey
<1>4. want' \in [Readers -> Nat] /\ (\A q \in Readers : q # p => want'[q] = want[q]) /\ want'[p] > 0
  BY <1>2, <1>3
<1>5. kbdlk' = kbdlk /\ \/ job' = [job EXCEPT ![p] = "read"] /\ UNCHANGED qvars
                        \/ job' = job /\ QRead(p, 1)
  BY DEF ConsKey, NextKey
<1>6. CASE job' = [job EXCEPT ![p] = "read"] /\ UNCHANGED qvars
  <2>1. Control' /\ "read" \in Jobs
    <3>1. UNCHANGED <<raw, ctl, hasctl>>
      BY <1>3
    <3> QED BY <1>2, <1>6, <3>1, ControlStays DEF Jobs
  <2>2. key' = key /\ "read" # "out"
    BY <1>3
  <2> QED BY <1>2, <1>3, <1>4, <1>5, <1>6, <2>1, <2>2, HolderMoves
<1>7. CASE job' = job /\ QRead(p, 1)
  <2>1. job' = [job EXCEPT ![p] = "key"]
    BY <1>2, <1>7
  <2>2. Control' /\ "key" \in Jobs
    <3>1. UNCHANGED <<raw, ctl, hasctl>>
      BY <1>3
    <3> QED BY <1>2, <2>1, <3>1, ControlStays DEF Jobs
  <2>3. key' = key /\ QRead(p, IF "key" = "key" THEN 1 ELSE want'[p]) /\ "key" # "out"
    BY <1>3, <1>7
  <2> QED BY <1>2, <1>3, <1>4, <1>5, <2>1, <2>2, <2>3, HolderMoves
<1> QED BY <1>5, <1>6, <1>7

(* the control file is opened, closed or written *)
LEMMA CtlKeeps ==
  ASSUME Hands, NEW p, CtlOpen(p) \/ CtlClose(p) \/ RawOn(p) \/ RawOff(p)
  PROVE  /\ Hands' /\ \A q \in Readers : ~Keying(q) /\ ~Keying(q)'
<1>1. PICK j \in {"open", "close", "rawon", "rawoff"} :
        /\ Doing(p, j)
        /\ j = "open" => CtlOpen(p)
        /\ j = "close" => CtlClose(p)
        /\ j \in {"rawon", "rawoff"} => raw' \in BOOLEAN /\ UNCHANGED <<ctl, hasctl>>
  BY DEF CtlOpen, CtlClose, RawOn, RawOff
<1>2. /\ p \in Readers /\ Holds(kbdlk, p) /\ pc[p] = "idle" /\ gone = used
      /\ job \in [Readers -> Jobs] /\ want \in [Readers -> Nat] /\ job[p] = j
      /\ \A q \in Readers : q # p => ~Keying(q)
  BY <1>1, Quiet
<1>3. /\ UNCHANGED <<qvars, used, key, want>>
      /\ kbdlk' = Tail(kbdlk) /\ job' = [job EXCEPT ![p] = "out"]
  BY DEF CtlOpen, CtlClose, RawOn, RawOff, Leave, history
<1>4. job'[p] = "out" /\ \A q \in Readers : q # p => job'[q] = job[q]
  BY <1>2, <1>3
<1>5. Control
  BY DEF Hands
<1>6. Control'
  <2>1. CASE j = "open"
    <3>1. ctl' = ctl + 1 /\ hasctl' = hasctl \cup {p} /\ raw' = raw
      BY <1>1, <2>1 DEF CtlOpen
    <3>2. p \notin hasctl
      BY <1>2, <1>5, <2>1 DEF Control
    <3>3. IsFiniteSet(hasctl') /\ Cardinality(hasctl') = Cardinality(hasctl) + 1 /\ Cardinality(hasctl) \in Nat
      BY <1>5, <3>1, <3>2, FS_AddElement, FS_CardinalityType DEF Control
    <3>4. \A q \in Readers : job'[q] = "open" => q \notin hasctl'
      BY <1>4, <1>5, <3>1 DEF Control
    <3>5. ctl' = Cardinality(hasctl') /\ (raw' => ctl' # 0) /\ raw' \in BOOLEAN
      BY <1>5, <3>1, <3>3 DEF Control
    <3>6. \A q \in Readers : job'[q] \in {"close", "rawon", "rawoff"} => q \in hasctl'
      BY <1>4, <1>5, <3>1 DEF Control
    <3>7. hasctl' \subseteq Readers
      BY <1>2, <1>5, <3>1 DEF Control
    <3> QED BY <3>3, <3>4, <3>5, <3>6, <3>7 DEF Control
  <2>2. CASE j = "close"
    <3>1. ctl' = ctl - 1 /\ hasctl' = hasctl \ {p} /\ raw' = (raw /\ ctl' # 0)
      BY <1>1, <2>2 DEF CtlClose
    <3>2. p \in hasctl
      BY <1>2, <1>5, <2>2 DEF Control
    <3>3. IsFiniteSet(hasctl') /\ Cardinality(hasctl') = Cardinality(hasctl) - 1
      BY <1>5, <3>1, <3>2, FS_RemoveElement DEF Control
    <3>4. \A q \in Readers : job'[q] = "open" => q \notin hasctl'
      BY <1>4, <1>5, <3>1 DEF Control
    <3>5. ctl' = Cardinality(hasctl') /\ (raw' => ctl' # 0) /\ raw' \in BOOLEAN
      BY <1>5, <3>1, <3>3 DEF Control
    <3>6. \A q \in Readers : job'[q] \in {"close", "rawon", "rawoff"} => q \in hasctl'
      BY <1>4, <1>5, <3>1 DEF Control
    <3>7. hasctl' \subseteq Readers
      BY <1>5, <3>1 DEF Control
    <3> QED BY <3>3, <3>4, <3>5, <3>6, <3>7 DEF Control
  <2>3. CASE j \in {"rawon", "rawoff"}
    <3>1. raw' \in BOOLEAN /\ UNCHANGED <<ctl, hasctl>>
      BY <1>1, <2>3
    <3>2. p \in hasctl
      BY <1>2, <1>5, <2>3 DEF Control
    <3>3. ctl # 0
      <4>1. Cardinality(hasctl) # 0
        BY <1>5, <3>2, FS_EmptySet DEF Control
      <4> QED BY <1>5, <4>1 DEF Control
    <3> QED BY <1>4, <1>5, <3>1, <3>3 DEF Control
  <2> QED BY <2>1, <2>2, <2>3
<1>7. /\ want' \in [Readers -> Nat] /\ (\A q \in Readers : q # p => want'[q] = want[q])
      /\ used' = gone /\ key' = key /\ "out" \in Jobs
  BY <1>2, <1>3 DEF Jobs
<1>8. Hands'
  BY <1>2, <1>3, <1>6, <1>7, HolderMoves
<1>9. \A q \in Readers : ~Keying(q) /\ ~Keying(q)'
  BY <1>2, <1>4 DEF Keying
<1> QED BY <1>8, <1>9
-----------------------------------------------------------------------------
(* The invariant: what is in the line, in lineq, in buf and in got. *)

(* the bytes of finished lines and raw reads, read or about to be *)
Done == FlattenSeq(got) \o buf \o FlattenSeq(lineq)

(* bytes up to b belong to finished lines or were read raw, and those of   *)
(* them that are kept are in got, buf and lineq                            *)
Finished(b) ==
  /\ FinishedIn(rawly, ends, b) /\ b <= used
  /\ got \in Seq(Seq(1 .. b)) /\ buf \in Seq(1 .. b) /\ lineq \in Seq(Seq(1 .. b))
  /\ Lists(Done, KeptIn(key, rawly, ends, used, b))

(* who may find what where: the line is used while keys are read for it,   *)
(* buf while a read is raw, and keys are read when lineq is empty          *)
Order(b) ==
  /\ (\A p \in Readers : job[p] # "key") => b = used
  /\ (\A p \in Readers : job[p] # "raw") => buf = <<>>
  /\ \A p \in Readers : Keying(p) => lineq = <<>>

(* s has no bytes from both sides of a member of E *)
WholeIn(E, s) == \A e \in E : ~\E i, j \in 1 .. Len(s) : s[i] <= e /\ e < s[j]

(* no read joins two lines, and the empty ones are those of ^D alone *)
Reads ==
  /\ \A k \in 1 .. Len(got) : WholeIn(ends, got[k])
  /\ \A k \in 1 .. Len(lineq) : WholeIn(ends, lineq[k])
  /\ \A k \in 1 .. Len(buf) : \A e \in ends : e < buf[k]
  /\ Cardinality(Empties(got)) + Cardinality(Empties(lineq)) =
       Cardinality(BareIn(key, rawly, ends, used))

(* the current line begins after byte b *)
Lines(b) ==
  /\ Finished(b) /\ EditingIn(line, key, b, used) /\ Order(b) /\ Reads
  /\ Len(line) < LineMax /\ Len(lineq) <= 1

(* the invariant *)
Inv == Hands /\ \E b \in Nat : Lines(b)

(* bytes numbered up to b are bytes numbered up to g *)
LEMMA SeqMono ==
  ASSUME NEW b \in Nat, NEW g \in Nat, b <= g
  PROVE  /\ \A s \in Seq(1 .. b) : s \in Seq(1 .. g) /\ s \in Seq(Nat)
         /\ \A ss \in Seq(Seq(1 .. b)) : ss \in Seq(Seq(1 .. g))
<1>0. 1 .. b \subseteq 1 .. g /\ 1 .. b \subseteq Nat
  OBVIOUS
<1>1. ASSUME NEW s \in Seq(1 .. b) PROVE s \in Seq(1 .. g) /\ s \in Seq(Nat)
  <2>1. Len(s) \in Nat /\ s = [k \in 1 .. Len(s) |-> s[k]] /\ \A k \in 1 .. Len(s) : s[k] \in 1 .. b
    OBVIOUS
  <2>2. \A k \in 1 .. Len(s) : s[k] \in 1 .. g /\ s[k] \in Nat
    BY <1>0, <2>1
  <2>3. [k \in 1 .. Len(s) |-> s[k]] \in Seq(1 .. g) /\ [k \in 1 .. Len(s) |-> s[k]] \in Seq(Nat)
    BY <2>1, <2>2, IsASeq
  <2> QED BY <2>1, <2>3
<1>2. ASSUME NEW ss \in Seq(Seq(1 .. b)) PROVE ss \in Seq(Seq(1 .. g))
  <2>1. Len(ss) \in Nat /\ ss = [k \in 1 .. Len(ss) |-> ss[k]] /\ \A k \in 1 .. Len(ss) : ss[k] \in Seq(1 .. b)
    OBVIOUS
  <2>2. \A k \in 1 .. Len(ss) : ss[k] \in Seq(1 .. g)
    BY <1>1, <2>1
  <2>3. [k \in 1 .. Len(ss) |-> ss[k]] \in Seq(Seq(1 .. g))
    BY <2>1, <2>2, IsASeq
  <2> QED BY <2>1, <2>3
<1> QED BY <1>1, <1>2

(* how many reads were empty, after one more *)
LEMMA OneMore ==
  ASSUME NEW S, NEW ss \in Seq(S), NEW x \in S
  PROVE  /\ Cardinality(Empties(ss)) \in Nat
         /\ Cardinality(Empties(Append(ss, x))) = Cardinality(Empties(ss)) + (IF x = <<>> THEN 1 ELSE 0)
<1> DEFINE tt == Append(ss, x)
           D == Empties(ss)
           E == Empties(tt)
<1>1. /\ Len(ss) \in Nat /\ Len(tt) = Len(ss) + 1 /\ tt[Len(ss) + 1] = x /\ DOMAIN ss = 1 .. Len(ss)
      /\ DOMAIN tt = 1 .. Len(tt) /\ \A k \in 1 .. Len(ss) : tt[k] = ss[k]
  OBVIOUS
<1> HIDE DEF tt
<1>2. IsFiniteSet(D)
  <2>1. IsFiniteSet(1 .. Len(ss))
    <3>1. 1 \in Int /\ Len(ss) \in Int
      BY <1>1
    <3> QED BY <3>1, FS_Interval
  <2>2. D \subseteq 1 .. Len(ss)
    BY <1>1 DEF Empties
  <2> QED BY <2>1, <2>2, FS_Subset
<1>3. Cardinality(D) \in Nat
  BY <1>2, FS_CardinalityType
<1>4. \A k : k \in 1 .. Len(tt) <=> k \in 1 .. Len(ss) \/ k = Len(ss) + 1
  BY <1>1
<1>5. IF x = <<>> THEN E = D \cup {Len(ss) + 1} ELSE E = D
  BY <1>1, <1>4 DEF Empties
<1>6. Len(ss) + 1 \notin D
  BY <1>1 DEF Empties
<1> HIDE DEF D, E
<1>7. Cardinality(D \cup {Len(ss) + 1}) = Cardinality(D) + 1
  BY <1>2, <1>6, FS_AddElement
<1>8. Cardinality(E) = Cardinality(D) + (IF x = <<>> THEN 1 ELSE 0)
  <2>1. CASE x = <<>>
    <3>1. Cardinality(E) = Cardinality(D) + 1
      BY <1>5, <1>7, <2>1
    <3> QED BY <2>1, <3>1
  <2>2. CASE x # <<>>
    <3>1. Cardinality(E) = Cardinality(D)
      BY <1>5, <2>2
    <3> QED BY <1>3, <2>2, <3>1
  <2> QED BY <2>1, <2>2
<1> QED BY <1>3, <1>8 DEF D, E, tt

(* none and one *)
LEMMA EmptiesOne ==
  /\ Cardinality(Empties(<<>>)) = 0
  /\ \A x : Cardinality(Empties(<<x>>)) = IF x = <<>> THEN 1 ELSE 0
<1>1. Empties(<<>>) = {}
  BY DEF Empties
<1>2. Cardinality(Empties(<<>>)) = 0
  BY <1>1, FS_EmptySet
<1>3. ASSUME NEW x PROVE Cardinality(Empties(<<x>>)) = IF x = <<>> THEN 1 ELSE 0
  <2>1. <<>> \in Seq({x}) /\ x \in {x} /\ Append(<<>>, x) = <<x>>
    OBVIOUS
  <2>2. Cardinality(Empties(Append(<<>>, x))) = Cardinality(Empties(<<>>)) + (IF x = <<>> THEN 1 ELSE 0)
    BY <2>1, OneMore
  <2> QED BY <1>2, <2>1, <2>2
<1> QED BY <1>2, <1>3

(* a line of which a read takes w bytes *)
LEMMA CutLine ==
  ASSUME NEW b \in Nat, NEW x \in Seq(1 .. b), NEW w \in Nat, w > 0, NEW E, WholeIn(E, x)
  PROVE  IF Len(x) > w
         THEN \E y, z \in Seq(1 .. b) :
                /\ y = SubSeq(x, 1, LeastOf(Len(x), w)) /\ z = SubSeq(x, w + 1, Len(x))
                /\ y \o z = x /\ x # <<>> /\ y # <<>> /\ z # <<>>
                /\ WholeIn(E, y) /\ WholeIn(E, z)
         ELSE SubSeq(x, 1, LeastOf(Len(x), w)) = x
<1>1. CASE Len(x) > w
  <2>1. LeastOf(Len(x), w) = w
    BY <1>1 DEF LeastOf
  <2>2. w \in 0 .. Len(x)
    BY <1>1
  <2>3. PICK z : z = SubSeq(x, w + 1, Len(x))
    OBVIOUS
  <2>4. z \in Seq(1 .. b) /\ Len(z) = Len(x) - w /\ \A i \in 1 .. Len(x) - w : z[i] = x[w + i]
    BY <2>2, <2>3, FromThere
  <2>5. PICK y : y = SubSeq(x, 1, w)
    OBVIOUS
  <2>6. y \in Seq(1 .. b) /\ Len(y) = w /\ \A i \in 1 .. w : y[i] = x[i]
    <3>1. \A i \in 1 .. w : x[i] \in 1 .. b
      BY <2>2
    <3>2. /\ y \in Seq(1 .. b) /\ Len(y) = IF 1 <= w THEN w - 1 + 1 ELSE 0
          /\ \A i \in 1 .. w - 1 + 1 : y[i] = x[1 + i - 1]
      <4>1. w \in Int /\ 1 \in Int
        OBVIOUS
      <4> QED BY <2>5, <3>1, <4>1, SubSeqProperties
    <3>3. w - 1 + 1 = w /\ \A i \in 1 .. w : 1 + i - 1 = i
      OBVIOUS
    <3> QED BY <3>2, <3>3
  <2>7. y \o z = x
    <3>1. /\ y \o z \in Seq(1 .. b) /\ Len(y \o z) = Len(y) + Len(z)
          /\ \A i \in 1 .. Len(y \o z) : (y \o z)[i] = IF i <= Len(y) THEN y[i] ELSE z[i - Len(y)]
      <4>1. PICK A : A = 1 .. b
        OBVIOUS
      <4>2. y \in Seq(A) /\ z \in Seq(A)
        BY <2>4, <2>6, <4>1
      <4>3. /\ y \o z \in Seq(A) /\ Len(y \o z) = Len(y) + Len(z)
            /\ \A i \in 1 .. Len(y) + Len(z) : (y \o z)[i] = IF i <= Len(y) THEN y[i] ELSE z[i - Len(y)]
        BY <4>2, ConcatProperties
      <4> QED BY <4>1, <4>3
    <3>2. PICK v \in Seq(1 .. b) : v = y \o z
      BY <3>1
    <3>3. Len(x) \in Nat /\ Len(v) = Len(x)
      <4>1. Len(x) \in Nat
        OBVIOUS
      <4> QED BY <2>2, <2>4, <2>6, <3>1, <3>2, <4>1
    <3>4. ASSUME NEW i \in 1 .. Len(x) PROVE v[i] = x[i]
      <4>1. CASE i <= w
        BY <2>6, <3>1, <3>2, <3>3, <3>4, <4>1
      <4>2. CASE ~(i <= w)
        <5>1. i - w \in 1 .. Len(x) - w /\ w + (i - w) = i
          BY <3>3, <3>4, <4>2
        <5> QED BY <2>4, <2>6, <3>1, <3>2, <3>3, <4>2, <5>1
      <4> QED BY <4>1, <4>2
    <3> QED BY <3>2, <3>3, <3>4, SeqEqual
  <2>8. Len(x) # 0 /\ Len(y) # 0 /\ Len(z) # 0
    BY <1>1, <2>4, <2>6
  <2>9. WholeIn(E, y)
    <3>1. \A i \in 1 .. Len(y) : i \in 1 .. Len(x) /\ y[i] = x[i]
      BY <2>2, <2>6
    <3> QED BY <3>1 DEF WholeIn
  <2>10. WholeIn(E, z)
    <3>1. \A i \in 1 .. Len(z) : w + i \in 1 .. Len(x) /\ z[i] = x[w + i]
      BY <2>2, <2>4
    <3> QED BY <3>1 DEF WholeIn
  <2>11. x # <<>> /\ y # <<>> /\ z # <<>>
    BY <2>8
  <2> QED BY <1>1, <2>1, <2>3, <2>4, <2>5, <2>6, <2>7, <2>9, <2>10, <2>11
<1>2. CASE ~(Len(x) > w)
  <2>1. LeastOf(Len(x), w) = Len(x)
    <3>1. Len(x) \in Nat
      OBVIOUS
    <3> QED BY <1>2, <3>1 DEF LeastOf
  <2>2. SubSeq(x, 1, Len(x)) = x
    OBVIOUS
  <2> QED BY <1>2, <2>1, <2>2
<1> QED BY <1>1, <1>2

(* no byte is left of a line that has not begun *)
LEMMA NoLine ==
  ASSUME NEW K, NEW z \in Nat
  PROVE  EditingIn(<<>>, K, z, z) /\ \A l : EditingIn(l, K, z, z) => l = <<>>
<1>1. z + 1 .. z = {}
  OBVIOUS
<1>2. LeftIn(K, z, z) = {}
  BY <1>1 DEF LeftIn
<1>3. Lists(<<>>, {})
  BY ListsOne
<1>4. <<>> \in Seq(z + 1 .. z) /\ 1 .. Len(<<>>) = {}
  OBVIOUS
<1>5. EditingIn(<<>>, K, z, z)
  BY <1>2, <1>3, <1>4 DEF EditingIn
<1>6. ASSUME NEW l, EditingIn(l, K, z, z) PROVE l = <<>>
  <2>1. l \in Seq({})
    BY <1>1, <1>6 DEF EditingIn
  <2> QED BY <2>1
<1> QED BY <1>5, <1>6
-----------------------------------------------------------------------------
(* Each step keeps Lines. *)

(* a line depends on the keys up to there *)
LEMMA EditingSame ==
  ASSUME NEW l, NEW K, NEW K2, NEW b \in Nat, NEW z \in Nat, b <= z, EditingIn(l, K, b, z),
         \A x \in 1 .. z : K2[x] = K[x]
  PROVE  EditingIn(l, K2, b, z)
<1>1. LeftIn(K2, b, z) = LeftIn(K, b, z)
  <2>1. ASSUME NEW i \in b + 1 .. z PROVE StaysIn(K2, i, z) <=> StaysIn(K, i, z)
    <3>1. i \in 1 .. z /\ z \in i .. z
      OBVIOUS
    <3> QED BY <3>1, StaysSame
  <2> QED BY <2>1 DEF LeftIn
<1>2. ASSUME NEW k \in 1 .. Len(l)
      PROVE  TextIn(K2, l[k], z) = TextIn(K, l[k], z) /\ BackIn(K2, l[k], z) = BackIn(K, l[k], z)
  <2>1. PICK i \in Nat : i = l[k]
    <3>1. l[k] \in b + 1 .. z
      BY OfLine
    <3> QED BY <3>1
  <2>2. \A x \in i + 1 .. z : x \in 1 .. z
    OBVIOUS
  <2> QED BY <2>1, <2>2 DEF TextIn, BackIn
<1> QED BY <1>1, <1>2 DEF EditingIn

(* keys are typed, or processes go elsewhere *)
LEMMA LinesKeep ==
  ASSUME NEW b \in Nat, Lines(b), used \in Nat,
         UNCHANGED <<line, lineq, buf, used, rawly, ends, got>>,
         \A x \in 1 .. used : key'[x] = key[x], Order(b)'
  PROVE  Lines(b)'
<1>0. FinishedIn(rawly, ends, b) /\ b <= used
  BY DEF Lines, Finished
<1>1. After(key, rawly, ends, key', rawly, ends, b)
  <2>1. \A x \in 1 .. b : key'[x] = key[x]
    BY <1>0
  <2>2. ends \subseteq Nat
    <3>1. ends \subseteq 1 .. b
      BY <1>0 DEF FinishedIn
    <3> QED BY <3>1
  <2> QED BY <2>1, <2>2 DEF After
<1>2. KeptIn(key', rawly, ends, used, b) = KeptIn(key, rawly, ends, used, b)
  BY <1>0, <1>1, KeptStays
<1>3. BareIn(key', rawly, ends, used) = BareIn(key, rawly, ends, used)
  <2>1. \A e \in ends : e \in BareIn(key', rawly, ends, used) <=> e \in BareIn(key, rawly, ends, used)
    BY <1>0, <1>1, BareStays
  <2>2. \A e : e \in BareIn(key', rawly, ends, used) \/ e \in BareIn(key, rawly, ends, used) => e \in ends
    BY DEF BareIn
  <2> QED BY <2>1, <2>2
<1>4. EditingIn(line, key', b, used)
  BY <1>0, EditingSame DEF Lines
<1>5. Finished(b)'
  <2>1. Done' = Done
    BY DEF Done
  <2> QED BY <1>2, <2>1 DEF Lines, Finished
<1>6. Reads'
  BY <1>3 DEF Lines, Reads
<1> QED BY <1>4, <1>5, <1>6 DEF Lines

(* it does not matter who calls *)
LEMMA OrderStays ==
  ASSUME NEW b, Order(b), UNCHANGED <<used, buf, lineq>>,
         \A q \in Readers : (job'[q] = "key" <=> job[q] = "key") /\ (job'[q] = "raw" <=> job[q] = "raw")
  PROVE  Order(b)'
BY DEF Order, Keying

(* one more element *)
LEMMA Appended ==
  ASSUME NEW S, NEW ss \in Seq(S), NEW x \in S
  PROVE  /\ Append(ss, x) \in Seq(S) /\ <<x>> \in Seq(S) /\ Len(<<x>>) = 1
         /\ \A k \in 1 .. Len(Append(ss, x)) :
              (k \in 1 .. Len(ss) /\ Append(ss, x)[k] = ss[k]) \/ Append(ss, x)[k] = x
OBVIOUS

(* a read of a line that is there *)
LEMMA TakeLines ==
  ASSUME NEW b \in Nat, Hands, Lines(b), NEW p, ConsTakeLine(p)
  PROVE  Lines(b)'
<1>0. Doing(p, "read") /\ lineq # <<>>
  BY DEF ConsTakeLine
<1>1. /\ p \in Readers /\ want[p] \in Nat /\ want[p] > 0 /\ used \in Nat /\ job[p] = "read"
      /\ \A q \in Readers : q # p => ~Keying(q)
      /\ job \in [Readers -> Jobs]
  BY <1>0, Quiet
<1>2. \A q \in Readers : job[q] # "key" /\ job[q] # "raw"
  BY <1>1 DEF Keying
<1>3. b = used /\ buf = <<>>
  BY <1>2 DEF Lines, Order
<1>4. PICK x \in Seq(1 .. b) : lineq = <<x>>
  <2>1. lineq \in Seq(Seq(1 .. b)) /\ Len(lineq) <= 1
    BY DEF Lines, Finished
  <2>2. Len(lineq) = 1
    BY <1>0, <2>1
  <2>3. lineq[1] \in Seq(1 .. b) /\ lineq = <<lineq[1]>>
    BY <2>1, <2>2
  <2> QED BY <2>3
<1>5. PICK w \in Nat : w = want[p] /\ w > 0
  BY <1>1
<1>6. Head(lineq) = x /\ Tail(lineq) = <<>>
  BY <1>4
<1>7. /\ got' = Append(got, SubSeq(x, 1, LeastOf(Len(x), w)))
      /\ lineq' = (IF Len(x) > w THEN <<SubSeq(x, w + 1, Len(x))>> ELSE <<>>) \o <<>>
  BY <1>5, <1>6 DEF ConsTakeLine
<1>8. UNCHANGED <<line, buf, used, key, rawly, ends>> /\ job' = [job EXCEPT ![p] = "out"]
  BY DEF ConsTakeLine, Leave
<1>9. WholeIn(ends, x)
  <2>1. 1 \in 1 .. Len(lineq) /\ lineq[1] = x
    BY <1>4
  <2> QED BY <2>1 DEF Lines, Reads
<1>10. got \in Seq(Seq(1 .. b)) /\ <<>> \in Seq(1 .. b)
  BY DEF Lines, Finished
<1>11. /\ \A k \in 1 .. Len(got) : WholeIn(ends, got[k])
       /\ Cardinality(Empties(got)) + (IF x = <<>> THEN 1 ELSE 0) =
            Cardinality(BareIn(key, rawly, ends, used))
  BY <1>4, EmptiesOne DEF Lines, Reads
<1>12. PICK F \in Seq(1 .. b) : F = FlattenSeq(got)
  BY <1>10, FlatInSeq
<1>13. Lists(F \o x, KeptIn(key, rawly, ends, used, b))
  <2>1. FlattenSeq(lineq) = x
    BY <1>4, FlatOne
  <2>2. F \o <<>> = F
    BY <1>12
  <2>3. Done = F \o x
    BY <1>3, <1>12, <2>1, <2>2 DEF Done
  <2> QED BY <2>3 DEF Lines, Finished
(* what has to be shown of got and lineq *)
<1>14. SUFFICES /\ got' \in Seq(Seq(1 .. b)) /\ lineq' \in Seq(Seq(1 .. b)) /\ Len(lineq') <= 1
                /\ FlattenSeq(got') \o <<>> \o FlattenSeq(lineq') = F \o x
                /\ \A k \in 1 .. Len(got') : WholeIn(ends, got'[k])
                /\ \A k \in 1 .. Len(lineq') : WholeIn(ends, lineq'[k])
                /\ Cardinality(Empties(got')) + Cardinality(Empties(lineq')) =
                     Cardinality(Empties(got)) + (IF x = <<>> THEN 1 ELSE 0)
  <2>1. Finished(b)'
    <3>1. Done' = FlattenSeq(got') \o <<>> \o FlattenSeq(lineq')
      BY <1>3, <1>8 DEF Done
    <3>2. Lists(Done', KeptIn(key', rawly', ends', used', b))
      BY <1>8, <1>13, <1>14, <3>1
    <3> QED BY <1>8, <1>14, <3>2 DEF Lines, Finished
  <2>2. Order(b)'
    <3>1. \A q \in Readers : ~Keying(q)'
      <4>1. \A q \in Readers : job'[q] = job[q] \/ job'[q] = "out"
        BY <1>1, <1>8
      <4> QED BY <1>2, <4>1 DEF Keying
    <3> QED BY <1>3, <1>8, <3>1 DEF Order
  <2>3. Reads'
    BY <1>3, <1>8, <1>11, <1>14 DEF Reads
  <2> QED BY <1>8, <1>14, <2>1, <2>2, <2>3 DEF Lines
<1>15. CASE Len(x) > w
  <2>1. PICK y \in Seq(1 .. b), z \in Seq(1 .. b) :
          /\ y = SubSeq(x, 1, LeastOf(Len(x), w)) /\ z = SubSeq(x, w + 1, Len(x))
          /\ y \o z = x /\ x # <<>> /\ y # <<>> /\ z # <<>>
          /\ WholeIn(ends, y) /\ WholeIn(ends, z)
    BY <1>5, <1>9, <1>15, CutLine
  <2>2. got' = Append(got, y) /\ lineq' = <<z>>
    BY <1>7, <1>15, <2>1
  <2>0. PICK B : B = Seq(1 .. b) /\ got \in Seq(B) /\ y \in B /\ z \in B
    BY <1>10, <2>1
  <2>3. FlattenSeq(got') = F \o y /\ FlattenSeq(lineq') = z
    BY <1>10, <1>12, <2>1, <2>2, FlatAppend, FlatOne
  <2>4. F \o y \o <<>> \o z = F \o x
    <3>1. F \o y \in Seq(1 .. b) /\ (F \o y) \o z = F \o (y \o z)
      <4>1. PICK A : A = 1 .. b
        OBVIOUS
      <4>2. F \in Seq(A) /\ y \in Seq(A) /\ z \in Seq(A)
        BY <1>12, <2>1, <4>1
      <4>3. F \o y \in Seq(A) /\ (F \o y) \o z = F \o (y \o z)
        BY <4>2, ConcatAssociative, ConcatProperties
      <4> QED BY <4>1, <4>3
    <3>2. F \o y \o <<>> = F \o y
      BY <3>1, ConcatEmptySeq
    <3> QED BY <2>1, <3>1, <3>2
  <2>5. \A k \in 1 .. Len(got') : WholeIn(ends, got'[k])
    <3>1. \A k \in 1 .. Len(got') : (k \in 1 .. Len(got) /\ got'[k] = got[k]) \/ got'[k] = y
      BY <2>0, <2>2, Appended
    <3> QED BY <1>11, <2>1, <3>1
  <2>6. \A k \in 1 .. Len(lineq') : WholeIn(ends, lineq'[k])
    <3>1. \A k \in 1 .. Len(lineq') : lineq'[k] = z
      BY <2>2
    <3> QED BY <2>1, <3>1
  <2>7. /\ Cardinality(Empties(got)) \in Nat
        /\ Cardinality(Empties(got')) = Cardinality(Empties(got)) + 0
        /\ Cardinality(Empties(lineq')) = 0
    BY <1>10, <2>1, <2>2, OneMore, EmptiesOne
  <2>8. got' \in Seq(Seq(1 .. b)) /\ lineq' \in Seq(Seq(1 .. b)) /\ Len(lineq') <= 1
    BY <2>0, <2>2, Appended
  <2>9. FlattenSeq(got') \o <<>> \o FlattenSeq(lineq') = F \o x
    BY <2>3, <2>4
  <2>10. Cardinality(Empties(got')) + Cardinality(Empties(lineq')) =
           Cardinality(Empties(got)) + (IF x = <<>> THEN 1 ELSE 0)
    <3>1. x # <<>>
      BY <2>1
    <3>2. (IF x = <<>> THEN 1 ELSE 0) = 0
      BY <3>1
    <3>3. Cardinality(Empties(got')) + Cardinality(Empties(lineq')) = Cardinality(Empties(got)) + 0
      BY <2>7
    <3> QED BY <3>2, <3>3
  <2> QED BY <2>5, <2>6, <2>8, <2>9, <2>10
<1>16. CASE ~(Len(x) > w)
  <2>1. SubSeq(x, 1, LeastOf(Len(x), w)) = x
    BY <1>5, <1>9, <1>16, CutLine
  <2>2. got' = Append(got, x) /\ lineq' = <<>>
    BY <1>7, <1>16, <2>1
  <2>3. FlattenSeq(got') = F \o x /\ FlattenSeq(lineq') = <<>>
    BY <1>4, <1>10, <1>12, <2>2, FlatAppend, FlatOne
  <2>4. F \o x \o <<>> \o <<>> = F \o x
    BY <1>4, <1>12
  <2>5. \A k \in 1 .. Len(got') : WholeIn(ends, got'[k])
    <3>1. \A k \in 1 .. Len(got') : (k \in 1 .. Len(got) /\ got'[k] = got[k]) \/ got'[k] = x
      BY <1>4, <1>10, <2>2
    <3> QED BY <1>9, <1>11, <3>1
  <2>6. \A k \in 1 .. Len(lineq') : WholeIn(ends, lineq'[k])
    BY <2>2
  <2>7. /\ Cardinality(Empties(got)) \in Nat
        /\ Cardinality(Empties(got')) = Cardinality(Empties(got)) + (IF x = <<>> THEN 1 ELSE 0)
        /\ Cardinality(Empties(lineq')) = 0
    BY <1>4, <1>10, <2>2, OneMore, EmptiesOne
  <2>8. got' \in Seq(Seq(1 .. b)) /\ lineq' \in Seq(Seq(1 .. b)) /\ Len(lineq') <= 1
    BY <1>4, <1>10, <2>2
  <2> QED BY <2>3, <2>4, <2>5, <2>6, <2>7, <2>8
<1> QED BY <1>15, <1>16
(* joining sequences of numbers *)
LEMMA Joined ==
  ASSUME NEW s \in Seq(Nat), NEW t \in Seq(Nat), NEW u \in Seq(Nat)
  PROVE  (s \o t) \o u = s \o (t \o u)
BY ConcatAssociative

(* a raw read has got bytes *)
LEMMA RawLines ==
  ASSUME NEW b \in Nat, Hands, Lines(b), NEW p, ConsRawRead(p)
  PROVE  \E g \in Nat : Lines(g)'
<1>0. Doing(p, "raw")
  BY DEF ConsRawRead
<1>1. /\ p \in Readers /\ used \in Nat /\ job[p] = "raw" /\ used < gone
      /\ \A q \in Readers : q # p => ~Keying(q)
      /\ job \in [Readers -> Jobs]
  BY <1>0, Quiet
<1>2. PICK g \in Nat : g = gone /\ used < g
  BY <1>0, <1>1, Quiet
<1>3. b = used /\ lineq = <<>>
  BY <1>1 DEF Lines, Order, Keying
<1>4. line = <<>>
  BY <1>3, NoLine DEF Lines
<1>5. PICK r : r = [i \in 1 .. g - b |-> b + i]
  OBVIOUS
<1>6. /\ UNCHANGED <<line, lineq, key, ends>> /\ used' = g /\ rawly' = rawly \cup (b + 1 .. g)
      /\ \/ buf' = buf \o r /\ UNCHANGED <<got, job>>
         \/ got' = Append(got, buf \o r) /\ buf' = <<>> /\ job' = [job EXCEPT ![p] = "out"]
  BY <1>2, <1>3, <1>5 DEF ConsRawRead, Leave
<1>7. /\ FinishedIn(rawly, ends, b)
      /\ got \in Seq(Seq(1 .. b)) /\ buf \in Seq(1 .. b)
      /\ Lists(Done, KeptIn(key, rawly, ends, b, b))
  BY <1>3 DEF Lines, Finished
<1>8. /\ FinishedIn(rawly', ends, g)
      /\ KeptIn(key, rawly', ends, g, g) = KeptIn(key, rawly, ends, b, b) \cup (b + 1 .. g)
      /\ BareIn(key, rawly', ends, g) = BareIn(key, rawly, ends, b)
  <2>1. b <= g
    BY <1>2, <1>3
  <2>2. PICK R2 : R2 = rawly \cup (b + 1 .. g)
    OBVIOUS
  <2>3. /\ FinishedIn(R2, ends, g)
        /\ KeptIn(key, R2, ends, g, g) = KeptIn(key, rawly, ends, b, b) \cup (b + 1 .. g)
        /\ BareIn(key, R2, ends, g) = BareIn(key, rawly, ends, b)
    <3>1. FinishedIn(rawly, ends, b)
      BY <1>7
    <3> QED BY <2>1, <2>2, <3>1, RawKept
  <2>4. rawly' = R2
    BY <1>6, <2>2
  <2> QED BY <2>3, <2>4
<1>9. /\ r \in Seq(1 .. g) /\ r \in Seq(Nat) /\ Len(r) = g - b /\ r # <<>>
      /\ \A i \in 1 .. Len(r) : r[i] \in b + 1 .. g
  <2>1. g - b \in Nat /\ g - b # 0 /\ \A i \in 1 .. g - b : b + i \in 1 .. g /\ b + i \in Nat /\ b + i \in b + 1 .. g
    BY <1>2, <1>3
  <2>2. [i \in 1 .. g - b |-> b + i] \in Seq(1 .. g) /\ [i \in 1 .. g - b |-> b + i] \in Seq(Nat)
    BY <2>1, IsASeq
  <2>3. Len(r) = g - b
    BY <1>5, <2>1
  <2>4. \A i \in 1 .. g - b : r[i] = b + i
    BY <1>5
  <2>5. r # <<>>
    BY <2>1, <2>3
  <2> QED BY <1>5, <2>1, <2>2, <2>3, <2>4, <2>5
<1>10. PICK F \in Seq(1 .. b) : F = FlattenSeq(got)
  BY <1>7, FlatInSeq
<1>11. PICK v \in Seq(1 .. g) : v = buf \o r
  <2>1. PICK A : A = 1 .. g
    OBVIOUS
  <2>2. buf \in Seq(A) /\ r \in Seq(A)
    BY <1>2, <1>3, <1>7, <1>9, <2>1, SeqMono
  <2>3. buf \o r \in Seq(A)
    BY <2>2, ConcatProperties
  <2> QED BY <2>1, <2>3
<1>12. got \in Seq(Seq(1 .. g)) /\ F \in Seq(1 .. g) /\ F \in Seq(Nat)
  BY <1>2, <1>3, <1>7, SeqMono
<1>13. Lists(F \o v, KeptIn(key, rawly', ends, g, g))
  <2>1. buf \in Seq(Nat) /\ b <= g
    BY <1>2, <1>3, <1>7, SeqMono
  <2>2. FlattenSeq(lineq) = <<>>
    BY <1>3, <1>9, FlatOne
  <2>3. PICK d \in Seq(Nat) : d = F \o buf
    BY <1>12, <2>1, ConcatProperties
  <2>4. Done = d
    <3>1. d \o <<>> = d
      BY <2>3, ConcatEmptySeq
    <3> QED BY <1>10, <2>2, <2>3, <3>1 DEF Done
  <2>5. Lists(r, b + 1 .. g)
    BY <1>5, <2>1, ListsInterval
  <2>6. \A i \in KeptIn(key, rawly, ends, b, b), j \in b + 1 .. g : i < j
    BY DEF KeptIn
  <2>7. Lists(d \o r, KeptIn(key, rawly, ends, b, b) \cup (b + 1 .. g))
    BY <1>7, <1>9, <2>4, <2>5, <2>6, ListsConcat
  <2>8. d \o r = F \o v
    <3>1. F \in Seq(Nat) /\ buf \in Seq(Nat) /\ r \in Seq(Nat)
      BY <1>9, <1>12, <2>1
    <3>2. (F \o buf) \o r = F \o (buf \o r)
      BY <3>1, Joined
    <3> QED BY <1>11, <2>3, <3>2
  <2> QED BY <1>8, <2>7, <2>8
<1>14. /\ \A k \in 1 .. Len(got) : WholeIn(ends, got[k])
       /\ \A k \in 1 .. Len(buf) : \A e \in ends : e < buf[k]
       /\ Cardinality(Empties(got)) = Cardinality(BareIn(key, rawly, ends, b))
       /\ Cardinality(Empties(got)) \in Nat
  <2>1. Cardinality(Empties(got)) \in Nat
    <3>1. <<>> \in Seq(1 .. b)
      OBVIOUS
    <3> QED BY <1>7, <3>1, OneMore
  <2>2. Cardinality(Empties(lineq)) = 0
    BY <1>3, EmptiesOne
  <2> QED BY <1>3, <2>1, <2>2 DEF Lines, Reads
<1>15. \A k \in 1 .. Len(v) : \A e \in ends : e < v[k]
  <2>1. \A e \in ends : e \in Nat /\ e <= b
    <3>1. \A e \in ends : e \in 1 .. b
      BY <1>7 DEF FinishedIn
    <3> QED BY <3>1
  <2>2. \A k \in 1 .. Len(v) : \/ k \in 1 .. Len(buf) /\ v[k] = buf[k]
                               \/ k - Len(buf) \in 1 .. Len(r) /\ v[k] = r[k - Len(buf)]
    <3>1. buf \in Seq(Nat)
      BY <1>2, <1>3, <1>7, SeqMono
    <3>2. /\ Len(v) = Len(buf) + Len(r) /\ Len(buf) \in Nat /\ Len(r) \in Nat
          /\ \A i \in 1 .. Len(buf) + Len(r) : v[i] = IF i <= Len(buf) THEN buf[i] ELSE r[i - Len(buf)]
      <4>1. /\ Len(buf \o r) = Len(buf) + Len(r) /\ Len(buf) \in Nat /\ Len(r) \in Nat
            /\ \A i \in 1 .. Len(buf) + Len(r) : (buf \o r)[i] = IF i <= Len(buf) THEN buf[i] ELSE r[i - Len(buf)]
        <5>1. r \in Seq(Nat)
          BY <1>9
        <5> QED BY <3>1, <5>1, ConcatProperties
      <4> QED BY <1>11, <4>1
    <3>3. ASSUME NEW k \in 1 .. Len(v)
          PROVE  \/ k \in 1 .. Len(buf) /\ v[k] = buf[k]
                 \/ k - Len(buf) \in 1 .. Len(r) /\ v[k] = r[k - Len(buf)]
      BY <3>2
    <3> QED BY <3>3
  <2>3. \A k \in 1 .. Len(r) : \A e \in ends : e < r[k]
    <3>1. ASSUME NEW k \in 1 .. Len(r), NEW e \in ends PROVE e < r[k]
      <4>1. r[k] \in b + 1 .. g
        BY <1>9
      <4> QED BY <2>1, <4>1
    <3> QED BY <3>1
  <2> QED BY <1>14, <2>2, <2>3
<1>16. WholeIn(ends, v) /\ v # <<>>
  <2>1. WholeIn(ends, v)
    <3>1. ASSUME NEW e \in ends, NEW i \in 1 .. Len(v), v[i] <= e PROVE FALSE
      <4>1. e < v[i] /\ e \in Nat /\ v[i] \in Nat
        <5>1. e \in 1 .. b /\ v[i] \in 1 .. g
          BY <1>7, <1>11 DEF FinishedIn
        <5> QED BY <1>15, <5>1
      <4> QED BY <3>1, <4>1
    <3> QED BY <3>1 DEF WholeIn
  <2>2. v # <<>>
    <3>1. buf \in Seq(Nat)
      BY <1>2, <1>3, <1>7, SeqMono
    <3>2. Len(v) = Len(buf) + Len(r) /\ Len(buf) \in Nat /\ Len(r) \in Nat
      <4>1. Len(buf \o r) = Len(buf) + Len(r) /\ Len(buf) \in Nat /\ Len(r) \in Nat
        <5>1. r \in Seq(Nat)
          BY <1>9
        <5> QED BY <3>1, <5>1, ConcatProperties
      <4> QED BY <1>11, <4>1
    <3>3. Len(r) # 0
      BY <1>9
    <3>4. Len(v) # 0
      BY <3>2, <3>3
    <3> QED BY <3>4
  <2> QED BY <2>1, <2>2
<1>17. EditingIn(line', key', g, used') /\ Len(line') < LineMax /\ Len(lineq') <= 1 /\ lineq' \in Seq(Seq(1 .. g))
  <2>1. LineMax > 0 /\ Len(<<>>) = 0
    BY LineMaxPos
  <2>2. <<>> \in Seq(Seq(1 .. g))
    OBVIOUS
  <2> QED BY <1>3, <1>4, <1>6, <2>1, <2>2, NoLine
<1>18. FlattenSeq(lineq') = <<>> /\ Cardinality(Empties(lineq')) = 0
  BY <1>3, <1>6, <1>9, FlatOne, EmptiesOne
<1>19. CASE buf' = buf \o r /\ UNCHANGED <<got, job>>
  <2>1. Done' = F \o v
    <3>1. F \o v \in Seq(1 .. g)
      <4>1. PICK A : A = 1 .. g
        OBVIOUS
      <4>2. F \o v \in Seq(A)
        BY <1>11, <1>12, <4>1, ConcatProperties
      <4> QED BY <4>1, <4>2
    <3>2. F \o v \o <<>> = F \o v
      BY <3>1, ConcatEmptySeq
    <3> QED BY <1>10, <1>11, <1>18, <1>19, <3>2 DEF Done
  <2>2. Lists(Done', KeptIn(key', rawly', ends', used', g))
    BY <1>6, <1>13, <2>1
  <2>3. Finished(g)'
    <3>1. FinishedIn(rawly', ends', g) /\ g <= used'
      BY <1>6, <1>8
    <3>2. got' \in Seq(Seq(1 .. g)) /\ buf' \in Seq(1 .. g) /\ lineq' \in Seq(Seq(1 .. g))
      BY <1>11, <1>12, <1>17, <1>19
    <3> QED BY <2>2, <3>1, <3>2 DEF Finished
  <2>4. Order(g)'
    BY <1>1, <1>3, <1>6, <1>19 DEF Order
  <2>5. Reads'
    BY <1>3, <1>6, <1>8, <1>11, <1>14, <1>15, <1>18, <1>19 DEF Reads
  <2> QED BY <1>17, <2>3, <2>4, <2>5 DEF Lines
<1>20. CASE got' = Append(got, buf \o r) /\ buf' = <<>> /\ job' = [job EXCEPT ![p] = "out"]
  <2>0. PICK B : B = Seq(1 .. g) /\ got \in Seq(B) /\ v \in B /\ got' = Append(got, v)
    BY <1>11, <1>12, <1>20
  <2>1. Done' = F \o v
    <3>1. FlattenSeq(got') = F \o v
      BY <1>10, <1>11, <1>12, <2>0, FlatAppend
    <3>2. F \o v \in Seq(1 .. g)
      <4>1. PICK A : A = 1 .. g
        OBVIOUS
      <4>2. F \o v \in Seq(A)
        BY <1>11, <1>12, <4>1, ConcatProperties
      <4> QED BY <4>1, <4>2
    <3>3. F \o v \o <<>> \o <<>> = F \o v
      BY <3>2, ConcatEmptySeq
    <3> QED BY <1>18, <1>20, <3>1, <3>3 DEF Done
  <2>2. Lists(Done', KeptIn(key', rawly', ends', used', g))
    BY <1>6, <1>13, <2>1
  <2>3. got' \in Seq(Seq(1 .. g)) /\ buf' \in Seq(1 .. g)
    <3>1. got' \in Seq(B)
      BY <2>0, Appended
    <3>2. <<>> \in Seq(1 .. g)
      OBVIOUS
    <3> QED BY <1>20, <2>0, <3>1, <3>2
  <2>4. Finished(g)'
    BY <1>6, <1>8, <1>17, <2>2, <2>3 DEF Finished
  <2>5. Order(g)'
    BY <1>3, <1>6, <1>20 DEF Order
  <2>6. \A k \in 1 .. Len(got') : WholeIn(ends, got'[k])
    <3>1. \A k \in 1 .. Len(Append(got, v)) :
            (k \in 1 .. Len(got) /\ Append(got, v)[k] = got[k]) \/ Append(got, v)[k] = v
      <4>1. got \in Seq(B) /\ v \in B
        BY <2>0
      <4> QED BY <4>1, Appended
    <3>2. \A k \in 1 .. Len(got') : (k \in 1 .. Len(got) /\ got'[k] = got[k]) \/ got'[k] = v
      BY <2>0, <3>1
    <3> QED BY <1>14, <1>16, <3>2
  <2>7. Cardinality(Empties(got')) = Cardinality(Empties(got)) + 0
    BY <1>16, <2>0, OneMore
  <2>8. Reads'
    <3>1. Cardinality(Empties(got')) + Cardinality(Empties(lineq')) = Cardinality(BareIn(key', rawly', ends', used'))
      BY <1>6, <1>8, <1>14, <1>18, <2>7
    <3> QED BY <1>3, <1>6, <1>20, <2>6, <3>1 DEF Reads
  <2> QED BY <1>17, <2>4, <2>5, <2>8 DEF Lines
<1> QED BY <1>6, <1>19, <1>20
(* what is completed is what is left of the keys typed for the line *)
LEMMA LineEdits ==
  ASSUME NEW b \in Nat, Hands, Lines(b), NEW p, Doing(p, "key"), NEW g \in Nat, g = gone,
         NEW l, l = Edit(gone)
  PROVE  /\ b <= used /\ used + 1 = g
         /\ IF key[g] = "eof" THEN EditingIn(Front(l), key, b, g) ELSE EditingIn(l, key, b, g)
         /\ Len(l) \in Nat /\ Len(l) <= Len(line) + 1
<1>1. used \in Nat /\ used + 1 = g /\ sent \in Nat /\ g <= sent
  <2>1. Room(p) = 1
    BY DEF Doing, Room
  <2>2. used \in Nat /\ gone \in Nat /\ sent \in Nat /\ used < gone /\ gone <= used + Room(p) /\ gone <= sent
    BY Quiet
  <2> QED BY <2>1, <2>2
<1>2. b <= used /\ EditingIn(line, key, b, used)
  BY DEF Lines, Finished
<1>3. key[g] \in {"char", "rune", "bs", "kill", "nl", "eof"}
  <2>1. key \in Seq(Keys) /\ Len(key) = sent
    BY DEF Hands, Typed
  <2>2. g \in 1 .. Len(key)
    BY <1>1, <2>1
  <2>3. key[g] \in Keys
    BY <2>1, <2>2
  <2> QED BY <2>3, KeysAreKinds
<1>4. l = EditIn(key, line, g)
  BY DEF Edit, EditIn
<1>5. line \in Seq(Nat)
  BY <1>1, <1>2, OfLine
<1>6. IF key[used + 1] = "eof" THEN EditingIn(line, key, b, used + 1)
      ELSE EditingIn(EditIn(key, line, used + 1), key, b, used + 1)
  <2>1. key[used + 1] \in {"char", "rune", "bs", "kill", "nl", "eof"}
    BY <1>1, <1>3
  <2> QED BY <1>1, <1>2, <2>1, KeyEdits
<1>7. key[g] = "eof" => Front(l) = line
  <2>1. ASSUME key[g] = "eof" PROVE Front(l) = line
    <3>1. l = Append(line, g)
      BY <1>4, <2>1 DEF EditIn
    <3>2. Len(l) = Len(line) + 1 /\ SubSeq(Append(line, g), 1, Len(line)) = line
      BY <1>5, <3>1
    <3>3. Len(l) - 1 = Len(line)
      <4>1. Len(line) \in Nat
        BY <1>5
      <4> QED BY <3>2, <4>1
    <3> QED BY <3>1, <3>2, <3>3 DEF Front
  <2> QED BY <2>1
<1>8. Len(l) \in Nat /\ Len(l) <= Len(line) + 1
  <2>1. CASE key[g] = "bs" /\ line # <<>>
    <3>1. l = SubSeq(line, 1, Len(line) - 1)
      BY <1>4, <2>1 DEF EditIn, Front
    <3>2. PICK c \in Nat : c = Len(line) /\ c - 1 \in Nat
      BY <1>5, <2>1
    <3>3. \A i \in 1 .. c - 1 : line[i] \in Nat
      BY <1>5, <3>2
    <3>4. Len(SubSeq(line, 1, c - 1)) = IF 1 <= c - 1 THEN c - 1 - 1 + 1 ELSE 0
      <4>1. 1 \in Int /\ c - 1 \in Int
        BY <3>2
      <4> QED BY <3>3, <4>1, SubSeqProperties
    <3> QED BY <3>1, <3>2, <3>4
  <2>2. CASE key[g] = "bs" /\ line = <<>>
    <3>1. l = line
      BY <1>4, <2>2 DEF EditIn
    <3> QED BY <1>5, <3>1
  <2>3. CASE key[g] = "kill"
    <3>1. l = <<>>
      BY <1>4, <2>3 DEF EditIn
    <3> QED BY <1>5, <3>1
  <2>4. CASE key[g] # "bs" /\ key[g] # "kill"
    <3>1. l = Append(line, g)
      BY <1>4, <2>4 DEF EditIn
    <3> QED BY <1>5, <3>1
  <2> QED BY <2>1, <2>2, <2>3, <2>4
<1> QED BY <1>1, <1>2, <1>4, <1>6, <1>7, <1>8

(* the line editor has got a byte, which does not complete the line *)
LEMMA KeyLines ==
  ASSUME NEW b \in Nat, Hands, Lines(b), NEW p, ConsKey(p), ~Complete(Edit(gone), gone),
         line' = Edit(gone), UNCHANGED <<lineq, ends, job, got>>
  PROVE  Lines(b)'
<1>0. Doing(p, "key")
  BY DEF ConsKey
<1>1. /\ p \in Readers /\ job[p] = "key" /\ gone \in Nat /\ used \in Nat
      /\ \A q \in Readers : q # p => ~Keying(q)
  BY <1>0, Quiet
<1>2. PICK g \in Nat : g = gone
  BY <1>1
<1>3. PICK l : l = Edit(gone)
  OBVIOUS
<1>4. /\ b <= used /\ used + 1 = g
      /\ key[g] # "eof" => EditingIn(l, key, b, g)
      /\ Len(l) \in Nat /\ Len(l) <= Len(line) + 1
  BY <1>0, <1>2, <1>3, LineEdits
<1>5. UNCHANGED <<key, rawly, buf>> /\ used' = g /\ line' = l
  BY <1>2, <1>3 DEF ConsKey
<1>6. Len(l) # LineMax /\ key[g] # "eof"
  BY <1>2, <1>3 DEF Complete
<1>7. Len(l) < LineMax
  <2>1. Len(line) < LineMax /\ LineMax \in Nat
    BY LineMaxPos DEF Lines
  <2>2. Len(line) \in Nat
    <3>1. EditingIn(line, key, b, used)
      BY DEF Lines
    <3>2. line \in Seq(Nat)
      BY <1>1, <1>4, <3>1, OfLine
    <3> QED BY <3>2
  <2> QED BY <1>4, <1>6, <2>1, <2>2
<1>8. FinishedIn(rawly, ends, b) /\ ends \subseteq Nat
  <2>1. FinishedIn(rawly, ends, b)
    BY DEF Lines, Finished
  <2> QED BY <2>1 DEF FinishedIn
<1>9. After(key, rawly, ends, key, rawly, ends, b)
  BY <1>8 DEF After
<1>10. /\ KeptIn(key, rawly, ends, g, b) = KeptIn(key, rawly, ends, used, b)
       /\ BareIn(key, rawly, ends, g) = BareIn(key, rawly, ends, used)
  <2>1. KeptIn(key, rawly, ends, g, b) = KeptIn(key, rawly, ends, used, b)
    BY <1>8, <1>9, KeptStays
  <2>2. \A e \in ends : e \in BareIn(key, rawly, ends, g) <=> e \in BareIn(key, rawly, ends, used)
    BY <1>8, <1>9, BareStays
  <2>3. \A e : e \in BareIn(key, rawly, ends, g) \/ e \in BareIn(key, rawly, ends, used) => e \in ends
    BY DEF BareIn
  <2> QED BY <2>1, <2>2, <2>3
<1>11. Finished(b)'
  <2>1. Done' = Done
    BY <1>5 DEF Done
  <2>2. b <= g
    BY <1>1, <1>4
  <2> QED BY <1>5, <1>10, <2>1, <2>2 DEF Lines, Finished
<1>12. Order(b)'
  <2>1. \E q \in Readers : job'[q] = "key"
    BY <1>1
  <2> QED BY <1>5, <2>1 DEF Lines, Order, Keying
<1>13. Reads'
  BY <1>5, <1>10 DEF Lines, Reads
<1>14. EditingIn(line', key', b, used')
  BY <1>4, <1>5, <1>6
<1> QED BY <1>5, <1>7, <1>11, <1>12, <1>13, <1>14 DEF Lines

(* the byte that completes a line *)
Completes(p) ==
  /\ LineqWrite(IF key[gone] = "eof" THEN Front(Edit(gone)) ELSE Edit(gone))
  /\ line' = <<>> /\ ends' = ends \cup {gone}
  /\ job' = [job EXCEPT ![p] = "read"] /\ UNCHANGED got

(* the line editor has got it *)
LEMMA EndLines ==
  ASSUME NEW b \in Nat, Hands, Lines(b), NEW p, ConsKey(p), Completes(p)
  PROVE  \E g \in Nat : Lines(g)'
<1>0. Doing(p, "key")
  BY DEF ConsKey
<1>1. /\ p \in Readers /\ job[p] = "key" /\ gone \in Nat /\ used \in Nat
      /\ job \in [Readers -> Jobs]
      /\ \A q \in Readers : q # p => ~Keying(q)
  BY <1>0, Quiet
<1>2. PICK g \in Nat : g = gone
  BY <1>1
<1>3. PICK m : m = IF key[gone] = "eof" THEN Front(Edit(gone)) ELSE Edit(gone)
  OBVIOUS
<1>4. b <= used /\ used + 1 = g /\ EditingIn(m, key, b, g)
  <2>1. PICK l : l = Edit(gone)
    OBVIOUS
  <2>2. /\ b <= used /\ used + 1 = g
        /\ IF key[g] = "eof" THEN EditingIn(Front(l), key, b, g) ELSE EditingIn(l, key, b, g)
    BY <1>0, <1>2, <2>1, LineEdits
  <2>3. m = IF key[g] = "eof" THEN Front(l) ELSE l
    BY <1>2, <1>3, <2>1
  <2> QED BY <2>2, <2>3
<1>5. lineq = <<>> /\ buf = <<>>
  BY <1>1 DEF Lines, Order, Keying
<1>6. UNCHANGED <<key, rawly, buf, got>> /\ used' = g /\ lineq' = <<m>> /\ line' = <<>>
  <2>1. lineq' = Append(lineq, m)
    BY <1>3 DEF LineqWrite, Completes
  <2>2. Append(<<>>, m) = <<m>>
    OBVIOUS
  <2> QED BY <1>2, <1>5, <2>1, <2>2 DEF ConsKey, Completes
<1>7. b < g
  BY <1>1, <1>4
<1>8. /\ FinishedIn(rawly, ends, b) /\ got \in Seq(Seq(1 .. b))
      /\ Lists(Done, KeptIn(key, rawly, ends, used, b))
  BY DEF Lines, Finished
<1>9. /\ FinishedIn(rawly, ends', g)
      /\ KeptIn(key, rawly, ends', g, g) = KeptIn(key, rawly, ends, used, b) \cup LeftIn(key, b, g)
      /\ LeftIn(key, b, g) = {} =>
           BareIn(key, rawly, ends', g) = BareIn(key, rawly, ends, used) \cup {g}
      /\ LeftIn(key, b, g) # {} => BareIn(key, rawly, ends', g) = BareIn(key, rawly, ends, used)
  <2>1. PICK E2 : E2 = ends \cup {g} /\ ends' = E2
    BY <1>2 DEF Completes
  <2>2. /\ FinishedIn(rawly, E2, g)
        /\ KeptIn(key, rawly, E2, g, g) = KeptIn(key, rawly, ends, used, b) \cup LeftIn(key, b, g)
        /\ LeftIn(key, b, g) = {} =>
             BareIn(key, rawly, E2, g) = BareIn(key, rawly, ends, used) \cup {g}
        /\ LeftIn(key, b, g) # {} => BareIn(key, rawly, E2, g) = BareIn(key, rawly, ends, used)
    <3>1. FinishedIn(rawly, ends, b)
      BY <1>8
    <3>2. Ended(key, rawly, ends, used, b, E2, g)
      BY <1>7, <2>1, <3>1, LineKept
    <3> QED BY <3>2 DEF Ended
  <2> QED BY <2>1, <2>2
<1>10. /\ m \in Seq(Nat) /\ m \in Seq(1 .. g) /\ Lists(m, LeftIn(key, b, g))
       /\ \A k \in 1 .. Len(m) : m[k] \in b + 1 .. g
       /\ m = <<>> <=> LeftIn(key, b, g) = {}
  <2>0. b <= g
    BY <1>7
  <2>1. /\ m \in Seq(Nat) /\ \A k \in 1 .. Len(m) : m[k] \in b + 1 .. g /\ m[k] \in LeftIn(key, b, g)
        /\ \A i \in LeftIn(key, b, g) : \E k \in 1 .. Len(m) : m[k] = i
    <3>1. EditingIn(m, key, b, g)
      BY <1>4
    <3>2. m \in Seq(Nat) /\ \A k \in 1 .. Len(m) : m[k] \in b + 1 .. g /\ m[k] \in LeftIn(key, b, g)
      BY <2>0, <3>1, OfLine
    <3>3. \A i \in LeftIn(key, b, g) : \E k \in 1 .. Len(m) : m[k] = i
      <4>1. Range(m) = LeftIn(key, b, g)
        BY <3>1 DEF EditingIn, Lists
      <4>2. DOMAIN m = 1 .. Len(m)
        BY <3>2
      <4> QED BY <4>1, <4>2 DEF Range
    <3> QED BY <3>2, <3>3
  <2>2. m \in Seq(1 .. g)
    <3>1. Len(m) \in Nat /\ m = [k \in 1 .. Len(m) |-> m[k]]
      BY <2>1
    <3>2. \A k \in 1 .. Len(m) : m[k] \in 1 .. g
      <4>1. \A x \in b + 1 .. g : x \in 1 .. g
        OBVIOUS
      <4> QED BY <2>1, <4>1
    <3>3. [k \in 1 .. Len(m) |-> m[k]] \in Seq(1 .. g)
      BY <3>1, <3>2, IsASeq
    <3> QED BY <3>1, <3>3
  <2>3. m = <<>> <=> LeftIn(key, b, g) = {}
    <3>1. ASSUME m = <<>> PROVE LeftIn(key, b, g) = {}
      <4>1. 1 .. Len(m) = {}
        BY <3>1
      <4> QED BY <2>1, <4>1
    <3>2. ASSUME LeftIn(key, b, g) = {} PROVE m = <<>>
      <4>1. 1 .. Len(m) = {}
        BY <2>1, <3>2
      <4>2. Len(m) \in Nat
        BY <2>1
      <4>3. Len(m) = 0
        <5>1. Len(m) # 0 => 1 \in 1 .. Len(m)
          BY <4>2
        <5> QED BY <4>1, <5>1
      <4> QED BY <2>1, <4>3
    <3> QED BY <3>1, <3>2
  <2>4. Lists(m, LeftIn(key, b, g))
    BY <1>4 DEF EditingIn
  <2> QED BY <2>1, <2>2, <2>3, <2>4
<1>11. PICK F \in Seq(Nat) : F = FlattenSeq(got)
  <2>1. FlattenSeq(got) \in Seq(1 .. b)
    BY <1>8, FlatInSeq
  <2> QED BY <2>1, SeqMono
<1>12. Lists(F \o m, KeptIn(key, rawly, ends', g, g))
  <2>1. FlattenSeq(lineq) = <<>>
    BY <1>5, <1>10, FlatOne
  <2>2. F \o <<>> = F
    BY <1>11, ConcatEmptySeq
  <2>3. Done = F
    BY <1>5, <1>11, <2>1, <2>2 DEF Done
  <2>4. \A i \in KeptIn(key, rawly, ends, used, b), j \in LeftIn(key, b, g) : i < j
    BY DEF KeptIn, LeftIn
  <2>5. Lists(F, KeptIn(key, rawly, ends, used, b))
    BY <1>8, <2>3
  <2>6. Lists(F \o m, KeptIn(key, rawly, ends, used, b) \cup LeftIn(key, b, g))
    BY <1>10, <1>11, <2>4, <2>5, ListsConcat
  <2> QED BY <1>9, <2>6
<1>13. Done' = F \o m
  <2>1. FlattenSeq(lineq') = m
    BY <1>6, <1>10, FlatOne
  <2>2. F \o <<>> = F
    BY <1>11, ConcatEmptySeq
  <2>3. FlattenSeq(got') = F /\ buf' = <<>>
    BY <1>5, <1>6, <1>11
  <2> QED BY <2>1, <2>2, <2>3 DEF Done
<1>14. Finished(g)'
  <2>1. got' \in Seq(Seq(1 .. g))
    BY <1>6, <1>7, <1>8, SeqMono
  <2>2. lineq' \in Seq(Seq(1 .. g)) /\ buf' \in Seq(1 .. g)
    <3>1. lineq' \in Seq(Seq(1 .. g))
      BY <1>6, <1>10
    <3>2. buf' \in Seq(1 .. g)
      BY <1>5, <1>6
    <3> QED BY <3>1, <3>2
  <2>3. Lists(Done', KeptIn(key', rawly', ends', used', g))
    BY <1>6, <1>12, <1>13
  <2>4. FinishedIn(rawly', ends', g) /\ g <= used'
    BY <1>6, <1>9
  <2> QED BY <2>1, <2>2, <2>3, <2>4 DEF Finished
<1>15. EditingIn(line', key', g, used') /\ Len(line') < LineMax /\ Len(lineq') <= 1
  <2>1. LineMax > 0 /\ Len(<<>>) = 0 /\ Len(<<m>>) = 1
    BY LineMaxPos
  <2> QED BY <1>6, <2>1, NoLine
<1>16. Order(g)'
  <2>1. \A q \in Readers : ~Keying(q)'
    <3>1. job'[p] = "read" /\ \A q \in Readers : q # p => job'[q] = job[q]
      BY <1>1 DEF Completes
    <3> QED BY <1>1, <3>1 DEF Keying
  <2> QED BY <1>5, <1>6, <2>1 DEF Order
<1>17. \A e \in ends : e \in 1 .. b
  BY <1>8 DEF FinishedIn
<1>18. WholeIn(ends', m)
  <2>1. ASSUME NEW e \in ends', NEW i \in 1 .. Len(m), NEW j \in 1 .. Len(m), m[i] <= e, e < m[j]
        PROVE  FALSE
    <3>1. m[i] \in b + 1 .. g /\ m[j] \in b + 1 .. g
      BY <1>10
    <3>2. e \in 1 .. b \/ e = g
      BY <1>2, <1>17 DEF Completes
    <3> QED BY <2>1, <3>1, <3>2
  <2> QED BY <2>1 DEF WholeIn
<1>19. \A k \in 1 .. Len(got') : WholeIn(ends', got'[k])
  <2>1. ASSUME NEW k \in 1 .. Len(got) PROVE WholeIn(ends', got[k])
    <3>1. WholeIn(ends, got[k])
      BY DEF Lines, Reads
    <3>2. PICK s \in Seq(1 .. b) : s = got[k]
      BY <1>8
    <3>3. \A j \in 1 .. Len(s) : ~(g < s[j])
      <4>1. \A j \in 1 .. Len(s) : s[j] \in 1 .. b
        OBVIOUS
      <4> QED BY <1>7, <4>1
    <3>4. \A e \in ends' : e \in ends \/ e = g
      BY <1>2 DEF Completes
    <3> QED BY <3>1, <3>2, <3>3, <3>4 DEF WholeIn
  <2> QED BY <1>6, <2>1
<1>20. Cardinality(BareIn(key, rawly, ends', g)) =
         Cardinality(BareIn(key, rawly, ends, used)) + (IF m = <<>> THEN 1 ELSE 0)
  <2> DEFINE B == BareIn(key, rawly, ends, used)
  <2>1. B \subseteq ends
    BY DEF BareIn
  <2>2. IsFiniteSet(1 .. b)
    <3>1. 1 \in Int /\ b \in Int
      OBVIOUS
    <3> QED BY <3>1, FS_Interval
  <2>3. B \subseteq 1 .. b
    BY <1>17, <2>1
  <2>4. IsFiniteSet(B) /\ g \notin B
    <3>1. g \notin 1 .. b
      BY <1>7
    <3> QED BY <2>2, <2>3, <3>1, FS_Subset
  <2> HIDE DEF B
  <2>5. Cardinality(B) \in Nat /\ Cardinality(B \cup {g}) = Cardinality(B) + 1
    BY <2>4, FS_CardinalityType, FS_AddElement
  <2>6. CASE m = <<>>
    <3>1. BareIn(key, rawly, ends', g) = B \cup {g}
      BY <1>9, <1>10, <2>6 DEF B
    <3> QED BY <2>5, <2>6, <3>1 DEF B
  <2>7. CASE m # <<>>
    <3>1. BareIn(key, rawly, ends', g) = B
      BY <1>9, <1>10, <2>7 DEF B
    <3>2. Cardinality(B) + 0 = Cardinality(B)
      BY <2>5
    <3> QED BY <2>7, <3>1, <3>2 DEF B
  <2> QED BY <2>6, <2>7
<1>21. Reads'
  <2>1. \A k \in 1 .. Len(lineq') : WholeIn(ends', lineq'[k])
    <3>1. \A k \in 1 .. Len(lineq') : lineq'[k] = m
      BY <1>6
    <3> QED BY <1>18, <3>1
  <2>2. Cardinality(Empties(got)) \in Nat
    <3>1. <<>> \in Seq(1 .. b)
      OBVIOUS
    <3> QED BY <1>8, <3>1, OneMore
  <2>3. Cardinality(Empties(got)) + 0 = Cardinality(BareIn(key, rawly, ends, used))
    <3>1. Cardinality(Empties(lineq)) = 0
      BY <1>5, EmptiesOne
    <3> QED BY <3>1 DEF Lines, Reads
  <2>4. Cardinality(Empties(got')) + Cardinality(Empties(lineq')) =
          Cardinality(BareIn(key', rawly', ends', used'))
    <3>1. Cardinality(Empties(lineq')) = IF m = <<>> THEN 1 ELSE 0
      BY <1>6, EmptiesOne
    <3> QED BY <1>6, <1>20, <2>2, <2>3, <3>1
  <2>5. 1 .. Len(buf') = {}
    BY <1>5, <1>6
  <2> QED BY <1>19, <2>1, <2>4, <2>5 DEF Reads
<1> QED BY <1>14, <1>15, <1>16, <1>21 DEF Lines
-----------------------------------------------------------------------------
(* The invariant holds first, and each step keeps it. *)

(* the console is empty *)
LEMMA InitKeeps == ASSUME Init PROVE Inv
<1>1. /\ closed = FALSE /\ wr = None /\ rr = None /\ hand = <<>> /\ blocks = <<>> /\ sent = 0 /\ gone = 0
      /\ pc = [p \in Procs |-> "idle"] /\ n = [p \in Procs |-> 0] /\ left = [p \in Procs |-> 0]
  BY DEF Init, QInit
<1>2. /\ kbdlk = <<>> /\ raw = FALSE /\ ctl = 0 /\ line = <<>> /\ lineq = <<>>
      /\ job = [p \in Readers |-> "out"] /\ want = [p \in Readers |-> 0]
      /\ hasctl = {} /\ buf = <<>> /\ used = 0 /\ key = <<>> /\ rawly = {} /\ ends = {} /\ got = <<>>
  BY DEF Init
<1>3. Shape
  <2>1. "idle" \in PC
    BY DEF PC
  <2> QED BY <1>1, <1>2, <2>1 DEF Shape
<1>4. \A p \in Readers : ~Keying(p) /\ job[p] = "out" /\ pc[p] = "idle"
  BY <1>1, <1>2, Roles DEF Keying
<1>5. Standing
  <2>1. job \in [Readers -> Jobs] /\ kbdlk \in Seq(Readers) /\ 1 .. Len(kbdlk) = {}
    BY <1>2 DEF Jobs
  <2> QED BY <1>4, <2>1 DEF Standing, StandingIn
<1>6. Places
  BY <1>1, <1>4, Roles DEF Places
<1>7. Control
  BY <1>2, <1>4, FS_EmptySet DEF Control
<1>8. Typed
  <2>1. <<>> \in Seq(Block) /\ Len(<<>>) = 0 /\ <<>> \o <<>> = <<>> /\ 1 .. 0 = {} /\ <<>> \in Seq(Keys)
    OBVIOUS
  <2>2. Chain(<<>>, 0, 0)
    BY <2>1 DEF Chain
  <2> QED BY <1>1, <1>2, <1>4, <2>1, <2>2 DEF Typed
<1>9. Pace
  BY <1>1, <1>2, <1>4 DEF Pace, PaceOf
<1>10. Lines(0)
  <2>1. 1 .. 0 = {} /\ <<>> \in Seq(Seq({})) /\ <<>> \in Seq({}) /\ Len(<<>>) = 0
    OBVIOUS
  <2>2. FinishedIn({}, {}, 0)
    BY <2>1 DEF FinishedIn
  <2>3. Done = <<>>
    <3>1. FlattenSeq(<<>>) = <<>>
      BY <2>1, FlatOne
    <3> QED BY <1>2, <3>1 DEF Done
  <2>4. KeptIn(key, rawly, ends, used, 0) = {}
    BY <2>1 DEF KeptIn
  <2>5. Finished(0)
    <3>1. Lists(Done, KeptIn(key, rawly, ends, used, 0))
      BY <2>3, <2>4, ListsOne
    <3> QED BY <1>2, <2>1, <2>2, <3>1 DEF Finished
  <2>6. Order(0)
    BY <1>2, <1>4 DEF Order
  <2>7. Reads
    <3>1. BareIn(key, rawly, ends, used) = {}
      BY <1>2 DEF BareIn
    <3>2. Cardinality(Empties(got)) = 0 /\ Cardinality(Empties(lineq)) = 0
      BY <1>2, EmptiesOne
    <3>3. Cardinality(Empties(got)) + Cardinality(Empties(lineq)) = Cardinality(BareIn(key, rawly, ends, used))
      BY <3>1, <3>2, FS_EmptySet
    <3> QED BY <1>2, <2>1, <3>3 DEF Reads
  <2>8. EditingIn(line, key, 0, used) /\ Len(line) < LineMax /\ Len(lineq) <= 1
    BY <1>2, <2>1, NoLine, LineMaxPos
  <2> QED BY <2>5, <2>6, <2>7, <2>8 DEF Lines
<1> QED BY <1>3, <1>5, <1>6, <1>7, <1>8, <1>9, <1>10 DEF Inv, Hands

(* nothing of the console moves *)
LEMMA LinesStay ==
  ASSUME NEW b \in Nat, Lines(b), Hands, UNCHANGED cvars
  PROVE  Lines(b)'
<1>1. UNCHANGED <<line, lineq, buf, used, key, rawly, ends, got, job>>
  BY DEF cvars, kbd, history
<1>2. Order(b)'
  BY <1>1 DEF Lines, Order, Keying
<1>3. used \in Nat
  BY DEF Hands, Shape
<1> QED BY <1>1, <1>2, <1>3, LinesKeep

(* a key is typed *)
LEMMA TypeKeeps ==
  ASSUME Inv, NEW p, Kbdputc(p)
  PROVE  Inv'
<1>0. Hands /\ used \in Nat /\ used <= sent
  <2>1. Hands
    BY DEF Inv
  <2>2. used \in Nat /\ gone \in Nat /\ sent \in Nat /\ used <= gone
    BY <2>1 DEF Hands, Shape
  <2>3. gone <= sent
    BY <2>1, <2>2, ChainRoom DEF Hands, Typed
  <2> QED BY <2>1, <2>2, <2>3
<1>1. PICK b \in Nat : Lines(b)
  BY DEF Inv
<1>2. UNCHANGED <<kbd, job, want, hasctl, buf, used, rawly, ends, got>>
  BY DEF Kbdputc
<1>3. CASE QProduceNone(p) /\ UNCHANGED key
  <2>1. UNCHANGED cvars
    BY <1>2, <1>3 DEF cvars, history
  <2>2. UNCHANGED <<closed, wr, rr, left, sent, gone, n, hand, blocks, pc>>
    BY <1>3 DEF QProduceNone, data, sleepers
  <2> QED BY <1>0, <1>1, <2>1, <2>2, HandsStay, LinesStay DEF Inv
<1>4. CASE \E k \in Keys : QProduce(p, Size(k)) /\ key' = key \o [i \in 1 .. Size(k) |-> k]
  <2>1. Hands' /\ \A x \in 1 .. sent : key'[x] = key[x]
    BY <1>0, <1>2, <1>4, ProduceKeeps
  <2>2. \A x \in 1 .. used : key'[x] = key[x]
    <3>1. sent \in Nat
      BY <1>0 DEF Hands, Shape
    <3>2. \A x \in 1 .. used : x \in 1 .. sent
      BY <1>0, <3>1
    <3> QED BY <2>1, <3>2
  <2>3. UNCHANGED <<line, lineq>>
    BY <1>2 DEF kbd
  <2>4. Order(b)'
    BY <1>1, <1>2, <2>3, OrderStays DEF Lines
  <2>5. Lines(b)'
    BY <1>0, <1>1, <1>2, <2>2, <2>3, <2>4, LinesKeep
  <2> QED BY <2>1, <2>5 DEF Inv
<1> QED BY <1>3, <1>4 DEF Kbdputc

(* a call *)
LEMMA ComeKeeps ==
  ASSUME Inv, NEW p, ConsRead(p) \/ CtlCall(p)
  PROVE  Inv'
<1>0. Hands /\ used \in Nat
  BY DEF Inv, Hands, Shape
<1>1. PICK b \in Nat : Lines(b)
  BY DEF Inv
<1>2. /\ Hands' /\ UNCHANGED <<qvars, line, lineq, buf, history>>
      /\ \A q \in Readers : (job'[q] = "key" <=> job[q] = "key") /\ (job'[q] = "raw" <=> job[q] = "raw")
  BY <1>0, CallsKeep
<1>3. UNCHANGED <<used, key, rawly, ends, got>>
  BY <1>2 DEF history
<1>4. Order(b)'
  BY <1>1, <1>2, <1>3, OrderStays DEF Lines
<1>5. Lines(b)'
  BY <1>0, <1>1, <1>2, <1>3, <1>4, LinesKeep
<1> QED BY <1>2, <1>5 DEF Inv

(* the control file, while nobody reads keys *)
LEMMA SwitchKeeps ==
  ASSUME Inv, NEW p, CtlOpen(p) \/ CtlClose(p) \/ RawOn(p) \/ RawOff(p)
  PROVE  Inv'
<1>0. Hands /\ used \in Nat
  BY DEF Inv, Hands, Shape
<1>1. PICK b \in Nat : Lines(b)
  BY DEF Inv
<1>2. Hands' /\ \A q \in Readers : ~Keying(q) /\ ~Keying(q)'
  BY <1>0, CtlKeeps
<1>3. b = used /\ buf = <<>>
  BY <1>1, <1>2 DEF Lines, Order, Keying
<1>4. line = <<>>
  BY <1>1, <1>3, NoLine DEF Lines
<1>5. UNCHANGED <<line, lineq, buf, used, key, rawly, ends, got>>
  BY <1>4 DEF CtlOpen, CtlClose, RawOn, RawOff, history
<1>6. Order(b)'
  BY <1>2, <1>3, <1>5 DEF Order
<1>7. Lines(b)'
  BY <1>0, <1>1, <1>5, <1>6, LinesKeep
<1> QED BY <1>2, <1>7 DEF Inv

(* a read begins to take keys *)
LEMMA BeginKeeps ==
  ASSUME Inv, NEW p, ConsWaitKey(p)
  PROVE  Inv'
<1>0. Hands /\ used \in Nat
  BY DEF Inv, Hands, Shape
<1>1. PICK b \in Nat : Lines(b)
  BY DEF Inv
<1>2. /\ job[p] = "read" /\ \A q \in Readers : q # p => ~Keying(q)
  <2>1. Doing(p, "read")
    BY DEF ConsWaitKey
  <2> QED BY <1>0, <2>1, Quiet
<1>3. \A q \in Readers : job[q] # "key" /\ job[q] # "raw"
  BY <1>2 DEF Keying
<1>4. b = used /\ buf = <<>>
  BY <1>1, <1>3 DEF Lines, Order
<1>5. UNCHANGED <<line, lineq, buf, used, key, rawly, ends, got>> /\ lineq = <<>>
  BY DEF ConsWaitKey, kbd, history
<1>6. Order(b)'
  BY <1>4, <1>5 DEF Order
<1>7. Lines(b)'
  BY <1>0, <1>1, <1>5, <1>6, LinesKeep
<1> QED BY <1>0, <1>7, WaitKeyKeeps DEF Inv

(* the line editor has got a byte *)
LEMMA EditKeeps ==
  ASSUME Inv, NEW p, ConsKey(p)
  PROVE  Inv'
<1>0. Hands /\ Hands'
  BY KeyKeeps DEF Inv
<1>1. PICK b \in Nat : Lines(b)
  BY DEF Inv
<1>2. CASE Complete(Edit(gone), gone) /\ Completes(p)
  BY <1>0, <1>1, <1>2, EndLines DEF Inv
<1>3. CASE /\ ~Complete(Edit(gone), gone) /\ line' = Edit(gone)
           /\ UNCHANGED <<lineq, ends, job, got>>
  BY <1>0, <1>1, <1>3, KeyLines DEF Inv
<1>4. \/ Complete(Edit(gone), gone) /\ Completes(p)
      \/ /\ ~Complete(Edit(gone), gone) /\ line' = Edit(gone)
         /\ UNCHANGED <<lineq, ends, job, got>>
  BY DEF ConsKey, Completes, NextKey
<1> QED BY <1>2, <1>3, <1>4

(* all of them *)
LEMMA NextKeeps == ASSUME Inv, [Next]_vars PROVE Inv'
<1>0. Hands
  BY DEF Inv
<1>1. PICK b \in Nat : Lines(b)
  BY DEF Inv
<1>2. CASE UNCHANGED vars
  <2>1. UNCHANGED cvars /\ UNCHANGED <<closed, wr, rr, left, sent, gone, n, hand, blocks, pc>>
    BY <1>2 DEF vars, qvars, data, state, sleepers
  <2> QED BY <1>0, <1>1, <2>1, HandsStay, LinesStay DEF Inv
<1>3. ASSUME NEW p \in Procs, Kbdputc(p) \/ ConsRead(p) \/ CtlCall(p) \/ ConsStep(p) PROVE Inv'
  <2>1. CASE Kbdputc(p)
    BY <2>1, TypeKeeps
  <2>2. CASE ConsRead(p) \/ CtlCall(p)
    BY <2>2, ComeKeeps
  <2>3. CASE CtlOpen(p) \/ CtlClose(p) \/ RawOn(p) \/ RawOff(p)
    BY <2>3, SwitchKeeps
  <2>4. CASE ConsWaitKey(p)
    BY <2>4, BeginKeeps
  <2>5. CASE ConsTakeLine(p)
    BY <1>0, <1>1, <2>5, TakeKeeps, TakeLines DEF Inv
  <2>6. CASE ConsRawRead(p)
    BY <1>0, <1>1, <2>6, RawReadKeeps, RawLines DEF Inv
  <2>7. CASE ConsKey(p)
    BY <2>7, EditKeeps
  <2>8. CASE (ReadStep(p) \/ IWake(p)) /\ UNCHANGED cvars
    <3>1. Hands'
      BY <1>0, <2>8, ReadKeeps, IWakeKeeps
    <3> QED BY <1>0, <1>1, <2>8, <3>1, LinesStay DEF Inv
  <2> QED BY <1>3, <2>1, <2>2, <2>3, <2>4, <2>5, <2>6, <2>7, <2>8 DEF ConsStep
<1> QED BY <1>2, <1>3 DEF Next

-----------------------------------------------------------------------------
(* What it says in the words of the line discipline. *)

(* the last byte of a line, and the bytes that stay in it *)
LEMMA SameWords ==
  /\ \A i : LastOfLine(i) = LastIn(ends, used, i)
  /\ \A i, z : Stays(i, z) <=> StaysIn(key, i, z)
<1>1. ASSUME NEW i PROVE LastOfLine(i) = LastIn(ends, used, i)
  BY DEF LastOfLine, LastIn
<1>2. ASSUME NEW i, NEW z PROVE Stays(i, z) <=> StaysIn(key, i, z)
  <2>1. i \in Text({i}) <=> key[i] \in {"char", "rune", "nl"}
    BY DEF Text
  <2>2. \A j : Text(i + 1 .. j) = TextIn(key, i, j) /\ Backspaces(i + 1 .. j) = BackIn(key, i, j)
    BY DEF Text, TextIn, Backspaces, BackIn
  <2> QED BY <2>1, <2>2 DEF Stays, StaysIn
<1> QED BY <1>1, <1>2

(* a byte survives if it is kept, or stays in the line in the making *)
LEMMA WhatSurvives ==
  ASSUME NEW b \in Nat, Lines(b), used \in Nat
  PROVE  /\ \A i : Survives(i) <=> SurvivesIn(key, rawly, ends, used, i)
         /\ {i \in 1 .. used : Survives(i)} = KeptIn(key, rawly, ends, used, b) \cup LeftIn(key, b, used)
<1>0. FinishedIn(rawly, ends, b) /\ b <= used
  BY DEF Lines, Finished
<1>1. \A i : Survives(i) <=> SurvivesIn(key, rawly, ends, used, i)
  BY SameWords DEF Survives, SurvivesIn
<1>2. ASSUME NEW i \in b + 1 .. used
      PROVE  SurvivesIn(key, rawly, ends, used, i) <=> StaysIn(key, i, used)
  <2>1. i \notin rawly /\ \A e \in ends : ~(e >= i)
    <3>1. \A x \in 1 .. b : x \in Nat /\ x < i
      OBVIOUS
    <3>2. \A x \in rawly \cup ends : x \in 1 .. b
      BY <1>0 DEF FinishedIn
    <3>3. \A x \in rawly \cup ends : x \in Nat /\ x < i
      BY <3>1, <3>2
    <3>4. i \in Nat
      OBVIOUS
    <3> QED BY <3>3, <3>4
  <2>2. LastIn(ends, used, i) = used
    BY <2>1 DEF LastIn
  <2> QED BY <2>1, <2>2 DEF SurvivesIn
<1>3. \A x : x \in 1 .. used <=> x \in 1 .. b \/ x \in b + 1 .. used
  BY <1>0
<1>4. {i \in 1 .. used : Survives(i)} = KeptIn(key, rawly, ends, used, b) \cup LeftIn(key, b, used)
  BY <1>1, <1>2, <1>3 DEF KeptIn, LeftIn
<1> QED BY <1>1, <1>4

(* what was read and what will be is what survives *)
LEMMA InvDelivers == ASSUME Inv PROVE Delivered
<1>1. PICK b \in Nat : Lines(b)
  BY DEF Inv
<1>2. used \in Nat
  BY DEF Inv, Hands, Shape
<1>3. /\ b <= used /\ got \in Seq(Seq(1 .. b)) /\ buf \in Seq(1 .. b) /\ lineq \in Seq(Seq(1 .. b))
      /\ Lists(Done, KeptIn(key, rawly, ends, used, b))
      /\ EditingIn(line, key, b, used)
  BY <1>1 DEF Lines, Finished
<1>4. Done \in Seq(Nat)
  <2>1. PICK A : A = 1 .. b
    OBVIOUS
  <2>2. FlattenSeq(got) \in Seq(A) /\ FlattenSeq(lineq) \in Seq(A) /\ buf \in Seq(A)
    BY <1>3, <2>1, FlatInSeq
  <2>3. FlattenSeq(got) \o buf \in Seq(A)
    BY <2>2, ConcatProperties
  <2>4. Done \in Seq(A)
    BY <2>2, <2>3, ConcatProperties DEF Done
  <2> QED BY <2>1, <2>4, SeqMono
<1>5. line \in Seq(Nat) /\ Lists(line, LeftIn(key, b, used))
  BY <1>2, <1>3, OfLine DEF EditingIn
<1>6. \A i \in KeptIn(key, rawly, ends, used, b), j \in LeftIn(key, b, used) : i < j
  BY DEF KeptIn, LeftIn
<1>7. Lists(Done \o line, {i \in 1 .. used : Survives(i)})
  <2>1. PICK d, S, T :
          /\ d \in Seq(Nat) /\ d = Done
          /\ S = KeptIn(key, rawly, ends, used, b) /\ T = LeftIn(key, b, used)
    BY <1>4
  <2>2. Lists(d \o line, S \cup T)
    BY <1>3, <1>5, <1>6, <2>1, ListsConcat
  <2> QED BY <1>1, <1>2, <2>1, <2>2, WhatSurvives
<1> QED BY <1>7 DEF Delivered, Done, Lists

(* reads keep to lines *)
LEMMA InvReads == ASSUME Inv PROVE OneLineARead
<1>1. PICK b \in Nat : Lines(b)
  BY DEF Inv
<1>2. used \in Nat
  BY DEF Inv, Hands, Shape
<1>3. {e \in ends : Bare(e)} = BareIn(key, rawly, ends, used)
  <2>1. ASSUME NEW e PROVE Bare(e) <=>
          ~\E i \in 1 .. e : LastIn(ends, used, i) = e /\ i \notin rawly /\ SurvivesIn(key, rawly, ends, used, i)
    BY <1>1, <1>2, SameWords, WhatSurvives DEF Bare
  <2> QED BY <2>1 DEF BareIn
<1>4. got \in Seq(Seq(1 .. b))
  BY <1>1 DEF Lines, Finished
<1>5. ASSUME NEW k \in DOMAIN got PROVE Whole(got[k])
  <2>1. k \in 1 .. Len(got) /\ got[k] \in Seq(1 .. b)
    BY <1>4
  <2>2. WholeIn(ends, got[k])
    BY <1>1, <2>1 DEF Lines, Reads
  <2>3. DOMAIN got[k] = 1 .. Len(got[k])
    BY <2>1
  <2> QED BY <2>2, <2>3 DEF Whole, WholeIn
<1>6. Cardinality(Empties(got)) + Cardinality(Empties(lineq)) = Cardinality({e \in ends : Bare(e)})
  BY <1>1, <1>3 DEF Lines, Reads
<1> QED BY <1>5, <1>6 DEF OneLineARead

(* a line in the making has its reader *)
LEMMA InvNoPartial == ASSUME Inv PROVE NoPartialLine
<1>1. PICK b \in Nat : Lines(b)
  BY DEF Inv
<1>2. CASE \A p \in Readers : job[p] # "key"
  <2>1. b = used /\ EditingIn(line, key, b, used)
    BY <1>1, <1>2 DEF Lines, Order
  <2>2. line = <<>>
    BY <2>1, NoLine
  <2> QED BY <2>2 DEF NoPartialLine
<1>3. CASE \E p \in Readers : job[p] = "key"
  BY <1>3 DEF NoPartialLine, Inv, Hands, Places, Keying
<1> QED BY <1>2, <1>3

(* raw mode has its control file *)
LEMMA InvRaw == ASSUME Inv PROVE RawNeedsCtl
BY FS_EmptySet DEF Inv, Hands, Control, RawNeedsCtl

(***************************************************************************)
(* The invariant, for any numbers of processes and keys and any size of    *)
(* the line.                                                               *)
(***************************************************************************)
THEOREM Invariance == Spec => []Inv
<1>1. Init => Inv
  BY InitKeeps
<1>2. Inv /\ [Next]_vars => Inv'
  BY NextKeeps
<1> QED BY <1>1, <1>2, PTL DEF Spec

(***************************************************************************)
(* Reads return exactly the bytes typed that no backspace or kill removes, *)
(* each once and in the order typed, across lines, modes and readers.      *)
(***************************************************************************)
THEOREM KeysAreDelivered == Spec => []Delivered
<1>1. Inv => Delivered
  BY InvDelivers
<1> QED BY <1>1, Invariance, PTL

(***************************************************************************)
(* A read returns bytes of one line, and nothing only for a ^D on an empty *)
(* line, once for each.                                                    *)
(***************************************************************************)
THEOREM ReadsKeepToLines == Spec => []OneLineARead
<1>1. Inv => OneLineARead
  BY InvReads
<1> QED BY <1>1, Invariance, PTL

(***************************************************************************)
(* kbd.line holds something only while its reader has kbd.lk: a change of  *)
(* mode finds it empty.                                                    *)
(***************************************************************************)
THEOREM LinesHaveReaders == Spec => []NoPartialLine
<1>1. Inv => NoPartialLine
  BY InvNoPartial
<1> QED BY <1>1, Invariance, PTL

(***************************************************************************)
(* The console is raw only while somebody has /dev/consctl open: the count *)
(* kbd.ctl is that of the processes that do.                               *)
(***************************************************************************)
THEOREM LastCloseEndsRaw == Spec => []RawNeedsCtl
<1>1. Inv => RawNeedsCtl
  BY InvRaw
<1> QED BY <1>1, Invariance, PTL

(***************************************************************************)
(* kbd.line has room for the byte that is read next: the store in consread *)
(* stays within the array.                                                 *)
(***************************************************************************)
THEOREM LineHasRoom == Spec => [](Len(line) < LineMax)
<1>1. Inv => Len(line) < LineMax
  BY DEF Inv, Lines
<1> QED BY <1>1, Invariance, PTL

=============================================================================
