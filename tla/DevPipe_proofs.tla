--------------------------- MODULE DevPipe_proofs ---------------------------
(***************************************************************************)
(* One direction of a pipe, for any number of readers and writers, any     *)
(* limit and any sizes: the queue keeps every byte in order and its counts *)
(* right, stays within bounds, and forgets nobody who sleeps.              *)
(*                                                                         *)
(* The first part is about data: what FlattenSeq and a sum over blocks     *)
(* make of a sequence that gets longer.  Both are recursive functions; the *)
(* induction is over sets of naturals (NatInd), which come from the        *)
(* library's theorem that strict inclusion of finite sets is well-founded. *)
(***************************************************************************)
EXTENDS DevPipe, Integers, FiniteSetTheorems, WellFoundedInduction, SequenceTheorems, TLAPS

(* a set of naturals has a least element *)
LEMMA LeastNat ==
  ASSUME NEW T, T \in SUBSET Nat, T # {}
  PROVE  \E m \in T : \A k \in T : m <= k
<1> DEFINE F == {0 .. c-1 : c \in T}
           R == StrictSubsetOrdering(Nat)
<1>1. IsWellFoundedOn(R, FiniteSubsetsOf(Nat))
  BY FS_StrictSubsetOrderingWellFounded
<1>2. F \subseteq FiniteSubsetsOf(Nat)
  <2>1. ASSUME NEW c \in T PROVE 0 .. c-1 \in SUBSET Nat /\ IsFiniteSet(0 .. c-1)
    <3>1. c \in Nat /\ 0 \in Int /\ c - 1 \in Int
      OBVIOUS
    <3> QED BY <3>1, FS_Interval
  <2> QED BY <2>1 DEF FiniteSubsetsOf
<1>3. F # {}
  OBVIOUS
<1>4. \E x \in F : \A y \in F : ~ (<<y, x>> \in R)
  <2> HIDE DEF F, R
  <2> QED BY <1>1, <1>2, <1>3, WFMin
<1>5. PICK m \in T : \A y \in F : ~ (<<y, 0 .. m-1>> \in R)
  BY <1>4
<1>6. ASSUME NEW k \in T, k < m PROVE FALSE
  <2>1. 0 .. k-1 \in F
    OBVIOUS
  <2>2. 0 .. k-1 \subseteq 0 .. m-1 /\ 0 .. k-1 # 0 .. m-1
    <3>1. k \in 0 .. m-1 /\ k \notin 0 .. k-1
      BY <1>6
    <3> QED BY <3>1, <1>6
  <2>3. 0 .. k-1 \in SUBSET Nat /\ 0 .. m-1 \in SUBSET Nat
    OBVIOUS
  <2>4. <<0 .. k-1, 0 .. m-1>> \in R
    BY <2>2, <2>3 DEF StrictSubsetOrdering
  <2> QED BY <1>5, <2>1, <2>4
<1> QED BY <1>6

(* induction over the naturals, about a set *)
LEMMA NatInd ==
  ASSUME NEW G, 0 \in G, \A c \in Nat : c \in G => c + 1 \in G
  PROVE  Nat \subseteq G
<1> SUFFICES ASSUME Nat \ G # {} PROVE FALSE
  OBVIOUS
<1>1. PICK m \in Nat \ G : \A k \in Nat \ G : m <= k
  BY LeastNat
<1>2. m # 0 /\ m - 1 \in Nat
  BY <1>1
<1>3. m - 1 \in G
  BY <1>1, <1>2
<1> QED BY <1>1, <1>2, <1>3

(* the function that FlattenSeq defines *)
FlatRec(ss, c, f) == f = [i \in 1 .. c |-> IF i = 1 THEN ss[i] ELSE f[i-1] \o ss[i]]

(* there is such a function for each length *)
LEMMA FlatExists ==
  ASSUME NEW ss
  PROVE  \A c \in Nat : \E f : FlatRec(ss, c, f)
<1> DEFINE G == {c \in Nat : \E f : FlatRec(ss, c, f)}
<1>1. 0 \in G
  <2>1. FlatRec(ss, 0, [i \in 1..0 |-> 0])
    BY DEF FlatRec
  <2> QED BY <2>1
<1>2. ASSUME NEW c \in Nat, c \in G PROVE c + 1 \in G
  <2>1. PICK f : FlatRec(ss, c, f)
    BY <1>2
  <2> DEFINE g == [i \in 1 .. c+1 |-> IF i = 1 THEN ss[i] ELSE f[i-1] \o ss[i]]
  <2>2. ASSUME NEW i \in 1 .. c PROVE g[i] = f[i]
    <3>1. f[i] = IF i = 1 THEN ss[i] ELSE f[i-1] \o ss[i]
      BY <2>1 DEF FlatRec
    <3>2. i \in 1 .. c+1
      OBVIOUS
    <3> QED BY <3>1, <3>2
  <2>3. g = [i \in 1 .. c+1 |-> IF i = 1 THEN ss[i] ELSE g[i-1] \o ss[i]]
    <3>1. ASSUME NEW i \in 1 .. c+1, i # 1 PROVE g[i-1] = f[i-1]
      <4>1. i - 1 \in 1 .. c
        BY <3>1
      <4> HIDE DEF g
      <4> QED BY <4>1, <2>2
    <3> QED BY <3>1
  <2>4. FlatRec(ss, c+1, g)
    BY <2>3 DEF FlatRec
  <2> QED BY <2>4
<1> HIDE DEF G
<1>3. Nat \subseteq G
  BY <1>1, <1>2, NatInd
<1> QED BY <1>3 DEF G

(* FlattenSeq is its last value *)
LEMMA FlattenDef ==
  ASSUME NEW ss, Len(ss) \in Nat, Len(ss) # 0
  PROVE  \E f : FlatRec(ss, Len(ss), f) /\ FlattenSeq(ss) = f[Len(ss)]
<1>1. \E f : FlatRec(ss, Len(ss), f)
  BY FlatExists
<1> DEFINE h == CHOOSE f : f = [i \in 1 .. Len(ss) |-> IF i = 1 THEN ss[i] ELSE f[i-1] \o ss[i]]
<1>2. FlatRec(ss, Len(ss), h)
  BY <1>1 DEF FlatRec
<1>3. FlattenSeq(ss) = h[Len(ss)]
  BY DEF FlattenSeq
<1> QED BY <1>2, <1>3

(* one element more *)
LEMMA FlatNext ==
  ASSUME NEW ss, NEW c \in Nat, NEW f, FlatRec(ss, c, f), NEW i \in Nat, i + 1 \in 1 .. c
  PROVE  f[i+1] = IF i = 0 THEN ss[1] ELSE f[i] \o ss[i+1]
<1> DEFINE j == i + 1
<1>1. j \in 1 .. c /\ j - 1 = i /\ (j = 1 <=> i = 0)
  OBVIOUS
<1> HIDE DEF j
<1>2. f[j] = IF j = 1 THEN ss[j] ELSE f[j-1] \o ss[j]
  BY <1>1 DEF FlatRec
<1>3. f[j] = IF i = 0 THEN ss[1] ELSE f[i] \o ss[j]
  BY <1>1, <1>2
<1> QED BY <1>3 DEF j

(* its values are sequences *)
LEMMA FlatType ==
  ASSUME NEW S, NEW ss \in Seq(Seq(S)), NEW c \in 0 .. Len(ss), NEW f, FlatRec(ss, c, f)
  PROVE  \A i \in 1 .. c : f[i] \in Seq(S)
<1> DEFINE G == {i \in Nat : i \in 1 .. c => f[i] \in Seq(S)}
<1>0. c \in Nat
  OBVIOUS
<1>1. 0 \in G
  OBVIOUS
<1>2. ASSUME NEW i \in Nat, i \in G PROVE i + 1 \in G
  <2>1. CASE i + 1 \in 1 .. c
    <3>1. f[i+1] = IF i = 0 THEN ss[1] ELSE f[i] \o ss[i+1]
      BY <2>1, <1>0, FlatNext
    <3>2. ss[i+1] \in Seq(S)
      BY <2>1
    <3>3. i # 0 => f[i] \in Seq(S)
      BY <1>2, <2>1
    <3>4. CASE i = 0
      BY <3>1, <3>2, <3>4
    <3>5. CASE i # 0
      <4>1. f[i] \o ss[i+1] \in Seq(S)
        BY <3>2, <3>3, <3>5, ConcatProperties
      <4>2. f[i+1] = f[i] \o ss[i+1]
        BY <3>1, <3>5
      <4>3. f[i+1] \in Seq(S)
        BY <4>1, <4>2
      <4> QED BY <4>3
    <3> QED BY <3>4, <3>5
  <2>2. CASE i + 1 \notin 1 .. c
    BY <2>2
  <2> QED BY <2>1, <2>2
<1> HIDE DEF G
<1>3. Nat \subseteq G
  BY <1>1, <1>2, NatInd
<1> QED BY <1>3 DEF G

(* ss and tt have the first c elements in common *)
FlatPair(ss, tt, c, m, f, g) ==
  /\ c \in Nat /\ m \in Nat /\ c <= m /\ \A i \in 1 .. c : ss[i] = tt[i]
  /\ FlatRec(ss, c, f) /\ FlatRec(tt, m, g)

(* it depends on the elements up to there only *)
LEMMA FlatAgree ==
  ASSUME NEW ss, NEW tt, NEW c, NEW m, NEW f, NEW g, FlatPair(ss, tt, c, m, f, g)
  PROVE  \A i \in 1 .. c : f[i] = g[i]
<1> DEFINE G == {i \in Nat : i \in 1 .. c => f[i] = g[i]}
<1>0. /\ c \in Nat /\ m \in Nat /\ c <= m /\ \A i \in 1 .. c : ss[i] = tt[i]
      /\ FlatRec(ss, c, f) /\ FlatRec(tt, m, g)
  BY DEF FlatPair
<1>1. 0 \in G
  OBVIOUS
<1>2. ASSUME NEW i \in Nat, i \in G PROVE i + 1 \in G
  <2>1. CASE i + 1 \in 1 .. c
    <3>1. f[i+1] = IF i = 0 THEN ss[1] ELSE f[i] \o ss[i+1]
      BY <1>0, <2>1, FlatNext
    <3>2. g[i+1] = IF i = 0 THEN tt[1] ELSE g[i] \o tt[i+1]
      <4>1. i + 1 \in 1 .. m
        BY <1>0, <2>1
      <4> QED BY <1>0, <4>1, FlatNext
    <3>3. i # 0 => f[i] = g[i]
      BY <1>0, <1>2, <2>1
    <3>4. ss[i+1] = tt[i+1]
      BY <1>0, <2>1
    <3>5. f[i+1] = g[i+1]
      <4>1. CASE i = 0
        BY <3>1, <3>2, <3>4, <4>1
      <4>2. CASE i # 0
        BY <3>1, <3>2, <3>3, <3>4, <4>2
      <4> QED BY <4>1, <4>2
    <3> QED BY <3>5
  <2>2. CASE i + 1 \notin 1 .. c
    BY <2>2
  <2> QED BY <2>1, <2>2
<1> HIDE DEF G
<1>3. Nat \subseteq G
  BY <1>1, <1>2, NatInd
<1> QED BY <1>0, <1>3 DEF G

(* FlattenSeq of sequences is a sequence *)
LEMMA FlatInSeq ==
  ASSUME NEW S, NEW ss \in Seq(Seq(S))
  PROVE  FlattenSeq(ss) \in Seq(S)
<1>1. CASE Len(ss) = 0
  <2>1. FlattenSeq(ss) = ss
    BY <1>1 DEF FlattenSeq
  <2>2. ss = <<>>
    BY <1>1
  <2> QED BY <2>1, <2>2
<1>2. CASE Len(ss) # 0
  <2>1. PICK f : FlatRec(ss, Len(ss), f) /\ FlattenSeq(ss) = f[Len(ss)]
    BY <1>2, FlattenDef
  <2>2. Len(ss) \in 0 .. Len(ss) /\ Len(ss) \in 1 .. Len(ss)
    BY <1>2
  <2> QED BY <2>1, <2>2, FlatType
<1> QED BY <1>1, <1>2

(* FlattenSeq, when a sequence is appended *)
LEMMA FlatAppend ==
  ASSUME NEW S, NEW ss \in Seq(Seq(S)), NEW x \in Seq(S)
  PROVE  FlattenSeq(Append(ss, x)) = FlattenSeq(ss) \o x
<1> DEFINE tt == Append(ss, x)
<1>1. tt \in Seq(Seq(S)) /\ Len(tt) = Len(ss) + 1 /\ tt[Len(ss) + 1] = x
      /\ \A i \in 1 .. Len(ss) : ss[i] = tt[i]
  OBVIOUS
<1> HIDE DEF tt
<1>2. PICK g : FlatRec(tt, Len(tt), g) /\ FlattenSeq(tt) = g[Len(tt)]
  BY <1>1, FlattenDef
<1>3. CASE Len(ss) = 0
  <2>1. FlattenSeq(ss) = ss
    BY <1>3 DEF FlattenSeq
  <2>2. ss = <<>>
    BY <1>3
  <2>3. g[1] = tt[1]
    BY <1>1, <1>2, <1>3 DEF FlatRec
  <2>4. <<>> \o x = x
    BY ConcatEmptySeq
  <2> QED BY <1>1, <1>2, <1>3, <2>1, <2>2, <2>3, <2>4 DEF tt
<1>4. CASE Len(ss) # 0
  <2>1. PICK f : FlatRec(ss, Len(ss), f) /\ FlattenSeq(ss) = f[Len(ss)]
    BY <1>4, FlattenDef
  <2>2. f[Len(ss)] = g[Len(ss)]
    <3>1. Len(ss) \in Nat /\ Len(tt) \in Nat /\ Len(ss) <= Len(tt)
      BY <1>1
    <3>2. \A i \in 1 .. Len(ss) : f[i] = g[i]
      <4>1. FlatPair(ss, tt, Len(ss), Len(tt), f, g)
        BY <1>1, <1>2, <2>1, <3>1 DEF FlatPair
      <4> QED BY <4>1, FlatAgree
    <3>3. Len(ss) \in 1 .. Len(ss)
      BY <1>4
    <3> QED BY <3>2, <3>3
  <2>3. g[Len(ss)+1] = g[Len(ss)] \o tt[Len(ss)+1]
    <3>1. Len(tt) \in Nat /\ Len(ss) \in Nat /\ Len(ss) + 1 \in 1 .. Len(tt)
      BY <1>1
    <3> QED BY <1>2, <1>4, <3>1, FlatNext
  <2> QED BY <1>1, <1>2, <2>1, <2>2, <2>3 DEF tt
<1> QED BY <1>3, <1>4

(* FlattenSeq of two sequences of sequences *)
LEMMA FlatConcat ==
  ASSUME NEW S, NEW ss \in Seq(Seq(S)), NEW tt \in Seq(Seq(S))
  PROVE  FlattenSeq(ss \o tt) = FlattenSeq(ss) \o FlattenSeq(tt)
<1> DEFINE G == {c \in Nat : \A uu \in Seq(Seq(S)) : Len(uu) = c =>
                   FlattenSeq(ss \o uu) = FlattenSeq(ss) \o FlattenSeq(uu)}
<1>0. FlattenSeq(ss) \in Seq(S)
  BY FlatInSeq
<1>1. 0 \in G
  <2>1. ASSUME NEW uu \in Seq(Seq(S)), Len(uu) = 0
        PROVE  FlattenSeq(ss \o uu) = FlattenSeq(ss) \o FlattenSeq(uu)
    <3>1. uu = <<>>
      BY <2>1
    <3>2. FlattenSeq(uu) = <<>>
      BY <2>1, <3>1 DEF FlattenSeq
    <3>3. ss \o uu = ss /\ FlattenSeq(ss) \o <<>> = FlattenSeq(ss)
      BY <1>0, <3>1, ConcatEmptySeq
    <3> QED BY <3>2, <3>3
  <2> QED BY <2>1
<1>2. ASSUME NEW c \in Nat, c \in G PROVE c + 1 \in G
  <2>1. ASSUME NEW uu \in Seq(Seq(S)), Len(uu) = c + 1
        PROVE  FlattenSeq(ss \o uu) = FlattenSeq(ss) \o FlattenSeq(uu)
    <3> DEFINE vv == SubSeq(uu, 1, c)
               x == uu[c+1]
    <3>1. vv \in Seq(Seq(S)) /\ x \in Seq(S) /\ uu = Append(vv, x)
      BY <2>1
    <3> HIDE DEF vv, x
    <3>2. Len(vv) = c
      BY <2>1, <3>1
    <3>3. FlattenSeq(ss \o vv) = FlattenSeq(ss) \o FlattenSeq(vv)
      BY <1>2, <3>1, <3>2
    <3>4. ss \o uu = Append(ss \o vv, x) /\ ss \o vv \in Seq(Seq(S))
      BY <3>1
    <3>5. FlattenSeq(ss \o uu) = FlattenSeq(ss \o vv) \o x
      BY <3>1, <3>4, FlatAppend
    <3>6. FlattenSeq(uu) = FlattenSeq(vv) \o x
      BY <3>1, FlatAppend
    <3>7. FlattenSeq(vv) \in Seq(S)
      BY <3>1, FlatInSeq
    <3>8. (FlattenSeq(ss) \o FlattenSeq(vv)) \o x = FlattenSeq(ss) \o (FlattenSeq(vv) \o x)
      <4>1. FlattenSeq(ss) \in Seq(S) /\ FlattenSeq(vv) \in Seq(S) /\ x \in Seq(S)
        BY <1>0, <3>1, <3>7
      <4> QED BY <4>1, ConcatAssociative
    <3> QED BY <3>3, <3>5, <3>6, <3>8
  <2> QED BY <2>1
<1> HIDE DEF G
<1>3. Nat \subseteq G
  BY <1>1, <1>2, NatInd
<1> QED BY <1>3 DEF G

(* the function that FoldLeft defines, to sum the first c blocks *)
SumRec(bs, c, f) ==
  f = [s \in SUBSET (1 .. c) |->
         IF s = {} THEN 0 ELSE f[s \ {Max(s)}] + bs[Max(s)].alloc]

(* an interval of naturals has one greatest element *)
LEMMA GreatestNat ==
  ASSUME NEW c \in Nat, NEW s \in SUBSET (1 .. c), s # {}
  PROVE  Max(s) \in s /\ \A k \in s : Max(s) >= k
<1>1. \E m \in s : \A k \in s : m >= k
  <2> DEFINE T == {c - k : k \in s}
  <2>0. \A k \in s : k \in 1 .. c /\ c - k \in Nat
    <3>1. ASSUME NEW k \in s PROVE k \in 1 .. c /\ c - k \in Nat
      <4>1. k \in 1 .. c
        OBVIOUS
      <4> QED BY <4>1
    <3> QED BY <3>1
  <2>1. T \in SUBSET Nat /\ T # {}
    BY <2>0
  <2>2. PICK t \in T : \A u \in T : t <= u
    BY <2>1, LeastNat
  <2>3. PICK m \in s : t = c - m
    BY <2>2
  <2>4. ASSUME NEW k \in s PROVE m >= k
    <3>1. c - k \in T
      OBVIOUS
    <3>2. c - m <= c - k
      BY <2>2, <2>3, <3>1
    <3>3. m \in Nat /\ k \in Nat
      BY <2>0
    <3> QED BY <3>2, <3>3
  <2> QED BY <2>4
<1> QED BY <1>1 DEF Max

(* there is a function that sums the first c blocks, for each c *)
LEMMA SumExists ==
  ASSUME NEW bs
  PROVE  \A c \in Nat : \E f : SumRec(bs, c, f)
<1> DEFINE G == {c \in Nat : \E f : SumRec(bs, c, f)}
<1>1. 0 \in G
  <2> DEFINE f == [s \in SUBSET (1 .. 0) |-> 0]
  <2>1. \A s \in SUBSET (1 .. 0) : s = {}
    OBVIOUS
  <2>2. SumRec(bs, 0, f)
    BY <2>1 DEF SumRec
  <2> QED BY <2>2
<1>2. ASSUME NEW c \in Nat, c \in G PROVE c + 1 \in G
  <2>1. PICK f : SumRec(bs, c, f)
    BY <1>2
  <2> DEFINE g == [s \in SUBSET (1 .. c+1) |->
                     IF s = {} THEN 0 ELSE f[s \ {Max(s)}] + bs[Max(s)].alloc]
  <2>2. ASSUME NEW s \in SUBSET (1 .. c) PROVE g[s] = f[s]
    <3>1. f[s] = IF s = {} THEN 0 ELSE f[s \ {Max(s)}] + bs[Max(s)].alloc
      BY <2>1 DEF SumRec
    <3>2. s \in SUBSET (1 .. c+1)
      OBVIOUS
    <3> QED BY <3>1, <3>2
  <2>3. g = [s \in SUBSET (1 .. c+1) |->
               IF s = {} THEN 0 ELSE g[s \ {Max(s)}] + bs[Max(s)].alloc]
    <3>1. ASSUME NEW s \in SUBSET (1 .. c+1), s # {} PROVE g[s \ {Max(s)}] = f[s \ {Max(s)}]
      <4>1. c + 1 \in Nat
        OBVIOUS
      <4>2. Max(s) \in s /\ \A k \in s : Max(s) >= k
        BY <3>1, <4>1, GreatestNat
      <4>3. ASSUME NEW k \in s, k # Max(s) PROVE k \in 1 .. c
        <5>1. k \in 1 .. c+1 /\ Max(s) \in 1 .. c+1 /\ Max(s) >= k
          BY <4>2
        <5> QED BY <5>1, <4>3
      <4>4. s \ {Max(s)} \in SUBSET (1 .. c)
        BY <4>3
      <4> HIDE DEF g
      <4> QED BY <4>4, <2>2
    <3> QED BY <3>1
  <2>4. SumRec(bs, c+1, g)
    BY <2>3 DEF SumRec
  <2> QED BY <2>4
<1> HIDE DEF G
<1>3. Nat \subseteq G
  BY <1>1, <1>2, NatInd
<1> QED BY <1>3 DEF G

(* Alloc is its value for all blocks *)
LEMMA AllocDef ==
  ASSUME NEW S, NEW bs \in Seq(S)
  PROVE  \E f : SumRec(bs, Len(bs), f) /\ Alloc(bs) = f[1 .. Len(bs)]
<1>1. \E f : SumRec(bs, Len(bs), f)
  BY SumExists
<1>2. DOMAIN bs = 1 .. Len(bs)
  OBVIOUS
<1> DEFINE h == CHOOSE f : f = [s \in SUBSET (1 .. Len(bs)) |->
                     IF s = {} THEN 0 ELSE f[s \ {Max(s)}] + bs[Max(s)].alloc]
<1>3. SumRec(bs, Len(bs), h)
  BY <1>1 DEF SumRec
<1>4. Alloc(bs) = h[1 .. Len(bs)]
  BY <1>2 DEF Alloc, FoldLeft, MapThenFoldSet
<1> QED BY <1>3, <1>4

(* the element that the fold takes first *)
LEMMA MaxOfInterval ==
  ASSUME NEW i \in Nat
  PROVE  /\ Max(1 .. i+1) = i + 1
         /\ 1 .. i+1 # {} /\ (1 .. i+1) \ {Max(1 .. i+1)} = 1 .. i
<1>1. i + 1 \in Nat /\ 1 .. i+1 \in SUBSET (1 .. i+1) /\ i + 1 \in 1 .. i+1
  OBVIOUS
<1>2. 1 .. i+1 # {}
  BY <1>1
<1>3. Max(1 .. i+1) \in 1 .. i+1 /\ \A k \in 1 .. i+1 : Max(1 .. i+1) >= k
  BY <1>1, <1>2, GreatestNat
<1>4. Max(1 .. i+1) = i + 1
  <2>1. Max(1 .. i+1) >= i + 1
    BY <1>1, <1>3
  <2> QED BY <1>1, <1>3, <2>1
<1>5. (1 .. i+1) \ {i + 1} = 1 .. i
  OBVIOUS
<1> QED BY <1>2, <1>4, <1>5

(* one block more *)
LEMMA SumNext ==
  ASSUME NEW bs, NEW c \in Nat, NEW f, SumRec(bs, c, f), NEW i \in Nat, i + 1 <= c
  PROVE  f[1 .. i+1] = f[1 .. i] + bs[i+1].alloc
<1>1. 1 .. i+1 \in SUBSET (1 .. c)
  OBVIOUS
<1>2. f[1 .. i+1] = IF 1 .. i+1 = {} THEN 0
                    ELSE f[(1 .. i+1) \ {Max(1 .. i+1)}] + bs[Max(1 .. i+1)].alloc
  BY <1>1 DEF SumRec
<1> QED BY <1>2, MaxOfInterval

(* bs and cs have the first c blocks in common *)
SumPair(bs, cs, c, m, f, g) ==
  /\ c \in Nat /\ m \in Nat /\ c <= m /\ \A i \in 1 .. c : bs[i] = cs[i]
  /\ SumRec(bs, c, f) /\ SumRec(cs, m, g)

(* the sum depends on the blocks up to there only *)
LEMMA SumAgree ==
  ASSUME NEW bs, NEW cs, NEW c, NEW m, NEW f, NEW g, SumPair(bs, cs, c, m, f, g)
  PROVE  f[1 .. c] = g[1 .. c]
<1> DEFINE G == {i \in Nat : i <= c => f[1 .. i] = g[1 .. i]}
<1>0. /\ c \in Nat /\ m \in Nat /\ c <= m /\ \A i \in 1 .. c : bs[i] = cs[i]
      /\ SumRec(bs, c, f) /\ SumRec(cs, m, g)
  BY DEF SumPair
<1>1. 0 \in G
  <2>1. 1 .. 0 = {} /\ {} \in SUBSET (1 .. c) /\ {} \in SUBSET (1 .. m)
    OBVIOUS
  <2>2. f[{}] = 0 /\ g[{}] = 0
    BY <1>0, <2>1 DEF SumRec
  <2> QED BY <2>1, <2>2
<1>2. ASSUME NEW i \in Nat, i \in G PROVE i + 1 \in G
  <2>1. CASE i + 1 <= c
    <3>1. f[1 .. i+1] = f[1 .. i] + bs[i+1].alloc
      BY <1>0, <2>1, SumNext
    <3>2. g[1 .. i+1] = g[1 .. i] + cs[i+1].alloc
      <4>1. i + 1 <= m
        BY <1>0, <2>1
      <4> QED BY <1>0, <4>1, SumNext
    <3>3. f[1 .. i] = g[1 .. i]
      BY <1>0, <1>2, <2>1
    <3>4. bs[i+1] = cs[i+1]
      BY <1>0, <2>1
    <3>5. f[1 .. i+1] = g[1 .. i+1]
      BY <3>1, <3>2, <3>3, <3>4
    <3> QED BY <3>5
  <2>2. CASE ~ (i + 1 <= c)
    BY <2>2
  <2> QED BY <2>1, <2>2
<1> HIDE DEF G
<1>3. Nat \subseteq G
  BY <1>1, <1>2, NatInd
<1>4. c \in G
  BY <1>0, <1>3
<1> QED BY <1>0, <1>4 DEF G

(* Alloc, when a block is appended *)
LEMMA AllocAppend ==
  ASSUME NEW S, NEW bs \in Seq(S), NEW b \in S
  PROVE  Alloc(Append(bs, b)) = Alloc(bs) + b.alloc
<1>1. PICK cs \in Seq(S) : cs = Append(bs, b)
  <2>1. Append(bs, b) \in Seq(S)
    OBVIOUS
  <2> QED BY <2>1
<1>2. PICK c \in Nat : c = Len(bs)
  OBVIOUS
<1>3. /\ Len(cs) = c + 1 /\ cs[c + 1] = b /\ \A i \in 1 .. c : bs[i] = cs[i]
      /\ c + 1 \in Nat /\ c <= c + 1
  BY <1>1, <1>2
<1>4. PICK f : SumRec(bs, c, f) /\ Alloc(bs) = f[1 .. c]
  BY <1>2, AllocDef
<1>5. PICK m \in Nat : m = c + 1
  BY <1>2
<1>6. PICK g : SumRec(cs, m, g) /\ Alloc(cs) = g[1 .. m]
  BY <1>3, <1>5, AllocDef
<1>7. f[1 .. c] = g[1 .. c]
  <2>1. c <= m
    BY <1>5
  <2>2. SumPair(bs, cs, c, m, f, g)
    BY <1>3, <1>4, <1>6, <2>1 DEF SumPair
  <2> QED BY <2>2, SumAgree
<1>8. g[1 .. c + 1] = g[1 .. c] + cs[c + 1].alloc
  <2>1. c + 1 <= m
    BY <1>5
  <2> QED BY <1>6, <2>1, SumNext
<1> QED BY <1>1, <1>3, <1>4, <1>5, <1>6, <1>7, <1>8

(* of no blocks *)
LEMMA NoBlocks ==
  Bytes(<<>>) = <<>> /\ Alloc(<<>>) = 0
<1>1. Bytes(<<>>) = <<>>
  <2>1. [i \in DOMAIN <<>> |-> <<>>[i].data] = <<>>
    OBVIOUS
  <2>2. Len(<<>>) = 0
    OBVIOUS
  <2> QED BY <2>1, <2>2 DEF Bytes, FlattenSeq
<1>2. Alloc(<<>>) = 0
  <2>1. <<>> \in Seq(Nat) /\ Len(<<>>) = 0
    OBVIOUS
  <2>2. PICK f : SumRec(<<>>, 0, f) /\ Alloc(<<>>) = f[1 .. 0]
    BY <2>1, AllocDef
  <2>3. 1 .. 0 = {} /\ {} \in SUBSET (1 .. 0)
    OBVIOUS
  <2> QED BY <2>2, <2>3 DEF SumRec
<1> QED BY <1>1, <1>2

(* a sequence that is not empty ends in an element *)
LEMMA SplitLast ==
  ASSUME NEW S, NEW c \in Nat, NEW cs \in Seq(S), Len(cs) = c + 1
  PROVE  \E ds \in Seq(S), x \in S : cs = Append(ds, x) /\ Len(ds) = c
<1>1. SubSeq(cs, 1, c) \in Seq(S) /\ cs[c+1] \in S /\ cs = Append(SubSeq(cs, 1, c), cs[c+1])
        /\ Len(SubSeq(cs, 1, c)) = c
  OBVIOUS
<1> QED BY <1>1

(* Alloc is a natural number *)
LEMMA AllocInNat ==
  ASSUME NEW S, \A b \in S : b.alloc \in Nat, NEW bs \in Seq(S)
  PROVE  Alloc(bs) \in Nat
<1> DEFINE G == {c \in Nat : \A cs \in Seq(S) : Len(cs) = c => Alloc(cs) \in Nat}
<1>1. 0 \in G
  <2>1. ASSUME NEW cs \in Seq(S), Len(cs) = 0 PROVE Alloc(cs) \in Nat
    <3>1. cs = <<>>
      BY <2>1
    <3> QED BY <3>1, NoBlocks
  <2> QED BY <2>1
<1>2. ASSUME NEW c \in Nat, c \in G PROVE c + 1 \in G
  <2>1. ASSUME NEW cs \in Seq(S), Len(cs) = c + 1 PROVE Alloc(cs) \in Nat
    <3>1. PICK ds \in Seq(S), x \in S : cs = Append(ds, x) /\ Len(ds) = c
      BY <2>1, SplitLast
    <3>2. Alloc(cs) = Alloc(ds) + x.alloc
      BY <3>1, AllocAppend
    <3>3. Alloc(ds) \in Nat
      BY <1>2, <3>1
    <3> QED BY <3>2, <3>3
  <2> QED BY <2>1
<1> HIDE DEF G
<1>3. Nat \subseteq G
  BY <1>1, <1>2, NatInd
<1>4. Len(bs) \in G
  BY <1>3
<1> QED BY <1>4 DEF G

(* Alloc of two sequences of blocks *)
LEMMA AllocConcat ==
  ASSUME NEW S, \A b \in S : b.alloc \in Nat, NEW ks \in Seq(S), NEW bs \in Seq(S)
  PROVE  Alloc(ks \o bs) = Alloc(ks) + Alloc(bs)
<1> DEFINE G == {c \in Nat : \A cs \in Seq(S) : Len(cs) = c =>
                   Alloc(ks \o cs) = Alloc(ks) + Alloc(cs)}
<1>0. Alloc(ks) \in Nat
  BY AllocInNat
<1>1. 0 \in G
  <2>1. ASSUME NEW cs \in Seq(S), Len(cs) = 0 PROVE Alloc(ks \o cs) = Alloc(ks) + Alloc(cs)
    <3>1. cs = <<>>
      BY <2>1
    <3>2. ks \o cs = ks
      BY <3>1, ConcatEmptySeq
    <3>3. Alloc(cs) = 0
      BY <3>1, NoBlocks
    <3> QED BY <1>0, <3>2, <3>3
  <2> QED BY <2>1
<1>2. ASSUME NEW c \in Nat, c \in G PROVE c + 1 \in G
  <2>1. ASSUME NEW cs \in Seq(S), Len(cs) = c + 1
        PROVE  Alloc(ks \o cs) = Alloc(ks) + Alloc(cs)
    <3>1. PICK ds \in Seq(S), x \in S : cs = Append(ds, x) /\ Len(ds) = c
      BY <2>1, SplitLast
    <3>2. Alloc(cs) = Alloc(ds) + x.alloc
      BY <3>1, AllocAppend
    <3>3. Alloc(ks \o ds) = Alloc(ks) + Alloc(ds)
      BY <1>2, <3>1
    <3>4. ks \o cs = Append(ks \o ds, x) /\ ks \o ds \in Seq(S)
      <4>1. cs = ds \o <<x>> /\ <<x>> \in Seq(S)
        BY <3>1, AppendIsConcat
      <4>2. ks \o ds \in Seq(S)
        BY <3>1, ConcatProperties
      <4>3. (ks \o ds) \o <<x>> = ks \o (ds \o <<x>>)
        BY <3>1, <4>1, ConcatAssociative
      <4>4. Append(ks \o ds, x) = (ks \o ds) \o <<x>>
        BY <3>1, <4>2, AppendIsConcat
      <4> QED BY <4>1, <4>2, <4>3, <4>4
    <3>5. Alloc(ks \o cs) = Alloc(ks \o ds) + x.alloc
      BY <3>1, <3>4, AllocAppend
    <3>6. Alloc(ds) \in Nat /\ x.alloc \in Nat
      BY <3>1, AllocInNat
    <3> QED BY <1>0, <3>2, <3>3, <3>5, <3>6
  <2> QED BY <2>1
<1> HIDE DEF G
<1>3. Nat \subseteq G
  BY <1>1, <1>2, NatInd
<1>4. Len(bs) \in G
  BY <1>3
<1> QED BY <1>4 DEF G

-----------------------------------------------------------------------------
(* The blocks that a pipe's queue holds, and how long they make it.        *)
Most == MaxAtomic + Hdr

Block == {b \in [data : Seq(Nat), alloc : Nat] : Len(b.data) + Hdr <= b.alloc /\ b.alloc <= Most}

(* of one block *)
LEMMA OneBlock ==
  ASSUME NEW b \in Block
  PROVE  Bytes(<<b>>) = b.data /\ Alloc(<<b>>) = b.alloc
<1>1. Bytes(<<b>>) = b.data
  <2>1. [i \in DOMAIN <<b>> |-> <<b>>[i].data] = <<b.data>>
    OBVIOUS
  <2>2. b.data \in Seq(Nat) /\ <<>> \in Seq(Seq(Nat)) /\ <<b.data>> = Append(<<>>, b.data)
    BY DEF Block
  <2>3. FlattenSeq(<<b.data>>) = FlattenSeq(<<>>) \o b.data
    BY <2>2, FlatAppend
  <2>4. FlattenSeq(<<>>) = <<>>
    BY DEF FlattenSeq
  <2>5. <<>> \o b.data = b.data
    BY <2>2, ConcatEmptySeq
  <2> QED BY <2>1, <2>3, <2>4, <2>5 DEF Bytes
<1>2. Alloc(<<b>>) = b.alloc
  <2>1. <<>> \in Seq(Block) /\ <<b>> = Append(<<>>, b)
    OBVIOUS
  <2>2. Alloc(<<b>>) = Alloc(<<>>) + b.alloc
    BY <2>1, AllocAppend
  <2>3. b.alloc \in Nat
    BY DEF Block
  <2> QED BY <2>2, <2>3, NoBlocks
<1> QED BY <1>1, <1>2

(* the bytes of each block *)
DataOf(bs) == [i \in DOMAIN bs |-> bs[i].data]

(* of two sequences of blocks, block by block *)
LEMMA DataMore ==
  ASSUME NEW ks \in Seq(Block), NEW bs \in Seq(Block)
  PROVE  DataOf(ks) \in Seq(Seq(Nat)) /\ DataOf(ks \o bs) = DataOf(ks) \o DataOf(bs)
<1> DEFINE D(cs) == [i \in DOMAIN cs |-> cs[i].data]
<1>1. ASSUME NEW cs \in Seq(Block) PROVE D(cs) \in Seq(Seq(Nat))
  <2>1. \A i \in DOMAIN cs : cs[i].data \in Seq(Nat)
    BY DEF Block
  <2> QED BY <2>1
<1>2. D(ks \o bs) = D(ks) \o D(bs)
  <2>1. ks \o bs \in Seq(Block) /\ Len(ks \o bs) = Len(ks) + Len(bs)
        /\ \A i \in 1 .. Len(ks) + Len(bs) :
              (ks \o bs)[i] = IF i <= Len(ks) THEN ks[i] ELSE bs[i - Len(ks)]
    BY ConcatProperties
  <2>2. \A cs \in Seq(Block) : Len(D(cs)) = Len(cs) /\ \A i \in 1 .. Len(cs) : D(cs)[i] = cs[i].data
    OBVIOUS
  <2>3. D(ks \o bs) \in Seq(Seq(Nat)) /\ D(ks) \in Seq(Seq(Nat)) /\ D(bs) \in Seq(Seq(Nat))
    BY <1>1, <2>1
  <2> HIDE DEF D
  <2>4. D(ks) \o D(bs) \in Seq(Seq(Nat)) /\ Len(D(ks) \o D(bs)) = Len(ks) + Len(bs)
        /\ \A i \in 1 .. Len(ks) + Len(bs) :
              (D(ks) \o D(bs))[i] = IF i <= Len(ks) THEN D(ks)[i] ELSE D(bs)[i - Len(ks)]
    <3>1. \A x, y \in Seq(Seq(Nat)) : x \o y \in Seq(Seq(Nat)) /\ Len(x \o y) = Len(x) + Len(y)
            /\ \A i \in 1 .. Len(x) + Len(y) : (x \o y)[i] = IF i <= Len(x) THEN x[i] ELSE y[i - Len(x)]
      BY ConcatProperties
    <3>2. Len(D(ks)) = Len(ks) /\ Len(D(bs)) = Len(bs)
      BY <2>2
    <3>3. PICK x \in Seq(Seq(Nat)) : x = D(ks)
      BY <2>3
    <3>4. PICK y \in Seq(Seq(Nat)) : y = D(bs)
      BY <2>3
    <3>5. x \o y \in Seq(Seq(Nat)) /\ Len(x \o y) = Len(x) + Len(y)
            /\ \A i \in 1 .. Len(x) + Len(y) : (x \o y)[i] = IF i <= Len(x) THEN x[i] ELSE y[i - Len(x)]
      BY <3>1
    <3>6. Len(x) = Len(ks) /\ Len(y) = Len(bs)
      BY <3>2, <3>3, <3>4
    <3> QED BY <3>3, <3>4, <3>5, <3>6
  <2>5. Len(D(ks \o bs)) = Len(ks) + Len(bs)
    BY <2>1, <2>2
  <2>6. ASSUME NEW i \in 1 .. Len(ks) + Len(bs) PROVE D(ks \o bs)[i] = (D(ks) \o D(bs))[i]
    <3>1. D(ks \o bs)[i] = (ks \o bs)[i].data
      BY <2>1, <2>2
    <3>2. CASE i <= Len(ks)
      <4>1. i \in 1 .. Len(ks)
        BY <3>2
      <4>2. D(ks)[i] = ks[i].data
        BY <4>1, <2>2
      <4> QED BY <2>1, <2>4, <3>1, <3>2, <4>2
    <3>3. CASE ~ (i <= Len(ks))
      <4>1. i - Len(ks) \in 1 .. Len(bs)
        BY <3>3
      <4>2. D(bs)[i - Len(ks)] = bs[i - Len(ks)].data
        BY <4>1, <2>2
      <4> QED BY <2>1, <2>4, <3>1, <3>3, <4>2
    <3> QED BY <3>2, <3>3
  <2> QED BY <2>3, <2>4, <2>5, <2>6, SeqEqual
<1> QED BY <1>1, <1>2 DEF DataOf

(* of two sequences of blocks *)
LEMMA MoreBlocks ==
  ASSUME NEW ks \in Seq(Block), NEW bs \in Seq(Block)
  PROVE  /\ Bytes(ks) \in Seq(Nat) /\ Bytes(ks \o bs) = Bytes(ks) \o Bytes(bs)
         /\ Alloc(ks) \in Nat /\ Alloc(ks \o bs) = Alloc(ks) + Alloc(bs)
<1> DEFINE D(cs) == DataOf(cs)
<1>1. \A cs \in Seq(Block) : D(cs) \in Seq(Seq(Nat))
  BY DataMore
<1>2. D(ks \o bs) = D(ks) \o D(bs)
  BY DataMore
<1>3. Bytes(ks) \in Seq(Nat) /\ Bytes(ks \o bs) = Bytes(ks) \o Bytes(bs)
  <2>1. Bytes(ks) = FlattenSeq(D(ks)) /\ Bytes(bs) = FlattenSeq(D(bs))
        /\ Bytes(ks \o bs) = FlattenSeq(D(ks \o bs))
    BY DEF Bytes, DataOf
  <2>2. D(ks) \in Seq(Seq(Nat)) /\ D(bs) \in Seq(Seq(Nat))
    BY <1>1
  <2> HIDE DEF D
  <2>3. FlattenSeq(D(ks)) \in Seq(Nat)
    BY <2>2, FlatInSeq
  <2>4. FlattenSeq(D(ks) \o D(bs)) = FlattenSeq(D(ks)) \o FlattenSeq(D(bs))
    BY <2>2, FlatConcat
  <2> QED BY <1>2, <2>1, <2>3, <2>4
<1>4. Alloc(ks) \in Nat /\ Alloc(ks \o bs) = Alloc(ks) + Alloc(bs)
  <2>1. \A b \in Block : b.alloc \in Nat
    BY DEF Block
  <2> QED BY <2>1, AllocInNat, AllocConcat
<1> QED BY <1>3, <1>4
-----------------------------------------------------------------------------
(* where a process is that reads, writes or closes, and where it is when   *)
(* it has q->rlock or q->wlock                                             *)
RHold == {"rsleep", "rslept", "rcopy", "rwake", "rdone"}
RIn == RHold \cup {"rwait"}
WQueued == {"wwake", "wflow", "wset", "wsleep", "wslept"}
WHold == WQueued \cup {"wout"}
WIn == WHold \cup {"wq"}
CIn == {"crr", "cwr", "cdone"}

InSet(ls) == {p \in Procs : pc[p] \in ls}

(* A lock's line q has everybody in it once, and who holds it is its head. *)
Line(q, in, hold) ==
  /\ in \subseteq Procs
  /\ \A i, j \in 1 .. Len(q) : q[i] = q[j] => i = j
  /\ \A p \in Procs : p \in in <=> \E i \in 1 .. Len(q) : q[i] = p
  /\ \A p \in hold : p \in in /\ q[1] = p

Shape ==
  /\ pc \in [Procs -> RIn \cup WIn \cup CIn \cup {"idle"}]
  /\ n \in [Procs -> Nat] /\ left \in [Procs -> Nat] /\ calls \in 0 .. MaxCalls
  /\ noblock = FALSE /\ {closed, flow, starve} \subseteq BOOLEAN
  /\ rlock \in Seq(Readers) /\ wlock \in Seq(Writers)
  /\ open \subseteq Procs /\ plk \in Procs \cup {None}
  /\ \A p \in Procs : pc[p] = "wq" => n[p] <= left[p] /\ n[p] <= MaxAtomic

Lines ==
  /\ Line(rlock, InSet(RIn), InSet(RHold))
  /\ Line(wlock, InSet(WIn), InSet(WHold))

(* Who sleeps is known to the queue, who closes to the pipe; and whoever   *)
(* reads or writes has the pipe open.                                      *)
Known ==
  /\ rr \in Readers \cup {None} /\ wr \in Writers \cup {None}
  /\ \A p \in Procs : /\ pc[p] = "rslept" <=> rr = p
                      /\ pc[p] = "wslept" <=> wr = p
                      /\ pc[p] \in CIn <=> plk = p
                      /\ pc[p] \in RIn \cup WIn => p \in open

(* The bytes and the counts.  A reader copies one block at a time.         *)
Data ==
  /\ blocks \in Seq(Block) /\ hand \in Seq(Block) /\ Len(hand) <= 1
  /\ sent \in Nat /\ gone \in Nat /\ gone <= sent
  /\ InOrder /\ Accounting
  /\ (\A p \in Procs : pc[p] # "rcopy") => hand = <<>>

(* the length of the queue with the block that a reader may put back *)
Eff == len + Alloc(hand)

Half == Limit \div 2

(* A reader that is about to sleep is expected by the next writer, if the  *)
(* test under the lock does not keep it awake; a writer that is about to   *)
(* sleep, by the reader, unless the queue can only get shorter than half   *)
(* its limit.                                                              *)
Sleeps ==
  /\ ReaderIsRemembered
  /\ WriterIsRemembered
  /\ \A p \in Procs : /\ pc[p] = "rsleep" => starve \/ NotEmpty
                      /\ pc[p] = "wsleep" => flow \/ closed \/ Eff < Half

(* Beyond the limit there is a block of what a reader copies, and one of   *)
(* the writer that has queued and waits; a closed queue has nobody's.      *)
Bounds ==
  /\ Eff < Limit + 2 * Most
  /\ closed \/ InSet(WQueued) = {} => Eff < Limit + Most

Inv == Shape /\ Lines /\ Known /\ Data /\ Sleeps /\ Bounds
-----------------------------------------------------------------------------
(* The line of a lock, when p joins it, leaves it, or goes to its end.     *)
LEMMA LineJoined ==
  ASSUME NEW q, NEW S, q \in Seq(S), NEW in, NEW hold, Line(q, in, hold),
         NEW p \in S, p \in Procs, p \notin in
  PROVE  Append(q, p) \in Seq(S) /\ Line(Append(q, p), in \cup {p}, hold)
<1> DEFINE r == Append(q, p)
<1>1. /\ r \in Seq(S) /\ Len(r) = Len(q) + 1 /\ r[Len(q) + 1] = p
      /\ \A i \in 1 .. Len(q) : r[i] = q[i]
      /\ Len(q) \in Nat
  OBVIOUS
<1> HIDE DEF r
<1>2. \A i \in 1 .. Len(q) : q[i] # p
  BY DEF Line
<1>3. ASSUME NEW i \in 1 .. Len(r), NEW j \in 1 .. Len(r), r[i] = r[j] PROVE i = j
  <2>1. (i \in 1 .. Len(q) \/ i = Len(q) + 1) /\ (j \in 1 .. Len(q) \/ j = Len(q) + 1)
    BY <1>1
  <2> QED BY <1>1, <1>2, <1>3, <2>1 DEF Line
<1>4. ASSUME NEW x \in Procs PROVE x \in in \cup {p} <=> \E i \in 1 .. Len(r) : r[i] = x
  <2>1. CASE x = p
    <3>1. Len(q) + 1 \in 1 .. Len(r)
      BY <1>1
    <3> QED BY <1>1, <2>1, <3>1
  <2>2. CASE x # p
    <3>1. \A i \in 1 .. Len(r) : r[i] = x => i \in 1 .. Len(q)
      BY <1>1, <2>2
    <3>2. \A i \in 1 .. Len(q) : i \in 1 .. Len(r)
      BY <1>1
    <3> QED BY <1>1, <2>2, <3>1, <3>2 DEF Line
  <2> QED BY <2>1, <2>2
<1>5. ASSUME NEW x \in hold PROVE x \in in \cup {p} /\ r[1] = x
  <2>1. x \in in /\ q[1] = x /\ x \in Procs
    BY DEF Line
  <2>2. 1 \in 1 .. Len(q)
    <3>1. PICK i \in 1 .. Len(q) : q[i] = x
      BY <2>1 DEF Line
    <3> QED BY <1>1, <3>1
  <2> QED BY <1>1, <2>1, <2>2
<1> QED BY <1>1, <1>3, <1>4, <1>5 DEF Line, r

(* its head leaves it *)
LEMMA LineLeft ==
  ASSUME NEW q, NEW S, q \in Seq(S), NEW in, NEW hold, Line(q, in, hold),
         NEW p, Holds(q, p)
  PROVE  /\ Tail(q) \in Seq(S) /\ Line(Tail(q), in \ {p}, {})
         /\ p \in S /\ (p \in Procs => p \in in)
<1> DEFINE r == Tail(q)
<1>1. /\ q # <<>> /\ q[1] = p /\ Len(q) \in Nat \ {0} /\ r \in Seq(S) /\ Len(r) = Len(q) - 1
      /\ \A i \in 1 .. Len(r) : r[i] = q[i+1]
  BY DEF Holds
<1> HIDE DEF r
<1>2. 1 \in 1 .. Len(q) /\ \A i \in 1 .. Len(r) : i + 1 \in 1 .. Len(q) /\ i + 1 # 1
  BY <1>1
<1>3. ASSUME NEW i \in 1 .. Len(r), NEW j \in 1 .. Len(r), r[i] = r[j] PROVE i = j
  <2>1. q[i+1] = q[j+1]
    BY <1>1, <1>3
  <2>2. i + 1 = j + 1
    BY <1>2, <2>1 DEF Line
  <2> QED BY <1>1, <2>2
<1>4. ASSUME NEW x \in Procs PROVE x \in in \ {p} <=> \E i \in 1 .. Len(r) : r[i] = x
  <2>1. ASSUME x \in in \ {p} PROVE \E i \in 1 .. Len(r) : r[i] = x
    <3>1. PICK j \in 1 .. Len(q) : q[j] = x
      BY <2>1 DEF Line
    <3>2. j # 1
      BY <1>1, <2>1, <3>1
    <3>3. j - 1 \in 1 .. Len(r) /\ (j - 1) + 1 = j
      BY <1>1, <3>1, <3>2
    <3>4. r[j-1] = x
      BY <1>1, <3>1, <3>3
    <3> QED BY <3>3, <3>4
  <2>2. ASSUME NEW i \in 1 .. Len(r), r[i] = x PROVE x \in in \ {p}
    <3>1. q[i+1] = x /\ i + 1 \in 1 .. Len(q) /\ i + 1 # 1
      BY <1>1, <1>2, <2>2
    <3>2. x # p
      BY <1>1, <1>2, <3>1 DEF Line
    <3> QED BY <3>1, <3>2 DEF Line
  <2> QED BY <2>1, <2>2
<1>5. p \in S /\ (p \in Procs => p \in in)
  BY <1>1, <1>2 DEF Line
<1> QED BY <1>1, <1>3, <1>4, <1>5 DEF Line, r

(* its head goes to its end *)
LEMMA LineTurned ==
  ASSUME NEW q, NEW S, q \in Seq(S), NEW in, NEW hold, Line(q, in, hold),
         NEW p \in Procs, Holds(q, p)
  PROVE  Append(Tail(q), p) \in Seq(S) /\ Line(Append(Tail(q), p), in, {})
<1>1. Tail(q) \in Seq(S) /\ Line(Tail(q), in \ {p}, {}) /\ p \in S /\ p \in in
  BY LineLeft
<1>2. Append(Tail(q), p) \in Seq(S) /\ Line(Append(Tail(q), p), (in \ {p}) \cup {p}, {})
  BY <1>1, LineJoined
<1>3. (in \ {p}) \cup {p} = in
  BY <1>1
<1> QED BY <1>2, <1>3

-----------------------------------------------------------------------------
(* what is known of one who has q->rlock *)
LEMMA Reading ==
  ASSUME Inv, NEW p \in Procs, pc[p] \in RIn, pc[p] \in RHold \/ Holds(rlock, p)
  PROVE  /\ p \in Readers /\ p \notin Writers /\ p \in open /\ Holds(rlock, p)
         /\ \A q \in Procs : q # p => pc[q] \notin RHold
<1>1. p \in Procs /\ rlock \in Seq(Readers) /\ Line(rlock, InSet(RIn), InSet(RHold))
  BY DEF Inv, Shape, Lines
<1>2. p \in InSet(RIn)
  BY DEF InSet
<1>3. PICK i \in 1 .. Len(rlock) : rlock[i] = p
  BY <1>1, <1>2 DEF Line
<1>4. p \in Readers
  BY <1>1, <1>3
<1>5. Holds(rlock, p)
  <2>1. CASE pc[p] \in RHold
    <3>1. p \in InSet(RHold)
      BY <2>1 DEF InSet
    <3>2. rlock[1] = p
      BY <1>1, <3>1 DEF Line
    <3>3. rlock # <<>> /\ Head(rlock) = rlock[1]
      BY <1>1, <1>3
    <3> QED BY <3>2, <3>3 DEF Holds
  <2> QED BY <2>1
<1>6. rlock[1] = p
  BY <1>1, <1>5 DEF Holds
<1>7. \A q \in Procs : pc[q] \in RHold => rlock[1] = q
  BY <1>1 DEF Line, InSet
<1>8. p \in open
  BY DEF Inv, Known
<1> QED BY <1>4, <1>5, <1>6, <1>7, <1>8, RolesDiffer

(* ... and of one who has q->wlock *)
LEMMA Writing ==
  ASSUME Inv, NEW p \in Procs, pc[p] \in WIn, pc[p] \in WHold \/ Holds(wlock, p)
  PROVE  /\ p \in Writers /\ p \notin Readers /\ p \in open /\ Holds(wlock, p)
         /\ \A q \in Procs : q # p => pc[q] \notin WHold
<1>1. p \in Procs /\ wlock \in Seq(Writers) /\ Line(wlock, InSet(WIn), InSet(WHold))
  BY DEF Inv, Shape, Lines
<1>2. p \in InSet(WIn)
  BY DEF InSet
<1>3. PICK i \in 1 .. Len(wlock) : wlock[i] = p
  BY <1>1, <1>2 DEF Line
<1>4. p \in Writers
  BY <1>1, <1>3
<1>5. Holds(wlock, p)
  <2>1. CASE pc[p] \in WHold
    <3>1. p \in InSet(WHold)
      BY <2>1 DEF InSet
    <3>2. wlock[1] = p
      BY <1>1, <3>1 DEF Line
    <3>3. wlock # <<>> /\ Head(wlock) = wlock[1]
      BY <1>1, <1>3
    <3> QED BY <3>2, <3>3 DEF Holds
  <2> QED BY <2>1
<1>6. wlock[1] = p
  BY <1>1, <1>5 DEF Holds
<1>7. \A q \in Procs : pc[q] \in WHold => wlock[1] = q
  BY <1>1 DEF Line, InSet
<1>8. p \in open
  BY DEF Inv, Known
<1> QED BY <1>4, <1>5, <1>6, <1>7, <1>8, RolesDiffer

-----------------------------------------------------------------------------
(* Steps that leave the parts of the invariant alone.                      *)
LEMMA LinesStay ==
  ASSUME Inv, UNCHANGED <<rlock, wlock>>,
         \A q \in Procs : /\ pc'[q] \in RIn <=> pc[q] \in RIn
                          /\ pc'[q] \in WIn <=> pc[q] \in WIn
                          /\ pc'[q] \in RHold => rlock[1] = q
                          /\ pc'[q] \in WHold => wlock[1] = q
  PROVE  Lines'
<1>1. InSet(RIn)' = InSet(RIn) /\ InSet(WIn)' = InSet(WIn)
  BY DEF InSet
<1>2. \A q \in InSet(RHold)' : q \in InSet(RIn) /\ rlock[1] = q
  BY <1>1 DEF InSet, RIn
<1>3. \A q \in InSet(WHold)' : q \in InSet(WIn) /\ wlock[1] = q
  BY <1>1 DEF InSet, WIn
<1>4. Line(rlock, InSet(RIn), InSet(RHold)')
  BY <1>2 DEF Line, Inv, Lines
<1>5. Line(wlock, InSet(WIn), InSet(WHold)')
  BY <1>3 DEF Line, Inv, Lines
<1> QED BY <1>1, <1>4, <1>5 DEF Lines

(* who has a lock is its head *)
LEMMA Heads ==
  ASSUME Inv
  PROVE  \A q \in Procs : /\ pc[q] \in RHold => rlock[1] = q
                          /\ pc[q] \in WHold => wlock[1] = q
BY DEF Inv, Lines, Line, InSet

(* where everybody is when one has gone on *)
LEMMA PcsAre ==
  ASSUME Inv, NEW p \in Procs, NEW to, pc' = [pc EXCEPT ![p] = to]
  PROVE  \A q \in Procs : pc'[q] = IF q = p THEN to ELSE pc[q]
BY DEF Inv, Shape

(* the holder of q->rlock goes on with its read *)
LEMMA ReaderMoves ==
  ASSUME Inv, NEW p \in Procs, pc[p] \in RIn, pc[p] \in RHold \/ Holds(rlock, p),
         NEW to \in RIn, pc' = [pc EXCEPT ![p] = to], UNCHANGED <<rlock, wlock>>
  PROVE  Lines'
<1>1. Holds(rlock, p) /\ rlock \in Seq(Readers)
  BY Reading DEF Inv, Shape
<1>2. rlock[1] = p
  BY <1>1 DEF Holds
<1>3. \A q \in Procs : pc'[q] = IF q = p THEN to ELSE pc[q]
  BY PcsAre
<1>4. pc[p] \notin WIn /\ to \notin WIn /\ to \notin WHold
  BY DEF RIn, RHold, WIn, WHold, WQueued
<1> QED BY <1>2, <1>3, <1>4, Heads, LinesStay

(* the holder of q->wlock goes on with its write *)
LEMMA WriterMoves ==
  ASSUME Inv, NEW p \in Procs, pc[p] \in WIn, pc[p] \in WHold \/ Holds(wlock, p),
         NEW to \in WIn, pc' = [pc EXCEPT ![p] = to], UNCHANGED <<rlock, wlock>>
  PROVE  Lines'
<1>1. Holds(wlock, p) /\ wlock \in Seq(Writers)
  BY Writing DEF Inv, Shape
<1>2. wlock[1] = p
  BY <1>1 DEF Holds
<1>3. \A q \in Procs : pc'[q] = IF q = p THEN to ELSE pc[q]
  BY PcsAre
<1>4. pc[p] \notin RIn /\ to \notin RIn /\ to \notin RHold
  BY DEF RIn, RHold, WIn, WHold, WQueued
<1> QED BY <1>2, <1>3, <1>4, Heads, LinesStay

(* one goes on that neither reads nor writes *)
LEMMA OtherMoves ==
  ASSUME Inv, NEW p \in Procs, pc[p] \in CIn \cup {"idle"}, NEW to \in CIn \cup {"idle"},
         pc' = [pc EXCEPT ![p] = to], UNCHANGED <<rlock, wlock>>
  PROVE  Lines'
<1>1. \A q \in Procs : pc'[q] = IF q = p THEN to ELSE pc[q]
  BY PcsAre
<1>2. \A x \in CIn \cup {"idle"} : x \notin RIn /\ x \notin WIn /\ x \notin RHold /\ x \notin WHold
  BY DEF CIn, RIn, RHold, WIn, WHold, WQueued
<1> QED BY <1>1, <1>2, Heads, LinesStay

(* no byte moves *)
LEMMA DataStays ==
  ASSUME Inv, UNCHANGED <<data, hand>>, \A q \in Procs : pc[q] = "rcopy" => pc'[q] = "rcopy"
  PROVE  Data'
BY DEF Inv, Data, data, InOrder, Accounting

(* nobody wakes, and nobody is about to sleep who was not *)
LEMMA SleepsStay ==
  ASSUME Inv, UNCHANGED <<data, hand, state, sleepers>>,
         \A q \in Procs : /\ pc[q] \in {"rcopy", "wwake", "crr", "cwr", "rwake"} => pc'[q] = pc[q]
                          /\ pc'[q] \in {"rsleep", "wsleep"} => pc[q] = pc'[q]
  PROVE  Sleeps'
<1>0. \A q \in Procs : /\ pc[q] \in {"wwake", "iwake", "crr"} => pc'[q] \in {"wwake", "iwake", "crr"} \/ pc[q] = "iwake"
  OBVIOUS
<1>1. Waking({"wwake", "iwake", "crr"}) => Waking({"wwake", "iwake", "crr"})'
  BY DEF Waking, Inv, Shape, RIn, RHold, WIn, WHold, WQueued, CIn
<1>2. Waking({"rwake", "crr", "cwr"}) => Waking({"rwake", "crr", "cwr"})'
  BY DEF Waking
<1>3. Waking({"rcopy"}) => Waking({"rcopy"})'
  BY DEF Waking
<1>4. ReaderIsRemembered'
  BY <1>1 DEF Inv, Sleeps, ReaderIsRemembered, NotEmpty, data, state, sleepers
<1>5. WriterIsRemembered'
  BY <1>2, <1>3 DEF Inv, Sleeps, WriterIsRemembered, data, state, sleepers
<1>6. \A q \in Procs : /\ pc'[q] = "rsleep" => starve' \/ NotEmpty'
                       /\ pc'[q] = "wsleep" => flow' \/ closed' \/ Eff' < Half
  BY DEF Inv, Sleeps, NotEmpty, Eff, data, state
<1> QED BY <1>4, <1>5, <1>6 DEF Sleeps, Half

(* the queue gets no longer, and no writer goes *)
LEMMA BoundsStay ==
  ASSUME Inv, UNCHANGED <<len, hand, closed>>,
         \A q \in Procs : pc[q] \in WQueued => pc'[q] \in WQueued
  PROVE  Bounds'
<1>1. InSet(WQueued)' = {} => InSet(WQueued) = {}
  BY DEF InSet
<1>2. Eff' = Eff
  BY DEF Eff
<1> QED BY <1>1, <1>2 DEF Inv, Bounds

(* a process goes on that neither wakes nor copies nor has just queued *)
LEMMA Quiet ==
  ASSUME Inv, NEW p \in Procs, NEW to, pc' = [pc EXCEPT ![p] = to],
         UNCHANGED <<data, hand, state, sleepers>>,
         pc[p] \notin {"rcopy", "wwake", "crr", "cwr", "rwake"},
         pc[p] \in WQueued => to \in WQueued,
         to \notin {"rsleep", "wsleep"}
  PROVE  Data' /\ Sleeps' /\ Bounds'
<1>1. \A q \in Procs : pc'[q] = IF q = p THEN to ELSE pc[q]
  BY DEF Inv, Shape
<1>2. Data'
  BY <1>1, DataStays
<1>3. Sleeps'
  BY <1>1, SleepsStay
<1>4. Bounds'
  BY <1>1, BoundsStay DEF data, state
<1> QED BY <1>2, <1>3, <1>4

-----------------------------------------------------------------------------
(* open, and close by one of several *)
LEMMA OpenKeeps ==
  ASSUME Inv, NEW p \in Procs, PipeOpen(p) \/ PipeCloseOne(p)
  PROVE  Inv'
<1>1. /\ pc[p] = "idle" /\ UNCHANGED <<qvars, plk>>
      /\ open' = open \cup {p} \/ open' = open \ {p}
  BY DEF PipeOpen, PipeCloseOne, At
<1> USE <1>1 DEF qvars, data, state, sleepers
<1>2. Shape'
  BY DEF Inv, Shape
<1>3. Lines'
  BY LinesStay, Heads
<1>4. Known'
  BY DEF Inv, Known, RIn, RHold, WIn, WHold, WQueued
<1>5. Data' /\ Sleeps' /\ Bounds'
  BY DataStays, SleepsStay, BoundsStay
<1> QED BY <1>2, <1>3, <1>4, <1>5 DEF Inv

(* read: p joins the line of q->rlock *)
LEMMA ReadKeeps ==
  ASSUME Inv, NEW p \in Procs, PipeRead(p)
  PROVE  Inv'
<1>1. PICK k \in ReadSizes : QRead(p, k)
  BY DEF PipeRead
<1> USE DEF QRead, At, Goto
<1>2. /\ p \in open /\ p \in Readers /\ pc[p] = "idle" /\ k \in Nat
      /\ pc' = [pc EXCEPT ![p] = "rwait"] /\ n' = [n EXCEPT ![p] = k]
      /\ rlock' = Append(rlock, p)
      /\ UNCHANGED <<data, state, wlock, sleepers, left, hand, calls, open, plk>>
  BY <1>1, SizesAreNat DEF PipeRead
<1>3. \A q \in Procs : pc'[q] = IF q = p THEN "rwait" ELSE pc[q]
  BY <1>2, PcsAre
<1>4. Append(rlock, p) \in Seq(Readers) /\ Line(Append(rlock, p), InSet(RIn) \cup {p}, InSet(RHold))
  <2>1. p \notin InSet(RIn)
    BY <1>2 DEF InSet, RIn, RHold
  <2> QED BY <1>2, <2>1, LineJoined DEF Inv, Shape, Lines
<1>5. Shape'
  BY <1>2, <1>3, <1>4 DEF Inv, Shape, RIn, state
<1>6. Lines'
  <2>1. InSet(RIn)' = InSet(RIn) \cup {p} /\ InSet(RHold)' = InSet(RHold)
    BY <1>2, <1>3 DEF InSet, RIn, RHold
  <2>2. InSet(WIn)' = InSet(WIn) /\ InSet(WHold)' = InSet(WHold)
    BY <1>2, <1>3 DEF InSet, WIn, WHold, WQueued
  <2> QED BY <1>2, <1>4, <2>1, <2>2 DEF Inv, Lines
<1>7. Known'
  BY <1>2, <1>3 DEF Inv, Known, RIn, RHold, WIn, WHold, WQueued, CIn, sleepers
<1>8. Data' /\ Sleeps' /\ Bounds'
  BY <1>2, Quiet DEF WQueued
<1> QED BY <1>5, <1>6, <1>7, <1>8 DEF Inv
-----------------------------------------------------------------------------
(* The steps of a reader.                                                  *)

(* who has q->rlock and is not asleep leaves nobody else asleep on q->rr   *)
LEMMA NobodyReads ==
  ASSUME Inv, NEW p \in Procs, pc[p] \in RIn, pc[p] \in RHold \/ Holds(rlock, p),
         pc[p] # "rslept"
  PROVE  rr = None
<1>1. rr \in Readers => pc[rr] = "rslept" /\ rr \in Procs
  BY DEF Inv, Known, Procs
<1>2. rr \in Readers => rr = p
  BY <1>1, Reading DEF RHold
<1> QED BY <1>1, <1>2 DEF Inv, Known

(* ... and the same of the writers *)
LEMMA NobodyWrites ==
  ASSUME Inv, NEW p \in Procs, pc[p] \in WIn, pc[p] \in WHold \/ Holds(wlock, p),
         pc[p] # "wslept"
  PROVE  wr = None
<1>1. wr \in Writers => pc[wr] = "wslept" /\ wr \in Procs
  BY DEF Inv, Known, Procs
<1>2. wr \in Writers => wr = p
  BY <1>1, Writing DEF WHold, WQueued
<1> QED BY <1>1, <1>2 DEF Inv, Known

(* qwait, nothing there: ask for a wakeup *)
LEMMA QWaitStarveKeeps ==
  ASSUME Inv, NEW p \in Procs, QWaitStarve(p), UNCHANGED <<open, plk>>
  PROVE  Inv'
<1>1. /\ pc[p] = "rwait" /\ Holds(rlock, p) /\ blocks = <<>> /\ ~closed
      /\ starve' = TRUE /\ pc' = [pc EXCEPT ![p] = "rsleep"]
      /\ UNCHANGED <<data, closed, flow, noblock, rlock, wlock, sleepers, n, left, hand, calls, open, plk>>
  BY DEF QWaitStarve, InQWait, At, Goto
<1>2. \A q \in Procs : pc'[q] = IF q = p THEN "rsleep" ELSE pc[q]
  BY <1>1, PcsAre
<1>3. Shape'
  BY <1>1, <1>2 DEF Inv, Shape, RIn, RHold
<1>4. Lines'
  BY <1>1, ReaderMoves DEF RIn, RHold
<1>5. Known'
  BY <1>1, <1>2 DEF Inv, Known, RIn, RHold, WIn, WHold, WQueued, CIn, sleepers
<1>6. Data'
  BY <1>1, <1>2, DataStays
<1>7. Sleeps'
  <2>1. ReaderIsRemembered'
    BY <1>1 DEF ReaderIsRemembered, NotEmpty, data
  <2>2. /\ Waking({"rwake", "crr", "cwr"}) => Waking({"rwake", "crr", "cwr"})'
        /\ Waking({"rcopy"}) => Waking({"rcopy"})'
    BY <1>1, <1>2 DEF Waking
  <2>3. WriterIsRemembered'
    BY <1>1, <2>2 DEF Inv, Sleeps, WriterIsRemembered, data, sleepers
  <2>4. \A q \in Procs : /\ pc'[q] = "rsleep" => starve' \/ NotEmpty'
                         /\ pc'[q] = "wsleep" => flow' \/ closed' \/ Eff' < Half
    BY <1>1, <1>2 DEF Inv, Sleeps, Eff, data
  <2> QED BY <2>1, <2>3, <2>4 DEF Sleeps, Half
<1>8. Bounds'
  BY <1>1, <1>2, BoundsStay DEF data, WQueued
<1> QED BY <1>3, <1>4, <1>5, <1>6, <1>7, <1>8 DEF Inv

(* sleep on q->rr, or not *)
LEMMA RSleepKeeps ==
  ASSUME Inv, NEW p \in Procs, RSleep(p), UNCHANGED <<open, plk>>
  PROVE  Inv'
<1>1. /\ pc[p] = "rsleep"
      /\ IF NotEmpty THEN pc' = [pc EXCEPT ![p] = "rwait"] /\ UNCHANGED rr
                     ELSE pc' = [pc EXCEPT ![p] = "rslept"] /\ rr' = p
      /\ UNCHANGED <<data, state, rlock, wlock, wr, n, left, hand, calls, open, plk>>
  BY DEF RSleep, At, Goto
<1>2. PICK to \in {"rwait", "rslept"} :
        /\ to = IF NotEmpty THEN "rwait" ELSE "rslept"
        /\ pc' = [pc EXCEPT ![p] = to]
  BY <1>1
<1>3. \A q \in Procs : pc'[q] = IF q = p THEN to ELSE pc[q]
  BY <1>2 DEF Inv, Shape
<1>0. p \in Readers /\ p \in open /\ rr = None /\ \A q \in Procs : q # p => pc[q] \notin RHold
  BY <1>1, Reading, NobodyReads DEF RIn, RHold
<1>4. Shape'
  BY <1>1, <1>2, <1>3 DEF Inv, Shape, RIn, RHold, state
<1>5. Lines'
  BY <1>1, <1>2, ReaderMoves DEF RIn, RHold
<1>6. Known'
  BY <1>0, <1>1, <1>2, <1>3, NoneIsNil DEF Inv, Known, RIn, RHold, WIn, WHold, WQueued, CIn
<1>7. Data'
  BY <1>1, <1>2, <1>3, DataStays
<1>8. Sleeps'
  <2>1. ReaderIsRemembered'
    <3>1. CASE NotEmpty
      BY <3>1, <1>0, <1>1 DEF ReaderIsRemembered
    <3>2. CASE ~NotEmpty
      <4>1. starve /\ ~NotEmpty
        BY <3>2, <1>1 DEF Inv, Sleeps
      <4> QED BY <4>1, <1>1 DEF ReaderIsRemembered, NotEmpty, data, state
    <3> QED BY <3>1, <3>2
  <2>2. /\ Waking({"rwake", "crr", "cwr"}) => Waking({"rwake", "crr", "cwr"})'
        /\ Waking({"rcopy"}) => Waking({"rcopy"})'
    BY <1>1, <1>3 DEF Waking
  <2>3. WriterIsRemembered'
    BY <1>1, <2>2 DEF Inv, Sleeps, WriterIsRemembered, data, state
  <2>4. \A q \in Procs : /\ pc'[q] = "rsleep" => starve' \/ NotEmpty'
                         /\ pc'[q] = "wsleep" => flow' \/ closed' \/ Eff' < Half
    BY <1>1, <1>3 DEF Inv, Sleeps, Eff, data, state, NotEmpty
  <2> QED BY <2>1, <2>3, <2>4 DEF Sleeps, Half
<1>9. Bounds'
  BY <1>1, <1>3, BoundsStay DEF data, state, WQueued
<1> QED BY <1>4, <1>5, <1>6, <1>7, <1>8, <1>9 DEF Inv

(* the read is over *)
LEMMA ReadEnds ==
  ASSUME Inv, NEW p \in Procs, pc[p] \in {"rwait", "rdone"}, Holds(rlock, p),
         rlock' = Tail(rlock), n' = [n EXCEPT ![p] = 0], pc' = [pc EXCEPT ![p] = "idle"],
         UNCHANGED <<data, state, wlock, sleepers, left, hand, calls, open, plk>>
  PROVE  Inv'
<1>1. \A q \in Procs : pc'[q] = IF q = p THEN "idle" ELSE pc[q]
  BY PcsAre
<1>2. Tail(rlock) \in Seq(Readers) /\ Line(Tail(rlock), InSet(RIn) \ {p}, {})
  BY LineLeft DEF Inv, Shape, Lines
<1>3. Shape'
  BY <1>1, <1>2 DEF Inv, Shape, state
<1>4. Lines'
  <2>1. InSet(RIn)' = InSet(RIn) \ {p}
    BY <1>1 DEF InSet, RIn, RHold
  <2>2. InSet(RHold)' = {}
    <3>1. \A q \in Procs : q # p => pc[q] \notin RHold
      BY Reading DEF RIn, RHold
    <3> QED BY <1>1, <3>1 DEF InSet, RHold
  <2>3. InSet(WIn)' = InSet(WIn) /\ InSet(WHold)' = InSet(WHold)
    BY <1>1 DEF InSet, WIn, WHold, WQueued
  <2> QED BY <1>2, <2>1, <2>2, <2>3 DEF Inv, Lines
<1>5. Known'
  BY <1>1 DEF Inv, Known, RIn, RHold, WIn, WHold, WQueued, CIn, sleepers
<1>6. Data' /\ Sleeps' /\ Bounds'
  BY Quiet DEF WQueued
<1> QED BY <1>3, <1>4, <1>5, <1>6 DEF Inv

(* the two ways a read ends *)
LEMMA ReadEndKeeps ==
  ASSUME Inv, NEW p \in Procs, QWaitClosed(p) \/ QReadReturn(p), UNCHANGED <<open, plk>>
  PROVE  Inv'
<1>1. /\ pc[p] \in {"rwait", "rdone"} /\ (pc[p] = "rdone" \/ Holds(rlock, p))
      /\ rlock' = Tail(rlock) /\ n' = [n EXCEPT ![p] = 0] /\ pc' = [pc EXCEPT ![p] = "idle"]
      /\ UNCHANGED <<data, state, wlock, sleepers, left, hand, calls, open, plk>>
  BY DEF QWaitClosed, QReadReturn, InQWait, At, Goto
<1>2. Holds(rlock, p)
  BY <1>1, Reading DEF RIn, RHold
<1> QED BY <1>1, <1>2, ReadEnds

(* a reader wakes the writer *)
LEMMA RWakeKeeps ==
  ASSUME Inv, NEW p \in Procs, RWake(p), UNCHANGED <<open, plk>>
  PROVE  Inv'
<1>1. /\ pc[p] = "rwake" /\ wr' = None
      /\ pc' = [q \in Procs |-> IF q = p THEN "rdone" ELSE IF q = wr THEN "wflow" ELSE pc[q]]
      /\ UNCHANGED <<data, state, rlock, wlock, rr, n, left, hand, calls, open, plk>>
  BY DEF RWake, At, WakeWriter, WakeAndGoto
<1>2. \A q \in Procs : pc'[q] = IF q = p THEN "rdone" ELSE IF pc[q] = "wslept" THEN "wflow" ELSE pc[q]
  BY <1>1 DEF Inv, Known
<1>0. rr = None
  BY <1>1, NobodyReads DEF RIn, RHold
<1>3. Shape'
  BY <1>1, <1>2 DEF Inv, Shape, RIn, RHold, WIn, WHold, WQueued, CIn, state
<1>4. Lines'
  BY <1>1, <1>2, Heads, LinesStay DEF RIn, RHold, WIn, WHold, WQueued
<1>5. Known'
  BY <1>1, <1>2, NoneIsNil DEF Inv, Known, RIn, RHold, WIn, WHold, WQueued, CIn
<1>6. Data'
  BY <1>1, <1>2, DataStays
<1>7. Sleeps'
  <2>1. \A q \in Procs : /\ pc'[q] = "rsleep" => starve' \/ NotEmpty'
                         /\ pc'[q] = "wsleep" => flow' \/ closed' \/ Eff' < Half
    BY <1>1, <1>2 DEF Inv, Sleeps, NotEmpty, Eff, data, state
  <2> QED BY <1>0, <1>1, <2>1 DEF Sleeps, ReaderIsRemembered, WriterIsRemembered, Half
<1>8. Bounds'
  BY <1>1, <1>2, BoundsStay DEF data, state, WQueued
<1> QED BY <1>3, <1>4, <1>5, <1>6, <1>7, <1>8 DEF Inv
-----------------------------------------------------------------------------
(* The steps of a reader that take bytes.                                  *)

(* a queue that is not empty is its first block and the rest *)
LEMMA FirstBlock ==
  ASSUME NEW bs \in Seq(Block), bs # <<>>
  PROVE  /\ Head(bs) \in Block /\ Tail(bs) \in Seq(Block) /\ bs = <<Head(bs)>> \o Tail(bs)
         /\ Bytes(bs) = Head(bs).data \o Bytes(Tail(bs))
         /\ Alloc(bs) = Head(bs).alloc + Alloc(Tail(bs))
         /\ Head(bs).data \in Seq(Nat) /\ Bytes(Tail(bs)) \in Seq(Nat)
         /\ Head(bs).alloc \in Nat /\ Alloc(Tail(bs)) \in Nat
<1>1. Head(bs) \in Block /\ Tail(bs) \in Seq(Block) /\ bs = <<Head(bs)>> \o Tail(bs)
  OBVIOUS
<1>2. PICK b \in Block : b = Head(bs)
  BY <1>1
<1>3. PICK ts \in Seq(Block) : ts = Tail(bs)
  BY <1>1
<1>4. <<b>> \in Seq(Block)
  OBVIOUS
<1>5. Bytes(<<b>> \o ts) = Bytes(<<b>>) \o Bytes(ts) /\ Alloc(<<b>> \o ts) = Alloc(<<b>>) + Alloc(ts)
      /\ Bytes(ts) \in Seq(Nat) /\ Alloc(ts) \in Nat
  BY <1>4, MoreBlocks
<1>6. Bytes(<<b>>) = b.data /\ Alloc(<<b>>) = b.alloc /\ b.data \in Seq(Nat) /\ b.alloc \in Nat
  BY OneBlock DEF Block
<1> QED BY <1>1, <1>2, <1>3, <1>5, <1>6

(* what follows the first k elements *)
LEMMA FromThere ==
  ASSUME NEW S, NEW s \in Seq(S), NEW k \in 0 .. Len(s)
  PROVE  /\ SubSeq(s, k + 1, Len(s)) \in Seq(S)
         /\ Len(SubSeq(s, k + 1, Len(s))) = Len(s) - k
         /\ \A i \in 1 .. Len(s) - k : SubSeq(s, k + 1, Len(s))[i] = s[k + i]
<1>1. PICK a \in Int : a = k + 1
  OBVIOUS
<1>2. PICK c \in Int : c = Len(s)
  OBVIOUS
<1>3. \A i \in a .. c : s[i] \in S
  BY <1>1, <1>2
<1>4. /\ SubSeq(s, a, c) \in Seq(S)
      /\ Len(SubSeq(s, a, c)) = IF a <= c THEN c - a + 1 ELSE 0
      /\ \A i \in 1 .. c - a + 1 : SubSeq(s, a, c)[i] = s[a + i - 1]
  BY <1>3, SubSeqProperties
<1>5. PICK t \in Seq(S) : t = SubSeq(s, a, c)
  BY <1>4
<1>6. Len(t) = IF a <= c THEN c - a + 1 ELSE 0
  BY <1>4, <1>5
<1>7. Len(t) = Len(s) - k
  BY <1>1, <1>2, <1>6
<1>8. ASSUME NEW i \in 1 .. Len(s) - k PROVE t[i] = s[k + i]
  <2>1. i \in 1 .. c - a + 1 /\ a + i - 1 = k + i
    BY <1>1, <1>2
  <2> QED BY <1>4, <1>5, <2>1
<1> QED BY <1>1, <1>2, <1>5, <1>7, <1>8

(* what is left of a block when k bytes of it are taken *)
LEMMA RestOfBlock ==
  ASSUME NEW b \in Block, NEW k \in 0 .. Len(b.data), NEW a \in Nat,
         Len(b.data) - k + Hdr <= a, a <= b.alloc
  PROVE  /\ SubSeq(b.data, k + 1, Len(b.data)) \in Seq(Nat)
         /\ [data |-> SubSeq(b.data, k + 1, Len(b.data)), alloc |-> a] \in Block
<1>1. b.data \in Seq(Nat) /\ b.alloc \in Nat /\ b.alloc <= Most /\ Most \in Nat /\ Hdr \in Nat
  BY SizesAreNat DEF Block, Most
<1>2. PICK d \in Seq(Nat) : d = b.data
  BY <1>1
<1>3. SubSeq(d, k + 1, Len(d)) \in Seq(Nat) /\ Len(SubSeq(d, k + 1, Len(d))) = Len(d) - k
  BY <1>2
<1>4. Len(d) - k + Hdr <= a /\ a <= Most
  BY <1>1, <1>2
<1> QED BY <1>2, <1>3, <1>4 DEF Block

(* the m bytes after byte c *)
Numbers(m, c) == [i \in 1 .. m |-> c + i]

(* the first k bytes of x and then y have been read *)
LEMMA Dropped ==
  ASSUME NEW x \in Seq(Nat), NEW y \in Seq(Nat), NEW m \in Nat, NEW c \in Nat,
         x \o y = Numbers(m, c), NEW k \in 0 .. Len(x)
  PROVE  /\ k \in Nat /\ k <= m
         /\ SubSeq(x, k + 1, Len(x)) \o y = Numbers(m - k, c + k)
<1>1. /\ x \o y \in Seq(Nat) /\ Len(x \o y) = Len(x) + Len(y)
      /\ \A i \in 1 .. Len(x) + Len(y) : (x \o y)[i] = IF i <= Len(x) THEN x[i] ELSE y[i - Len(x)]
  BY ConcatProperties
<1>2. PICK xy \in Seq(Nat) : xy = x \o y
  BY <1>1
<1>3. Len(xy) = m /\ \A i \in 1 .. m : xy[i] = c + i
  BY <1>2 DEF Numbers
<1>0. /\ Len(xy) = Len(x) + Len(y) /\ Len(x) \in Nat /\ Len(y) \in Nat
      /\ \A i \in 1 .. Len(x) + Len(y) : xy[i] = IF i <= Len(x) THEN x[i] ELSE y[i - Len(x)]
  <2>1. Len(x) \in Nat /\ Len(y) \in Nat
    OBVIOUS
  <2> QED BY <1>1, <1>2, <2>1
<1>4. m = Len(x) + Len(y) /\ Len(x) \in Nat /\ Len(y) \in Nat
  BY <1>0, <1>3
<1>5. PICK z \in Seq(Nat) : z = SubSeq(x, k + 1, Len(x))
  BY FromThere
<1>6. Len(z) = Len(x) - k /\ \A i \in 1 .. Len(x) - k : z[i] = x[k + i]
  BY <1>5, FromThere
<1>7. /\ z \o y \in Seq(Nat) /\ Len(z \o y) = Len(z) + Len(y)
      /\ \A i \in 1 .. Len(z) + Len(y) : (z \o y)[i] = IF i <= Len(z) THEN z[i] ELSE y[i - Len(z)]
  BY ConcatProperties
<1>8. [i \in 1 .. m - k |-> c + k + i] \in Seq(Nat) /\ Len([i \in 1 .. m - k |-> c + k + i]) = m - k
  BY <1>4
<1>9. ASSUME NEW i \in 1 .. m - k PROVE (z \o y)[i] = c + k + i
  <2>1. k + i \in 1 .. m /\ i \in 1 .. Len(z) + Len(y)
    BY <1>4, <1>6
  <2>2. xy[k + i] = c + k + i
    BY <1>3, <2>1
  <2>3. CASE i <= Len(z)
    <3>0. i \in 1 .. Len(x) - k
      BY <1>4, <1>6, <2>3
    <3>1. (z \o y)[i] = z[i] /\ z[i] = x[k + i]
      BY <1>6, <1>7, <2>1, <2>3, <3>0
    <3>2. xy[k + i] = x[k + i]
      <4>1. k + i \in 1 .. Len(x) + Len(y) /\ k + i <= Len(x)
        BY <1>4, <2>1, <3>0
      <4> QED BY <1>0, <4>1
    <3> QED BY <2>2, <3>1, <3>2
  <2>4. CASE ~(i <= Len(z))
    <3>1. (z \o y)[i] = y[i - Len(z)] /\ i - Len(z) = (k + i) - Len(x)
      BY <1>4, <1>6, <1>7, <2>1, <2>4
    <3>2. xy[k + i] = y[(k + i) - Len(x)]
      <4>1. PICK j \in Nat, a \in Nat : j = k + i /\ a = Len(x)
        <5>1. k + i \in Nat
          BY <2>1
        <5>2. Len(x) \in Nat
          BY <1>4
        <5> QED BY <5>1, <5>2
      <4>2. j \in 1 .. Len(x) + Len(y)
        BY <1>4, <2>1, <4>1
      <4>3. ~(j <= Len(x))
        <5>1. Len(z) = a - k /\ ~(i <= Len(z))
          BY <1>6, <2>4, <4>1
        <5> QED BY <4>1, <5>1
      <4> QED BY <1>0, <4>1, <4>2, <4>3
    <3> QED BY <2>2, <3>1, <3>2
  <2> QED BY <2>3, <2>4
<1>10. Len(z \o y) = m - k
  BY <1>4, <1>6, <1>7
<1>11. z \o y = [i \in 1 .. m - k |-> c + k + i]
  <2>1. PICK u \in Seq(Nat) : u = z \o y
    BY <1>7
  <2>2. PICK v \in Seq(Nat) : v = [i \in 1 .. m - k |-> c + k + i]
    BY <1>8
  <2>3. Len(u) = m - k /\ Len(v) = m - k
    BY <1>8, <1>10, <2>1, <2>2
  <2>4. \A i \in 1 .. m - k : u[i] = v[i]
    BY <1>9, <2>1, <2>2
  <2>5. u = v
    BY <2>3, <2>4, SeqEqual
  <2> QED BY <2>1, <2>2, <2>5
<1>12. k \in Nat /\ k <= m
  BY <1>4
<1> QED BY <1>5, <1>11, <1>12 DEF Numbers

(* bl2mem of the block that a reader copies *)
LEMMA Bl2memOne ==
  ASSUME NEW bs \in Seq(Block), Len(bs) <= 1, NEW k \in Nat
  PROVE  \E g \in 0 .. Len(Bytes(bs)) :
           /\ g = LeastOf(Len(Bytes(bs)), k)
           /\ Bl2mem(bs, k) \in Seq(Block)
           /\ Bytes(Bl2mem(bs, k)) = SubSeq(Bytes(bs), g + 1, Len(Bytes(bs)))
           /\ Alloc(Bl2mem(bs, k)) <= Alloc(bs)
           /\ \/ Bl2mem(bs, k) = <<>>
              \/ g < Len(Bytes(bs)) /\ \E r \in Block : Bl2mem(bs, k) = <<r>>
<1>1. PICK d \in Seq(Nat) : d = Bytes(bs)
  BY MoreBlocks
<1>0. Alloc(bs) \in Nat /\ Len(d) \in Nat
  BY MoreBlocks
<1>2. CASE Len(d) <= k
  <2>1. Bl2mem(bs, k) = <<>> /\ LeastOf(Len(d), k) = Len(d)
    BY <1>1, <1>2, <1>0 DEF Bl2mem, LeastOf
  <2>2. SubSeq(d, Len(d) + 1, Len(d)) = <<>>
    BY <1>0, SubSeqEmpty
  <2>3. Len(d) \in 0 .. Len(d) /\ <<>> \in Seq(Block) /\ 0 <= Alloc(bs)
    BY <1>0
  <2> QED BY <1>1, <2>1, <2>2, <2>3, NoBlocks
<1>3. CASE ~(Len(d) <= k)
  <2>1. bs # <<>>
    BY <1>0, <1>1, <1>3, NoBlocks
  <2>2. PICK b \in Block : bs = <<b>>
    <3>0. Len(bs) \in Nat \ {0}
      BY <2>1, EmptySeq
    <3>1. Len(bs) = 1 /\ bs[1] \in Block
      <4>0. PICK c \in Nat : c = Len(bs)
        BY <3>0
      <4>1. Len(bs) = 1
        BY <3>0, <4>0
      <4>2. 1 \in 1 .. Len(bs)
        BY <4>1
      <4> QED BY <4>1, <4>2, ElementOfSeq
    <3>2. bs = <<bs[1]>>
      BY <3>1
    <3> QED BY <3>1, <3>2
  <2>3. d = b.data /\ Alloc(bs) = b.alloc /\ b.data \in Seq(Nat) /\ b.alloc \in Nat
    BY <1>1, <2>2, OneBlock DEF Block
  <2>4. DOMAIN bs = {1} /\ SubSeq(bs, 1, 1 - 1) = <<>> /\ SubSeq(bs, 1, 1) = bs /\ bs[1] = b
    <3>1. Len(bs) = 1 /\ DOMAIN bs = {1} /\ bs[1] = b /\ 1 - 1 < 1
      BY <2>2
    <3>2. SubSeq(bs, 1, Len(bs)) = bs
      BY SubSeqFull
    <3>3. SubSeq(bs, 1, 1 - 1) = <<>>
      BY <3>1, SubSeqEmpty
    <3> QED BY <3>1, <3>2, <3>3
  <2>5. Len(Bytes(SubSeq(bs, 1, 1 - 1))) = 0
    <3>1. Len(<<>>) = 0
      OBVIOUS
    <3> QED BY <2>4, <3>1, NoBlocks
  <2>6. (CHOOSE i \in DOMAIN bs :
           /\ Len(Bytes(SubSeq(bs, 1, i - 1))) <= k
           /\ Len(Bytes(SubSeq(bs, 1, i))) > k) = 1
    <3>1. /\ 1 \in DOMAIN bs
          /\ Len(Bytes(SubSeq(bs, 1, 1 - 1))) <= k
          /\ Len(Bytes(SubSeq(bs, 1, 1))) > k
      <4>1. Len(Bytes(SubSeq(bs, 1, 1))) = Len(d)
        BY <1>1, <2>4
      <4> QED BY <1>0, <1>3, <2>4, <2>5, <4>1
    <3> QED BY <2>4, <3>1
  <2>7. k - 0 = k
    OBVIOUS
  <2>8. Bl2mem(bs, k) = <<[b EXCEPT !.data = SubSeq(b.data, k + 1, Len(b.data))]>>
    BY <1>0, <1>1, <1>3, <2>4, <2>5, <2>6, <2>7 DEF Bl2mem
  <2>9. PICK r \in Block : r = [data |-> SubSeq(b.data, k + 1, Len(b.data)), alloc |-> b.alloc]
    <3>1. k \in 0 .. Len(b.data)
      BY <1>0, <1>3, <2>3
    <3>2. Len(b.data) - k + Hdr <= b.alloc
      <4>1. Len(b.data) \in Nat /\ Hdr \in Nat /\ Len(b.data) + Hdr <= b.alloc
        BY <2>3, SizesAreNat DEF Block
      <4> QED BY <2>3, <4>1
    <3>3. b.alloc \in Nat /\ b.alloc <= b.alloc
      BY <2>3
    <3>4. [data |-> SubSeq(b.data, k + 1, Len(b.data)), alloc |-> b.alloc] \in Block
      BY <3>1, <3>2, <3>3, RestOfBlock
    <3> QED BY <3>4
  <2>10. Bl2mem(bs, k) = <<r>>
    <3>1. [b EXCEPT !.data = SubSeq(b.data, k + 1, Len(b.data))]
             = [data |-> SubSeq(b.data, k + 1, Len(b.data)), alloc |-> b.alloc]
      <4>1. b \in [data : Seq(Nat), alloc : Nat]
        BY DEF Block
      <4>2. PICK x : x = SubSeq(b.data, k + 1, Len(b.data))
        OBVIOUS
      <4>3. [b EXCEPT !.data = x] = [data |-> x, alloc |-> b.alloc]
        BY <4>1
      <4> QED BY <4>2, <4>3
    <3> QED BY <2>8, <2>9, <3>1
  <2>11. Bytes(<<r>>) = r.data /\ Alloc(<<r>>) = r.alloc /\ <<r>> \in Seq(Block)
    BY OneBlock
  <2>12. r.data = SubSeq(d, k + 1, Len(d)) /\ r.alloc = b.alloc
    BY <2>3, <2>9
  <2>13. k \in 0 .. Len(d) /\ LeastOf(Len(d), k) = k /\ k < Len(d)
    BY <1>0, <1>3 DEF LeastOf
  <2> QED BY <1>1, <2>3, <2>10, <2>11, <2>12, <2>13
<1> QED BY <1>2, <1>3
-----------------------------------------------------------------------------
(* What the bytes are for the invariant, in other words.                   *)
LEMMA DataIs ==
  ASSUME Inv
  PROVE  /\ blocks \in Seq(Block) /\ hand \in Seq(Block) /\ Len(hand) <= 1
         /\ Bytes(blocks) \in Seq(Nat) /\ Bytes(hand) \in Seq(Nat)
         /\ Alloc(blocks) \in Nat /\ Alloc(hand) \in Nat
         /\ len \in Nat /\ dlen \in Nat /\ sent \in Nat /\ gone \in Nat /\ sent - gone \in Nat
         /\ len = Alloc(blocks) /\ dlen = Len(Bytes(blocks))
         /\ Bytes(hand) \o Bytes(blocks) = Numbers(sent - gone, gone)
         /\ Eff \in Nat /\ Limit \in Nat /\ Hdr \in Nat /\ MaxAtomic \in Nat \ {0} /\ Most \in Nat \ {0}
         /\ Half \in Nat /\ Half <= Limit
         /\ n \in [Procs -> Nat]
<1>1. /\ blocks \in Seq(Block) /\ hand \in Seq(Block) /\ Len(hand) <= 1
      /\ sent \in Nat /\ gone \in Nat /\ gone <= sent
      /\ len = Alloc(blocks) /\ dlen = Len(Bytes(blocks))
      /\ Bytes(hand) \o Bytes(blocks) = Numbers(sent - gone, gone)
  BY DEF Inv, Data, InOrder, Accounting, Numbers
<1>2. /\ Bytes(blocks) \in Seq(Nat) /\ Bytes(hand) \in Seq(Nat)
      /\ Alloc(blocks) \in Nat /\ Alloc(hand) \in Nat
  BY <1>1, MoreBlocks
<1>3. len \in Nat /\ dlen \in Nat
  BY <1>1, <1>2
<1>4. Limit \in Nat /\ Hdr \in Nat /\ MaxAtomic \in Nat \ {0} /\ Most \in Nat \ {0}
  BY SizesAreNat DEF Most
<1>5. Half \in Nat /\ Half <= Limit
  BY <1>4 DEF Half
<1>6. Eff \in Nat
  BY <1>2, <1>3 DEF Eff
<1>7. n \in [Procs -> Nat]
  BY DEF Inv, Shape
<1>8. sent - gone \in Nat
  BY <1>1
<1> QED BY <1>1, <1>2, <1>3, <1>4, <1>5, <1>6, <1>7, <1>8

(* ... and the numbers alone *)
LEMMA Counts ==
  ASSUME Inv
  PROVE  /\ len \in Nat /\ dlen \in Nat /\ sent \in Nat /\ gone \in Nat /\ gone <= sent
         /\ Eff \in Nat /\ Limit \in Nat /\ Half \in Nat /\ Half <= Limit /\ Most \in Nat /\ Most > 0
BY DataIs DEF Inv, Data

(* qread takes the first block *)
LEMMA QReadGrabKeeps ==
  ASSUME Inv, NEW p \in Procs, QReadGrab(p), UNCHANGED <<open, plk>>
  PROVE  Inv'
<1>1. /\ pc[p] = "rwait" /\ Holds(rlock, p) /\ blocks # <<>>
      /\ hand' = SubSeq(blocks, 1, 1) /\ blocks' = SubSeq(blocks, 1 + 1, Len(blocks))
      /\ len' = len - Alloc(hand') /\ dlen' = dlen - Len(Bytes(hand'))
      /\ pc' = [pc EXCEPT ![p] = "rcopy"]
      /\ UNCHANGED <<sent, gone, state, rlock, wlock, sleepers, n, left, calls, open, plk>>
  BY PipeQueues DEF QReadGrab, InQWait, At, Goto, Grabs
<1>2. \A q \in Procs : pc'[q] = IF q = p THEN "rcopy" ELSE pc[q]
  BY <1>1, PcsAre
<1>0. /\ rr = None /\ \A q \in Procs : q # p => pc[q] \notin RHold
  BY <1>1, Reading, NobodyReads DEF RIn, RHold
<1>h. hand = <<>>
  BY <1>0, <1>1 DEF Inv, Data, RHold
<1>3. PICK b \in Block : b = Head(blocks)
  BY <1>1, DataIs, FirstBlock
<1>4. PICK ts \in Seq(Block) : ts = Tail(blocks)
  BY <1>1, DataIs, FirstBlock
<1>5. hand' = <<b>> /\ blocks' = ts
  <2>1. \A s \in Seq(Block) : s # <<>> => SubSeq(s, 1, 1) = <<Head(s)>> /\ SubSeq(s, 1 + 1, Len(s)) = Tail(s)
    <3>1. ASSUME NEW s \in Seq(Block), s # <<>>
          PROVE  SubSeq(s, 1, 1) = <<Head(s)>> /\ SubSeq(s, 1 + 1, Len(s)) = Tail(s)
      <4>1. Len(s) \in Nat \ {0}
        BY <3>1, EmptySeq
      <4>2. 1 \in 1 .. Len(s) /\ 1 \in 1 .. Len(s) /\ 1 \in Int
        BY <4>1
      <4>3. SubSeq(s, 1, 1) = <<s[1]>> \o SubSeq(s, 1 + 1, 1)
        BY <4>1, SubSeqRecursiveFirst
      <4>4. SubSeq(s, 1 + 1, 1) = <<>>
        BY SubSeqEmpty
      <4>5. s[1] \in Block /\ <<s[1]>> \in Seq(Block)
        BY <4>2, ElementOfSeq
      <4>6. SubSeq(s, 1, 1) = <<s[1]>>
        BY <4>3, <4>4, <4>5, ConcatEmptySeq
      <4>7. Tail(s) = SubSeq(s, 2, Len(s)) /\ Head(s) = s[1] /\ 1 + 1 = 2
        BY <3>1, TailIsSubSeq
      <4> QED BY <4>6, <4>7
    <3> QED BY <3>1
  <2> QED BY <1>1, <1>3, <1>4, <2>1, DataIs
<1>6. /\ Bytes(blocks) = b.data \o Bytes(ts) /\ Alloc(blocks) = b.alloc + Alloc(ts)
      /\ b.data \in Seq(Nat) /\ Bytes(ts) \in Seq(Nat) /\ b.alloc \in Nat /\ Alloc(ts) \in Nat
  BY <1>1, <1>3, <1>4, DataIs, FirstBlock
<1>7. Bytes(<<b>>) = b.data /\ Alloc(<<b>>) = b.alloc
  BY OneBlock
<1>8. len' = Alloc(ts) /\ dlen' = Len(Bytes(ts)) /\ Eff' = Eff
  <2>1. len = b.alloc + Alloc(ts)
    BY <1>6, DataIs
  <2>2. dlen = Len(b.data) + Len(Bytes(ts)) /\ Len(b.data) \in Nat /\ Len(Bytes(ts)) \in Nat
    <3>1. \A x, y \in Seq(Nat) : Len(x \o y) = Len(x) + Len(y) /\ Len(x) \in Nat
      BY ConcatProperties
    <3>2. Len(b.data \o Bytes(ts)) = Len(b.data) + Len(Bytes(ts))
      BY <1>6, <3>1
    <3> QED BY <1>6, <3>1, <3>2, DataIs
  <2>3. len' = len - b.alloc /\ dlen' = dlen - Len(b.data)
    BY <1>1, <1>5, <1>7
  <2>4. Eff' = len' + b.alloc /\ Eff = len + 0
    BY <1>5, <1>7, <1>h, NoBlocks DEF Eff
  <2> QED BY <1>6, <2>1, <2>2, <2>3, <2>4
<1>9. Shape'
  BY <1>1, <1>2 DEF Inv, Shape, RIn, RHold, state
<1>10. Lines'
  BY <1>1, ReaderMoves DEF RIn, RHold
<1>11. Known'
  BY <1>1, <1>2 DEF Inv, Known, RIn, RHold, WIn, WHold, WQueued, CIn, sleepers
<1>12. Data'
  <2>1. Bytes(hand') \o Bytes(blocks') = Numbers(sent' - gone', gone')
    <3>1. <<>> \o Bytes(blocks) = Bytes(blocks)
      BY DataIs, ConcatEmptySeq
    <3>2. Bytes(blocks) = Numbers(sent - gone, gone)
      BY <3>1, <1>h, NoBlocks, DataIs
    <3> QED BY <1>1, <1>5, <1>6, <1>7, <3>2
  <2>2. hand' \in Seq(Block) /\ Len(hand') <= 1 /\ blocks' \in Seq(Block)
    BY <1>5
  <2>3. ~ \A q \in Procs : pc'[q] # "rcopy"
    BY <1>2
  <2> QED BY <1>1, <1>5, <1>8, <2>1, <2>2, <2>3 DEF Inv, Data, InOrder, Accounting, Numbers
<1>13. Sleeps'
  <2>1. ReaderIsRemembered'
    BY <1>0, <1>1 DEF ReaderIsRemembered, sleepers
  <2>2. Waking({"rwake", "crr", "cwr"}) => Waking({"rwake", "crr", "cwr"})'
    BY <1>1, <1>2 DEF Waking
  <2>3. Waking({"rcopy"})'
    BY <1>2 DEF Waking
  <2>4. WriterIsRemembered'
    BY <1>1, <2>2, <2>3 DEF Inv, Sleeps, WriterIsRemembered, state, sleepers
  <2>5. \A q \in Procs : /\ pc'[q] = "rsleep" => starve' \/ NotEmpty'
                         /\ pc'[q] = "wsleep" => flow' \/ closed' \/ Eff' < Half
    BY <1>0, <1>1, <1>2, <1>8 DEF Inv, Sleeps, state, RHold
  <2> QED BY <2>1, <2>4, <2>5 DEF Sleeps, Half
<1>14. Bounds'
  <2>1. InSet(WQueued)' = {} => InSet(WQueued) = {}
    BY <1>1, <1>2 DEF InSet, WQueued
  <2> QED BY <1>1, <1>8, <2>1 DEF Inv, Bounds, state
<1> QED BY <1>9, <1>10, <1>11, <1>12, <1>13, <1>14 DEF Inv

(* A reader has changed the queue and is about to let it go: what it took  *)
(* off has made the queue no longer, and it wakes a writer if it must.     *)
LEMMA ReaderLets ==
  ASSUME Inv, NEW p \in Procs, pc[p] \in {"rwait", "rcopy"}, Holds(rlock, p),
         RestartWriter(p, len'), hand' = <<>>,
         UNCHANGED <<sent, closed, starve, noblock, rlock, wlock, sleepers, n, left, calls, open, plk>>,
         blocks' \in Seq(Block), len' = Alloc(blocks'), dlen' = Len(Bytes(blocks')),
         len' <= Eff, gone' \in Nat, gone' <= sent,
         Bytes(blocks') = Numbers(sent - gone', gone')
  PROVE  Inv'
<1>1. PICK to \in {"rwake", "rdone"} :
        /\ pc' = [pc EXCEPT ![p] = to]
        /\ \/ flow /\ len' < Half /\ flow' = FALSE /\ to = "rwake"
           \/ ~(flow /\ len' < Half) /\ flow' = flow /\ to = "rdone"
  BY DEF RestartWriter, Goto, Half
<1>2. \A q \in Procs : pc'[q] = IF q = p THEN to ELSE pc[q]
  BY <1>1 DEF Inv, Shape
<1>0. /\ rr = None /\ \A q \in Procs : q # p => pc[q] \notin RHold
  BY Reading, NobodyReads DEF RIn, RHold
<1>3. len' \in Nat /\ Bytes(blocks') \in Seq(Nat)
  BY MoreBlocks
<1>4. Eff' = len'
  BY <1>3, NoBlocks DEF Eff
<1>5. Shape'
  BY <1>1, <1>2 DEF Inv, Shape, RIn, RHold
<1>6. Lines'
  BY <1>1, ReaderMoves DEF RIn, RHold
<1>7. Known'
  BY <1>1, <1>2 DEF Inv, Known, RIn, RHold, WIn, WHold, WQueued, CIn, sleepers
<1>8. Data'
  <2>1. <<>> \o Bytes(blocks') = Bytes(blocks')
    BY <1>3, ConcatEmptySeq
  <2>2. InOrder'
    BY <2>1, NoBlocks DEF InOrder, Numbers
  <2>3. <<>> \in Seq(Block) /\ Len(<<>>) <= 1
    OBVIOUS
  <2> QED BY <2>2, <2>3 DEF Inv, Data, Accounting
<1>9. Sleeps'
  <2>1. ReaderIsRemembered'
    BY <1>0 DEF ReaderIsRemembered, sleepers
  <2>2. Waking({"rwake", "crr", "cwr"}) => Waking({"rwake", "crr", "cwr"})'
    BY <1>2 DEF Waking
  <2>3. WriterIsRemembered'
    <3>1. CASE to = "rwake"
      BY <3>1, <1>2 DEF WriterIsRemembered, Waking
    <3>2. CASE to = "rdone"
      <4>1. flow' = flow /\ (flow => len' >= Half)
        BY <1>1, <1>3, <3>2, Counts
      <4> QED BY <2>2, <4>1 DEF Inv, Sleeps, WriterIsRemembered, sleepers, Half
    <3> QED BY <3>1, <3>2
  <2>4. ASSUME NEW q \in Procs, pc'[q] = "wsleep" PROVE flow' \/ closed' \/ Eff' < Half
    <3>1. flow \/ closed \/ Eff < Half
      BY <1>2, <2>4 DEF Inv, Sleeps
    <3>2. Eff < Half => Eff' < Half
      BY <1>3, <1>4, Counts
    <3> QED BY <1>1, <1>4, <3>1, <3>2
  <2>5. \A q \in Procs : pc'[q] # "rsleep"
    BY <1>0, <1>2 DEF RHold
  <2> QED BY <2>1, <2>3, <2>4, <2>5 DEF Sleeps, Half
<1>10. Bounds'
  <2>1. InSet(WQueued)' = {} => InSet(WQueued) = {}
    BY <1>2 DEF InSet, WQueued
  <2>2. Eff' <= Eff /\ Eff' \in Nat
    BY <1>3, <1>4
  <2>3. /\ Eff < Limit + 2 * Most => Eff' < Limit + 2 * Most
        /\ Eff < Limit + Most => Eff' < Limit + Most
    BY <2>2, Counts
  <2> QED BY <2>1, <2>3 DEF Inv, Bounds
<1> QED BY <1>5, <1>6, <1>7, <1>8, <1>9, <1>10 DEF Inv

(* qread has copied it, and puts back what did not fit *)
LEMMA QReadFinishKeeps ==
  ASSUME Inv, NEW p \in Procs, QReadFinish(p), UNCHANGED <<open, plk>>
  PROVE  Inv'
<1>1. PICK rest : /\ rest = Bl2mem(hand, n[p])
                  /\ blocks' = rest \o blocks /\ len' = len + Alloc(rest)
                  /\ dlen' = dlen + Len(Bytes(rest))
  BY DEF QReadFinish
<1>2. /\ pc[p] = "rcopy" /\ hand' = <<>> /\ RestartWriter(p, len')
      /\ gone' = gone + LeastOf(Len(Bytes(hand)), n[p])
      /\ UNCHANGED <<sent, closed, starve, noblock, rlock, wlock, sleepers, n, left, calls>>
  BY DEF QReadFinish, At
<1>3. Holds(rlock, p)
  BY <1>2, Reading DEF RIn, RHold
<1>4. PICK x \in Seq(Nat) : x = Bytes(hand)
  BY DataIs
<1>5. PICK g \in 0 .. Len(x) :
         /\ gone' = gone + g /\ rest \in Seq(Block)
         /\ Bytes(rest) = SubSeq(x, g + 1, Len(x))
         /\ Alloc(rest) <= Alloc(hand)
  <2>1. n[p] \in Nat
    BY DataIs
  <2> QED BY <1>1, <1>2, <1>4, <2>1, DataIs, Bl2memOne
<1>6. /\ Bytes(rest) \in Seq(Nat) /\ Bytes(rest \o blocks) = Bytes(rest) \o Bytes(blocks)
      /\ Alloc(rest) \in Nat /\ Alloc(rest \o blocks) = Alloc(rest) + Alloc(blocks)
  BY <1>5, DataIs, MoreBlocks
<1>7. PICK y \in Seq(Nat) : y = Bytes(blocks)
  BY DataIs
<1>8. PICK m \in Nat : m = sent - gone
  BY DataIs
<1>9. g \in Nat /\ g <= m /\ SubSeq(x, g + 1, Len(x)) \o y = Numbers(m - g, gone + g)
  <2>1. x \o y = Numbers(m, gone)
    BY <1>4, <1>7, <1>8, DataIs
  <2>2. PICK c \in Nat : c = gone
    BY Counts
  <2>3. x \o y = Numbers(m, c)
    BY <2>1, <2>2
  <2>4. g \in Nat /\ g <= m /\ SubSeq(x, g + 1, Len(x)) \o y = Numbers(m - g, c + g)
    BY <2>3, Dropped
  <2> QED BY <2>2, <2>4
<1>10. gone' \in Nat /\ gone' <= sent /\ sent - gone' = m - g
  <2>1. gone' = gone + g /\ m = sent - gone /\ g \in Nat /\ g <= m
    BY <1>5, <1>8, <1>9
  <2>2. sent \in Nat /\ gone \in Nat
    BY Counts
  <2> QED BY <2>1, <2>2
<1>11. Bytes(blocks') = Numbers(sent - gone', gone')
  BY <1>1, <1>5, <1>6, <1>7, <1>9, <1>10
<1>12. blocks' \in Seq(Block)
  BY <1>1, <1>5, DataIs, ConcatProperties
<1>13. len' = Alloc(blocks') /\ len' <= Eff
  <2>1. len = Alloc(blocks) /\ len \in Nat /\ Alloc(hand) \in Nat
    BY DataIs
  <2> QED BY <1>1, <1>5, <1>6, <2>1 DEF Eff
<1>14. dlen' = Len(Bytes(blocks'))
  <2>1. \A u, v \in Seq(Nat) : Len(u \o v) = Len(u) + Len(v) /\ Len(u) \in Nat
    BY ConcatProperties
  <2>2. Len(Bytes(rest) \o y) = Len(Bytes(rest)) + Len(y) /\ Len(Bytes(rest)) \in Nat /\ Len(y) \in Nat
    BY <1>6, <2>1
  <2>3. dlen = Len(y)
    BY <1>7, DataIs
  <2>4. dlen' = Len(y) + Len(Bytes(rest))
    BY <1>1, <2>3
  <2>5. Len(Bytes(blocks')) = Len(Bytes(rest)) + Len(y)
    BY <1>1, <1>6, <1>7, <2>2
  <2> QED BY <2>2, <2>4, <2>5
<1> QED BY <1>2, <1>3, <1>10, <1>11, <1>12, <1>13, <1>14, ReaderLets

(* qbread takes the first block, or the front of it *)
LEMMA QBReadKeeps ==
  ASSUME Inv, NEW p \in Procs, QBRead(p), UNCHANGED <<open, plk>>
  PROVE  Inv'
<1>1. /\ pc[p] = "rwait" /\ Holds(rlock, p) /\ blocks # <<>> /\ RestartWriter(p, len')
      /\ UNCHANGED <<sent, closed, starve, noblock, rlock, wlock, sleepers, n, left, hand, calls>>
  BY DEF QBRead, InQWait, At
<1>2. PICK b \in Block : b = Head(blocks)
  BY <1>1, DataIs, FirstBlock
<1>3. PICK ts \in Seq(Block) : ts = Tail(blocks)
  BY <1>1, DataIs, FirstBlock
<1>4. PICK d \in Seq(Nat) : d = b.data
  BY DEF Block
<1>5. PICK g \in 0 .. Len(d) : g = LeastOf(Len(d), n[p])
  <2>1. n[p] \in Nat
    BY DataIs
  <2> QED BY <2>1 DEF LeastOf
<1>6. PICK r \in Block : r = [data |-> SubSeq(d, g + 1, Len(d)), alloc |-> Len(d) - g + Hdr]
  <2>1. Len(d) - g + Hdr \in Nat /\ Len(d) - g + Hdr <= b.alloc /\ b.alloc \in Nat
    <3>1. Hdr \in Nat /\ Len(d) + Hdr <= b.alloc /\ b.alloc \in Nat
      BY <1>4, DataIs DEF Block
    <3> QED BY <3>1
  <2>2. [data |-> SubSeq(b.data, g + 1, Len(b.data)), alloc |-> Len(d) - g + Hdr] \in Block
    BY <1>4, <2>1, RestOfBlock
  <2> QED BY <1>4, <2>2
<1>7. /\ gone' = gone + g /\ dlen' = dlen - g
      /\ IF g = Len(d) THEN blocks' = ts /\ len' = len - b.alloc
                       ELSE blocks' = <<r>> \o ts /\ len' = len - b.alloc + r.alloc
  BY <1>2, <1>3, <1>4, <1>5, <1>6 DEF QBRead
<1>8. /\ Bytes(blocks) = d \o Bytes(ts) /\ Alloc(blocks) = b.alloc + Alloc(ts)
      /\ Bytes(ts) \in Seq(Nat) /\ b.alloc \in Nat /\ Alloc(ts) \in Nat
  BY <1>1, <1>2, <1>3, <1>4, DataIs, FirstBlock
<1>9. hand = <<>>
  <2>1. \A q \in Procs : q # p => pc[q] \notin RHold
    BY <1>1, Reading DEF RIn, RHold
  <2> QED BY <1>1, <2>1 DEF Inv, Data, RHold
<1>10. PICK y \in Seq(Nat) : y = Bytes(ts)
  BY <1>8
<1>11. PICK m \in Nat : m = sent - gone
  BY DataIs
<1>12. g \in Nat /\ g <= m /\ SubSeq(d, g + 1, Len(d)) \o y = Numbers(m - g, gone + g)
  <2>1. <<>> \o Bytes(blocks) = Bytes(blocks)
    BY DataIs, ConcatEmptySeq
  <2>2. d \o y = Numbers(m, gone)
    BY <1>8, <1>9, <1>10, <1>11, <2>1, NoBlocks, DataIs
  <2>3. PICK c \in Nat : c = gone
    BY Counts
  <2>4. d \o y = Numbers(m, c)
    BY <2>2, <2>3
  <2>5. g \in Nat /\ g <= m /\ SubSeq(d, g + 1, Len(d)) \o y = Numbers(m - g, c + g)
    BY <2>4, Dropped
  <2> QED BY <2>3, <2>5
<1>13. gone' \in Nat /\ gone' <= sent /\ sent - gone' = m - g
  <2>1. gone' = gone + g /\ m = sent - gone /\ g \in Nat /\ g <= m
    BY <1>7, <1>11, <1>12
  <2>2. sent \in Nat /\ gone \in Nat
    BY Counts
  <2> QED BY <2>1, <2>2
<1>14. PICK z \in Seq(Nat) : z = SubSeq(d, g + 1, Len(d)) /\ Len(z) = Len(d) - g
  BY FromThere
<1>15. /\ blocks' \in Seq(Block) /\ Bytes(blocks') = z \o y
       /\ len' = Alloc(blocks') /\ len' <= len
  <2>1. CASE g = Len(d)
    <3>1. z = <<>>
      BY <1>14, <2>1, EmptySeq
    <3>2. z \o y = y
      BY <3>1, ConcatEmptySeq
    <3>3. len = b.alloc + Alloc(ts) /\ b.alloc \in Nat /\ Alloc(ts) \in Nat
      BY <1>8, DataIs
    <3>4. blocks' = ts /\ len' = len - b.alloc
      BY <1>7, <2>1
    <3>5. len' = Alloc(ts) /\ len' <= len
      BY <3>3, <3>4
    <3> QED BY <1>10, <3>2, <3>4, <3>5
  <2>2. CASE g # Len(d)
    <3>1. <<r>> \in Seq(Block) /\ Bytes(<<r>>) = r.data /\ Alloc(<<r>>) = r.alloc
      BY OneBlock
    <3>2. PICK rs \in Seq(Block) : rs = <<r>>
      BY <3>1
    <3>3. /\ rs \o ts \in Seq(Block) /\ Bytes(rs \o ts) = Bytes(rs) \o Bytes(ts)
          /\ Alloc(rs \o ts) = Alloc(rs) + Alloc(ts)
      BY MoreBlocks, ConcatProperties
    <3>4. r.data = z /\ r.alloc \in Nat /\ r.alloc <= b.alloc
      <4>1. Hdr \in Nat /\ Len(d) + Hdr <= b.alloc /\ b.alloc \in Nat
        BY <1>4, DataIs DEF Block
      <4>2. r.alloc = Len(d) - g + Hdr /\ r.data = z
        BY <1>6, <1>14
      <4> QED BY <4>1, <4>2
    <3>5. len = b.alloc + Alloc(ts)
      BY <1>8, DataIs
    <3>6. blocks' = rs \o ts /\ len' = len - b.alloc + r.alloc
      BY <1>7, <2>2, <3>2
    <3>7. Alloc(rs \o ts) = r.alloc + Alloc(ts) /\ Bytes(rs \o ts) = z \o y
      BY <1>10, <3>1, <3>2, <3>3, <3>4
    <3>8. len' = Alloc(rs \o ts) /\ len' <= len
      <4>1. PICK a \in Nat, c \in Nat, e \in Nat : a = b.alloc /\ c = r.alloc /\ e = Alloc(ts)
        BY <1>8, <3>4
      <4>2. len = a + e /\ len' = len - a + c /\ c <= a
        BY <3>4, <3>5, <3>6, <4>1
      <4>3. len' = c + e /\ len' <= len
        BY <4>2
      <4> QED BY <3>7, <4>1, <4>3
    <3> QED BY <3>3, <3>6, <3>7, <3>8
  <2> QED BY <2>1, <2>2
<1>16. dlen' = Len(Bytes(blocks'))
  <2>1. \A u, v \in Seq(Nat) : Len(u \o v) = Len(u) + Len(v) /\ Len(u) \in Nat
    BY ConcatProperties
  <2>2. Len(z \o y) = Len(z) + Len(y) /\ Len(d \o y) = Len(d) + Len(y) /\ Len(d) \in Nat /\ Len(y) \in Nat
    BY <2>1
  <2>3. dlen = Len(d \o y)
    BY <1>8, <1>10, DataIs
  <2>4. Len(Bytes(blocks')) = Len(d) - g + Len(y)
    BY <1>14, <1>15, <2>2
  <2>5. dlen' = Len(d) + Len(y) - g
    BY <1>7, <2>2, <2>3
  <2> QED BY <2>2, <2>4, <2>5
<1>17. Bytes(blocks') = Numbers(sent - gone', gone')
  BY <1>7, <1>12, <1>13, <1>14, <1>15
<1>18. len' <= Eff
  <2>1. Eff = len + 0
    BY <1>9, NoBlocks DEF Eff
  <2> QED BY <1>15, <2>1, Counts
<1> QED BY <1>1, <1>9, <1>13, <1>15, <1>16, <1>17, <1>18, ReaderLets
-----------------------------------------------------------------------------
(* The steps of a writer.                                                  *)

(* write: p joins the line of q->wlock *)
LEMMA PipeWriteKeeps ==
  ASSUME Inv, NEW p \in Procs, PipeWrite(p)
  PROVE  Inv'
<1>1. PICK k \in WriteSizes : QWrite(p, k)
  BY DEF PipeWrite
<1>2. /\ p \in open /\ p \in Writers /\ pc[p] = "idle" /\ k \in Nat
      /\ calls < MaxCalls /\ calls' = calls + 1
      /\ left' = [left EXCEPT ![p] = k]
      /\ n' = [n EXCEPT ![p] = LeastOf(k, MaxAtomic)]
      /\ wlock' = Append(wlock, p) /\ pc' = [pc EXCEPT ![p] = "wq"]
      /\ UNCHANGED <<data, state, rlock, sleepers, hand, open, plk>>
  BY <1>1, SizesAreNat DEF PipeWrite, QWrite, StartWrite, At, Goto
<1>3. \A q \in Procs : pc'[q] = IF q = p THEN "wq" ELSE pc[q]
  BY <1>2, PcsAre
<1>4. Append(wlock, p) \in Seq(Writers) /\ Line(Append(wlock, p), InSet(WIn) \cup {p}, InSet(WHold))
  <2>1. p \notin InSet(WIn)
    BY <1>2 DEF InSet, WIn, WHold, WQueued
  <2> QED BY <1>2, <2>1, LineJoined DEF Inv, Shape, Lines
<1>5. Shape'
  <2>1. /\ LeastOf(k, MaxAtomic) \in Nat /\ LeastOf(k, MaxAtomic) <= k
        /\ LeastOf(k, MaxAtomic) <= MaxAtomic
    BY <1>2, SizesAreNat DEF LeastOf
  <2>2. calls' \in 0 .. MaxCalls
    BY <1>2, SizesAreNat DEF Inv, Shape
  <2>3. \A q \in Procs : pc'[q] = "wq" => n'[q] <= left'[q] /\ n'[q] <= MaxAtomic
    BY <1>2, <1>3, <2>1 DEF Inv, Shape
  <2> QED BY <1>2, <1>3, <1>4, <2>1, <2>2, <2>3 DEF Inv, Shape, WIn, state
<1>6. Lines'
  <2>1. InSet(WIn)' = InSet(WIn) \cup {p} /\ InSet(WHold)' = InSet(WHold)
    BY <1>2, <1>3 DEF InSet, WIn, WHold, WQueued
  <2>2. InSet(RIn)' = InSet(RIn) /\ InSet(RHold)' = InSet(RHold)
    BY <1>2, <1>3 DEF InSet, RIn, RHold
  <2> QED BY <1>2, <1>4, <2>1, <2>2 DEF Inv, Lines
<1>7. Known'
  BY <1>2, <1>3 DEF Inv, Known, RIn, RHold, WIn, WHold, WQueued, CIn, sleepers
<1>8. Data' /\ Sleeps' /\ Bounds'
  BY <1>2, Quiet DEF WQueued
<1> QED BY <1>5, <1>6, <1>7, <1>8 DEF Inv

(* the write, or one round of it, is over *)
LEMMA WriteEnds ==
  ASSUME Inv, NEW p \in Procs, pc[p] \in {"wq", "wout"}, Holds(wlock, p),
         NEW k \in Nat, NEW m \in Nat, n' = [n EXCEPT ![p] = m], left' = [left EXCEPT ![p] = k],
         \/ wlock' = Tail(wlock) /\ pc' = [pc EXCEPT ![p] = "idle"]
         \/ /\ wlock' = Append(Tail(wlock), p) /\ pc' = [pc EXCEPT ![p] = "wq"]
            /\ m <= k /\ m <= MaxAtomic,
         UNCHANGED <<data, state, rlock, sleepers, hand, calls, open, plk>>
  PROVE  Inv'
<1>1. PICK to \in {"idle", "wq"} :
        /\ pc' = [pc EXCEPT ![p] = to]
        /\ wlock' = IF to = "idle" THEN Tail(wlock) ELSE Append(Tail(wlock), p)
        /\ to = "wq" => m <= k /\ m <= MaxAtomic
  OBVIOUS
<1>2. \A q \in Procs : pc'[q] = IF q = p THEN to ELSE pc[q]
  BY <1>1 DEF Inv, Shape
<1>3. /\ wlock' \in Seq(Writers)
      /\ Line(wlock', IF to = "idle" THEN InSet(WIn) \ {p} ELSE InSet(WIn), {})
  BY <1>1, LineLeft, LineTurned DEF Inv, Shape, Lines
<1>4. Shape'
  <2>1. \A q \in Procs : pc'[q] = "wq" => n'[q] <= left'[q] /\ n'[q] <= MaxAtomic
    BY <1>1, <1>2 DEF Inv, Shape
  <2> QED BY <1>1, <1>2, <1>3, <2>1 DEF Inv, Shape, WIn, state
<1>5. Lines'
  <2>1. InSet(WIn)' = IF to = "idle" THEN InSet(WIn) \ {p} ELSE InSet(WIn)
    BY <1>1, <1>2 DEF InSet, WIn, WHold, WQueued
  <2>2. InSet(WHold)' = {}
    <3>1. \A q \in Procs : q # p => pc[q] \notin WHold
      BY Writing DEF WIn, WHold, WQueued
    <3> QED BY <1>1, <1>2, <3>1 DEF InSet, WHold, WQueued
  <2>3. InSet(RIn)' = InSet(RIn) /\ InSet(RHold)' = InSet(RHold)
    BY <1>1, <1>2 DEF InSet, RIn, RHold
  <2> QED BY <1>3, <2>1, <2>2, <2>3 DEF Inv, Lines
<1>6. Known'
  BY <1>1, <1>2 DEF Inv, Known, RIn, RHold, WIn, WHold, WQueued, CIn, sleepers
<1>7. Data' /\ Sleeps' /\ Bounds'
  <2>1. pc[p] \notin WQueued /\ to \notin {"rsleep", "wsleep"}
        /\ pc[p] \notin {"rcopy", "wwake", "crr", "cwr", "rwake"}
    BY <1>1 DEF WQueued
  <2> QED BY <1>1, <2>1, Quiet
<1> QED BY <1>4, <1>5, <1>6, <1>7 DEF Inv

(* qbwrite finds the queue closed, or returns to qwrite *)
LEMMA WriteEndKeeps ==
  ASSUME Inv, NEW p \in Procs, QBWriteClosed(p) \/ QBWriteReturn(p), UNCHANGED <<open, plk>>
  PROVE  Inv'
<1>1. CASE QBWriteClosed(p)
  BY <1>1, WriteEnds DEF QBWriteClosed, InQBWrite, At, Goto
<1>2. CASE QBWriteReturn(p)
  <2>1. /\ pc[p] = "wout"
        /\ wlock' = IF left[p] > 0 THEN Append(Tail(wlock), p) ELSE Tail(wlock)
        /\ n' = [n EXCEPT ![p] = LeastOf(left[p], MaxAtomic)]
        /\ pc' = [pc EXCEPT ![p] = IF left[p] > 0 THEN "wq" ELSE "idle"]
        /\ UNCHANGED <<data, state, rlock, sleepers, left, hand, calls, open, plk>>
    BY <1>2 DEF QBWriteReturn, At, Goto
  <2>2. Holds(wlock, p)
    BY <2>1, Writing DEF WIn, WHold
  <2>3. left[p] \in Nat /\ left' = [left EXCEPT ![p] = left[p]]
    BY <2>1 DEF Inv, Shape
  <2>4. /\ LeastOf(left[p], MaxAtomic) \in Nat /\ LeastOf(left[p], MaxAtomic) <= left[p]
        /\ LeastOf(left[p], MaxAtomic) <= MaxAtomic
    BY <2>3, SizesAreNat DEF LeastOf
  <2>5. PICK k \in Nat, m \in Nat : k = left[p] /\ m = LeastOf(left[p], MaxAtomic)
    BY <2>3, <2>4
  <2> QED BY <2>1, <2>2, <2>3, <2>4, <2>5, WriteEnds
<1> QED BY <1>1, <1>2

(* the block that a writer appends *)
LEMMA NewBlock ==
  ASSUME NEW s \in Nat, NEW k \in Nat, k <= MaxAtomic
  PROVE  /\ [i \in 1 .. k |-> s + i] = Numbers(k, s)
         /\ Numbers(k, s) \in Seq(Nat) /\ Len(Numbers(k, s)) = k
         /\ [data |-> Numbers(k, s), alloc |-> k + Hdr] \in Block
<1>1. Numbers(k, s) \in Seq(Nat) /\ Len(Numbers(k, s)) = k
  BY DEF Numbers
<1>2. k + Hdr \in Nat /\ k + Hdr <= Most
  BY SizesAreNat DEF Most
<1> QED BY <1>1, <1>2 DEF Numbers, Block

(* what Numbers(m, c) is *)
LEMMA NumbersAre ==
  ASSUME NEW m \in Nat, NEW c \in Nat
  PROVE  /\ Numbers(m, c) \in Seq(Nat) /\ Len(Numbers(m, c)) = m
         /\ \A i \in 1 .. m : Numbers(m, c)[i] = c + i
<1>1. Numbers(m, c) \in Seq(Nat) /\ Len(Numbers(m, c)) = m
  BY DEF Numbers
<1>2. \A i \in 1 .. m : Numbers(m, c)[i] = c + i
  BY DEF Numbers
<1> QED BY <1>1, <1>2

(* concatenation is associative *)
LEMMA ConcatNat ==
  ASSUME NEW x \in Seq(Nat), NEW y \in Seq(Nat), NEW z \in Seq(Nat)
  PROVE  (x \o y) \o z = x \o (y \o z)
<1> DEFINE S == Nat
<1>1. x \in Seq(S) /\ y \in Seq(S) /\ z \in Seq(S)
  OBVIOUS
<1> HIDE DEF S
<1> QED BY <1>1, ConcatAssociative

(* the k bytes that follow *)
LEMMA MoreNumbers ==
  ASSUME NEW m \in Nat, NEW c \in Nat, NEW k \in Nat
  PROVE  Numbers(m, c) \o Numbers(k, m + c) = Numbers(m + k, c)
<1>1. PICK x \in Seq(Nat) : x = Numbers(m, c) /\ Len(x) = m /\ \A i \in 1 .. m : x[i] = c + i
  BY NumbersAre
<1>2. PICK y \in Seq(Nat) : y = Numbers(k, m + c) /\ Len(y) = k /\ \A i \in 1 .. k : y[i] = m + c + i
  <2>1. m + c \in Nat
    OBVIOUS
  <2> QED BY <2>1, NumbersAre
<1>3. PICK z \in Seq(Nat) : z = Numbers(m + k, c) /\ Len(z) = m + k /\ \A i \in 1 .. m + k : z[i] = c + i
  <2>1. m + k \in Nat
    OBVIOUS
  <2> QED BY <2>1, NumbersAre
<1>4. /\ x \o y \in Seq(Nat) /\ Len(x \o y) = Len(x) + Len(y)
      /\ \A i \in 1 .. Len(x) + Len(y) : (x \o y)[i] = IF i <= Len(x) THEN x[i] ELSE y[i - Len(x)]
  BY ConcatProperties
<1>5. ASSUME NEW i \in 1 .. m + k PROVE (x \o y)[i] = z[i]
  <2>1. CASE i <= m
    BY <1>1, <1>2, <1>3, <1>4, <2>1
  <2>2. CASE ~(i <= m)
    <3>1. i - m \in 1 .. k
      BY <2>2
    <3>2. y[i - m] = m + c + (i - m)
      BY <1>2, <3>1
    <3>3. (x \o y)[i] = y[i - m]
      BY <1>1, <1>2, <1>4, <2>2
    <3>4. z[i] = c + i /\ m + c + (i - m) = c + i
      BY <1>3
    <3> QED BY <3>2, <3>3, <3>4
  <2> QED BY <2>1, <2>2
<1>6. Len(x \o y) = Len(z)
  BY <1>1, <1>2, <1>3, <1>4
<1>7. x \o y = z
  <2>1. PICK w \in Seq(Nat) : w = x \o y
    BY <1>4
  <2>2. Len(w) = Len(z) /\ \A i \in 1 .. Len(w) : w[i] = z[i]
    BY <1>3, <1>5, <1>6, <2>1
  <2> QED BY <2>1, <2>2, SeqEqual
<1> QED BY <1>1, <1>2, <1>3, <1>7

(* qbwrite appends a block *)
LEMMA QBWriteQueueKeeps ==
  ASSUME Inv, NEW p \in Procs, QBWriteQueue(p), UNCHANGED <<open, plk>>
  PROVE  Inv'
<1>1. /\ pc[p] = "wq" /\ Holds(wlock, p) /\ ~closed /\ Queue(n[p]) /\ starve' = FALSE
      /\ left' = [left EXCEPT ![p] = left[p] - n[p]]
      /\ pc' = [pc EXCEPT ![p] = IF starve THEN "wwake" ELSE "wflow"]
      /\ UNCHANGED <<closed, flow, noblock, rlock, wlock, sleepers, n, hand, calls, open, plk>>
  BY DEF QBWriteQueue, InQBWrite, At, Goto
<1>2. PICK to \in {"wwake", "wflow"} :
        pc' = [pc EXCEPT ![p] = to] /\ to = IF starve THEN "wwake" ELSE "wflow"
  BY <1>1
<1>3. \A q \in Procs : pc'[q] = IF q = p THEN to ELSE pc[q]
  BY <1>2 DEF Inv, Shape
<1>0. /\ wr = None /\ \A q \in Procs : q # p => pc[q] \notin WHold
  BY <1>1, Writing, NobodyWrites DEF WIn, WHold, WQueued
<1>4. PICK k \in Nat : k = n[p] /\ k <= left[p] /\ k <= MaxAtomic /\ left[p] \in Nat
  BY <1>1 DEF Inv, Shape
<1>5. PICK d \in Seq(Nat) : d = Numbers(k, sent) /\ Len(d) = k
  BY <1>4, NewBlock, Counts
<1>6. PICK b \in Block : b = [data |-> d, alloc |-> k + Hdr]
  BY <1>4, <1>5, NewBlock, Counts
<1>7. /\ blocks' = Append(blocks, b) /\ len' = len + k + Hdr /\ dlen' = dlen + k
      /\ sent' = sent + k /\ gone' = gone
  BY <1>1, <1>4, <1>5, <1>6 DEF Queue, Numbers
<1>8. PICK bb \in Seq(Block) : bb = <<b>> /\ Bytes(bb) = d /\ Alloc(bb) = k + Hdr
  <2>1. <<b>> \in Seq(Block)
    OBVIOUS
  <2> QED BY <1>6, <2>1, OneBlock
<1>9. /\ blocks' = blocks \o bb /\ blocks' \in Seq(Block) /\ blocks' # <<>>
      /\ Bytes(blocks') = Bytes(blocks) \o d /\ Alloc(blocks') = Alloc(blocks) + (k + Hdr)
  <2>1. blocks' = blocks \o bb
    BY <1>7, <1>8, DataIs, AppendIsConcat
  <2>2. Append(blocks, b) \in Seq(Block) /\ Append(blocks, b) # <<>>
    <3>1. blocks \in Seq(Block)
      BY DataIs
    <3> QED BY <3>1, AppendProperties
  <2>3. Bytes(blocks \o bb) = Bytes(blocks) \o Bytes(bb) /\ Alloc(blocks \o bb) = Alloc(blocks) + Alloc(bb)
    BY DataIs, MoreBlocks
  <2> QED BY <1>7, <1>8, <2>1, <2>2, <2>3
<1>10. len' = Alloc(blocks') /\ dlen' = Len(Bytes(blocks'))
  <2>1. len = Alloc(blocks) /\ len \in Nat /\ Hdr \in Nat
    BY DataIs
  <2>2. \A u, v \in Seq(Nat) : Len(u \o v) = Len(u) + Len(v)
    BY ConcatProperties
  <2>3. dlen = Len(Bytes(blocks)) /\ Len(Bytes(blocks) \o d) = Len(Bytes(blocks)) + Len(d)
    BY <2>2, DataIs
  <2>4. dlen' = Len(Bytes(blocks'))
    BY <1>5, <1>7, <1>9, <2>3
  <2>5. len' = Alloc(blocks) + k + Hdr /\ Alloc(blocks') = Alloc(blocks) + (k + Hdr)
    BY <1>7, <1>9, <2>1
  <2> QED BY <2>1, <2>4, <2>5
<1>11. Bytes(hand') \o Bytes(blocks') = Numbers(sent' - gone', gone')
  <2>1. PICK x \in Seq(Nat) : x = Bytes(hand)
    BY DataIs
  <2>2. PICK y \in Seq(Nat) : y = Bytes(blocks)
    BY DataIs
  <2>3. PICK m \in Nat, c \in Nat : m = sent - gone /\ c = gone /\ sent = m + c
    <3>1. PICK m \in Nat, c \in Nat : m = sent - gone /\ c = gone
      BY DataIs
    <3>2. sent \in Nat
      BY Counts
    <3>3. sent = m + c
      BY <3>1, <3>2
    <3> QED BY <3>1, <3>3
  <2>4. x \o y = Numbers(m, c)
    BY <2>1, <2>2, <2>3, DataIs
  <2>5. (x \o y) \o d = x \o (y \o d)
    BY ConcatNat
  <2>6. Numbers(m, c) \o Numbers(k, m + c) = Numbers(m + k, c)
    BY MoreNumbers
  <2>7. sent' - gone' = m + k /\ gone' = c
    BY <1>7, <2>3
  <2>8. hand' = hand
    BY <1>1
  <2> QED BY <1>5, <1>9, <2>1, <2>2, <2>3, <2>4, <2>5, <2>6, <2>7, <2>8
<1>12. Eff' = Eff + (k + Hdr) /\ Eff' < Limit + 2 * Most
  <2>1. InSet(WQueued) = {}
    BY <1>0, <1>1 DEF InSet, WHold, WQueued
  <2>2. Eff < Limit + Most
    BY <2>1 DEF Inv, Bounds
  <2>3. Hdr \in Nat /\ MaxAtomic \in Nat /\ Alloc(hand) \in Nat /\ len \in Nat /\ Limit \in Nat
    BY DataIs
  <2>4. hand' = hand
    BY <1>1
  <2>5. Eff = len + Alloc(hand) /\ Eff' = len' + Alloc(hand) /\ len' = len + k + Hdr
    BY <1>7, <2>4 DEF Eff
  <2>6. k + Hdr <= MaxAtomic + Hdr /\ Most = MaxAtomic + Hdr
    BY <1>4, <2>3 DEF Most
  <2>7. Eff' = Eff + (k + Hdr)
    BY <2>3, <2>5
  <2>8. Eff \in Nat /\ Most \in Nat
    BY Counts
  <2> QED BY <2>2, <2>3, <2>6, <2>7, <2>8
<1>13. Shape'
  <2>1. left[p] - n[p] \in Nat
    BY <1>4
  <2> QED BY <1>1, <1>2, <1>3, <2>1 DEF Inv, Shape, WIn, WHold, WQueued
<1>14. Lines'
  BY <1>1, <1>2, WriterMoves DEF WIn, WHold, WQueued
<1>15. Known'
  BY <1>1, <1>2, <1>3 DEF Inv, Known, RIn, RHold, WIn, WHold, WQueued, CIn, sleepers
<1>16. Data'
  <2>1. \A q \in Procs : pc[q] = "rcopy" => pc'[q] = "rcopy"
    BY <1>1, <1>3
  <2>2. sent' \in Nat /\ gone' \in Nat /\ gone' <= sent'
    BY <1>7, Counts
  <2>3. hand' = hand
    BY <1>1
  <2> QED BY <1>9, <1>10, <1>11, <2>1, <2>2, <2>3 DEF Inv, Data, InOrder, Accounting, Numbers
<1>17. Sleeps'
  <2>1. ReaderIsRemembered'
    <3>1. CASE to = "wwake"
      BY <1>3, <3>1 DEF ReaderIsRemembered, Waking
    <3>2. CASE to = "wflow"
      <4>1. Waking({"wwake", "iwake", "crr"}) => Waking({"wwake", "iwake", "crr"})'
        BY <1>1, <1>3 DEF Waking
      <4>2. ~starve
        BY <1>2, <3>2
      <4> QED BY <1>1, <4>1, <4>2 DEF Inv, Sleeps, ReaderIsRemembered, sleepers
    <3> QED BY <3>1, <3>2
  <2>2. WriterIsRemembered'
    BY <1>0, <1>1 DEF WriterIsRemembered, sleepers
  <2>3. \A q \in Procs : pc'[q] = "rsleep" => NotEmpty'
    BY <1>9 DEF NotEmpty
  <2>4. \A q \in Procs : pc'[q] # "wsleep"
    BY <1>0, <1>3 DEF WHold, WQueued
  <2> QED BY <2>1, <2>2, <2>3, <2>4 DEF Sleeps, Half
<1>18. Bounds'
  <2>1. p \in InSet(WQueued)'
    BY <1>2, <1>3 DEF InSet, WQueued
  <2> QED BY <1>1, <1>12, <2>1 DEF Bounds
<1> QED BY <1>13, <1>14, <1>15, <1>16, <1>17, <1>18 DEF Inv

(* a writer wakes the reader *)
LEMMA WWakeKeeps ==
  ASSUME Inv, NEW p \in Procs, WWake(p), UNCHANGED <<open, plk>>
  PROVE  Inv'
<1>1. /\ pc[p] = "wwake" /\ rr' = None
      /\ pc' = [q \in Procs |-> IF q = p THEN "wflow" ELSE IF q = rr THEN "rwait" ELSE pc[q]]
      /\ UNCHANGED <<data, state, rlock, wlock, wr, n, left, hand, calls, open, plk>>
  BY DEF WWake, At, WakeReader, WakeAndGoto
<1>2. \A q \in Procs : pc'[q] = IF q = p THEN "wflow" ELSE IF pc[q] = "rslept" THEN "rwait" ELSE pc[q]
  BY <1>1 DEF Inv, Known
<1>0. wr = None
  BY <1>1, NobodyWrites DEF WIn, WHold, WQueued
<1>3. Shape'
  BY <1>1, <1>2 DEF Inv, Shape, RIn, RHold, WIn, WHold, WQueued, CIn, state
<1>4. Lines'
  BY <1>1, <1>2, Heads, LinesStay DEF RIn, RHold, WIn, WHold, WQueued
<1>5. Known'
  BY <1>1, <1>2, NoneIsNil DEF Inv, Known, RIn, RHold, WIn, WHold, WQueued, CIn
<1>6. Data'
  BY <1>1, <1>2, DataStays
<1>7. Sleeps'
  <2>1. \A q \in Procs : /\ pc'[q] = "rsleep" => starve' \/ NotEmpty'
                         /\ pc'[q] = "wsleep" => flow' \/ closed' \/ Eff' < Half
    BY <1>1, <1>2 DEF Inv, Sleeps, NotEmpty, Eff, data, state
  <2> QED BY <1>0, <1>1, <2>1 DEF Sleeps, ReaderIsRemembered, WriterIsRemembered, Half
<1>8. Bounds'
  BY <1>1, <1>2, BoundsStay DEF data, state, WQueued
<1> QED BY <1>3, <1>4, <1>5, <1>6, <1>7, <1>8 DEF Inv

(* the test of flow control *)
LEMMA WFlowKeeps ==
  ASSUME Inv, NEW p \in Procs, WFlow(p), UNCHANGED <<open, plk>>
  PROVE  Inv'
<1>1. /\ pc[p] = "wflow" /\ noblock = FALSE
      /\ UNCHANGED <<data, state, rlock, wlock, sleepers, n, left, hand, calls, open, plk>>
  BY DEF WFlow, At, Inv, Shape
<1>2. PICK to \in {"wout", "wset"} :
        pc' = [pc EXCEPT ![p] = to] /\ (to = "wout" => QNotFull)
  BY <1>1 DEF WFlow, Goto
<1>3. \A q \in Procs : pc'[q] = IF q = p THEN to ELSE pc[q]
  BY <1>2 DEF Inv, Shape
<1>4. Shape'
  BY <1>1, <1>2, <1>3 DEF Inv, Shape, WIn, WHold, WQueued, state
<1>5. Lines'
  BY <1>1, <1>2, WriterMoves DEF WIn, WHold, WQueued
<1>6. Known'
  BY <1>1, <1>2, <1>3 DEF Inv, Known, RIn, RHold, WIn, WHold, WQueued, CIn, sleepers
<1>7. Data' /\ Sleeps'
  BY <1>1, <1>2, <1>3, DataStays, SleepsStay
<1>8. Bounds'
  <2>1. CASE to = "wset"
    BY <1>1, <1>3, <2>1, BoundsStay DEF WQueued, data, state
  <2>2. CASE to = "wout"
    <3>1. Eff' = Eff /\ closed' = closed
      BY <1>1 DEF Eff, data, state
    <3>2. closed \/ len < Limit
      BY <1>2, <2>2 DEF QNotFull
    <3>3. Alloc(hand) <= Most
      <4>1. CASE hand = <<>>
        BY <4>1, NoBlocks, Counts
      <4>2. CASE hand # <<>>
        <5>1. Head(hand) \in Block /\ Tail(hand) = <<>>
          <6>1. hand \in Seq(Block) /\ Len(hand) <= 1
            BY DataIs
          <6>2. Head(hand) \in Block /\ Tail(hand) \in Seq(Block) /\ Len(Tail(hand)) = Len(hand) - 1
            BY <4>2, <6>1, HeadTailProperties
          <6>3. Len(Tail(hand)) \in Nat /\ Len(hand) \in Nat
            BY <6>1, <6>2
          <6>4. Len(Tail(hand)) = 0
            BY <6>1, <6>2, <6>3
          <6> QED BY <6>2, <6>4, EmptySeq
        <5>2. Alloc(hand) = Head(hand).alloc + Alloc(Tail(hand)) /\ Head(hand).alloc \in Nat
          BY <4>2, DataIs, FirstBlock
        <5>3. Head(hand).alloc <= Most
          BY <5>1 DEF Block
        <5>4. Alloc(hand) = Head(hand).alloc + 0
          BY <5>1, <5>2, NoBlocks
        <5> QED BY <5>2, <5>3, <5>4
      <4> QED BY <4>1, <4>2
    <3>4. len < Limit => Eff < Limit + Most
      <4>1. len \in Nat /\ Alloc(hand) \in Nat /\ Limit \in Nat /\ Most \in Nat
        BY DataIs
      <4> QED BY <3>3, <4>1 DEF Eff
    <3> QED BY <3>1, <3>2, <3>4 DEF Inv, Bounds
  <2> QED BY <2>1, <2>2
<1> QED BY <1>4, <1>5, <1>6, <1>7, <1>8 DEF Inv

(* the writer asks for a wakeup *)
LEMMA WSetFlowKeeps ==
  ASSUME Inv, NEW p \in Procs, WSetFlow(p), UNCHANGED <<open, plk>>
  PROVE  Inv'
<1>1. /\ pc[p] = "wset" /\ flow' = TRUE /\ pc' = [pc EXCEPT ![p] = "wsleep"]
      /\ UNCHANGED <<data, closed, starve, noblock, rlock, wlock, sleepers, n, left, hand, calls, open, plk>>
  BY DEF WSetFlow, At, Goto
<1>2. \A q \in Procs : pc'[q] = IF q = p THEN "wsleep" ELSE pc[q]
  BY <1>1, PcsAre
<1>0. wr = None
  BY <1>1, NobodyWrites DEF WIn, WHold, WQueued
<1>3. Shape'
  BY <1>1, <1>2 DEF Inv, Shape, WIn, WHold, WQueued
<1>4. Lines'
  BY <1>1, WriterMoves DEF WIn, WHold, WQueued
<1>5. Known'
  BY <1>1, <1>2 DEF Inv, Known, RIn, RHold, WIn, WHold, WQueued, CIn, sleepers
<1>6. Data'
  BY <1>1, <1>2, DataStays
<1>7. Sleeps'
  <2>1. Waking({"wwake", "iwake", "crr"}) => Waking({"wwake", "iwake", "crr"})'
    BY <1>1, <1>2 DEF Waking
  <2>2. ReaderIsRemembered'
    BY <1>1, <2>1 DEF Inv, Sleeps, ReaderIsRemembered, NotEmpty, data, sleepers
  <2>3. \A q \in Procs : pc'[q] = "rsleep" => starve' \/ NotEmpty'
    BY <1>1, <1>2 DEF Inv, Sleeps, NotEmpty, data
  <2> QED BY <1>0, <1>1, <2>2, <2>3 DEF Sleeps, WriterIsRemembered, Half, sleepers
<1>8. Bounds'
  BY <1>1, <1>2, BoundsStay DEF data, WQueued
<1> QED BY <1>3, <1>4, <1>5, <1>6, <1>7, <1>8 DEF Inv

(* sleep on q->wr, or not *)
LEMMA WSleepKeeps ==
  ASSUME Inv, NEW p \in Procs, WSleep(p), UNCHANGED <<open, plk>>
  PROVE  Inv'
<1>1. /\ pc[p] = "wsleep"
      /\ IF QNotFull THEN pc' = [pc EXCEPT ![p] = "wflow"] /\ UNCHANGED wr
                     ELSE pc' = [pc EXCEPT ![p] = "wslept"] /\ wr' = p
      /\ UNCHANGED <<data, state, rlock, wlock, rr, n, left, hand, calls, open, plk>>
  BY DEF WSleep, At, Goto
<1>2. PICK to \in {"wflow", "wslept"} :
        /\ to = IF QNotFull THEN "wflow" ELSE "wslept"
        /\ pc' = [pc EXCEPT ![p] = to]
  BY <1>1
<1>3. \A q \in Procs : pc'[q] = IF q = p THEN to ELSE pc[q]
  BY <1>2 DEF Inv, Shape
<1>0. p \in Writers /\ p \in open /\ wr = None /\ \A q \in Procs : q # p => pc[q] \notin WHold
  BY <1>1, Writing, NobodyWrites DEF WIn, WHold, WQueued
<1>4. Shape'
  BY <1>1, <1>2, <1>3 DEF Inv, Shape, WIn, WHold, WQueued, state
<1>5. Lines'
  BY <1>1, <1>2, WriterMoves DEF WIn, WHold, WQueued
<1>6. Known'
  BY <1>0, <1>1, <1>2, <1>3, NoneIsNil DEF Inv, Known, RIn, RHold, WIn, WHold, WQueued, CIn
<1>7. Data'
  BY <1>1, <1>2, <1>3, DataStays
<1>8. Sleeps'
  <2>1. Waking({"wwake", "iwake", "crr"}) => Waking({"wwake", "iwake", "crr"})'
    BY <1>1, <1>2, <1>3 DEF Waking
  <2>2. ReaderIsRemembered'
    BY <1>1, <2>1 DEF Inv, Sleeps, ReaderIsRemembered, NotEmpty, data, state
  <2>3. WriterIsRemembered'
    <3>1. CASE QNotFull
      BY <3>1, <1>0, <1>1 DEF WriterIsRemembered
    <3>2. CASE ~QNotFull
      <4>1. ~closed /\ ~(len < Limit) /\ (flow \/ Eff < Half)
        BY <3>2, <1>1 DEF QNotFull, Inv, Sleeps
      <4>2. len \in Nat /\ Alloc(hand) \in Nat /\ Limit \in Nat /\ Half \in Nat /\ Half <= Limit
        BY DataIs
      <4>3. flow /\ ~closed /\ len >= Half
        BY <4>1, <4>2 DEF Eff
      <4> QED BY <1>1, <4>3 DEF WriterIsRemembered, Half, data, state
    <3> QED BY <3>1, <3>2
  <2>4. \A q \in Procs : /\ pc'[q] = "rsleep" => starve' \/ NotEmpty'
                         /\ pc'[q] = "wsleep" => flow' \/ closed' \/ Eff' < Half
    BY <1>1, <1>2, <1>3 DEF Inv, Sleeps, Eff, data, state, NotEmpty
  <2> QED BY <2>2, <2>3, <2>4 DEF Sleeps, Half
<1>9. Bounds'
  BY <1>1, <1>2, <1>3, BoundsStay DEF data, state, WQueued
<1> QED BY <1>4, <1>5, <1>6, <1>7, <1>8, <1>9 DEF Inv
-----------------------------------------------------------------------------
(* The steps of a process that closes.                                     *)

(* qclose and qhangup wake a reader *)
LEMMA CloseWakesReaderKeeps ==
  ASSUME Inv, NEW p \in Procs, CloseWakesReader(p), UNCHANGED <<open, plk>>
  PROVE  Inv'
<1>1. /\ pc[p] = "crr" /\ rr' = None
      /\ pc' = [q \in Procs |-> IF q = p THEN "cwr" ELSE IF q = rr THEN "rwait" ELSE pc[q]]
      /\ UNCHANGED <<data, state, rlock, wlock, wr, n, left, hand, calls, open, plk>>
  BY DEF CloseWakesReader, At, WakeReader, WakeAndGoto
<1>2. \A q \in Procs : pc'[q] = IF q = p THEN "cwr" ELSE IF pc[q] = "rslept" THEN "rwait" ELSE pc[q]
  BY <1>1 DEF Inv, Known
<1>3. Shape'
  BY <1>1, <1>2 DEF Inv, Shape, RIn, RHold, WIn, WHold, WQueued, CIn, state
<1>4. Lines'
  BY <1>1, <1>2, Heads, LinesStay DEF RIn, RHold, WIn, WHold, WQueued
<1>5. Known'
  BY <1>1, <1>2, NoneIsNil DEF Inv, Known, RIn, RHold, WIn, WHold, WQueued, CIn
<1>6. Data'
  BY <1>1, <1>2, DataStays
<1>7. Sleeps'
  <2>1. \A q \in Procs : /\ pc'[q] = "rsleep" => starve' \/ NotEmpty'
                         /\ pc'[q] = "wsleep" => flow' \/ closed' \/ Eff' < Half
    BY <1>1, <1>2 DEF Inv, Sleeps, NotEmpty, Eff, data, state
  <2>2. Waking({"rwake", "crr", "cwr"})'
    BY <1>2 DEF Waking
  <2> QED BY <1>1, <2>1, <2>2 DEF Sleeps, ReaderIsRemembered, WriterIsRemembered, Half
<1>8. Bounds'
  BY <1>1, <1>2, BoundsStay DEF data, state, WQueued
<1> QED BY <1>3, <1>4, <1>5, <1>6, <1>7, <1>8 DEF Inv

(* ... and then a writer *)
LEMMA CloseWakesWriterKeeps ==
  ASSUME Inv, NEW p \in Procs, CloseWakesWriter(p), UNCHANGED <<open, plk>>
  PROVE  Inv'
<1>1. /\ pc[p] = "cwr" /\ wr' = None
      /\ pc' = [q \in Procs |-> IF q = p THEN "cdone" ELSE IF q = wr THEN "wflow" ELSE pc[q]]
      /\ UNCHANGED <<data, state, rlock, wlock, rr, n, left, hand, calls, open, plk>>
  BY DEF CloseWakesWriter, At, WakeWriter, WakeAndGoto
<1>2. \A q \in Procs : pc'[q] = IF q = p THEN "cdone" ELSE IF pc[q] = "wslept" THEN "wflow" ELSE pc[q]
  BY <1>1 DEF Inv, Known
<1>3. Shape'
  BY <1>1, <1>2 DEF Inv, Shape, RIn, RHold, WIn, WHold, WQueued, CIn, state
<1>4. Lines'
  BY <1>1, <1>2, Heads, LinesStay DEF RIn, RHold, WIn, WHold, WQueued
<1>5. Known'
  BY <1>1, <1>2, NoneIsNil DEF Inv, Known, RIn, RHold, WIn, WHold, WQueued, CIn
<1>6. Data'
  BY <1>1, <1>2, DataStays
<1>7. Sleeps'
  <2>1. \A q \in Procs : /\ pc'[q] = "rsleep" => starve' \/ NotEmpty'
                         /\ pc'[q] = "wsleep" => flow' \/ closed' \/ Eff' < Half
    BY <1>1, <1>2 DEF Inv, Sleeps, NotEmpty, Eff, data, state
  <2>2. Waking({"wwake", "iwake", "crr"}) => Waking({"wwake", "iwake", "crr"})'
    BY <1>1, <1>2 DEF Waking
  <2>3. ReaderIsRemembered'
    BY <1>1, <2>2 DEF Inv, Sleeps, ReaderIsRemembered, NotEmpty, data, state
  <2> QED BY <1>1, <2>1, <2>3 DEF Sleeps, WriterIsRemembered, Half
<1>8. Bounds'
  BY <1>1, <1>2, BoundsStay DEF data, state, WQueued
<1> QED BY <1>3, <1>4, <1>5, <1>6, <1>7, <1>8 DEF Inv

(* whoever reads is a reader, and whoever writes a writer *)
LEMMA Sides ==
  ASSUME Inv, NEW p \in Procs
  PROVE  /\ pc[p] \in RIn => p \in Readers /\ p \in open
         /\ pc[p] \in WIn => p \in Writers /\ p \in open
<1>1. ASSUME pc[p] \in RIn PROVE p \in Readers
  <2>1. PICK i \in 1 .. Len(rlock) : rlock[i] = p
    BY <1>1 DEF Inv, Lines, Line, InSet
  <2> QED BY <2>1 DEF Inv, Shape
<1>2. ASSUME pc[p] \in WIn PROVE p \in Writers
  <2>1. PICK i \in 1 .. Len(wlock) : wlock[i] = p
    BY <1>2 DEF Inv, Lines, Line, InSet
  <2> QED BY <2>1 DEF Inv, Shape
<1> QED BY <1>1, <1>2 DEF Inv, Known

(* close by the last one at its end: nobody is at work there *)
LEMMA CloseLastKeeps ==
  ASSUME Inv, NEW p \in Procs, PipeCloseLast(p)
  PROVE  Inv'
<1>1. /\ plk = None /\ pc[p] = "idle" /\ p \in open /\ SameEnd(p) = {p}
      /\ open' = open \ {p} /\ plk' = p /\ closed' = TRUE /\ noblock = FALSE
      /\ pc' = [pc EXCEPT ![p] = "crr"]
      /\ UNCHANGED <<rlock, wlock, sleepers, n, left, hand, calls, sent>>
  BY DEF PipeCloseLast, At, Goto, QCloseMark, QHangupMark, Inv, Shape, data
<1>2. \A q \in Procs : pc'[q] = IF q = p THEN "crr" ELSE pc[q]
  BY <1>1, PcsAre
<1>3. Lines'
  BY <1>1, OtherMoves DEF CIn
<1>4. Known'
  BY <1>1, <1>2, NoneIsNil DEF Inv, Known, RIn, RHold, WIn, WHold, WQueued, CIn, sleepers
<1>5. p \in InSet({"crr"})' /\ ReaderIsRemembered' /\ WriterIsRemembered'
  BY <1>2 DEF InSet, ReaderIsRemembered, WriterIsRemembered, Waking
<1>6. Sleeps'
  BY <1>1, <1>5 DEF Sleeps, NotEmpty
<1>7. CASE p \in Readers
  <2>1. /\ flow' = FALSE /\ starve' = FALSE /\ noblock' = FALSE
        /\ blocks' = <<>> /\ len' = 0 /\ dlen' = 0 /\ gone' = sent
    BY <1>7 DEF PipeCloseLast, QCloseMark
  <2>2. \A q \in Procs : pc[q] \notin RIn
    <3>1. ASSUME NEW q \in Procs, pc[q] \in RIn PROVE FALSE
      <4>1. q \in SameEnd(p)
        BY <1>7, <3>1, Sides DEF SameEnd
      <4>2. q = p
        BY <1>1, <4>1
      <4> QED BY <1>1, <3>1, <4>2 DEF RIn, RHold
    <3> QED BY <3>1
  <2>3. hand = <<>>
    BY <2>2 DEF Inv, Data, RIn, RHold
  <2>4. Shape'
    BY <1>1, <1>2, <2>1 DEF Inv, Shape, CIn
  <2>5. Data'
    <3>1. Numbers(sent - sent, sent) = <<>>
      BY Counts DEF Numbers
    <3>2. <<>> \o <<>> = <<>> /\ <<>> \in Seq(Block) /\ Len(<<>>) <= 1 /\ Len(<<>>) = 0
      OBVIOUS
    <3>3. Bytes(hand') \o Bytes(blocks') = Numbers(sent' - gone', gone')
      BY <1>1, <2>1, <2>3, <3>1, <3>2, NoBlocks
    <3>4. Accounting'
      BY <2>1, <3>2, NoBlocks DEF Accounting
    <3> QED BY <1>1, <2>1, <2>3, <3>2, <3>3, <3>4, Counts DEF Data, InOrder, Numbers
  <2>6. Bounds'
    <3>1. Eff' = 0
      BY <1>1, <2>1, <2>3, NoBlocks DEF Eff
    <3> QED BY <3>1, Counts DEF Bounds
  <2> QED BY <1>3, <1>4, <1>6, <2>4, <2>5, <2>6 DEF Inv
<1>8. CASE p \notin Readers
  <2>1. UNCHANGED <<data, flow, starve, noblock>>
    BY <1>8 DEF PipeCloseLast, QHangupMark
  <2>2. \A q \in Procs : pc[q] \notin WIn
    <3>1. ASSUME NEW q \in Procs, pc[q] \in WIn PROVE FALSE
      <4>1. q \in SameEnd(p)
        BY <1>8, <3>1, Sides DEF SameEnd
      <4>2. q = p
        BY <1>1, <4>1
      <4> QED BY <1>1, <3>1, <4>2 DEF WIn, WHold, WQueued
    <3> QED BY <3>1
  <2>3. Shape'
    BY <1>1, <1>2, <2>1 DEF Inv, Shape, CIn
  <2>4. Data'
    BY <1>1, <1>2, <2>1, DataStays
  <2>5. Bounds'
    <3>1. InSet(WQueued) = {}
      BY <2>2 DEF InSet, WIn, WHold
    <3>2. Eff' = Eff
      BY <1>1, <2>1 DEF Eff, data
    <3> QED BY <3>1, <3>2 DEF Inv, Bounds
  <2> QED BY <1>3, <1>4, <1>6, <2>3, <2>4, <2>5 DEF Inv
<1> QED BY <1>7, <1>8

(* the pipe is reusable if nobody has it open, and else stays closed *)
LEMMA ClosedKeeps ==
  ASSUME Inv, NEW p \in Procs, PipeClosed(p)
  PROVE  Inv'
<1>1. /\ plk = p /\ pc[p] = "cdone" /\ pc' = [pc EXCEPT ![p] = "idle"] /\ plk' = None
      /\ UNCHANGED <<data, flow, noblock, rlock, wlock, sleepers, n, left, hand, calls, open>>
      /\ IF open = {} THEN closed' = FALSE /\ starve' = TRUE ELSE UNCHANGED <<closed, starve>>
  BY DEF PipeClosed, At, Goto, QReopen, state
<1>2. \A q \in Procs : pc'[q] = IF q = p THEN "idle" ELSE pc[q]
  BY <1>1, PcsAre
<1>3. Shape'
  BY <1>1, <1>2 DEF Inv, Shape
<1>4. Lines'
  BY <1>1, OtherMoves DEF CIn
<1>5. Known'
  BY <1>1, <1>2, NoneIsNil DEF Inv, Known, RIn, RHold, WIn, WHold, WQueued, CIn, sleepers
<1>6. CASE open # {}
  BY <1>1, <1>3, <1>4, <1>5, <1>6, Quiet DEF Inv, state, WQueued
<1>7. CASE open = {}
  <2>1. \A q \in Procs : pc[q] \notin RIn /\ pc[q] \notin WIn
    BY <1>7, Sides
  <2>2. rr = None /\ wr = None
    BY <2>1 DEF Inv, Known, Procs, RIn, RHold, WIn, WHold, WQueued
  <2>3. Data'
    BY <1>1, <1>2, DataStays
  <2>4. Sleeps'
    BY <1>1, <1>2, <2>1, <2>2
    DEF Sleeps, ReaderIsRemembered, WriterIsRemembered, sleepers, RIn, RHold, WIn, WHold, WQueued
  <2>5. Bounds'
    <3>1. InSet(WQueued) = {}
      BY <2>1 DEF InSet, WIn, WHold
    <3>2. Eff' = Eff
      BY <1>1 DEF Eff, data
    <3> QED BY <3>1, <3>2 DEF Inv, Bounds
  <2> QED BY <1>3, <1>4, <1>5, <2>3, <2>4, <2>5 DEF Inv
<1> QED BY <1>6, <1>7

-----------------------------------------------------------------------------
(* Nobody has the pipe open, and the queue is empty and asks for a wakeup. *)
LEMMA InitKeeps ==
  ASSUME Init
  PROVE  Inv
<1>1. /\ blocks = <<>> /\ len = 0 /\ dlen = 0 /\ closed = FALSE /\ flow = FALSE /\ starve = TRUE
      /\ rlock = <<>> /\ wlock = <<>> /\ rr = None /\ wr = None
      /\ pc = [p \in Procs |-> "idle"] /\ n = [p \in Procs |-> 0] /\ left = [p \in Procs |-> 0]
      /\ hand = <<>> /\ sent = 0 /\ gone = 0 /\ calls = 0
      /\ noblock = FALSE /\ open = {} /\ plk = None
  BY DEF Init, QInit
<1>2. Shape
  <2>1. calls \in 0 .. MaxCalls
    BY <1>1, SizesAreNat
  <2>2. rlock \in Seq(Readers) /\ wlock \in Seq(Writers)
    BY <1>1
  <2>3. pc \in [Procs -> RIn \cup WIn \cup CIn \cup {"idle"}] /\ \A p \in Procs : pc[p] # "wq"
    BY <1>1
  <2>4. n \in [Procs -> Nat] /\ left \in [Procs -> Nat]
    BY <1>1
  <2>5. {closed, flow, starve} \subseteq BOOLEAN
    BY <1>1
  <2> QED BY <1>1, <2>1, <2>2, <2>3, <2>4, <2>5 DEF Shape
<1>3. Lines
  BY <1>1 DEF Lines, Line, InSet, RIn, RHold, WIn, WHold, WQueued
<1>4. Known
  BY <1>1, NoneIsNil DEF Known, RIn, RHold, WIn, WHold, WQueued, CIn
<1>5. Data
  <2>1. Numbers(0 - 0, 0) = <<>>
    BY DEF Numbers
  <2>2. <<>> \o <<>> = <<>> /\ <<>> \in Seq(Block) /\ Len(<<>>) <= 1 /\ Len(<<>>) = 0
    OBVIOUS
  <2>3. Bytes(hand) \o Bytes(blocks) = Numbers(sent - gone, gone)
    BY <1>1, <2>1, <2>2, NoBlocks
  <2>4. Accounting
    BY <1>1, <2>2, NoBlocks DEF Accounting
  <2> QED BY <1>1, <2>2, <2>3, <2>4 DEF Data, InOrder, Numbers
<1>6. Sleeps
  BY <1>1 DEF Sleeps, ReaderIsRemembered, WriterIsRemembered
<1>7. Bounds
  <2>1. Eff = 0
    BY <1>1, NoBlocks DEF Eff
  <2>2. Limit \in Nat /\ Most \in Nat /\ Most > 0
    BY SizesAreNat DEF Most
  <2> QED BY <2>1, <2>2 DEF Bounds
<1> QED BY <1>2, <1>3, <1>4, <1>5, <1>6, <1>7 DEF Inv

(* every step keeps the invariant *)
LEMMA NextKeeps ==
  ASSUME Inv, [Next]_vars
  PROVE  Inv'
<1>1. CASE UNCHANGED vars
  <2>1. Shape' /\ Known'
    BY <1>1 DEF vars, qvars, data, state, sleepers, Inv, Shape, Known
  <2>2. Lines' /\ Data' /\ Sleeps' /\ Bounds'
    BY <1>1, Heads, LinesStay, DataStays, SleepsStay, BoundsStay DEF vars, qvars, data, state, sleepers
  <2> QED BY <2>1, <2>2 DEF Inv
<1>2. ASSUME NEW p \in Procs,
             \/ PipeOpen(p) \/ PipeRead(p) \/ PipeWrite(p)
             \/ PipeCloseOne(p) \/ PipeCloseLast(p)
             \/ Step(p)
      PROVE  Inv'
  <2>1. CASE PipeOpen(p) \/ PipeCloseOne(p)
    BY <2>1, OpenKeeps
  <2>2. CASE PipeRead(p)
    BY <2>2, ReadKeeps
  <2>3. CASE PipeWrite(p)
    BY <2>3, PipeWriteKeeps
  <2>4. CASE PipeCloseLast(p)
    BY <2>4, CloseLastKeeps
  <2>5. CASE ReadStep(p) /\ UNCHANGED <<open, plk>>
    <3>1. ~QReadDrop(p)
      BY PipeQueues DEF QReadDrop
    <3> QED BY <2>5, <3>1, ReadEndKeeps, QWaitStarveKeeps, RSleepKeeps, QReadGrabKeeps,
               QReadFinishKeeps, QBReadKeeps, RWakeKeeps DEF ReadStep
  <2>6. CASE WriteStep(p) /\ UNCHANGED <<open, plk>>
    <3>1. ~QBWriteDrop(p)
      BY DEF QBWriteDrop, Inv, Shape
    <3> QED BY <2>6, <3>1, WriteEndKeeps, QBWriteQueueKeeps, WWakeKeeps, WFlowKeeps,
               WSetFlowKeeps, WSleepKeeps DEF WriteStep
  <2>7. CASE CloseStep(p) /\ UNCHANGED <<open, plk>>
    BY <2>7, CloseWakesReaderKeeps, CloseWakesWriterKeeps DEF CloseStep
  <2>8. CASE PipeClosed(p)
    BY <2>8, ClosedKeeps
  <2> QED BY <1>2, <2>1, <2>2, <2>3, <2>4, <2>5, <2>6, <2>7, <2>8 DEF Step
<1> QED BY <1>1, <1>2 DEF Next

(* The invariant holds throughout. *)
THEOREM Invariance == Spec => []Inv
BY InitKeeps, NextKeeps, PTL DEF Spec

(* The values of the variables have the types the code gives them, and no  *)
(* process is anywhere but where pipe users can be.                        *)
THEOREM TypesAreKept == Spec => []TypeOK
<1>1. Inv => TypeOK
  <2> SUFFICES ASSUME Inv PROVE TypeOK
    OBVIOUS
  <2>1. /\ blocks \in Seq([data : Seq(Nat), alloc : Nat]) /\ hand \in Seq([data : Seq(Nat), alloc : Nat])
    <3>1. Block \subseteq [data : Seq(Nat), alloc : Nat]
      BY DEF Block
    <3>2. ASSUME NEW s \in Seq(Block) PROVE s \in Seq([data : Seq(Nat), alloc : Nat])
      BY <3>1, SeqMonotonic
    <3> QED BY <3>2, DataIs
  <2>2. {len, dlen, sent, gone} \subseteq Nat
    BY Counts
  <2>3. RIn \cup WIn \cup CIn \cup {"idle"} \subseteq PC
    BY DEF RIn, RHold, WIn, WHold, WQueued, CIn, PC
  <2>4. pc \in [Procs -> PC]
    BY <2>3 DEF Inv, Shape
  <2> QED BY <2>1, <2>2, <2>4 DEF Inv, Shape, Known, TypeOK, QTypeOK
<1> QED BY <1>1, Invariance, PTL

(* Every byte written is read exactly once and in order, or freed when the *)
(* last reader closes, whatever readers, writers and closers interleave.   *)
THEOREM BytesInOrder == Spec => []InOrder
<1>1. Inv => InOrder
  BY DEF Inv, Data
<1> QED BY <1>1, Invariance, PTL

(* q->len and q->dlen always agree with the blocks on the queue.           *)
THEOREM CountsAgree == Spec => []Accounting
<1>1. Inv => Accounting
  BY DEF Inv, Data
<1> QED BY <1>1, Invariance, PTL

(* No wakeup of a reader is lost.                                          *)
THEOREM ReaderWillWake == Spec => []ReaderIsRemembered
<1>1. Inv => ReaderIsRemembered
  BY DEF Inv, Sleeps
<1> QED BY <1>1, Invariance, PTL

(* No wakeup of a writer is lost.                                          *)
THEOREM WriterWillWake == Spec => []WriterIsRemembered
<1>1. Inv => WriterIsRemembered
  BY DEF Inv, Sleeps
<1> QED BY <1>1, Invariance, PTL

(* Flow control bounds the queue, for every limit and any number of        *)
(* processes at both ends.                                                 *)
THEOREM QueueIsBounded == Spec => []Bounded
<1>1. Inv => Bounded
  <2> SUFFICES ASSUME Inv PROVE Bounded
    OBVIOUS
  <2>1. Eff < Limit + 2 * Most
    BY DEF Inv, Bounds
  <2>2. len \in Nat /\ Alloc(hand) \in Nat /\ Limit \in Nat /\ Most \in Nat
    BY DataIs
  <2>3. len < Limit + 2 * Most
    BY <2>1, <2>2 DEF Eff
  <2> QED BY <2>3 DEF Bounded, Most
<1> QED BY <1>1, Invariance, PTL

-----------------------------------------------------------------------------
(* What the pipe promises: each step is one of PipeChannel's, or none.     *)

(* the chunks, when a block more is queued *)
LEMMA ChunksAppend ==
  ASSUME NEW bs \in Seq(Block), NEW b \in Block
  PROVE  DataOf(Append(bs, b)) = Append(DataOf(bs), b.data)
<1>1. <<b>> \in Seq(Block) /\ DataOf(<<b>>) = <<b.data>>
  BY DEF DataOf
<1>2. Append(bs, b) = bs \o <<b>>
  BY AppendIsConcat
<1>3. DataOf(bs \o <<b>>) = DataOf(bs) \o DataOf(<<b>>) /\ DataOf(bs) \in Seq(Seq(Nat))
  BY <1>1, DataMore
<1>4. b.data \in Seq(Nat)
  BY DEF Block
<1>5. Append(DataOf(bs), b.data) = DataOf(bs) \o <<b.data>>
  BY <1>3, <1>4, AppendIsConcat
<1> QED BY <1>1, <1>2, <1>3, <1>5

(* the first chunk and the rest *)
LEMMA ChunksFront ==
  ASSUME NEW b \in Block, NEW ts \in Seq(Block), NEW bs, bs = <<b>> \o ts
  PROVE  /\ DataOf(bs) = <<b.data>> \o DataOf(ts)
         /\ DataOf(bs) # <<>> /\ Head(DataOf(bs)) = b.data /\ Tail(DataOf(bs)) = DataOf(ts)
<1>1. <<b>> \in Seq(Block) /\ DataOf(<<b>>) = <<b.data>>
  BY DEF DataOf
<1>2. DataOf(bs) = <<b.data>> \o DataOf(ts) /\ DataOf(ts) \in Seq(Seq(Nat))
  BY <1>1, DataMore
<1>3. b.data \in Seq(Nat)
  BY DEF Block
<1>4. PICK ds \in Seq(Seq(Nat)) : ds = DataOf(ts)
  BY <1>2
<1>5. PICK d \in Seq(Nat) : d = b.data
  BY <1>3
<1>6. <<d>> \o ds # <<>> /\ Head(<<d>> \o ds) = d /\ Tail(<<d>> \o ds) = ds
  OBVIOUS
<1> QED BY <1>2, <1>4, <1>5, <1>6

(* nobody copies, or one who reads: what a read of the first block leaves  *)
LEMMA TakesOne ==
  ASSUME Inv, NEW p \in Procs, p \in Readers, p \in open,
         NEW b \in Block, NEW ts \in Seq(Block), hand \o blocks = <<b>> \o ts,
         hand' \o blocks' = ts \/ \E r \in Block, g \in Nat :
            /\ g < Len(b.data) /\ r.data = SubSeq(b.data, g + 1, Len(b.data))
            /\ hand' \o blocks' = <<r>> \o ts,
         UNCHANGED <<sent, closed, open>>
  PROVE  Channel!Next
<1>1. /\ Chunks # <<>> /\ Head(Chunks) = b.data /\ Tail(Chunks) = DataOf(ts)
  BY ChunksFront DEF Chunks, DataOf
<1>2. open \cap Readers # {}
  OBVIOUS
<1>3. Chunks' = DataOf(hand' \o blocks')
  BY DEF Chunks, DataOf
<1>4. CASE hand' \o blocks' = ts
  <2>1. Chunks' = Tail(Chunks)
    BY <1>1, <1>3, <1>4
  <2> QED BY <1>1, <1>2, <2>1 DEF Channel!Next, Channel!TakeAll
<1>5. ASSUME NEW r \in Block, NEW g \in Nat, g < Len(b.data),
             r.data = SubSeq(b.data, g + 1, Len(b.data)), hand' \o blocks' = <<r>> \o ts
      PROVE  Channel!Next
  <2>0. PICK w : w = hand' \o blocks'
    OBVIOUS
  <2>1. Chunks' = <<r.data>> \o Tail(Chunks)
    <3>1. DataOf(w) = <<r.data>> \o DataOf(ts)
      BY <1>5, <2>0, ChunksFront
    <3> QED BY <1>1, <1>3, <2>0, <3>1
  <2>2. b.data \in Seq(Nat)
    BY DEF Block
  <2>3. g + 1 \in DOMAIN b.data
    BY <1>5, <2>2
  <2>4. Chunks' = <<SubSeq(Head(Chunks), g + 1, Len(Head(Chunks)))>> \o Tail(Chunks)
    BY <1>1, <1>5, <2>1
  <2> QED BY <1>1, <1>2, <2>3, <2>4 DEF Channel!Next, Channel!TakeSome
<1> QED BY <1>4, <1>5

(* a block taken off the queue is still on its way *)
LEMMA GrabMaps ==
  ASSUME Inv, NEW p \in Procs, QReadGrab(p), UNCHANGED <<open, plk>>
  PROVE  UNCHANGED Channel!vars
<1>1. /\ pc[p] = "rwait" /\ Holds(rlock, p) /\ blocks # <<>>
      /\ hand' = SubSeq(blocks, 1, 1) /\ blocks' = SubSeq(blocks, 1 + 1, Len(blocks))
      /\ UNCHANGED <<sent, closed, open>>
  BY PipeQueues DEF QReadGrab, InQWait, At, Grabs, state
<1>2. hand = <<>>
  <2>1. \A q \in Procs : q # p => pc[q] \notin RHold
    BY <1>1, Reading DEF RIn, RHold
  <2> QED BY <1>1, <2>1 DEF Inv, Data, RHold
<1>3. SubSeq(blocks, 1, 1) \o SubSeq(blocks, 1 + 1, Len(blocks)) = blocks
  <2>1. ASSUME NEW bs \in Seq(Block), bs # <<>>
        PROVE  SubSeq(bs, 1, 1) \o SubSeq(bs, 1 + 1, Len(bs)) = bs
    <3>1. Len(bs) \in Nat /\ 1 <= Len(bs)
      BY <2>1
    <3> QED BY <3>1
  <2> QED BY <1>1, <2>1, DataIs
<1>4. hand' \o blocks' = hand \o blocks
  BY <1>1, <1>2, <1>3, DataIs, ConcatEmptySeq
<1> QED BY <1>1, <1>4 DEF Channel!vars, Chunks

(* the copy is made: the reader has taken of the block it holds *)
LEMMA FinishMaps ==
  ASSUME Inv, NEW p \in Procs, QReadFinish(p), UNCHANGED <<open, plk>>
  PROVE  [Channel!Next]_(Channel!vars)
<1>1. PICK rest : rest = Bl2mem(hand, n[p]) /\ blocks' = rest \o blocks /\ hand' = <<>>
  BY DEF QReadFinish
<1>2. pc[p] = "rcopy" /\ UNCHANGED <<sent, closed, open>>
  BY DEF QReadFinish, At
<1>3. p \in Readers /\ p \in open
  BY <1>2, Reading DEF RIn, RHold
<1>n. n[p] \in Nat
  BY DataIs
<1>4. PICK g \in 0 .. Len(Bytes(hand)) :
         /\ rest \in Seq(Block)
         /\ Bytes(rest) = SubSeq(Bytes(hand), g + 1, Len(Bytes(hand)))
         /\ rest = <<>> \/ (g < Len(Bytes(hand)) /\ \E r \in Block : rest = <<r>>)
  BY <1>1, <1>n, DataIs, Bl2memOne
<1>5. hand' \o blocks' = rest \o blocks
  <2>1. rest \o blocks \in Seq(Block)
    BY <1>4, DataIs, ConcatProperties
  <2> QED BY <1>1, <2>1, ConcatEmptySeq
<1>6. CASE hand = <<>>
  <2>1. rest = <<>>
    <3>1. Len(Bytes(hand)) = 0
      <4>1. Len(<<>>) = 0
        OBVIOUS
      <4> QED BY <1>6, <4>1, NoBlocks
    <3>2. g = 0
      BY <1>4, <3>1
    <3> QED BY <1>4, <3>1, <3>2
  <2>2. hand' \o blocks' = hand \o blocks
    BY <1>5, <1>6, <2>1
  <2> QED BY <1>2, <2>2 DEF Channel!vars, Chunks
<1>7. CASE hand # <<>>
  <2>1. PICK b \in Block : hand = <<b>>
    <3>1. ASSUME NEW hs \in Seq(Block), hs # <<>>, Len(hs) <= 1
          PROVE  hs = <<hs[1]>> /\ hs[1] \in Block
      <4>0. Len(hs) \in Nat \ {0}
        BY <3>1, EmptySeq
      <4>c. PICK c \in Nat : c = Len(hs)
        BY <4>0
      <4>1. Len(hs) = 1
        BY <3>1, <4>0, <4>c
      <4>2. hs[1] \in Block
        BY <4>1, ElementOfSeq
      <4> QED BY <4>1, <4>2
    <3> QED BY <1>7, <3>1, DataIs
  <2>2. Bytes(hand) = b.data
    BY <2>1, OneBlock
  <2>3. PICK ts \in Seq(Block) : ts = blocks
    BY DataIs
  <2>4. CASE rest = <<>>
    <3>1. hand' \o blocks' = ts
      BY <1>5, <2>3, <2>4, ConcatEmptySeq
    <3> QED BY <1>2, <1>3, <2>1, <2>3, <3>1, TakesOne
  <2>5. CASE rest # <<>>
    <3>1. PICK r \in Block : rest = <<r>>
      BY <1>4, <2>5
    <3>2. Bytes(rest) = r.data
      BY <3>1, OneBlock
    <3>3. g \in Nat /\ g < Len(b.data) /\ r.data = SubSeq(b.data, g + 1, Len(b.data))
      BY <1>4, <2>2, <2>5, <3>2
    <3>4. hand' \o blocks' = <<r>> \o ts
      BY <1>5, <2>3, <3>1
    <3> QED BY <1>2, <1>3, <2>1, <2>3, <3>3, <3>4, TakesOne
  <2> QED BY <2>4, <2>5
<1> QED BY <1>6, <1>7

(* qbread takes of the first block at once *)
LEMMA QBReadMaps ==
  ASSUME Inv, NEW p \in Procs, QBRead(p), UNCHANGED <<open, plk>>
  PROVE  Channel!Next
<1>1. /\ pc[p] = "rwait" /\ Holds(rlock, p) /\ blocks # <<>>
      /\ UNCHANGED <<sent, closed, hand, open>>
  BY DEF QBRead, InQWait, At
<1>2. /\ p \in Readers /\ p \in open /\ hand = <<>>
  <2>1. p \in Readers /\ p \in open /\ \A q \in Procs : q # p => pc[q] \notin RHold
    BY <1>1, Reading DEF RIn, RHold
  <2> QED BY <1>1, <2>1 DEF Inv, Data, RHold
<1>3. PICK b \in Block : b = Head(blocks)
  BY <1>1, DataIs, FirstBlock
<1>4. PICK ts \in Seq(Block) : ts = Tail(blocks)
  BY <1>1, DataIs, FirstBlock
<1>5. PICK d \in Seq(Nat) : d = b.data
  BY DEF Block
<1>6. PICK g \in 0 .. Len(d) : g = LeastOf(Len(d), n[p])
  <2>1. n[p] \in Nat
    BY DataIs
  <2> QED BY <2>1 DEF LeastOf
<1>7. PICK r \in Block : r = [data |-> SubSeq(d, g + 1, Len(d)), alloc |-> Len(d) - g + Hdr]
  <2>1. Len(d) - g + Hdr \in Nat /\ Len(d) - g + Hdr <= b.alloc /\ b.alloc \in Nat
    <3>1. Hdr \in Nat /\ Len(d) + Hdr <= b.alloc /\ b.alloc \in Nat
      BY <1>5, DataIs DEF Block
    <3> QED BY <3>1
  <2>2. [data |-> SubSeq(b.data, g + 1, Len(b.data)), alloc |-> Len(d) - g + Hdr] \in Block
    BY <1>5, <2>1, RestOfBlock
  <2> QED BY <1>5, <2>2
<1>8. IF g = Len(d) THEN blocks' = ts ELSE blocks' = <<r>> \o ts
  BY <1>3, <1>4, <1>5, <1>6, <1>7 DEF QBRead
<1>9. hand \o blocks = <<b>> \o ts
  <2>1. blocks = <<b>> \o ts
    BY <1>1, <1>3, <1>4, DataIs, FirstBlock
  <2> QED BY <1>2, <2>1, DataIs, ConcatEmptySeq
<1>10. CASE g = Len(d)
  <2>1. hand' \o blocks' = ts
    BY <1>1, <1>2, <1>8, <1>10, ConcatEmptySeq
  <2> QED BY <1>1, <1>2, <1>9, <2>1, TakesOne
<1>11. CASE g # Len(d)
  <2>1. <<r>> \o ts \in Seq(Block)
    <3>1. <<r>> \in Seq(Block)
      OBVIOUS
    <3> QED BY <3>1, ConcatProperties
  <2>2. hand' \o blocks' = <<r>> \o ts
    BY <1>1, <1>2, <1>8, <1>11, <2>1, ConcatEmptySeq
  <2>3. g \in Nat /\ g < Len(d) /\ r.data = SubSeq(d, g + 1, Len(d))
    <3>1. PICK c \in Nat : c = Len(d)
      OBVIOUS
    <3>2. g \in 0 .. c /\ g # c
      BY <1>11, <3>1
    <3>3. g \in Nat /\ g < c
      BY <3>2
    <3> QED BY <1>7, <3>1, <3>3
  <2> QED BY <1>1, <1>2, <1>5, <1>9, <2>2, <2>3, TakesOne
<1> QED BY <1>10, <1>11

(* qbwrite puts a chunk at the end *)
LEMMA QueueMaps ==
  ASSUME Inv, NEW p \in Procs, QBWriteQueue(p), UNCHANGED <<open, plk>>
  PROVE  Channel!Next
<1>1. /\ pc[p] = "wq" /\ Holds(wlock, p) /\ ~closed /\ Queue(n[p])
      /\ UNCHANGED <<closed, hand, open>>
  BY DEF QBWriteQueue, InQBWrite, At
<1>2. PICK k \in Nat : k = n[p] /\ k <= MaxAtomic
  BY <1>1 DEF Inv, Shape
<1>3. PICK d \in Seq(Nat) : d = Numbers(k, sent) /\ Len(d) = k
  BY <1>2, NewBlock, Counts
<1>4. PICK b \in Block : b = [data |-> d, alloc |-> k + Hdr]
  BY <1>2, <1>3, NewBlock, Counts
<1>5. blocks' = Append(blocks, b) /\ sent' = sent + k
  BY <1>1, <1>2, <1>3, <1>4 DEF Queue, Numbers
<1>6. PICK hs \in Seq(Block) : hs = hand
  BY DataIs
<1>7. PICK bs \in Seq(Block) : bs = blocks
  BY DataIs
<1>8. hs \o Append(bs, b) = Append(hs \o bs, b) /\ hs \o bs \in Seq(Block)
  OBVIOUS
<1>9. Chunks' = DataOf(hs \o Append(bs, b)) /\ Chunks = DataOf(hs \o bs)
  BY <1>1, <1>5, <1>6, <1>7 DEF Chunks, DataOf
<1>10. Chunks' = Append(Chunks, [i \in 1 .. k |-> sent + i])
  BY <1>3, <1>4, <1>8, <1>9, ChunksAppend DEF Numbers
<1>11. open \cap Writers # {}
  BY <1>1, Writing DEF WIn, WHold
<1>12. k \in 0 .. MaxAtomic
  BY <1>2, SizesAreNat
<1> QED BY <1>1, <1>5, <1>10, <1>11, <1>12 DEF Channel!Next, Channel!Put

(* the last one closes *)
LEMMA CloseMaps ==
  ASSUME Inv, NEW p \in Procs, PipeCloseLast(p)
  PROVE  Channel!Next
<1>1. /\ p \in open /\ SameEnd(p) = {p} /\ pc[p] = "idle"
      /\ open' = open \ {p} /\ closed' = TRUE /\ sent' = sent /\ hand' = hand
  BY DEF PipeCloseLast, At, QCloseMark, QHangupMark, data
<1>2. CASE p \in Readers
  <2>1. blocks' = <<>>
    BY <1>2 DEF PipeCloseLast, QCloseMark
  <2>2. \A q \in Procs : pc[q] \notin RIn
    <3>1. ASSUME NEW q \in Procs, pc[q] \in RIn PROVE FALSE
      <4>1. q \in SameEnd(p)
        BY <1>2, <3>1, Sides DEF SameEnd
      <4>2. q = p
        BY <1>1, <4>1
      <4> QED BY <1>1, <3>1, <4>2 DEF RIn, RHold
    <3> QED BY <3>1
  <2>3. hand = <<>>
    BY <2>2 DEF Inv, Data, RIn, RHold
  <2>4. Chunks' = <<>>
    <3>1. hand' \o blocks' = <<>>
      BY <1>1, <2>1, <2>3
    <3> QED BY <3>1 DEF Chunks
  <2>5. open \cap Readers = {p}
    BY <1>1, <1>2 DEF SameEnd
  <2>6. Channel!CloseLast(p, Readers)
    BY <1>1, <1>2, <2>4, <2>5 DEF Channel!CloseLast
  <2> QED BY <1>2, <2>6 DEF Channel!Next
<1>3. CASE p \notin Readers
  <2>1. p \in Writers /\ open \cap Writers = {p}
    BY <1>1, <1>3 DEF SameEnd, Procs
  <2>2. blocks' = blocks
    BY <1>3 DEF PipeCloseLast, QHangupMark, data
  <2>3. Chunks' = Chunks
    BY <1>1, <2>2 DEF Chunks
  <2>4. Writers # Readers
    BY <1>3, <2>1
  <2>5. Channel!CloseLast(p, Writers)
    BY <1>1, <2>1, <2>3, <2>4 DEF Channel!CloseLast
  <2> QED BY <2>1, <2>5 DEF Channel!Next
<1> QED BY <1>2, <1>3

(* nobody has it open, or the other end stays closed *)
LEMMA ClosedMaps ==
  ASSUME Inv, NEW p \in Procs, PipeClosed(p)
  PROVE  [Channel!Next]_(Channel!vars)
<1>1. UNCHANGED <<data, hand, open>>
  BY DEF PipeClosed, QReopen
<1>2. Chunks' = Chunks /\ sent' = sent
  BY <1>1 DEF Chunks, data
<1>3. CASE open # {} \/ ~closed
  <2>1. closed' = closed
    BY <1>3 DEF PipeClosed, QReopen, state, Inv, Shape
  <2> QED BY <1>1, <1>2, <2>1 DEF Channel!vars
<1>4. CASE open = {} /\ closed
  <2>1. closed' = FALSE
    BY <1>4 DEF PipeClosed, QReopen
  <2> QED BY <1>1, <1>2, <1>4, <2>1 DEF Channel!Next, Channel!Reopen
<1> QED BY <1>3, <1>4

(* open, and close by one of several *)
LEMMA OpenMaps ==
  ASSUME Inv, NEW p \in Procs, PipeOpen(p) \/ PipeCloseOne(p)
  PROVE  Channel!Next
<1>1. UNCHANGED <<sent, Chunks, closed>>
  BY DEF PipeOpen, PipeCloseOne, qvars, data, state, Chunks
<1>2. CASE PipeOpen(p)
  <2>1. Channel!Open(p)
    BY <1>1, <1>2 DEF PipeOpen, Channel!Open
  <2> QED BY <2>1 DEF Channel!Next, Procs
<1>3. CASE PipeCloseOne(p) /\ p \in Readers
  <2>1. Channel!CloseOne(p, Readers)
    BY <1>1, <1>3 DEF PipeCloseOne, SameEnd, Channel!CloseOne
  <2> QED BY <1>3, <2>1 DEF Channel!Next
<1>4. CASE PipeCloseOne(p) /\ p \notin Readers
  <2>1. Channel!CloseOne(p, Writers)
    BY <1>1, <1>4 DEF PipeCloseOne, SameEnd, Channel!CloseOne, Procs
  <2> QED BY <1>4, <2>1 DEF Channel!Next, Procs
<1> QED BY <1>2, <1>3, <1>4

(* steps that move no byte and open or close nothing *)
LEMMA NothingMaps ==
  ASSUME UNCHANGED <<data, hand, closed, open>>
  PROVE  UNCHANGED Channel!vars
BY DEF Channel!vars, Chunks, data

(* Every step of the pipe is a step of PipeChannel or none. *)
LEMMA StepMaps ==
  ASSUME Inv, [Next]_vars
  PROVE  [Channel!Next]_(Channel!vars)
<1>1. CASE UNCHANGED vars
  BY <1>1, NothingMaps DEF vars, qvars, state
<1>2. ASSUME NEW p \in Procs,
             \/ PipeOpen(p) \/ PipeRead(p) \/ PipeWrite(p)
             \/ PipeCloseOne(p) \/ PipeCloseLast(p)
             \/ Step(p)
      PROVE  [Channel!Next]_(Channel!vars)
  <2>1. CASE PipeOpen(p) \/ PipeCloseOne(p)
    BY <2>1, OpenMaps
  <2>2. CASE PipeRead(p) \/ PipeWrite(p)
    <3>1. UNCHANGED <<data, hand, closed, open>>
      BY <2>2 DEF PipeRead, PipeWrite, QRead, QWrite, state
    <3> QED BY <3>1, NothingMaps
  <2>3. CASE PipeCloseLast(p)
    BY <2>3, CloseMaps
  <2>4. CASE ReadStep(p) /\ UNCHANGED <<open, plk>>
    <3>1. ~QReadDrop(p)
      BY PipeQueues DEF QReadDrop
    <3>2. CASE QWaitClosed(p) \/ QWaitStarve(p) \/ RSleep(p) \/ RWake(p) \/ QReadReturn(p)
      <4>1. UNCHANGED <<data, hand, closed, open>>
        BY <2>4, <3>2 DEF QWaitClosed, QWaitStarve, RSleep, RWake, WakeWriter, QReadReturn, state
      <4> QED BY <4>1, NothingMaps
    <3> QED BY <2>4, <3>1, <3>2, GrabMaps, FinishMaps, QBReadMaps DEF ReadStep
  <2>5. CASE WriteStep(p) /\ UNCHANGED <<open, plk>>
    <3>1. CASE ~QBWriteQueue(p)
      <4>1. UNCHANGED <<data, hand, closed, open>>
        BY <2>5, <3>1 DEF WriteStep, QBWriteClosed, QBWriteDrop, WWake, WakeReader, WFlow, WSetFlow,
                          WSleep, QBWriteReturn, state
      <4> QED BY <4>1, NothingMaps
    <3> QED BY <2>5, <3>1, QueueMaps
  <2>6. CASE CloseStep(p) /\ UNCHANGED <<open, plk>>
    <3>1. UNCHANGED <<data, hand, closed, open>>
      BY <2>6 DEF CloseStep, CloseWakesReader, CloseWakesWriter, WakeReader, WakeWriter, state
    <3> QED BY <3>1, NothingMaps
  <2>7. CASE PipeClosed(p)
    BY <2>7, ClosedMaps
  <2> QED BY <1>2, <2>1, <2>2, <2>3, <2>4, <2>5, <2>6, <2>7 DEF Step
<1> QED BY <1>1, <1>2 DEF Next

(* A pipe is the channel its users count on, for any number of them and    *)
(* any sizes: writes of up to Maxatomic bytes stay together and in order,  *)
(* no read takes of two, and only the last reader's close loses anything.  *)
THEOREM PipeIsChannel == Spec => ImplementsPipeChannel
<1>1. Init => Channel!Init
  <2> SUFFICES ASSUME Init PROVE Channel!Init
    OBVIOUS
  <2>1. hand \o blocks = <<>>
    BY DEF Init, QInit
  <2>2. Chunks = <<>>
    BY <2>1 DEF Chunks
  <2> QED BY <2>2 DEF Init, QInit, Channel!Init
<1> QED BY <1>1, Invariance, StepMaps, PTL DEF Spec, ImplementsPipeChannel, Channel!Spec

=============================================================================
