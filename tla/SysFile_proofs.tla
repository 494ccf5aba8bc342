--------------------------- MODULE SysFile_proofs ---------------------------
(***************************************************************************)
(* Channels and Mheads for any number of processes, calls and files: that  *)
(* each is counted once by each that keeps it, and that writes through one *)
(* channel stay apart.                                                     *)
(***************************************************************************)
EXTENDS SysFile, FiniteSetTheorems, WellFoundedInduction, SequenceTheorems, TLAPS

(***************************************************************************)
(* The tables k, when others keep each channel c e[c] times, and each      *)
(* Mhead m me[m] times.                                                    *)
(***************************************************************************)
TabFields == {"ref", "file", "offset", "path", "umh", "free", "mref", "from", "mount", "hashed",
              "stale", "moved"}
OrNone(S) == S \cup {None}

TabsOK(k) ==
  /\ DOMAIN k = TabFields
  /\ k = [x \in TabFields |-> k[x]]
  /\ k.ref \in [Chans -> Int]
  /\ k.file = [c \in Chans |-> k.file[c]]
  /\ k.offset \in [Chans -> Int]
  /\ k.path \in [Chans -> Seq(OrNone(Chans))]
  /\ k.umh \in [Chans -> OrNone(Mheads)]
  /\ k.free \subseteq Chans
  /\ k.mref \in [Mheads -> Int]
  /\ k.from \in [Mheads -> OrNone(Chans)]
  /\ k.mount \in [Mheads -> Seq(Chans)]
  /\ k.hashed \subseteq Mheads
  /\ k.moved \subseteq Chans

(* every reference is counted, and what is free is empty *)
Counted(k, e, me) ==
  /\ \A c \in Chans : k.ref[c] = e[c] + InTables(k, c)
  /\ \A m \in Mheads : k.mref[m] = me[m] + MInTables(k, m)
  /\ \A c \in Chans : c \in k.free <=> k.ref[c] = 0
  /\ \A c \in k.free : k.path[c] = <<>> /\ k.umh[c] = None

(* a Mhead of the table has its place, one that left it has no mounts; a   *)
(* channel that keeps a Mhead is kept by no table; the slash stays         *)
Kept(k, e) ==
  /\ \A m \in k.hashed : k.from[m] \in Chans
  /\ \A m \in Mheads \ k.hashed : k.mount[m] = <<>>
  /\ \A c \in Chans : k.umh[c] # None => InTables(k, c) = 0
  /\ e[Slash] >= 1 /\ k.path[Slash] = <<None>> /\ k.umh[Slash] = None

Bal(k, e, me) ==
  /\ TabsOK(k) /\ k.stale = FALSE
  /\ e \in [Chans -> Nat] /\ me \in [Mheads -> Nat]
  /\ Counted(k, e, me) /\ Kept(k, e)

-----------------------------------------------------------------------------
(***************************************************************************)
(* The calls: what a process holds at each point, when the tables are k,   *)
(* the descriptors n, r is what it does, and x its calls.                  *)
(***************************************************************************)
NamePC == {"walk", "cross", "ewalk", "elem", "domount", "open", "back", "failed"}
FdPC == {"dup", "read", "write", "devwrite", "rewind", "devread"}

WFields == {"pc", "name", "mode", "start", "c", "path", "mh", "nc", "nmh", "rest", "n",
            "didmount", "got", "calm"}

WOK(r) ==
  /\ DOMAIN r = WFields
  /\ r.start \in OrNone(Chans) /\ r.c \in OrNone(Chans) /\ r.nc \in OrNone(Chans)
  /\ r.path \in Seq(OrNone(Chans)) /\ r.got \in Seq(Chans)
  /\ r.mh \in OrNone(Mheads) /\ r.nmh \in OrNone(Mheads)
  /\ r.rest \in Seq(STRING)

SOK(x) ==
  /\ DOMAIN x = {"load", "chan", "off", "n"}
  /\ x.load \in Seq(Calls) /\ x.chan \in OrNone(Chans) /\ x.off \in Int /\ x.n \in Nat

GOK(h) ==
  /\ h = [fd |-> h.fd, nfd |-> h.nfd, maxfd |-> h.maxfd]
  /\ h.nfd \in Nat /\ h.fd \in [0..h.nfd - 1 -> OrNone(Chans)]

(* between calls, and in those on descriptors *)
NoName(r) ==
  /\ r.c = None /\ r.start = None /\ r.nc = None /\ r.path = <<>>
  /\ r.mh = None /\ r.nmh = None /\ r.got = <<>>

Naming(k, r) ==
  /\ r.pc \in {"walk", "cross", "ewalk", "elem", "domount", "open"} =>
       r.c \in Chans /\ r.path # <<>>
  /\ r.pc \in {"walk", "ewalk", "elem"} => r.start \in Chans
  /\ r.pc = "cross" => /\ r.mh \in k.hashed
                       /\ r.rest # <<>> => r.start \in Chans
                       /\ r.rest = <<>> => r.start = None /\ r.mode = "Aopen"
  /\ r.pc = "ewalk" => r.rest # <<>>
  /\ r.pc = "elem" => /\ r.nc \in Chans /\ r.n \in Nat \ {0}
                      /\ r.nmh # None => r.nmh \in k.hashed
  /\ r.pc # "elem" => r.nc = None /\ r.nmh = None
  /\ r.pc \in {"domount", "open", "back", "failed"} => r.start = None
  /\ r.pc \in {"domount", "back", "failed"} => r.mh = None
  /\ r.pc \in {"domount", "open"} => r.mode = "Aopen"
  /\ r.pc = "domount" => r.rest = <<>>
  /\ r.pc = "back" => r.c \in Chans /\ r.path = <<>>
  /\ r.pc = "failed" => r.c = None /\ r.path = <<>>

(* which name of which call it is *)
CallIs(r, x) ==
  /\ x.load # <<>>
  /\ Head(x.load).call \in {"open", "bind", "unmount"}
  /\ Head(x.load).call = "open" => r.mode = "Aopen" /\ r.got = <<>>
  /\ Head(x.load).call = "bind" => r.mode = IF r.got = <<>> THEN "Abind" ELSE "Amount"
  /\ Head(x.load).call = "unmount" => r.mode = IF r.got = <<>> THEN "Amount" ELSE "Aopen"
  /\ Len(r.got) <= 1

Control(k, n, r, x) ==
  /\ r.pc \in NamePC => Naming(k, r) /\ CallIs(r, x) /\ x.chan = None
  /\ r.pc \notin NamePC => NoName(r)
  /\ r.pc = "idle" => x.chan = None
  /\ r.pc \in FdPC => x.chan \in Chans /\ x.load # <<>>
  /\ r.pc = "fdclose" => /\ x.load # <<>> /\ Head(x.load).call = "close"
                         /\ Head(x.load).fd \in 0..n - 1

(* of what it holds, the channels that are not opened *)
NotOpen(r) == (IF r.pc = "back" /\ r.mode = "Aopen" THEN <<>> ELSE <<r.c>>)
                \o <<r.start, r.nc>> \o r.path \o r.got

(* these keep no Mhead *)
Plain(k, q) == \A i \in DOMAIN q : q[i] # None => k.umh[q[i]] = None

Proc(k, n, r, x) == WOK(r) /\ SOK(x) /\ Control(k, n, r, x) /\ Plain(k, NotOpen(r))

(* what it has counted *)
Hold(r, x) == <<r.c, r.start, r.nc>> \o r.path \o r.got
                \o (IF r.pc = "fdclose" THEN <<>> ELSE <<x.chan>>)
MHold(r) == <<r.mh, r.nmh>>

(* how often each channel, and each Mhead, is counted outside the tables,  *)
(* when the descriptors are G and the processes hold R                     *)
FdSeqs(G) == [i \in DOMAIN G |-> <<G[i]>>]
Counts(G, R) ==
  [c \in Chans |-> (IF c = Slash THEN 1 ELSE 0) + Uses(FdSeqs(G), c) + Uses(R, c)]
MCounts(R) == [m \in Mheads |-> Uses(R, m)]

(* what the processes P hold *)
Holds(ww, ss, P) == [p \in P |-> Hold(ww[p], ss[p])]
MHolds(ww, P) == [p \in P |-> MHold(ww[p])]

Mounted(k) == \A m \in k.hashed : k.mount[m] # <<>>

Inv(k, h, ww, ss) ==
  /\ DOMAIN ww = Procs /\ DOMAIN ss = Procs
  /\ \A p \in Procs : Proc(k, h.nfd, ww[p], ss[p])
  /\ GOK(h)
  /\ Mounted(k)
  /\ Bal(k, Counts(h.fd, Holds(ww, ss, Procs)), MCounts(MHolds(ww, Procs)))

(* writes: those under way are apart, and below the offset *)
Under(k, r, x, c) == r.pc = "devwrite" /\ x.chan = c /\ c \notin k.moved
WritesOK(k, ww, ss) ==
  /\ \A p, q \in Procs : \A c \in Chans :
       p # q /\ Under(k, ww[p], ss[p], c) /\ Under(k, ww[q], ss[q], c) =>
         ss[p].off + ss[p].n <= ss[q].off \/ ss[q].off + ss[q].n <= ss[p].off
  /\ \A p \in Procs : \A c \in Chans :
       Under(k, ww[p], ss[p], c) => ss[p].off + ss[p].n <= k.offset[c]

IInv == uncrossed \/ (Inv(t, g, w, s) /\ WritesOK(t, w, s))
-----------------------------------------------------------------------------
(* First part: occurrences in sequences, and in families of sequences.     *)

(* the places of c in a sequence are finitely many *)
LEMMA AtIs ==
  ASSUME NEW S, NEW q \in Seq(S), NEW c
  PROVE  IsFiniteSet(At(c, q)) /\ Times(c, q) \in Nat /\ At(c, q) \subseteq 1..Len(q)
<1>1. IsFiniteSet(1..Len(q))
  BY FS_Interval
<1>2. At(c, q) \subseteq 1..Len(q)
  BY DEF At
<1>3. IsFiniteSet(At(c, q))
  BY <1>1, <1>2, FS_Subset
<1>4. QED
  BY <1>2, <1>3, FS_CardinalityType DEF Times

(* none is in the empty sequence *)
LEMMA TimesEmpty == \A c : Times(c, <<>>) = 0
<1> TAKE c
<1>1. At(c, <<>>) = {}
  BY DEF At
<1>2. QED
  BY <1>1, FS_EmptySet DEF Times

(* c is once in the sequence of x if it is x *)
One(c, x) == IF c = x THEN 1 ELSE 0

(* the sequence of x alone *)
LEMMA TimesOne == \A c, x : Times(c, <<x>>) = One(c, x)
<1> TAKE c, x
<1>1. At(c, <<x>>) = IF c = x THEN {1} ELSE {}
  BY DEF At
<1>2. QED
  BY <1>1, FS_EmptySet, FS_Singleton DEF Times, One

(* one that is somewhere in the sequence is counted *)
LEMMA TimesSome ==
  ASSUME NEW S, NEW q \in Seq(S), NEW c
  PROVE  Times(c, q) > 0 <=> \E i \in DOMAIN q : q[i] = c
<1>1. IsFiniteSet(At(c, q)) /\ Times(c, q) \in Nat
  BY AtIs
<1>2. Times(c, q) = 0 <=> At(c, q) = {}
  BY <1>1, FS_EmptySet DEF Times
<1>3. QED
  BY <1>1, <1>2 DEF At

(* occurrences in a concatenation *)
LEMMA TimesConcat ==
  ASSUME NEW S, NEW a \in Seq(S), NEW b \in Seq(S), NEW c
  PROVE  Times(c, a \o b) = Times(c, a) + Times(c, b)
<1>0. PICK m \in Nat, n \in Nat : m = Len(a) /\ n = Len(b)
  OBVIOUS
<1> DEFINE B == {i \in m+1 .. m+n : b[i - m] = c}
<1>1. At(c, a \o b) = At(c, a) \cup B
  <2>1. DOMAIN (a \o b) = 1 .. m+n /\ DOMAIN a = 1..m /\ DOMAIN b = 1..n
    BY <1>0
  <2>2. \A i \in 1 .. m+n : (a \o b)[i] = IF i <= m THEN a[i] ELSE b[i - m]
    BY <1>0
  <2>3. \A i : i \in 1 .. m+n <=> i \in 1..m \/ i \in m+1 .. m+n
    BY <1>0
  <2>4. \A i \in 1..m : i <= m
    OBVIOUS
  <2>5. \A i \in m+1 .. m+n : ~(i <= m)
    OBVIOUS
  <2>6. QED
    BY <2>1, <2>2, <2>3, <2>4, <2>5 DEF At
<1>2. At(c, a) \cap B = {}
  <2>1. At(c, a) \subseteq 1..m
    BY <1>0, AtIs
  <2>2. QED
    BY <2>1
<1>3. IsFiniteSet(At(c, a)) /\ IsFiniteSet(At(c, b))
  BY AtIs
<1>4. IsFiniteSet(B) /\ Cardinality(B) = Cardinality(At(c, b))
  <2> DEFINE f == [i \in At(c, b) |-> i + m]
  <2>0. At(c, b) = {i \in 1..n : b[i] = c}
    BY <1>0 DEF At
  <2>1. f \in [At(c, b) -> B]
    <3>1. \A i \in 1..n : i + m \in m+1 .. m+n /\ (i + m) - m = i
      OBVIOUS
    <3>2. QED
      BY <2>0, <3>1
  <2>2. \A i, j \in At(c, b) : f[i] = f[j] => i = j
    BY <2>0
  <2>3. \A j \in B : \E i \in At(c, b) : f[i] = j
    <3> TAKE j \in B
    <3>1. j - m \in 1..n /\ (j - m) + m = j
      OBVIOUS
    <3>2. j - m \in At(c, b)
      BY <3>1, <2>0
    <3>3. f[j - m] = j
      BY <3>1, <3>2
    <3>4. QED
      BY <3>2, <3>3
  <2> HIDE DEF f, B
  <2>4. f \in Injection(At(c, b), B)
    BY <2>1, <2>2 DEF Injection, IsInjective
  <2>5. f \in Surjection(At(c, b), B)
    BY <2>1, <2>3 DEF Surjection
  <2>6. ExistsBijection(At(c, b), B)
    BY <2>4, <2>5 DEF ExistsBijection, Bijection
  <2>7. QED
    BY <1>3, <2>6, FS_Bijection
<1> HIDE DEF B
<1>5. Cardinality(At(c, a) \cup B) = Cardinality(At(c, a)) + Cardinality(B) - Cardinality({})
  BY <1>2, <1>3, <1>4, FS_Union
<1>6. QED
  BY <1>1, <1>3, <1>4, <1>5, FS_EmptySet, FS_CardinalityType DEF Times

(* occurrences in a sequence, one at its start *)
LEMMA TimesHead ==
  ASSUME NEW S, NEW q \in Seq(S), q # <<>>, NEW c
  PROVE  Times(c, q) = One(c, Head(q)) + Times(c, Tail(q))
<1>1. q = <<Head(q)>> \o Tail(q) /\ <<Head(q)>> \in Seq(S) /\ Tail(q) \in Seq(S)
  OBVIOUS
<1>2. Times(c, <<Head(q)>> \o Tail(q)) = Times(c, <<Head(q)>>) + Times(c, Tail(q))
  BY <1>1, TimesConcat
<1>3. QED
  BY <1>1, <1>2, TimesOne

(* occurrences in a sequence, one at its end *)
LEMMA TimesLast ==
  ASSUME NEW S, NEW q \in Seq(S), q # <<>>, NEW c
  PROVE  /\ Front(q) \in Seq(S) /\ Last(q) \in S
         /\ Len(Front(q)) = Len(q) - 1
         /\ Times(c, q) = Times(c, Front(q)) + One(c, Last(q))
<1>0. PICK n \in Nat : n = Len(q) /\ n > 0
  OBVIOUS
<1>1. Front(q) \in Seq(S) /\ Last(q) \in S /\ Len(Front(q)) = n - 1
  BY <1>0 DEF Front, Last
<1>2. q = Front(q) \o <<Last(q)>>
  <2>1. Front(q) \o <<Last(q)>> \in Seq(S) /\ Len(Front(q) \o <<Last(q)>>) = n
    BY <1>0, <1>1
  <2>2. \A i \in 1..n : (Front(q) \o <<Last(q)>>)[i] = q[i]
    BY <1>0, <1>1 DEF Front, Last
  <2>3. QED
    BY <1>0, <2>1, <2>2, SeqEqual
<1>3. Times(c, Front(q) \o <<Last(q)>>) = Times(c, Front(q)) + Times(c, <<Last(q)>>)
  <2>1. <<Last(q)>> \in Seq(S)
    BY <1>1
  <2>2. QED
    BY <1>1, <2>1, TimesConcat
<1>4. QED
  BY <1>0, <1>1, <1>2, <1>3, TimesOne

(* occurrences in a sequence that loses one element *)
LEMMA TimesRemoveAt ==
  ASSUME NEW S, NEW q \in Seq(S), NEW i \in 1..Len(q), NEW c
  PROVE  /\ RemoveAt(q, i) \in Seq(S)
         /\ Times(c, q) = Times(c, RemoveAt(q, i)) + One(c, q[i])
<1>0. PICK n \in Nat : n = Len(q)
  OBVIOUS
<1> DEFINE a == SubSeq(q, 1, i - 1)
           b == SubSeq(q, i + 1, Len(q))
<1>1. a \in Seq(S) /\ Len(a) = i - 1 /\ \A j \in 1..i-1 : a[j] = q[j]
  BY <1>0
<1>2. b \in Seq(S) /\ Len(b) = n - i /\ \A j \in 1..n-i : b[j] = q[i + j]
  BY <1>0
<1>3. q[i] \in S
  OBVIOUS
<1> HIDE DEF a, b
<1>4. <<q[i]>> \in Seq(S) /\ <<q[i]>> \o b \in Seq(S) /\ a \o b \in Seq(S)
  BY <1>1, <1>2, <1>3
<1>5. q = a \o (<<q[i]>> \o b)
  <2>1. PICK z \in Seq(S) : z = <<q[i]>> \o b
    BY <1>4
  <2>2. Len(z) = 1 + (n - i) /\ \A j \in 1..1 + (n - i) : z[j] = IF j = 1 THEN q[i] ELSE b[j - 1]
    <3>1. /\ Len(z) = Len(<<q[i]>>) + Len(b)
          /\ \A j \in 1..Len(<<q[i]>>) + Len(b) :
               z[j] = IF j <= Len(<<q[i]>>) THEN <<q[i]>>[j] ELSE b[j - Len(<<q[i]>>)]
      BY <1>2, <1>4, <2>1, ConcatProperties
    <3>2. Len(<<q[i]>>) = 1 /\ <<q[i]>>[1] = q[i]
      OBVIOUS
    <3>3. \A j \in 1..1 + (n - i) : j <= 1 <=> j = 1
      BY <1>0
    <3>4. QED
      BY <1>2, <3>1, <3>2, <3>3
  <2>3. Len(a \o z) = (i - 1) + (1 + (n - i)) /\ a \o z \in Seq(S)
    <3>1. Len(a \o z) = Len(a) + Len(z) /\ a \o z \in Seq(S)
      BY <1>1, ConcatProperties
    <3>2. QED
      BY <3>1, <1>1, <2>2
  <2>4. \A j \in 1..n : (a \o z)[j] = IF j <= i - 1 THEN a[j] ELSE z[j - (i - 1)]
    <3>1. \A j \in 1..(i - 1) + (1 + (n - i)) :
            (a \o z)[j] = IF j <= i - 1 THEN a[j] ELSE z[j - (i - 1)]
      BY <1>1, <2>2, ConcatProperties
    <3>2. (i - 1) + (1 + (n - i)) = n
      BY <1>0
    <3>3. QED
      BY <3>1, <3>2
  <2>5. ASSUME NEW j \in 1..n PROVE (a \o z)[j] = q[j]
    <3>1. CASE j <= i - 1
      BY <3>1, <2>4, <1>1, <1>0
    <3>2. CASE j = i
      <4>1. j - (i - 1) = 1 /\ ~(j <= i - 1)
        BY <3>2, <1>0
      <4>2. QED
        <5>1. 1 \in 1..1 + (n - i)
          BY <1>0
        <5>2. QED
          BY <4>1, <5>1, <2>2, <2>4, <3>2
    <3>3. CASE j > i
      <4>1. /\ j - (i - 1) \in 1..1 + (n - i) /\ j - (i - 1) # 1 /\ ~(j <= i - 1)
            /\ (j - (i - 1)) - 1 = j - i /\ j - i \in 1..n-i /\ i + (j - i) = j
        BY <3>3, <1>0
      <4>2. QED
        BY <4>1, <2>2, <2>4, <1>2, ZenonT(60)
    <3>4. QED
      <4>1. j \in Int /\ i \in Int
        BY <1>0
      <4>2. j <= i - 1 \/ j = i \/ j > i
        BY <4>1
      <4>3. QED
        BY <4>2, <3>1, <3>2, <3>3
  <2>6. (i - 1) + (1 + (n - i)) = n
    BY <1>0
  <2>7. QED
    BY <1>0, <2>1, <2>3, <2>5, <2>6, SeqEqual
<1>6. /\ Times(c, a \o (<<q[i]>> \o b)) = Times(c, a) + Times(c, <<q[i]>> \o b)
      /\ Times(c, <<q[i]>> \o b) = Times(c, <<q[i]>>) + Times(c, b)
      /\ Times(c, a \o b) = Times(c, a) + Times(c, b)
  BY <1>1, <1>2, <1>4, TimesConcat, ZenonT(60)
<1>7. Times(c, a) \in Nat /\ Times(c, b) \in Nat
  BY <1>1, <1>2, AtIs
<1>8. RemoveAt(q, i) = a \o b
  BY DEF RemoveAt, a, b
<1>9. One(c, q[i]) \in Nat
  BY DEF One
<1>10. Times(c, <<q[i]>>) = One(c, q[i])
  BY TimesOne
<1>11. PICK ta \in Nat, tb \in Nat, o \in Nat :
         ta = Times(c, a) /\ tb = Times(c, b) /\ o = One(c, q[i])
  BY <1>7, <1>9
<1>12. Times(c, q) = ta + (o + tb)
  <2>1. Times(c, q) = Times(c, a \o (<<q[i]>> \o b))
    BY <1>5
  <2>2. QED
    BY <2>1, <1>6, <1>10, <1>11
<1>13. Times(c, RemoveAt(q, i)) = ta + tb
  BY <1>6, <1>8, <1>11
<1>14. ta + (o + tb) = (ta + tb) + o
  OBVIOUS
<1>15. QED
  BY <1>4, <1>8, <1>11, <1>12, <1>13, <1>14

(* the pairs of one x *)
LEMMA PairsOfOne ==
  ASSUME NEW x, NEW A, IsFiniteSet(A)
  PROVE  IsFiniteSet({x} \X A) /\ Cardinality({x} \X A) = Cardinality(A)
<1> DEFINE f == [a \in A |-> <<x, a>>]
<1>1. f \in [A -> {x} \X A]
  OBVIOUS
<1>2. \A a, b \in A : f[a] = f[b] => a = b
  OBVIOUS
<1>3. \A y \in {x} \X A : \E a \in A : f[a] = y
  OBVIOUS
<1> HIDE DEF f
<1>4. f \in Injection(A, {x} \X A)
  BY <1>1, <1>2 DEF Injection, IsInjective
<1>5. f \in Surjection(A, {x} \X A)
  BY <1>1, <1>3 DEF Surjection
<1>6. ExistsBijection(A, {x} \X A)
  BY <1>4, <1>5 DEF ExistsBijection, Bijection
<1>7. QED
  BY <1>6, FS_Bijection

(* a family with one more member *)
LEMMA PairsExtend ==
  ASSUME NEW F, NEW G, NEW x, x \notin DOMAIN F, DOMAIN G = DOMAIN F \cup {x},
         \A y \in DOMAIN F : G[y] = F[y], IsFiniteSet(G[x]), IsFiniteSet(Pairs(F))
  PROVE  /\ IsFiniteSet(Pairs(G))
         /\ Cardinality(Pairs(G)) = Cardinality(Pairs(F)) + Cardinality(G[x])
<1>1. Pairs(G) = Pairs(F) \cup ({x} \X G[x])
  BY DEF Pairs
<1>2. Pairs(F) \cap ({x} \X G[x]) = {}
  BY DEF Pairs
<1>3. IsFiniteSet({x} \X G[x]) /\ Cardinality({x} \X G[x]) = Cardinality(G[x])
  BY PairsOfOne
<1>4. Cardinality(Pairs(F) \cup ({x} \X G[x]))
        = Cardinality(Pairs(F)) + Cardinality({x} \X G[x]) - Cardinality({})
  BY <1>2, <1>3, FS_Union
<1>5. PICK n \in Nat, m \in Nat : n = Cardinality(Pairs(F)) /\ m = Cardinality({x} \X G[x])
  BY <1>3, FS_CardinalityType
<1>6. Cardinality(Pairs(G)) = n + m - 0
  BY <1>1, <1>4, <1>5, FS_EmptySet
<1>7. IsFiniteSet(Pairs(G))
  <2>1. IsFiniteSet(Pairs(F) \cup ({x} \X G[x]))
    BY <1>3, FS_Union
  <2>2. QED
    BY <1>1, <2>1
<1>8. QED
  BY <1>3, <1>5, <1>6, <1>7

(* induction over a finite set *)
LEMMA FiniteInd ==
  ASSUME NEW D, IsFiniteSet(D), NEW G, {} \in G,
         \A T \in SUBSET D : \A x \in D \ T : T \in G => T \cup {x} \in G
  PROVE  D \in G
<1> DEFINE B == {T \in SUBSET D : T \notin G}
<1>1. SUFFICES ASSUME D \notin G PROVE FALSE
  OBVIOUS
<1>2. D \in B /\ B \subseteq FiniteSubsetsOf(D)
  BY <1>1, FS_FiniteSubsetsOfFinite
<1>3. IsWellFoundedOn(StrictSubsetOrdering(D), FiniteSubsetsOf(D))
  BY FS_StrictSubsetOrderingWellFounded
<1> HIDE DEF B
<1>4. PICK T \in B : \A U \in B : ~ (<<U, T>> \in StrictSubsetOrdering(D))
  BY <1>2, <1>3, WFMin
<1>5. T \subseteq D /\ T \notin G
  BY <1>4 DEF B
<1>6. PICK x \in T : TRUE
  BY <1>5
<1>7. T \ {x} \notin B
  BY <1>4, <1>5, <1>6 DEF StrictSubsetOrdering
<1>8. T \ {x} \in G /\ x \in D \ (T \ {x}) /\ (T \ {x}) \cup {x} = T
  BY <1>5, <1>6, <1>7 DEF B
<1>9. QED
  BY <1>5, <1>8

(* a finite family of finite sets *)
LEMMA PairsFinite ==
  ASSUME NEW F, IsFiniteSet(DOMAIN F), \A x \in DOMAIN F : IsFiniteSet(F[x])
  PROVE  IsFiniteSet(Pairs(F)) /\ Cardinality(Pairs(F)) \in Nat
<1> DEFINE D == DOMAIN F
           R(T) == [x \in T |-> F[x]]
           G == {T \in SUBSET D : IsFiniteSet(Pairs(R(T)))}
<1>1. {} \in G
  <2>1. Pairs(R({})) = {}
    BY DEF Pairs
  <2>2. QED
    BY <2>1, FS_EmptySet
<1>2. ASSUME NEW T \in SUBSET D, NEW x \in D \ T, T \in G PROVE T \cup {x} \in G
  <2>1. DOMAIN R(T) = T /\ DOMAIN R(T \cup {x}) = T \cup {x}
    OBVIOUS
  <2>2. \A y \in T : R(T \cup {x})[y] = R(T)[y]
    OBVIOUS
  <2>3. R(T \cup {x})[x] = F[x] /\ IsFiniteSet(F[x]) /\ IsFiniteSet(Pairs(R(T)))
    BY <1>2
  <2> HIDE DEF R
  <2>4. IsFiniteSet(Pairs(R(T \cup {x})))
    BY <2>1, <2>2, <2>3, PairsExtend
  <2>5. QED
    BY <2>4
<1> HIDE DEF G
<1>3. D \in G
  BY <1>1, <1>2, FiniteInd
<1>4. Pairs(R(D)) = Pairs(F)
  BY DEF Pairs
<1> HIDE DEF R
<1>5. QED
  BY <1>3, <1>4, FS_CardinalityType DEF G

-----------------------------------------------------------------------------
(* F is a finite family of sequences of S *)
Family(F, D, S) == IsFiniteSet(D) /\ F \in [D -> Seq(S)]

(* how often c is in it, is a number *)
LEMMA UsesType ==
  ASSUME NEW D, NEW S, NEW F, Family(F, D, S), NEW c
  PROVE  /\ Uses(F, c) \in Nat
         /\ IsFiniteSet(Pairs([x \in DOMAIN F |-> At(c, F[x])]))
<1> DEFINE H == [x \in DOMAIN F |-> At(c, F[x])]
<1>1. DOMAIN H = D /\ DOMAIN F = D
  BY DEF Family
<1>2. \A x \in DOMAIN H : IsFiniteSet(H[x])
  BY <1>1, AtIs DEF Family
<1> HIDE DEF H
<1>3. IsFiniteSet(Pairs(H)) /\ Cardinality(Pairs(H)) \in Nat
  BY <1>1, <1>2, PairsFinite DEF Family
<1>4. QED
  BY <1>3 DEF Uses, H

(* one more sequence *)
LEMMA UsesExtend ==
  ASSUME NEW D, NEW S, NEW F, Family(F, D, S), NEW x, x \notin D, NEW G,
         Family(G, D \cup {x}, S), \A y \in D : G[y] = F[y], NEW c
  PROVE  Uses(G, c) = Uses(F, c) + Times(c, G[x])
<1> DEFINE H == [y \in DOMAIN F |-> At(c, F[y])]
           K == [y \in DOMAIN G |-> At(c, G[y])]
<1>1. DOMAIN H = D /\ DOMAIN K = D \cup {x}
  BY DEF Family
<1>2. \A y \in D : K[y] = H[y]
  BY DEF Family
<1>3. K[x] = At(c, G[x]) /\ IsFiniteSet(K[x])
  BY AtIs DEF Family
<1>4. IsFiniteSet(Pairs(H))
  BY UsesType
<1>5. Uses(F, c) = Cardinality(Pairs(H)) /\ Uses(G, c) = Cardinality(Pairs(K))
  BY DEF Uses
<1> HIDE DEF H, K
<1>6. Cardinality(Pairs(K)) = Cardinality(Pairs(H)) + Cardinality(K[x])
  BY <1>1, <1>2, <1>3, <1>4, PairsExtend
<1>7. QED
  BY <1>3, <1>5, <1>6 DEF Times

(* one sequence less *)
LEMMA UsesWithout ==
  ASSUME NEW D, NEW S, NEW F, Family(F, D, S), NEW x \in D, NEW c
  PROVE  /\ Family([y \in D \ {x} |-> F[y]], D \ {x}, S)
         /\ Uses(F, c) = Uses([y \in D \ {x} |-> F[y]], c) + Times(c, F[x])
<1> DEFINE H == [y \in D \ {x} |-> F[y]]
<1>1. Family(H, D \ {x}, S)
  <2>1. IsFiniteSet(D \ {x})
    BY FS_RemoveElement DEF Family
  <2>2. QED
    BY <2>1 DEF Family
<1>2. \A y \in D \ {x} : F[y] = H[y]
  OBVIOUS
<1>3. x \notin D \ {x} /\ (D \ {x}) \cup {x} = D
  OBVIOUS
<1> HIDE DEF H
<1>4. Family(F, (D \ {x}) \cup {x}, S)
  BY <1>3
<1>5. Uses(F, c) = Uses(H, c) + Times(c, F[x])
  BY <1>1, <1>2, <1>3, <1>4, UsesExtend
<1>6. QED
  BY <1>1, <1>5 DEF H

(* one sequence that changes *)
LEMMA UsesUpdate ==
  ASSUME NEW D, NEW S, NEW F, Family(F, D, S), NEW G, Family(G, D, S), NEW x \in D,
         \A y \in D \ {x} : G[y] = F[y], NEW c
  PROVE  Uses(G, c) + Times(c, F[x]) = Uses(F, c) + Times(c, G[x])
<1> DEFINE H == [y \in D \ {x} |-> F[y]]
<1>1. [y \in D \ {x} |-> G[y]] = H
  OBVIOUS
<1>2. Uses(F, c) = Uses(H, c) + Times(c, F[x])
  BY UsesWithout
<1>3. Uses(G, c) = Uses(H, c) + Times(c, G[x])
  BY <1>1, UsesWithout
<1>4. Uses(H, c) \in Nat
  BY UsesWithout, UsesType, ZenonT(60)
<1>5. Times(c, F[x]) \in Nat /\ Times(c, G[x]) \in Nat
  BY AtIs DEF Family
<1> HIDE DEF H
<1>6. QED
  BY <1>2, <1>3, <1>4, <1>5

(* what one of them has, and what two have *)
LEMMA UsesSome ==
  ASSUME NEW D, NEW S, NEW F, Family(F, D, S), NEW x \in D, NEW c
  PROVE  /\ Uses(F, c) >= Times(c, F[x])
         /\ \A y \in D \ {x} : Uses(F, c) >= Times(c, F[x]) + Times(c, F[y])
<1> DEFINE H == [y \in D \ {x} |-> F[y]]
<1>1. Uses(F, c) = Uses(H, c) + Times(c, F[x]) /\ Family(H, D \ {x}, S)
  BY UsesWithout
<1>2. Uses(H, c) \in Nat /\ \A y \in D : Times(c, F[y]) \in Nat
  BY <1>1, UsesType, AtIs DEF Family
<1>3. ASSUME NEW y \in D \ {x}
      PROVE  Uses(F, c) >= Times(c, F[x]) + Times(c, F[y])
  <2> DEFINE K == [z \in (D \ {x}) \ {y} |-> H[z]]
  <2>1. H[y] = F[y]
    OBVIOUS
  <2> HIDE DEF H
  <2>2. Uses(H, c) = Uses(K, c) + Times(c, H[y]) /\ Family(K, (D \ {x}) \ {y}, S)
    BY <1>1, UsesWithout
  <2> HIDE DEF K
  <2>3. Uses(K, c) \in Nat
    BY <2>2, UsesType
  <2>4. QED
    BY <1>1, <1>2, <2>1, <2>2, <2>3
<1> HIDE DEF H
<1>4. QED
  BY <1>1, <1>2, <1>3

(* families that are the same, and those where c is nowhere *)
LEMMA UsesNone ==
  ASSUME NEW D, NEW S, NEW F, Family(F, D, S), NEW c
  PROVE  Uses(F, c) = 0 <=> \A x \in D : Times(c, F[x]) = 0
<1> DEFINE H == [x \in DOMAIN F |-> At(c, F[x])]
<1>1. IsFiniteSet(Pairs(H)) /\ Uses(F, c) = Cardinality(Pairs(H))
  BY UsesType DEF Uses
<1>2. Uses(F, c) = 0 <=> Pairs(H) = {}
  BY <1>1, FS_EmptySet
<1>3. DOMAIN F = D
  BY DEF Family
<1>4. Pairs(H) = {} <=> \A x \in D : At(c, F[x]) = {}
  <2>1. DOMAIN H = D /\ \A x \in D : H[x] = At(c, F[x])
    BY <1>3
  <2> HIDE DEF H
  <2>2. ASSUME NEW x \in D, NEW i \in H[x] PROVE <<x, i>> \in Pairs(H)
    BY <2>1 DEF Pairs
  <2>3. ASSUME \A x \in D : H[x] = {} PROVE Pairs(H) = {}
    BY <2>1, <2>3 DEF Pairs
  <2>4. QED
    BY <2>1, <2>2, <2>3
<1>5. \A x \in D : At(c, F[x]) = {} <=> Times(c, F[x]) = 0
  BY AtIs, FS_EmptySet DEF Family, Times
<1>6. QED
  BY <1>2, <1>4, <1>5

-----------------------------------------------------------------------------
(* the counts e of channels, and of Mheads, and once more for each of q *)
Plus(e, q) == [c \in Chans |-> e[c] + Times(c, q)]
MPlus(me, q) == [m \in Mheads |-> me[m] + Times(m, q)]

(* these are counts *)
LEMMA PlusType ==
  ASSUME NEW e \in [Chans -> Nat], NEW S, NEW q \in Seq(S)
  PROVE  /\ Plus(e, q) \in [Chans -> Nat]
         /\ \A c \in Chans : Plus(e, q)[c] = e[c] + Times(c, q) /\ Plus(e, q)[c] >= e[c]
<1>1. \A c : Times(c, q) \in Nat
  BY AtIs
<1>2. \A c \in Chans : Plus(e, q)[c] = e[c] + Times(c, q)
  BY DEF Plus
<1>3. \A c \in Chans : e[c] \in Nat
  OBVIOUS
<1>4. Plus(e, q) \in [Chans -> Nat]
  BY <1>1, <1>3 DEF Plus
<1>5. QED
  BY <1>1, <1>2, <1>3, <1>4

(* the same of Mheads *)
LEMMA MPlusType ==
  ASSUME NEW e \in [Mheads -> Nat], NEW S, NEW q \in Seq(S)
  PROVE  /\ MPlus(e, q) \in [Mheads -> Nat]
         /\ \A m \in Mheads : MPlus(e, q)[m] = e[m] + Times(m, q)
<1>1. \A c : Times(c, q) \in Nat
  BY AtIs
<1>2. \A c \in Mheads : e[c] \in Nat
  OBVIOUS
<1>3. QED
  BY <1>1, <1>2 DEF MPlus

(* none more, and one more *)
LEMMA PlusEmpty ==
  ASSUME NEW e \in [Chans -> Nat]
  PROVE  Plus(e, <<>>) = e
BY TimesEmpty DEF Plus

(* and for Mheads *)
LEMMA MPlusEmpty ==
  ASSUME NEW e \in [Mheads -> Nat]
  PROVE  MPlus(e, <<>>) = e
BY TimesEmpty DEF MPlus

(* one more is counted *)
LEMMA PlusOne ==
  ASSUME NEW e \in [Chans -> Nat], NEW x
  PROVE  /\ Plus(e, <<x>>) \in [Chans -> Nat]
         /\ \A c \in Chans : Plus(e, <<x>>)[c] = e[c] + One(c, x)
<1>1. <<x>> \in Seq({x})
  OBVIOUS
<1>2. Plus(e, <<x>>) \in [Chans -> Nat]
  BY <1>1, PlusType
<1>3. QED
  BY <1>2, TimesOne DEF Plus

(* one more Mhead is counted *)
LEMMA MPlusOne ==
  ASSUME NEW e \in [Mheads -> Nat], NEW x
  PROVE  /\ MPlus(e, <<x>>) \in [Mheads -> Nat]
         /\ \A m \in Mheads : MPlus(e, <<x>>)[m] = e[m] + One(m, x)
<1>1. <<x>> \in Seq({x})
  OBVIOUS
<1>2. MPlus(e, <<x>>) \in [Mheads -> Nat]
  BY <1>1, MPlusType
<1>3. QED
  BY <1>2, TimesOne DEF MPlus

(* some more, and more *)
LEMMA PlusPlus ==
  ASSUME NEW e \in [Chans -> Nat], NEW S, NEW a \in Seq(S), NEW b \in Seq(S)
  PROVE  Plus(Plus(e, a), b) = Plus(e, a \o b) /\ Plus(Plus(e, a), b) = Plus(e, b \o a)
<1>1. ASSUME NEW c \in Chans
      PROVE  e[c] + Times(c, a) + Times(c, b) = e[c] + Times(c, a \o b)
              /\ e[c] + Times(c, a) + Times(c, b) = e[c] + Times(c, b \o a)
  <2>1. Times(c, a \o b) = Times(c, a) + Times(c, b) /\ Times(c, b \o a) = Times(c, b) + Times(c, a)
    BY TimesConcat
  <2>2. Times(c, a) \in Nat /\ Times(c, b) \in Nat /\ e[c] \in Nat
    BY AtIs
  <2>3. QED
    BY <2>1, <2>2
<1>2. QED
  BY <1>1 DEF Plus

(* the Mheads of two sequences *)
LEMMA MPlusPlus ==
  ASSUME NEW e \in [Mheads -> Nat], NEW S, NEW a \in Seq(S), NEW b \in Seq(S)
  PROVE  MPlus(MPlus(e, a), b) = MPlus(e, a \o b) /\ MPlus(MPlus(e, a), b) = MPlus(e, b \o a)
<1>1. ASSUME NEW c \in Mheads
      PROVE  e[c] + Times(c, a) + Times(c, b) = e[c] + Times(c, a \o b)
              /\ e[c] + Times(c, a) + Times(c, b) = e[c] + Times(c, b \o a)
  <2>1. Times(c, a \o b) = Times(c, a) + Times(c, b) /\ Times(c, b \o a) = Times(c, b) + Times(c, a)
    BY TimesConcat
  <2>2. Times(c, a) \in Nat /\ Times(c, b) \in Nat /\ e[c] \in Nat
    BY AtIs
  <2>3. QED
    BY <2>1, <2>2
<1>2. QED
  BY <1>1 DEF MPlus

(* the same ones more *)
LEMMA PlusSame ==
  ASSUME NEW e, NEW a, NEW b, \A c \in Chans : Times(c, a) = Times(c, b)
  PROVE  Plus(e, a) = Plus(e, b)
BY DEF Plus

(* of Mheads too *)
LEMMA MPlusSame ==
  ASSUME NEW e, NEW a, NEW b, \A c \in Mheads : Times(c, a) = Times(c, b)
  PROVE  MPlus(e, a) = MPlus(e, b)
BY DEF MPlus

(* one and another more, in any order *)
LEMMA PlusSwap ==
  ASSUME NEW e \in [Chans -> Nat], NEW x, NEW y
  PROVE  Plus(Plus(e, <<x>>), <<y>>) = Plus(Plus(e, <<y>>), <<x>>)
<1>1. \A c \in Chans : e[c] \in Nat /\ Times(c, <<x>>) \in Nat /\ Times(c, <<y>>) \in Nat
  BY TimesOne DEF One
<1>2. \A c \in Chans : (e[c] + Times(c, <<x>>)) + Times(c, <<y>>) = (e[c] + Times(c, <<y>>)) + Times(c, <<x>>)
  BY <1>1
<1>3. QED
  BY <1>2 DEF Plus

-----------------------------------------------------------------------------
(* Second part: what the tables count.                                     *)

Froms(k) == [m \in k.hashed |-> <<k.from[m]>>]
Umhs(k) == [c \in Chans |-> <<k.umh[c]>>]

(* the tables are finite families *)
LEMMA Families ==
  ASSUME NEW k, TabsOK(k)
  PROVE  /\ Family(Froms(k), k.hashed, OrNone(Chans))
         /\ Family(k.mount, Mheads, Chans)
         /\ Family(k.path, Chans, OrNone(Chans))
         /\ Family(Umhs(k), Chans, OrNone(Mheads))
<1>1. IsFiniteSet(Chans) /\ IsFiniteSet(Mheads) /\ IsFiniteSet(k.hashed)
  BY ChansAre, FS_Subset DEF TabsOK
<1>2. \A m \in k.hashed : <<k.from[m]>> \in Seq(OrNone(Chans))
  <2>1. \A m \in k.hashed : k.from[m] \in OrNone(Chans)
    BY DEF TabsOK
  <2>2. QED
    BY <2>1
<1>3. \A c \in Chans : <<k.umh[c]>> \in Seq(OrNone(Mheads))
  BY DEF TabsOK
<1>4. QED
  BY <1>1, <1>2, <1>3 DEF Family, Froms, Umhs, TabsOK

(* these are numbers *)
LEMMA InTablesType ==
  ASSUME NEW k, TabsOK(k)
  PROVE  /\ \A c : /\ Uses(Froms(k), c) \in Nat /\ Uses(k.mount, c) \in Nat
                   /\ Uses(k.path, c) \in Nat
                   /\ InTables(k, c) \in Nat
                   /\ InTables(k, c) = Uses(Froms(k), c) + Uses(k.mount, c) + Uses(k.path, c)
         /\ \A m : /\ Uses(Umhs(k), m) \in Nat /\ MInTables(k, m) \in Nat
                   /\ MInTables(k, m) = (IF m \in k.hashed THEN 1 ELSE 0) + Uses(Umhs(k), m)
<1>1. \A c : /\ Uses(Froms(k), c) \in Nat /\ Uses(k.mount, c) \in Nat
             /\ Uses(k.path, c) \in Nat /\ Uses(Umhs(k), c) \in Nat
  BY Families, UsesType
<1>2. \A c : InTables(k, c) = Uses(Froms(k), c) + Uses(k.mount, c) + Uses(k.path, c)
  BY DEF InTables, Froms
<1>3. \A m : MInTables(k, m) = (IF m \in k.hashed THEN 1 ELSE 0) + Uses(Umhs(k), m)
  BY DEF MInTables, Umhs
<1>4. QED
  BY <1>1, <1>2, <1>3

(* what the counts look at, and what they do not *)
SameKeepers(k, k2) ==
  /\ k2.hashed = k.hashed /\ k2.mount = k.mount /\ k2.path = k.path
  /\ \A m \in k.hashed : k2.from[m] = k.from[m]

(* tables that keep the same channels *)
LEMMA InTablesSame ==
  ASSUME NEW k, NEW k2, SameKeepers(k, k2)
  PROVE  \A c : InTables(k2, c) = InTables(k, c)
<1>1. [m \in k2.hashed |-> <<k2.from[m]>>] = [m \in k.hashed |-> <<k.from[m]>>]
  BY DEF SameKeepers
<1>2. QED
  BY <1>1 DEF InTables, SameKeepers

(* the path of one channel is another *)
LEMMA InTablesPath ==
  ASSUME NEW k, TabsOK(k), NEW k2, TabsOK(k2), NEW c \in Chans,
         k2.hashed = k.hashed, k2.mount = k.mount, \A m \in k.hashed : k2.from[m] = k.from[m],
         \A d \in Chans \ {c} : k2.path[d] = k.path[d], NEW d
  PROVE  InTables(k2, d) + Times(d, k.path[c]) = InTables(k, d) + Times(d, k2.path[c])
<1>1. Uses(k2.path, d) + Times(d, k.path[c]) = Uses(k.path, d) + Times(d, k2.path[c])
  BY Families, UsesUpdate
<1>2. Froms(k2) = Froms(k)
  BY DEF Froms
<1>3. Times(d, k.path[c]) \in Nat /\ Times(d, k2.path[c]) \in Nat
  BY AtIs DEF TabsOK
<1>4. QED
  BY <1>1, <1>2, <1>3, InTablesType

(* the mounts at one Mhead are others *)
LEMMA InTablesMount ==
  ASSUME NEW k, TabsOK(k), NEW k2, TabsOK(k2), NEW m \in Mheads,
         k2.hashed = k.hashed, k2.path = k.path, \A n \in k.hashed : k2.from[n] = k.from[n],
         \A n \in Mheads \ {m} : k2.mount[n] = k.mount[n], NEW d
  PROVE  InTables(k2, d) + Times(d, k.mount[m]) = InTables(k, d) + Times(d, k2.mount[m])
<1>1. Uses(k2.mount, d) + Times(d, k.mount[m]) = Uses(k.mount, d) + Times(d, k2.mount[m])
  BY Families, UsesUpdate
<1>2. Froms(k2) = Froms(k)
  BY DEF Froms
<1>3. Times(d, k.mount[m]) \in Nat /\ Times(d, k2.mount[m]) \in Nat
  BY AtIs DEF TabsOK
<1>4. QED
  BY <1>1, <1>2, <1>3, InTablesType

(* one Mhead more in the hash table *)
LEMMA InTablesHash ==
  ASSUME NEW k, TabsOK(k), NEW k2, TabsOK(k2), NEW m \in Mheads \ k.hashed,
         k2.hashed = k.hashed \cup {m}, k2.path = k.path, k2.mount = k.mount,
         \A n \in k.hashed : k2.from[n] = k.from[n], NEW d
  PROVE  InTables(k2, d) = InTables(k, d) + One(d, k2.from[m])
<1>1. Family(Froms(k), k.hashed, OrNone(Chans)) /\ Family(Froms(k2), k2.hashed, OrNone(Chans))
  BY Families
<1>2. Froms(k2)[m] = <<k2.from[m]>> /\ \A n \in k.hashed : Froms(k2)[n] = Froms(k)[n]
  BY DEF Froms
<1>3. Uses(Froms(k2), d) = Uses(Froms(k), d) + Times(d, Froms(k2)[m])
  <2>1. Family(Froms(k2), k.hashed \cup {m}, OrNone(Chans))
    BY <1>1
  <2>2. QED
    BY <1>1, <1>2, <2>1, UsesExtend
<1>4. Times(d, <<k2.from[m]>>) = One(d, k2.from[m]) /\ One(d, k2.from[m]) \in Nat
  BY TimesOne DEF One
<1>5. QED
  BY <1>2, <1>3, <1>4, InTablesType

(* the Mhead that one channel keeps is another *)
LEMMA MInTablesUmh ==
  ASSUME NEW k, TabsOK(k), NEW k2, TabsOK(k2), NEW c \in Chans, k2.hashed = k.hashed,
         \A d \in Chans \ {c} : k2.umh[d] = k.umh[d], NEW m
  PROVE  MInTables(k2, m) + One(m, k.umh[c]) = MInTables(k, m) + One(m, k2.umh[c])
<1>1. \A d \in Chans : Umhs(k)[d] = <<k.umh[d]>> /\ Umhs(k2)[d] = <<k2.umh[d]>>
  BY DEF Umhs
<1>2. Uses(Umhs(k2), m) + Times(m, Umhs(k)[c]) = Uses(Umhs(k), m) + Times(m, Umhs(k2)[c])
  BY <1>1, Families, UsesUpdate
<1>3. Uses(Umhs(k2), m) + One(m, k.umh[c]) = Uses(Umhs(k), m) + One(m, k2.umh[c])
  BY <1>1, <1>2, TimesOne
<1>4. One(m, k.umh[c]) \in Nat /\ One(m, k2.umh[c]) \in Nat
  BY DEF One
<1>5. QED
  BY <1>3, <1>4, InTablesType

(* one that is counted from outside is not free *)
LEMMA InUse ==
  ASSUME NEW k, NEW e, NEW me, Bal(k, e, me), NEW c \in Chans, e[c] >= 1
  PROVE  c \notin k.free /\ k.ref[c] >= 1
<1>1. InTables(k, c) \in Nat
  BY InTablesType DEF Bal
<1>2. k.ref[c] >= 1
  BY <1>1 DEF Bal, Counted
<1>3. QED
  BY <1>2 DEF Bal, Counted
-----------------------------------------------------------------------------
(* incref, of a channel in use *)
LEMMA IncrefKeeps ==
  ASSUME NEW k, NEW e, NEW me, Bal(k, e, me), NEW c \in Chans, c \notin k.free
  PROVE  /\ Bal(Incref(k, c), Plus(e, <<c>>), me)
         /\ \A x \in TabFields \ {"ref"} : Incref(k, c)[x] = k[x]
<1> DEFINE k2 == Incref(k, c)
           e2 == Plus(e, <<c>>)
<1>0. e2 \in [Chans -> Nat] /\ \A d \in Chans : e2[d] = e[d] + One(d, c)
  BY PlusOne DEF Bal
<1> HIDE DEF e2
<1>1. \A x \in TabFields \ {"ref"} : k2[x] = k[x]
  BY DEF Incref, Bal, TabsOK, TabFields
<1>2. k2.ref = [k.ref EXCEPT ![c] = @ + 1] /\ DOMAIN k2 = TabFields /\ k2 = [x \in TabFields |-> k2[x]]
  BY DEF Incref, Bal, TabsOK, TabFields
<1> HIDE DEF k2
<1>a. k2.ref \in [Chans -> Int] /\ \A d \in Chans : k2.ref[d] = k.ref[d] + One(d, c)
  <2>1. k.ref \in [Chans -> Int]
    BY DEF Bal, TabsOK
  <2>2. QED
    BY <1>2, <2>1 DEF One
<1>3. TabsOK(k2) /\ k2.stale = FALSE
  <2>1. TabsOK(k) /\ k.stale = FALSE
    BY DEF Bal
  <2>2. /\ k2.file = k.file /\ k2.offset = k.offset /\ k2.path = k.path /\ k2.umh = k.umh
        /\ k2.free = k.free /\ k2.mref = k.mref /\ k2.from = k.from /\ k2.mount = k.mount
        /\ k2.hashed = k.hashed /\ k2.moved = k.moved /\ k2.stale = k.stale
    BY <1>1 DEF TabFields
  <2>3. QED
    BY <1>a, <1>2, <2>1, <2>2 DEF TabsOK
<1>4. SameKeepers(k, k2) /\ k2.umh = k.umh /\ k2.mref = k.mref /\ k2.free = k.free
  BY <1>1 DEF SameKeepers, TabFields
<1>5. \A d \in Chans : InTables(k2, d) = InTables(k, d) /\ InTables(k, d) \in Nat
  BY <1>4, InTablesSame, InTablesType DEF Bal
<1>6. \A m : MInTables(k2, m) = MInTables(k, m)
  BY <1>4 DEF MInTables, SameKeepers
<1>7. \A d \in Chans : k2.ref[d] = k.ref[d] + One(d, c)
  BY <1>a
<1>8. \A d \in Chans : k.ref[d] = e[d] + InTables(k, d) /\ e[d] \in Nat /\ One(d, c) \in Nat
  BY DEF Bal, Counted, One
<1>9. \A d \in Chans : k2.ref[d] = e2[d] + InTables(k2, d)
  BY <1>0, <1>5, <1>7, <1>8
<1>10. \A d \in Chans : d \in k2.free <=> k2.ref[d] = 0
  <2>1. c \notin k.free /\ \A d \in Chans : d \in k.free <=> k.ref[d] = 0
    BY DEF Bal, Counted
  <2>2. \A d \in Chans : k.ref[d] \in Nat
    BY <1>5, <1>8
  <2>3. k2.ref[c] = k.ref[c] + 1 /\ \A d \in Chans \ {c} : k2.ref[d] = k.ref[d] + 0
    BY <1>7 DEF One
  <2>4. QED
    BY <1>4, <2>1, <2>2, <2>3
<1>11. Counted(k2, e2, me)
  BY <1>1, <1>4, <1>6, <1>9, <1>10 DEF Bal, Counted, TabFields
<1>12. e2[Slash] >= 1
  BY <1>0, ChansAre, <1>8 DEF Bal, Kept, Slash
<1>13. Kept(k2, e2)
  BY <1>1, <1>4, <1>5, <1>12 DEF Bal, Kept, SameKeepers, TabFields
<1>14. QED
  BY <1>0, <1>1, <1>3, <1>11, <1>13 DEF k2, e2, Bal

(* the reference of one more Mhead, that is in use *)
LEMMA GetMheadKeeps ==
  ASSUME NEW k, NEW e, NEW me, Bal(k, e, me), NEW m \in Mheads
  PROVE  /\ Bal([k EXCEPT !.mref[m] = @ + 1], e, MPlus(me, <<m>>))
         /\ \A x \in TabFields \ {"mref"} : [k EXCEPT !.mref[m] = @ + 1][x] = k[x]
<1> DEFINE k2 == [k EXCEPT !.mref[m] = @ + 1]
           me2 == MPlus(me, <<m>>)
<1>0. me2 \in [Mheads -> Nat] /\ \A n \in Mheads : me2[n] = me[n] + One(n, m)
  BY MPlusOne DEF Bal
<1> HIDE DEF me2
<1>1. \A x \in TabFields \ {"mref"} : k2[x] = k[x]
  BY DEF Bal, TabsOK, TabFields
<1>2. k2.mref = [k.mref EXCEPT ![m] = @ + 1] /\ DOMAIN k2 = TabFields /\ k2 = [x \in TabFields |-> k2[x]]
  BY DEF Bal, TabsOK, TabFields
<1> HIDE DEF k2
<1>3. k2.mref \in [Mheads -> Int] /\ \A n \in Mheads : k2.mref[n] = k.mref[n] + One(n, m)
  <2>1. k.mref \in [Mheads -> Int]
    BY DEF Bal, TabsOK
  <2>2. QED
    BY <1>2, <2>1 DEF One
<1>4. /\ k2.ref = k.ref /\ k2.file = k.file /\ k2.offset = k.offset /\ k2.path = k.path
      /\ k2.umh = k.umh /\ k2.free = k.free /\ k2.from = k.from /\ k2.mount = k.mount
      /\ k2.hashed = k.hashed /\ k2.moved = k.moved /\ k2.stale = k.stale
  BY <1>1 DEF TabFields
<1>5. TabsOK(k2) /\ k2.stale = FALSE
  <2>1. TabsOK(k) /\ k.stale = FALSE
    BY DEF Bal
  <2>2. QED
    BY <1>2, <1>3, <1>4, <2>1 DEF TabsOK
<1>6. \A d \in Chans : InTables(k2, d) = InTables(k, d)
  BY <1>4, InTablesSame DEF SameKeepers
<1>7. \A n \in Mheads : MInTables(k2, n) = MInTables(k, n) /\ MInTables(k, n) \in Nat
  BY <1>4, InTablesType DEF MInTables, Bal
<1>8. \A n \in Mheads : k2.mref[n] = me2[n] + MInTables(k2, n)
  <2>1. \A n \in Mheads : k.mref[n] = me[n] + MInTables(k, n) /\ me[n] \in Nat /\ One(n, m) \in Nat
    BY DEF Bal, Counted, One
  <2>2. QED
    BY <1>0, <2>1, <1>3, <1>7
<1>9. Counted(k2, e, me2) /\ Kept(k2, e)
  BY <1>4, <1>6, <1>8 DEF Bal, Counted, Kept
<1>10. QED
  BY <1>0, <1>1, <1>5, <1>9 DEF k2, me2, Bal

(* putmhead, of one that is counted *)
LEMMA PutMheadKeeps ==
  ASSUME NEW k, NEW e, NEW m \in OrNone(Mheads), NEW me2 \in [Mheads -> Nat],
         Bal(k, e, MPlus(me2, <<m>>))
  PROVE  /\ Bal(PutMhead(k, m), e, me2)
         /\ \A x \in TabFields \ {"mref", "from"} : PutMhead(k, m)[x] = k[x]
         /\ \A n \in k.hashed : PutMhead(k, m).from[n] = k.from[n]
<1> DEFINE me == MPlus(me2, <<m>>)
<1>0. me \in [Mheads -> Nat] /\ \A n \in Mheads : me[n] = me2[n] + One(n, m)
  BY MPlusOne
<1>a. Bal(k, e, me)
  OBVIOUS
<1> HIDE DEF me
<1>1. CASE m = None
  <2>1. PutMhead(k, m) = k
    BY <1>1 DEF PutMhead
  <2>2. \A n \in Mheads : me[n] = me2[n]
    BY <1>0, <1>1, ChansAre DEF One
  <2>3. me = me2
    BY <1>0, <2>2
  <2>4. QED
    BY <1>a, <2>1, <2>3
<1>2. CASE m \in Mheads
  <2> DEFINE k2 == PutMhead(k, m)
             gone == k.mref[m] = 1
  <2>1. m # None
    BY <1>2, ChansAre
  <2>2. \A x \in TabFields \ {"mref", "from"} : k2[x] = k[x]
    BY <1>a, <2>1 DEF PutMhead, Bal, TabsOK, TabFields
  <2>3. /\ k2.mref = [k.mref EXCEPT ![m] = @ - 1]
        /\ k2.from = [k.from EXCEPT ![m] = IF gone THEN None ELSE @]
        /\ DOMAIN k2 = TabFields /\ k2 = [x \in TabFields |-> k2[x]]
    BY <1>a, <2>1 DEF PutMhead, Bal, TabsOK, TabFields
  <2> HIDE DEF k2
  <2>4. k2.mref \in [Mheads -> Int] /\ \A n \in Mheads : k2.mref[n] = k.mref[n] - One(n, m)
    <3>1. k.mref \in [Mheads -> Int]
      BY <1>a DEF Bal, TabsOK
    <3>2. QED
      BY <1>2, <2>3, <3>1 DEF One
  <2>5. /\ k2.ref = k.ref /\ k2.file = k.file /\ k2.offset = k.offset /\ k2.path = k.path
        /\ k2.umh = k.umh /\ k2.free = k.free /\ k2.mount = k.mount
        /\ k2.hashed = k.hashed /\ k2.moved = k.moved /\ k2.stale = k.stale
    BY <2>2 DEF TabFields
  <2>6. k2.from \in [Mheads -> OrNone(Chans)]
    <3>1. k.from \in [Mheads -> OrNone(Chans)]
      BY <1>a DEF Bal, TabsOK
    <3>2. QED
      BY <2>3, <3>1, <1>2 DEF OrNone
  <2>7. TabsOK(k2) /\ k2.stale = FALSE
    <3>1. TabsOK(k) /\ k.stale = FALSE
      BY <1>a DEF Bal
    <3>2. QED
      BY <2>3, <2>4, <2>5, <2>6, <3>1 DEF TabsOK
  <2>8. \A n \in Mheads : /\ k.mref[n] = me[n] + MInTables(k, n) /\ me2[n] \in Nat
                          /\ MInTables(k, n) \in Nat /\ One(n, m) \in Nat
    BY <1>0, <1>a, InTablesType DEF Bal, Counted, One
  <2>9. gone => m \notin k.hashed
    <3>1. me[m] >= 1
      BY <1>0, <1>2, <2>8 DEF One
    <3>2. m \in k.hashed => MInTables(k, m) >= 1
      BY <1>a, InTablesType DEF Bal
    <3>3. me[m] \in Nat
      BY <1>0, <1>2
    <3>4. QED
      BY <1>2, <2>8, <3>1, <3>2, <3>3
  <2>10. \A n \in k.hashed : k2.from[n] = k.from[n]
    <3>1. k.from \in [Mheads -> OrNone(Chans)] /\ k.hashed \subseteq Mheads
      BY <1>a DEF Bal, TabsOK
    <3>2. QED
      BY <2>3, <2>9, <3>1
  <2>11. \A d \in Chans : InTables(k2, d) = InTables(k, d)
    BY <2>5, <2>10, InTablesSame DEF SameKeepers
  <2>12. \A n \in Mheads : MInTables(k2, n) = MInTables(k, n)
    BY <2>5 DEF MInTables
  <2>13. \A n \in Mheads : k2.mref[n] = me2[n] + MInTables(k2, n)
    BY <1>0, <2>4, <2>8, <2>12
  <2>14. Counted(k2, e, me2) /\ Kept(k2, e)
    BY <1>a, <2>5, <2>10, <2>11, <2>13, ZenonT(60) DEF Bal, Counted, Kept
  <2>15. QED
    BY <1>a, <2>2, <2>7, <2>10, <2>14 DEF k2, Bal
<1>3. QED
  BY <1>1, <1>2 DEF OrNone

(* a reference is given back that is not the last *)
LEMMA DecrefKeeps ==
  ASSUME NEW k, NEW me, NEW c \in Chans, k.ref[c] > 1, NEW e2 \in [Chans -> Nat],
         Bal(k, Plus(e2, <<c>>), me), e2[Slash] >= 1
  PROVE  /\ Bal([k EXCEPT !.ref[c] = @ - 1], e2, me)
         /\ \A x \in TabFields \ {"ref"} : [k EXCEPT !.ref[c] = @ - 1][x] = k[x]
<1> DEFINE k2 == [k EXCEPT !.ref[c] = @ - 1]
           e == Plus(e2, <<c>>)
<1>0. e \in [Chans -> Nat] /\ \A d \in Chans : e[d] = e2[d] + One(d, c)
  BY PlusOne
<1>a. Bal(k, e, me)
  OBVIOUS
<1> HIDE DEF e
<1>1. \A x \in TabFields \ {"ref"} : k2[x] = k[x]
  BY <1>a DEF Bal, TabsOK, TabFields
<1>2. k2.ref = [k.ref EXCEPT ![c] = @ - 1] /\ DOMAIN k2 = TabFields /\ k2 = [x \in TabFields |-> k2[x]]
  BY <1>a DEF Bal, TabsOK, TabFields
<1> HIDE DEF k2
<1>3. k2.ref \in [Chans -> Int] /\ \A d \in Chans : k2.ref[d] = k.ref[d] - One(d, c)
  <2>1. k.ref \in [Chans -> Int]
    BY <1>a DEF Bal, TabsOK
  <2>2. QED
    BY <1>2, <2>1 DEF One
<1>4. /\ k2.mref = k.mref /\ k2.file = k.file /\ k2.offset = k.offset /\ k2.path = k.path
      /\ k2.umh = k.umh /\ k2.free = k.free /\ k2.from = k.from /\ k2.mount = k.mount
      /\ k2.hashed = k.hashed /\ k2.moved = k.moved /\ k2.stale = k.stale
  BY <1>1 DEF TabFields
<1>5. TabsOK(k2) /\ k2.stale = FALSE
  <2>1. TabsOK(k) /\ k.stale = FALSE
    BY <1>a DEF Bal
  <2>2. QED
    BY <1>2, <1>3, <1>4, <2>1 DEF TabsOK
<1>6. \A d \in Chans : InTables(k2, d) = InTables(k, d) /\ InTables(k, d) \in Nat
  BY <1>a, <1>4, InTablesSame, InTablesType DEF SameKeepers, Bal
<1>7. \A n \in Mheads : MInTables(k2, n) = MInTables(k, n)
  BY <1>4 DEF MInTables
<1>8. \A d \in Chans : k.ref[d] = e[d] + InTables(k, d) /\ e2[d] \in Nat /\ One(d, c) \in Nat
  BY <1>a DEF Bal, Counted, One
<1>9. \A d \in Chans : k2.ref[d] = e2[d] + InTables(k2, d)
  BY <1>0, <1>3, <1>6, <1>8
<1>10. \A d \in Chans : d \in k2.free <=> k2.ref[d] = 0
  <2>1. \A d \in Chans : (d \in k.free <=> k.ref[d] = 0) /\ k.ref[d] \in Int
    BY <1>a DEF Bal, Counted, TabsOK
  <2>2. k2.ref[c] = k.ref[c] - 1 /\ \A d \in Chans \ {c} : k2.ref[d] = k.ref[d] - 0
    BY <1>3 DEF One
  <2>3. QED
    BY <1>4, <2>1, <2>2
<1>11. Counted(k2, e2, me) /\ Kept(k2, e2)
  BY <1>a, <1>4, <1>6, <1>7, <1>9, <1>10 DEF Bal, Counted, Kept
<1>12. QED
  BY <1>a, <1>1, <1>5, <1>11 DEF k2, Bal

(* what closing does not do: it takes nothing from the mount table, and    *)
(* what it does not free stays as it is                                    *)
Shrinks(k, k2) ==
  /\ k2.hashed = k.hashed /\ k2.mount = k.mount /\ k2.offset = k.offset /\ k2.moved = k.moved
  /\ \A m \in k.hashed : k2.from[m] = k.from[m]
  /\ k.free \subseteq k2.free
  /\ \A c \in Chans \ k2.free :
       k2.file[c] = k.file[c] /\ k2.path[c] = k.path[c] /\ k2.umh[c] = k.umh[c]

(* closing, and closing again *)
LEMMA ShrinksOn ==
  ASSUME NEW k, NEW k1, NEW k2, Shrinks(k, k1), Shrinks(k1, k2)
  PROVE  Shrinks(k, k2)
BY DEF Shrinks

(* chanfree, of a channel that nobody keeps but the caller: those in its   *)
(* path are the caller's then                                              *)
LEMMA ChanFreeKeeps ==
  ASSUME NEW k, NEW me, NEW c \in Chans, k.ref[c] = 1, c # Slash, NEW e0 \in [Chans -> Nat],
         Bal(k, Plus(e0, <<c>>), me)
  PROVE  /\ Bal(ChanFree(k, c), Plus(e0, k.path[c]), me) /\ Shrinks(k, ChanFree(k, c))
         /\ ChanFree(k, c).path[c] = <<>>
         /\ \A d \in Chans \ {c} : ChanFree(k, c).path[d] = k.path[d]
<1> DEFINE k1 == [k EXCEPT !.ref[c] = 0, !.free = @ \cup {c}, !.file[c] = None,
                           !.path[c] = <<>>, !.umh[c] = None]
           k2 == PutMhead(k1, k.umh[c])
           e == Plus(e0, <<c>>)
           e2 == Plus(e0, k.path[c])
<1>b. Bal(k, e, me)
  OBVIOUS
<1>c. k.path[c] \in Seq(OrNone(Chans))
  BY DEF Bal, TabsOK
<1>d. /\ e2 \in [Chans -> Nat] /\ e[c] >= 1
      /\ \A d \in Chans : e2[d] + One(d, c) = e[d] + Times(d, k.path[c])
  <2>1. e \in [Chans -> Nat] /\ \A d \in Chans : e[d] = e0[d] + One(d, c)
    BY PlusOne
  <2>2. e2 \in [Chans -> Nat] /\ \A d \in Chans : e2[d] = e0[d] + Times(d, k.path[c])
    BY <1>c, PlusType
  <2>3. \A d : Times(d, k.path[c]) \in Nat /\ One(d, c) \in Nat
    BY <1>c, AtIs DEF One
  <2>4. One(c, c) = 1
    BY DEF One
  <2> HIDE DEF e, e2
  <2>5. QED
    BY <2>1, <2>2, <2>3, <2>4
<1> HIDE DEF e, e2
<1>0. TabsOK(k) /\ k.stale = FALSE
  BY <1>b DEF Bal
<1>a. DOMAIN k1 = TabFields /\ k1 = [x \in TabFields |-> k1[x]]
  BY <1>0 DEF TabsOK, TabFields
<1>1. /\ k1.ref = [k.ref EXCEPT ![c] = 0] /\ k1.free = k.free \cup {c}
      /\ k1.file = [k.file EXCEPT ![c] = None] /\ k1.path = [k.path EXCEPT ![c] = <<>>]
      /\ k1.umh = [k.umh EXCEPT ![c] = None] /\ k1.offset = k.offset /\ k1.mref = k.mref
      /\ k1.from = k.from /\ k1.mount = k.mount /\ k1.hashed = k.hashed
      /\ k1.moved = k.moved /\ k1.stale = k.stale
  BY <1>0 DEF TabsOK, TabFields
<1> HIDE DEF k1
<1>2. k1.ref \in [Chans -> Int] /\ k1.ref[c] = 0 /\ \A d \in Chans \ {c} : k1.ref[d] = k.ref[d]
  <2>1. k.ref \in [Chans -> Int]
    BY <1>0 DEF TabsOK
  <2>2. QED
    BY <1>1, <2>1
<1>3. /\ k1.path \in [Chans -> Seq(OrNone(Chans))] /\ k1.path[c] = <<>>
      /\ \A d \in Chans \ {c} : k1.path[d] = k.path[d]
  <2>1. k.path \in [Chans -> Seq(OrNone(Chans))]
    BY <1>0 DEF TabsOK
  <2>2. <<>> \in Seq(OrNone(Chans))
    OBVIOUS
  <2>3. QED
    BY <1>1, <2>1, <2>2
<1>4. /\ k1.umh \in [Chans -> OrNone(Mheads)] /\ k1.umh[c] = None
      /\ \A d \in Chans \ {c} : k1.umh[d] = k.umh[d]
      /\ k.umh[c] \in OrNone(Mheads)
  <2>1. k.umh \in [Chans -> OrNone(Mheads)]
    BY <1>0 DEF TabsOK
  <2>2. QED
    BY <1>1, <2>1 DEF OrNone
<1>5. k1.file = [d \in Chans |-> k1.file[d]] /\ \A d \in Chans \ {c} : k1.file[d] = k.file[d]
  <2>1. k.file = [d \in Chans |-> k.file[d]]
    BY <1>0 DEF TabsOK
  <2>2. DOMAIN k1.file = Chans
    BY <1>1, <2>1
  <2>3. k1.file[c] = None /\ \A d \in Chans \ {c} : k1.file[d] = k.file[d]
    BY <1>1, <2>1
  <2>4. k1.file = [d \in DOMAIN k1.file |-> k1.file[d]]
    BY <1>1
  <2>5. QED
    BY <2>2, <2>3, <2>4
<1>6. TabsOK(k1) /\ k1.stale = FALSE
  BY <1>0, <1>a, <1>1, <1>2, <1>3, <1>4, <1>5 DEF TabsOK
<1>7. \A d : InTables(k1, d) + Times(d, k.path[c]) = InTables(k, d) + Times(d, <<>>)
  <2> TAKE d
  <2>1. \A m \in k.hashed : k1.from[m] = k.from[m]
    BY <1>1
  <2>2. InTables(k1, d) + Times(d, k.path[c]) = InTables(k, d) + Times(d, k1.path[c])
    BY <1>0, <1>1, <1>3, <1>6, <2>1, InTablesPath
  <2>3. QED
    BY <2>2, <1>3
<1>8. \A d : /\ InTables(k1, d) \in Nat /\ InTables(k, d) \in Nat /\ Times(d, k.path[c]) \in Nat
             /\ Times(d, <<>>) = 0
  BY <1>0, <1>6, InTablesType, AtIs, TimesEmpty DEF TabsOK
<1>9. \A m : MInTables(k1, m) + One(m, k.umh[c]) = MInTables(k, m) + One(m, None)
  BY <1>0, <1>1, <1>4, <1>6, MInTablesUmh
<1> DEFINE me1 == [m \in Mheads |-> me[m] + One(m, k.umh[c])]
<1>10. me1 \in [Mheads -> Nat] /\ \A m \in Mheads : me1[m] = me[m] + One(m, k.umh[c])
  BY <1>b DEF Bal, One
<1> HIDE DEF me1
<1>11. /\ \A d \in Chans : /\ k.ref[d] = e[d] + InTables(k, d) /\ e[d] \in Nat /\ e2[d] \in Nat
                           /\ (d \in k.free <=> k.ref[d] = 0)
       /\ \A m \in Mheads : k.mref[m] = me[m] + MInTables(k, m) /\ me[m] \in Nat
  BY <1>b, <1>d DEF Bal, Counted
<1>12. \A d \in Chans : k1.ref[d] = e2[d] + InTables(k1, d)
  <2>1. CASE TRUE
    <3> TAKE d \in Chans
    <3>1. InTables(k1, d) + Times(d, k.path[c]) = InTables(k, d)
      BY <1>7, <1>8
    <3>2. CASE d = c
      <4>1. e[c] = 1 /\ InTables(k, c) = 0
        BY <1>d, <1>8, <1>11
      <4>2. e2[c] + 1 = e[c] + Times(c, k.path[c])
        BY <1>d DEF One
      <4>3. QED
        BY <3>1, <3>2, <4>1, <4>2, <1>2, <1>8, <1>11
    <3>3. CASE d # c
      <4>1. e2[d] + 0 = e[d] + Times(d, k.path[c])
        BY <1>d, <3>3 DEF One
      <4>2. QED
        BY <3>1, <3>3, <4>1, <1>2, <1>8, <1>11
    <3>4. QED
      BY <3>2, <3>3
  <2>2. QED
    BY <2>1
<1>13. \A m \in Mheads : k1.mref[m] = me1[m] + MInTables(k1, m)
  <2>1. \A m \in Mheads : One(m, None) = 0
    BY ChansAre DEF One
  <2>2. \A m : MInTables(k1, m) \in Nat /\ MInTables(k, m) \in Nat /\ One(m, k.umh[c]) \in Nat
    BY <1>0, <1>6, InTablesType DEF One
  <2>3. ASSUME NEW m \in Mheads PROVE k1.mref[m] = me1[m] + MInTables(k1, m)
    <3>1. MInTables(k1, m) + One(m, k.umh[c]) = MInTables(k, m) + 0
      BY <1>9, <2>1
    <3>2. k1.mref[m] = me[m] + MInTables(k, m) /\ me1[m] = me[m] + One(m, k.umh[c])
      BY <1>1, <1>10, <1>11
    <3>3. me[m] \in Nat
      BY <1>11
    <3>4. QED
      BY <3>1, <3>2, <3>3, <2>2
  <2>4. QED
    BY <2>3
<1>14. \A d \in Chans : d \in k1.free <=> k1.ref[d] = 0
  <2>1. \A d \in Chans : d \in k1.free <=> d \in k.free \/ d = c
    BY <1>1
  <2>2. \A d \in Chans : d \in k.free <=> k.ref[d] = 0
    BY <1>11
  <2>3. QED
    BY <2>1, <2>2, <1>2
<1>15. \A d \in k1.free : k1.path[d] = <<>> /\ k1.umh[d] = None
  <2>1. k.free \subseteq Chans /\ \A d \in k.free : k.path[d] = <<>> /\ k.umh[d] = None
    BY <1>b DEF Bal, Counted, TabsOK
  <2>2. k1.free = k.free \cup {c}
    BY <1>1
  <2>3. ASSUME NEW d \in k1.free PROVE k1.path[d] = <<>> /\ k1.umh[d] = None
    <3>1. CASE d = c
      BY <3>1, <1>3, <1>4
    <3>2. CASE d # c
      <4>1. d \in k.free /\ d \in Chans \ {c}
        BY <2>1, <2>2, <3>2
      <4>2. QED
        BY <4>1, <2>1, <1>3, <1>4
    <3>3. QED
      BY <3>1, <3>2
  <2>4. QED
    BY <2>3
<1>16. Counted(k1, e2, me1)
  BY <1>12, <1>13, <1>14, <1>15 DEF Counted
<1>17. Kept(k1, e2)
  <2>1. \A d \in Chans : k.umh[d] # None => InTables(k, d) = 0
    BY <1>b DEF Bal, Kept
  <2>2. \A d \in Chans : k1.umh[d] # None => InTables(k1, d) = 0
    BY <1>4, <1>7, <1>8, <2>1
  <2>3. Slash \in Chans /\ One(Slash, c) = 0
    BY ChansAre DEF Slash, One
  <2>4. e2[Slash] + 0 = e[Slash] + Times(Slash, k.path[c]) /\ e[Slash] >= 1
    BY <1>b, <1>d, <2>3 DEF Bal, Kept
  <2>5. e2[Slash] >= 1
    BY <1>8, <1>11, <2>3, <2>4
  <2>6. k1.path[Slash] = <<None>> /\ k1.umh[Slash] = None
    BY <1>b, <1>3, <1>4, <2>3 DEF Bal, Kept
  <2>7. QED
    BY <1>b, <1>1, <2>2, <2>5, <2>6 DEF Bal, Kept
<1>18. Bal(k1, e2, me1)
  BY <1>d, <1>6, <1>10, <1>16, <1>17 DEF Bal
<1>19. me \in [Mheads -> Nat]
  BY <1>b DEF Bal
<1>20. /\ Bal(k2, e2, me) /\ \A x \in TabFields \ {"mref", "from"} : k2[x] = k1[x]
       /\ \A n \in k1.hashed : k2.from[n] = k1.from[n]
  <2>1. me1 = MPlus(me, <<k.umh[c]>>)
    BY TimesOne DEF MPlus, me1
  <2>2. Bal(k1, e2, MPlus(me, <<k.umh[c]>>))
    BY <1>18, <2>1
  <2>3. QED
    BY <1>4, <1>19, <2>2, PutMheadKeeps
<1>21. k2 = ChanFree(k, c)
  BY DEF ChanFree, k1
<1> HIDE DEF k2
<1>22. Shrinks(k, k2)
  <2>1. /\ k2.hashed = k1.hashed /\ k2.mount = k1.mount /\ k2.offset = k1.offset
        /\ k2.moved = k1.moved /\ k2.free = k1.free /\ k2.file = k1.file /\ k2.path = k1.path
        /\ k2.umh = k1.umh
    BY <1>20 DEF TabFields
  <2>2. \A n \in k.hashed : k2.from[n] = k.from[n]
    BY <1>1, <1>20
  <2>3. k.free \subseteq k2.free /\ c \in k2.free
    BY <1>1, <2>1
  <2>4. \A d \in Chans \ k2.free :
          k2.file[d] = k.file[d] /\ k2.path[d] = k.path[d] /\ k2.umh[d] = k.umh[d]
    BY <1>3, <1>4, <1>5, <2>1, <2>3
  <2>5. QED
    BY <1>1, <2>1, <2>2, <2>3, <2>4 DEF Shrinks
<1>23. k2.path[c] = <<>> /\ \A d \in Chans \ {c} : k2.path[d] = k.path[d]
  BY <1>3, <1>20 DEF TabFields
<1>24. QED
  BY <1>20, <1>21, <1>22, <1>23 DEF e2

-----------------------------------------------------------------------------
(* Third part: cclose.                                                     *)

(* a set of naturals has a least one *)
LEMMA LeastNat ==
  ASSUME NEW T, T \in SUBSET Nat, T # {}
  PROVE  \E m \in T : \A k \in T : m <= k
<1> DEFINE F == {0 .. c-1 : c \in T}
           R == StrictSubsetOrdering(Nat)
<1>1. IsWellFoundedOn(R, FiniteSubsetsOf(Nat))
  BY FS_StrictSubsetOrderingWellFounded
<1>2. F \subseteq FiniteSubsetsOf(Nat)
  <2>1. ASSUME NEW c \in T PROVE 0 .. c-1 \in SUBSET Nat /\ IsFiniteSet(0 .. c-1)
    <3>1. c \in Nat /\ 0 \in Int /\ c - 1 \in Int
      OBVIOUS
    <3> QED BY <3>1, FS_Interval
  <2> QED BY <2>1 DEF FiniteSubsetsOf
<1>3. F # {}
  OBVIOUS
<1>4. \E x \in F : \A y \in F : ~ (<<y, x>> \in R)
  <2> HIDE DEF F, R
  <2> QED BY <1>1, <1>2, <1>3, WFMin
<1>5. PICK m \in T : \A y \in F : ~ (<<y, 0 .. m-1>> \in R)
  BY <1>4
<1>6. ASSUME NEW k \in T, k < m PROVE FALSE
  <2>1. 0 .. k-1 \in F
    OBVIOUS
  <2>2. 0 .. k-1 \subseteq 0 .. m-1 /\ 0 .. k-1 # 0 .. m-1
    <3>1. k \in 0 .. m-1 /\ k \notin 0 .. k-1
      BY <1>6
    <3> QED BY <3>1, <1>6
  <2>3. 0 .. m-1 \in SUBSET Nat
    OBVIOUS
  <2> HIDE DEF F
  <2> QED BY <2>1, <2>2, <2>3, <1>5 DEF R, StrictSubsetOrdering
<1> QED BY <1>5, <1>6

(* the least of them *)
LEMMA LeastIs ==
  ASSUME NEW T, T \in SUBSET Nat, T # {}
  PROVE  Least(T) \in T /\ \A y \in T : Least(T) <= y
BY LeastNat DEF Least

(* induction over the naturals *)
LEMMA NatInd ==
  ASSUME NEW G, 0 \in G, \A n \in Nat : n \in G => n + 1 \in G
  PROVE  Nat \subseteq G
<1> DEFINE B == Nat \ G
<1> SUFFICES ASSUME B # {} PROVE FALSE
  OBVIOUS
<1>1. PICK m \in B : \A k \in B : m <= k
  BY LeastNat
<1>2. m # 0 /\ m - 1 \in Nat
  BY <1>1
<1>3. m - 1 \in G
  BY <1>1, <1>2
<1>4. (m - 1) + 1 = m
  BY <1>2
<1> QED BY <1>1, <1>2, <1>3, <1>4

(* the pairs of a family in which one set is another *)
LEMMA PairsUpdate ==
  ASSUME NEW D, IsFiniteSet(D), NEW F, NEW G, DOMAIN F = D, DOMAIN G = D,
         \A y \in D : IsFiniteSet(F[y]), \A y \in D : IsFiniteSet(G[y]),
         NEW x \in D, \A y \in D \ {x} : G[y] = F[y]
  PROVE  Cardinality(Pairs(G)) + Cardinality(F[x]) = Cardinality(Pairs(F)) + Cardinality(G[x])
<1> DEFINE H == [y \in D \ {x} |-> F[y]]
<1>1. /\ DOMAIN H = D \ {x} /\ x \notin D \ {x} /\ (D \ {x}) \cup {x} = D
      /\ \A y \in D \ {x} : H[y] = F[y]
  OBVIOUS
<1> HIDE DEF H
<1>2. IsFiniteSet(D \ {x})
  BY FS_RemoveElement
<1>3. IsFiniteSet(Pairs(H)) /\ Cardinality(Pairs(H)) \in Nat
  BY <1>1, <1>2, PairsFinite
<1>4. Cardinality(Pairs(F)) = Cardinality(Pairs(H)) + Cardinality(F[x])
  <2>1. x \notin DOMAIN H /\ DOMAIN F = DOMAIN H \cup {x} /\ \A y \in DOMAIN H : F[y] = H[y]
    BY <1>1
  <2>2. IsFiniteSet(F[x])
    OBVIOUS
  <2>3. QED
    BY <2>1, <2>2, <1>3, PairsExtend
<1>5. Cardinality(Pairs(G)) = Cardinality(Pairs(H)) + Cardinality(G[x])
  <2>1. x \notin DOMAIN H /\ DOMAIN G = DOMAIN H \cup {x} /\ \A y \in DOMAIN H : G[y] = H[y]
    BY <1>1
  <2>2. IsFiniteSet(G[x])
    OBVIOUS
  <2>3. QED
    BY <2>1, <2>2, <1>3, PairsExtend
<1>6. Cardinality(F[x]) \in Nat /\ Cardinality(G[x]) \in Nat
  BY FS_CardinalityType
<1>7. QED
  BY <1>3, <1>4, <1>5, <1>6

(* the places in a sequence *)
LEMMA Domains ==
  ASSUME NEW S, NEW q \in Seq(S)
  PROVE  IsFiniteSet(DOMAIN q) /\ Cardinality(DOMAIN q) = Len(q) /\ Len(q) \in Nat
<1>1. Len(q) \in Nat /\ DOMAIN q = 1..Len(q)
  BY SMTT(40)
<1>2. IsFiniteSet(1..Len(q)) /\ Cardinality(1..Len(q)) = Len(q)
  <2>1. PICK n \in Nat : n = Len(q)
    BY <1>1
  <2>2. IsFiniteSet(1..n) /\ Cardinality(1..n) = IF 1 > n THEN 0 ELSE n - 1 + 1
    BY FS_Interval
  <2>3. (IF 1 > n THEN 0 ELSE n - 1 + 1) = n
    OBVIOUS
  <2>4. QED
    BY <2>1, <2>2, <2>3, SMTT(40)
<1>3. QED
  BY <1>1, <1>2, SMTT(40)

(* the places in paths, and one path less *)
LEMMA InPathsType ==
  ASSUME NEW k, TabsOK(k)
  PROVE  IsFiniteSet(InPaths(k)) /\ Cardinality(InPaths(k)) \in Nat
<1> DEFINE F == [c \in Chans |-> DOMAIN k.path[c]]
<1>1. DOMAIN F = Chans /\ IsFiniteSet(Chans)
  BY ChansAre
<1>2. \A c \in Chans : IsFiniteSet(F[c])
  BY Domains DEF TabsOK
<1> HIDE DEF F
<1>3. IsFiniteSet(Pairs(F)) /\ Cardinality(Pairs(F)) \in Nat
  BY <1>1, <1>2, PairsFinite
<1>4. QED
  BY <1>3 DEF F, InPaths

(* without the path of c there are as many fewer places *)
LEMMA InPathsLess ==
  ASSUME NEW k, TabsOK(k), NEW k2, TabsOK(k2), NEW c \in Chans, k2.path[c] = <<>>,
         \A d \in Chans \ {c} : k2.path[d] = k.path[d]
  PROVE  Cardinality(InPaths(k)) = Cardinality(InPaths(k2)) + Len(k.path[c])
<1> DEFINE F == [d \in Chans |-> DOMAIN k.path[d]]
           G == [d \in Chans |-> DOMAIN k2.path[d]]
<1>1. /\ DOMAIN F = Chans /\ DOMAIN G = Chans /\ IsFiniteSet(Chans)
      /\ \A d \in Chans \ {c} : G[d] = F[d]
      /\ F[c] = DOMAIN k.path[c] /\ G[c] = DOMAIN k2.path[c]
  BY ChansAre
<1>2. \A d \in Chans : IsFiniteSet(F[d]) /\ IsFiniteSet(G[d])
  BY Domains DEF TabsOK
<1> HIDE DEF F, G
<1>3. Cardinality(Pairs(G)) + Cardinality(F[c]) = Cardinality(Pairs(F)) + Cardinality(G[c])
  <2>1. /\ IsFiniteSet(Chans) /\ DOMAIN F = Chans /\ DOMAIN G = Chans
        /\ \A d \in Chans \ {c} : G[d] = F[d]
    BY <1>1
  <2>2. (\A d \in Chans : IsFiniteSet(F[d])) /\ \A d \in Chans : IsFiniteSet(G[d])
    BY <1>2
  <2>3. QED
    BY <2>1, <2>2, PairsUpdate
<1>4. Cardinality(F[c]) = Len(k.path[c]) /\ Cardinality(G[c]) = 0
  <2>1. k.path[c] \in Seq(OrNone(Chans)) /\ k2.path[c] \in Seq(OrNone(Chans)) /\ Len(k2.path[c]) = 0
    BY DEF TabsOK
  <2>2. QED
    BY <1>1, <2>1, Domains
<1>5. InPaths(k) = Pairs(F) /\ InPaths(k2) = Pairs(G)
  BY DEF InPaths, F, G
<1>6. Cardinality(InPaths(k)) \in Nat /\ Cardinality(InPaths(k2)) \in Nat
  BY InPathsType
<1>7. Len(k.path[c]) \in Nat
  BY Domains DEF TabsOK
<1>8. QED
  BY <1>3, <1>4, <1>5, <1>6, <1>7

(* what there is still to do *)
Measure(k, q) == Len(q) + Cardinality(InPaths(k))

(* one cclose: what the caller had counted is given back *)
LEMMA CloseOneKeeps ==
  ASSUME NEW k, NEW q \in Seq(OrNone(Chans)), q # <<>>, NEW e \in [Chans -> Nat], NEW me,
         Bal(k, Plus(e, q), me), e[Slash] >= 1
  PROVE  LET x == CloseOne([tabs |-> k, todo |-> q]) IN
         /\ x = [tabs |-> x.tabs, todo |-> x.todo]
         /\ x.todo \in Seq(OrNone(Chans))
         /\ Bal(x.tabs, Plus(e, x.todo), me)
         /\ Shrinks(k, x.tabs)
         /\ Measure(x.tabs, x.todo) + 1 = Measure(k, q)
<1> DEFINE x == CloseOne([tabs |-> k, todo |-> q])
           c == Head(q)
           rest == Tail(q)
<1>0. TabsOK(k)
  BY DEF Bal
<1>1. c \in OrNone(Chans) /\ rest \in Seq(OrNone(Chans)) /\ Len(q) = Len(rest) + 1 /\ Len(rest) \in Nat
  OBVIOUS
<1>2. \A d : Times(d, q) = One(d, c) + Times(d, rest) /\ Times(d, rest) \in Nat /\ One(d, c) \in Nat
  BY <1>1, TimesHead, AtIs DEF One
<1>3. x = IF c = None THEN [tabs |-> k, todo |-> rest]
          ELSE IF c \in k.free THEN [tabs |-> [k EXCEPT !.stale = TRUE], todo |-> rest]
          ELSE IF k.ref[c] > 1 THEN [tabs |-> [k EXCEPT !.ref[c] = @ - 1], todo |-> rest]
          ELSE [tabs |-> ChanFree(k, c), todo |-> k.path[c] \o rest]
  BY DEF CloseOne
<1> HIDE DEF x, c, rest
<1> DEFINE e1 == Plus(e, rest)
<1>4. e1 \in [Chans -> Nat] /\ e1[Slash] >= 1 /\ Slash \in Chans
  <2>1. e1 \in [Chans -> Nat] /\ \A d \in Chans : e1[d] >= e[d]
    BY <1>1, PlusType
  <2>2. Slash \in Chans /\ e[Slash] \in Nat
    BY ChansAre DEF Slash
  <2> HIDE DEF e1
  <2>3. e1[Slash] \in Nat /\ e1[Slash] >= e[Slash]
    BY <2>1, <2>2
  <2>4. QED
    BY <2>1, <2>2, <2>3
<1>5. Plus(e, q) = Plus(e1, <<c>>)
  <2>1. <<c>> \in Seq(OrNone(Chans)) /\ q = <<c>> \o rest
    BY <1>1 DEF c, rest
  <2>2. Plus(e1, <<c>>) = Plus(e, <<c>> \o rest)
    BY <1>1, <2>1, PlusPlus, ZenonT(60)
  <2>3. QED
    BY <2>1, <2>2
<1>6. Bal(k, Plus(e1, <<c>>), me)
  BY <1>5
<1>b. Plus(e1, <<c>>) \in [Chans -> Nat] /\ \A d \in Chans : Plus(e1, <<c>>)[d] = e1[d] + One(d, c)
  BY <1>4, PlusOne
<1> HIDE DEF e1
<1>7. Cardinality(InPaths(k)) \in Nat
  BY <1>0, InPathsType
<1>8. CASE c = None
  <2>1. x.tabs = k /\ x.todo = rest /\ x = [tabs |-> k, todo |-> rest]
    BY <1>3, <1>8
  <2>2. Bal(k, e1, me)
    <3>1. \A d \in Chans : One(d, c) = 0
      BY <1>8, ChansAre DEF One
    <3>2. Plus(e1, <<c>>) = e1
      BY <1>4, <1>b, <3>1
    <3>3. QED
      BY <1>6, <3>2
  <2>3. Shrinks(k, k)
    BY DEF Shrinks
  <2>4. Measure(k, rest) + 1 = Measure(k, q)
    BY <1>1, <1>7 DEF Measure
  <2>5. QED
    BY <1>1, <2>1, <2>2, <2>3, <2>4 DEF x, e1
<1>9. ASSUME c \in Chans PROVE c # None /\ c \notin k.free /\ k.ref[c] >= 1
  <2>1. Plus(e1, <<c>>)[c] >= 1
    <3>1. Plus(e1, <<c>>)[c] = e1[c] + One(c, c) /\ e1[c] \in Nat
      BY <1>4, <1>b, <1>9
    <3>2. One(c, c) = 1
      BY DEF One
    <3>3. QED
      BY <3>1, <3>2
  <2>2. QED
    BY <1>6, <1>9, <2>1, InUse, ChansAre
<1>10. CASE c \in Chans /\ k.ref[c] > 1
  <2>1. x.tabs = [k EXCEPT !.ref[c] = @ - 1] /\ x.todo = rest /\ x = [tabs |-> x.tabs, todo |-> rest]
    BY <1>3, <1>9, <1>10
  <2>2. /\ Bal([k EXCEPT !.ref[c] = @ - 1], e1, me)
        /\ \A f \in TabFields \ {"ref"} : [k EXCEPT !.ref[c] = @ - 1][f] = k[f]
    BY <1>4, <1>6, <1>10, DecrefKeeps, ZenonT(60)
  <2>3. /\ Bal(x.tabs, e1, me)
        /\ \A f \in TabFields \ {"ref"} : x.tabs[f] = k[f]
    BY <2>1, <2>2
  <2>4. Shrinks(k, x.tabs) /\ x.tabs.path = k.path
    BY <2>3 DEF Shrinks, TabFields
  <2>5. Measure(x.tabs, rest) + 1 = Measure(k, q)
    BY <1>1, <1>7, <2>4 DEF Measure, InPaths
  <2>6. QED
    BY <1>1, <2>1, <2>3, <2>4, <2>5 DEF x, e1
<1>11. CASE c \in Chans /\ k.ref[c] <= 1
  <2>1. k.ref[c] \in Int
    BY <1>0, <1>11 DEF TabsOK
  <2>2. k.ref[c] = 1
    BY <1>9, <1>11, <2>1
  <2>3. x.tabs = ChanFree(k, c) /\ x.todo = k.path[c] \o rest /\ x = [tabs |-> x.tabs, todo |-> x.todo]
    BY <1>3, <1>9, <1>11, <2>2
  <2>4. c # Slash
    <3>1. Plus(e1, <<c>>)[Slash] = e1[Slash] + One(Slash, c)
      BY <1>4, <1>b
    <3>2. k.ref[Slash] = Plus(e1, <<c>>)[Slash] + InTables(k, Slash)
      BY <1>4, <1>6 DEF Bal, Counted
    <3>3. InTables(k, Slash) \in Nat /\ e1[Slash] \in Nat
      BY <1>0, <1>4, InTablesType
    <3>4. ASSUME c = Slash PROVE FALSE
      <4>1. One(Slash, c) = 1
        BY <3>4 DEF One
      <4>2. k.ref[Slash] >= 2
        BY <1>4, <3>1, <3>2, <3>3, <4>1
      <4>3. QED
        BY <2>2, <3>4, <4>2
    <3>5. QED
      BY <3>4
  <2>5. k.path[c] \in Seq(OrNone(Chans))
    BY <1>0, <1>11 DEF TabsOK
  <2>6. x.todo \in Seq(OrNone(Chans)) /\ Len(x.todo) = Len(k.path[c]) + Len(rest)
    BY <1>1, <2>3, <2>5
  <2>7. Plus(e1, k.path[c]) = Plus(e, x.todo)
    <3>1. Plus(Plus(e, rest), k.path[c]) = Plus(e, k.path[c] \o rest)
      BY <1>1, <2>5, PlusPlus
    <3>2. QED
      BY <2>3, <3>1 DEF e1
  <2>8. /\ Bal(ChanFree(k, c), Plus(e1, k.path[c]), me) /\ Shrinks(k, ChanFree(k, c))
        /\ ChanFree(k, c).path[c] = <<>>
        /\ \A d \in Chans \ {c} : ChanFree(k, c).path[d] = k.path[d]
    BY <1>4, <1>6, <1>11, <2>2, <2>4, ChanFreeKeeps
  <2>11. /\ Bal(x.tabs, Plus(e, x.todo), me) /\ Shrinks(k, x.tabs)
         /\ x.tabs.path[c] = <<>> /\ \A d \in Chans \ {c} : x.tabs.path[d] = k.path[d]
    BY <2>3, <2>7, <2>8
  <2>12. TabsOK(x.tabs)
    BY <2>11 DEF Bal
  <2>13. Cardinality(InPaths(k)) = Cardinality(InPaths(x.tabs)) + Len(k.path[c])
    BY <1>0, <1>11, <2>11, <2>12, InPathsLess
  <2>14. Cardinality(InPaths(x.tabs)) \in Nat /\ Len(k.path[c]) \in Nat
    BY <2>5, <2>12, InPathsType, Domains
  <2>15. Measure(x.tabs, x.todo) + 1 = Measure(k, q)
    <3>1. PICK a \in Nat, b \in Nat, i \in Nat :
            a = Len(k.path[c]) /\ b = Len(rest) /\ i = Cardinality(InPaths(x.tabs))
      BY <1>1, <2>14
    <3>2. Measure(x.tabs, x.todo) = (a + b) + i /\ Measure(k, q) = (b + 1) + (i + a)
      BY <1>1, <2>6, <2>13, <3>1 DEF Measure
    <3>3. QED
      BY <3>2
  <2>16. QED
    BY <2>3, <2>6, <2>11, <2>15 DEF x
<1>12. QED
  <2>1. c \in Chans => k.ref[c] \in Int
    BY <1>0 DEF TabsOK
  <2>2. QED
    BY <1>1, <2>1, <1>8, <1>10, <1>11 DEF OrNone

(* the loop of CClose *)
Closes(k, q, n, f) ==
  f = [i \in 0..n |-> IF i = 0 THEN [tabs |-> k, todo |-> q] ELSE CloseOne(f[i - 1])]

(* there is such a function *)
LEMMA CloseExists ==
  ASSUME NEW k, NEW q
  PROVE  \A n \in Nat : \E f : Closes(k, q, n, f)
<1> DEFINE s0 == [tabs |-> k, todo |-> q]
           G == {n \in Nat : \E f : Closes(k, q, n, f)}
<1>1. 0 \in G
  <2> DEFINE f == [i \in 0..0 |-> s0]
  <2>1. f = [i \in 0..0 |-> IF i = 0 THEN s0 ELSE CloseOne(f[i - 1])]
    OBVIOUS
  <2>2. Closes(k, q, 0, f)
    BY <2>1 DEF Closes
  <2>3. QED
    BY <2>2
<1>2. ASSUME NEW n \in Nat, n \in G PROVE n + 1 \in G
  <2>1. PICK f : Closes(k, q, n, f)
    BY <1>2
  <2> DEFINE h == [i \in 0..n+1 |-> IF i = 0 THEN s0 ELSE CloseOne(f[i - 1])]
  <2>2. ASSUME NEW i \in 0..n PROVE h[i] = f[i]
    <3>1. f[i] = IF i = 0 THEN s0 ELSE CloseOne(f[i - 1])
      BY <2>1 DEF Closes
    <3>2. i \in 0..n+1
      OBVIOUS
    <3>3. QED
      BY <3>1, <3>2
  <2>3. h = [i \in 0..n+1 |-> IF i = 0 THEN s0 ELSE CloseOne(h[i - 1])]
    <3>1. ASSUME NEW i \in 0..n+1, i # 0 PROVE h[i - 1] = f[i - 1]
      <4>1. i - 1 \in 0..n
        BY <3>1
      <4> HIDE DEF h
      <4>2. QED
        BY <4>1, <2>2
    <3>2. QED
      BY <3>1
  <2>4. Closes(k, q, n + 1, h)
    BY <2>3 DEF Closes
  <2>5. QED
    BY <2>4
<1> HIDE DEF G
<1>3. Nat \subseteq G
  BY <1>1, <1>2, NatInd
<1>4. QED
  BY <1>3 DEF G

(* CClose is its last value *)
LEMMA CCloseIs ==
  ASSUME NEW k, NEW q, NEW n \in Nat, n = Len(q) + Cardinality(InPaths(k))
  PROVE  \E f : Closes(k, q, n, f) /\ CClose(k, q) = f[n].tabs
<1>1. \E f : Closes(k, q, n, f)
  BY CloseExists
<1> DEFINE h == CHOOSE f : f = [i \in 0..n |-> IF i = 0 THEN [tabs |-> k, todo |-> q]
                                               ELSE CloseOne(f[i - 1])]
<1>2. Closes(k, q, n, h)
  BY <1>1 DEF Closes
<1>3. CClose(k, q) = h[n].tabs
  BY DEF CClose
<1>4. QED
  BY <1>2, <1>3

(* cclose of all of q, with all that it frees *)
LEMMA CCloseKeeps ==
  ASSUME NEW k, NEW q \in Seq(OrNone(Chans)), NEW e \in [Chans -> Nat], NEW me,
         Bal(k, Plus(e, q), me), e[Slash] >= 1
  PROVE  Bal(CClose(k, q), e, me) /\ Shrinks(k, CClose(k, q))
<1>0. TabsOK(k)
  BY DEF Bal
<1>1. PICK n \in Nat : n = Measure(k, q)
  <2>1. Len(q) \in Nat /\ Cardinality(InPaths(k)) \in Nat
    BY <1>0, InPathsType, Domains
  <2>2. QED
    BY <2>1 DEF Measure
<1>2. PICK f : Closes(k, q, n, f) /\ CClose(k, q) = f[n].tabs
  BY <1>1, CCloseIs DEF Measure
<1> DEFINE Good(x) == /\ x = [tabs |-> x.tabs, todo |-> x.todo]
                      /\ x.todo \in Seq(OrNone(Chans))
                      /\ Bal(x.tabs, Plus(e, x.todo), me) /\ Shrinks(k, x.tabs)
           Sinks(i) == f[i].todo = <<>> \/ Measure(f[i].tabs, f[i].todo) + i <= n
           G == {i \in Nat : i \in 0..n => Good(f[i]) /\ Sinks(i)}
<1>3. 0 \in G
  <2>1. f[0] = [tabs |-> k, todo |-> q]
    BY <1>2 DEF Closes
  <2>2. Shrinks(k, k)
    BY DEF Shrinks
  <2>3. QED
    BY <1>1, <2>1, <2>2
<1>4. ASSUME NEW i \in Nat, i \in G PROVE i + 1 \in G
  <2> SUFFICES ASSUME i + 1 \in 0..n PROVE Good(f[i + 1]) /\ Sinks(i + 1)
    OBVIOUS
  <2>1. Good(f[i]) /\ Sinks(i)
    BY <1>4
  <2>2. f[i + 1] = CloseOne(f[i])
    <3>1. PICK j \in 0..n : j = i + 1 /\ j # 0 /\ j - 1 = i
      OBVIOUS
    <3>2. f[j] = CloseOne(f[j - 1])
      BY <3>1, <1>2 DEF Closes
    <3>3. QED
      BY <3>1, <3>2
  <2>3. PICK k1, q1 : k1 = f[i].tabs /\ q1 = f[i].todo
    OBVIOUS
  <2>4. /\ f[i] = [tabs |-> k1, todo |-> q1] /\ q1 \in Seq(OrNone(Chans))
        /\ Bal(k1, Plus(e, q1), me) /\ Shrinks(k, k1)
        /\ q1 = <<>> \/ Measure(k1, q1) + i <= n
    BY <2>1, <2>3
  <2>5. CASE q1 = <<>>
    <3>1. CloseOne(f[i]) = f[i]
      BY <2>4, <2>5 DEF CloseOne
    <3>2. QED
      BY <2>1, <2>2, <2>3, <2>5, <3>1
  <2>6. CASE q1 # <<>>
    <3>1. PICK x : x = CloseOne([tabs |-> k1, todo |-> q1])
      OBVIOUS
    <3>2. /\ x = [tabs |-> x.tabs, todo |-> x.todo] /\ x.todo \in Seq(OrNone(Chans))
          /\ Bal(x.tabs, Plus(e, x.todo), me) /\ Shrinks(k1, x.tabs)
          /\ Measure(x.tabs, x.todo) + 1 = Measure(k1, q1)
      BY <2>4, <2>6, <3>1, CloseOneKeeps
    <3>3. Shrinks(k, x.tabs)
      BY <2>4, <3>2, ShrinksOn
    <3>4. f[i + 1] = x
      BY <2>2, <2>4, <3>1
    <3>5. Good(f[i + 1])
      BY <3>2, <3>3, <3>4
    <3>6. Measure(x.tabs, x.todo) \in Nat
      <4>1. TabsOK(x.tabs)
        BY <3>2 DEF Bal
      <4>2. Cardinality(InPaths(x.tabs)) \in Nat /\ Len(x.todo) \in Nat
        BY <3>2, <4>1, InPathsType, Domains
      <4>3. QED
        BY <4>2 DEF Measure
    <3>7. Measure(x.tabs, x.todo) + (i + 1) <= n
      BY <2>4, <2>6, <3>2, <3>6
    <3>8. QED
      BY <3>4, <3>5, <3>7
  <2>7. QED
    BY <2>5, <2>6
<1> HIDE DEF G
<1>5. Nat \subseteq G
  BY <1>3, <1>4, NatInd
<1>6. Good(f[n]) /\ Sinks(n)
  BY <1>5 DEF G
<1>7. f[n].todo = <<>>
  <2>1. TabsOK(f[n].tabs)
    BY <1>6 DEF Bal
  <2>2. Cardinality(InPaths(f[n].tabs)) \in Nat /\ Len(f[n].todo) \in Nat
    BY <1>6, <2>1, InPathsType, Domains
  <2>3. ASSUME Measure(f[n].tabs, f[n].todo) + n <= n PROVE Len(f[n].todo) = 0
    BY <2>2, <2>3 DEF Measure
  <2>4. QED
    BY <1>6, <2>3
<1>8. Plus(e, <<>>) = e
  BY PlusEmpty
<1>9. QED
  BY <1>2, <1>6, <1>7, <1>8

-----------------------------------------------------------------------------
(* Fourth part: what else is done to the tables.                           *)

(* for a channel that others keep, what they rely on *)
Same(k, k2, e) ==
  \A c \in Chans : e[c] >= 1 =>
    k2.umh[c] = k.umh[c] /\ k2.offset[c] = k.offset[c] /\ (c \in k2.moved <=> c \in k.moved)

SameMounts(k, k2) ==
  k2.hashed = k.hashed /\ k2.mount = k.mount /\ \A m \in k.hashed : k2.from[m] = k.from[m]

(* these relations, one after the other *)
LEMMA SameOn ==
  ASSUME NEW k, NEW k1, NEW k2
  PROVE  /\ \A e : Same(k, k1, e) /\ Same(k1, k2, e) => Same(k, k2, e)
         /\ SameMounts(k, k1) /\ SameMounts(k1, k2) => SameMounts(k, k2)
BY DEF Same, SameMounts

(* for more channels, and for less *)
LEMMA SameLess ==
  ASSUME NEW k, NEW k2, NEW e \in [Chans -> Nat], NEW S, NEW q \in Seq(S),
         Same(k, k2, Plus(e, q))
  PROVE  Same(k, k2, e)
<1>1. \A c \in Chans : Plus(e, q)[c] = e[c] + Times(c, q) /\ Times(c, q) \in Nat
  BY PlusType, AtIs
<1>2. \A c \in Chans : e[c] >= 1 => Plus(e, q)[c] >= 1
  BY <1>1
<1>3. QED
  BY <1>2 DEF Same

(* closing *)
LEMMA SameShrinks ==
  ASSUME NEW k, NEW k2, NEW e, NEW me, Bal(k2, e, me), Shrinks(k, k2)
  PROVE  Same(k, k2, e) /\ SameMounts(k, k2)
<1>1. \A c \in Chans : e[c] >= 1 => c \notin k2.free
  BY InUse
<1>2. QED
  BY <1>1 DEF Shrinks, Same, SameMounts

(* closing, and what is known then *)
LEMMA CloseSame ==
  ASSUME NEW k, NEW q \in Seq(OrNone(Chans)), NEW e \in [Chans -> Nat], NEW me,
         Bal(k, Plus(e, q), me), e[Slash] >= 1
  PROVE  /\ Bal(CClose(k, q), e, me)
         /\ Same(k, CClose(k, q), e) /\ SameMounts(k, CClose(k, q))
<1>1. Bal(CClose(k, q), e, me) /\ Shrinks(k, CClose(k, q))
  BY CCloseKeeps
<1>2. QED
  BY <1>1, SameShrinks

(* closing one *)
LEMMA CloseOneSame ==
  ASSUME NEW k, NEW c \in OrNone(Chans), NEW e \in [Chans -> Nat], NEW me,
         Bal(k, Plus(e, <<c>>), me), e[Slash] >= 1
  PROVE  /\ Bal(CClose(k, <<c>>), e, me)
         /\ Same(k, CClose(k, <<c>>), e) /\ SameMounts(k, CClose(k, <<c>>))
<1>1. <<c>> \in Seq(OrNone(Chans))
  OBVIOUS
<1>2. QED
  BY <1>1, CloseSame

(* closing brings nothing to the tables *)
LEMMA ShrinksNone ==
  ASSUME NEW k, TabsOK(k), NEW k2, NEW e, NEW me, Bal(k2, e, me), Shrinks(k, k2), NEW d,
         InTables(k, d) = 0
  PROVE  InTables(k2, d) = 0
<1>0. TabsOK(k2)
  BY DEF Bal
<1>1. Froms(k2) = Froms(k) /\ k2.mount = k.mount
  BY DEF Shrinks, Froms
<1>2. \A c \in Chans : k2.path[c] = <<>> \/ k2.path[c] = k.path[c]
  BY DEF Shrinks, Bal, Counted
<1>3. Uses(Froms(k), d) = 0 /\ Uses(k.mount, d) = 0 /\ Uses(k.path, d) = 0
  BY InTablesType
<1>4. \A c \in Chans : Times(d, k.path[c]) = 0
  BY <1>3, Families, UsesNone
<1>5. \A c \in Chans : Times(d, k2.path[c]) = 0
  BY <1>2, <1>4, TimesEmpty
<1>6. Uses(k2.path, d) = 0
  BY <1>0, <1>5, Families, UsesNone
<1>7. QED
  BY <1>0, <1>1, <1>3, <1>6, InTablesType

(* what is in a path, mounted, or a place, is counted *)
LEMMA InPath ==
  ASSUME NEW k, TabsOK(k), NEW c \in Chans, NEW i \in DOMAIN k.path[c]
  PROVE  InTables(k, k.path[c][i]) >= 1
<1>1. k.path[c] \in Seq(OrNone(Chans))
  BY DEF TabsOK
<1>2. PICK d : d = k.path[c][i]
  OBVIOUS
<1>3. Times(d, k.path[c]) > 0 /\ Times(d, k.path[c]) \in Nat
  BY <1>1, <1>2, TimesSome, AtIs
<1>4. Uses(k.path, d) >= Times(d, k.path[c])
  BY Families, UsesSome
<1>5. QED
  BY <1>2, <1>3, <1>4, InTablesType

(* what is mounted is in the tables *)
LEMMA InMount ==
  ASSUME NEW k, TabsOK(k), NEW m \in Mheads, NEW i \in DOMAIN k.mount[m]
  PROVE  InTables(k, k.mount[m][i]) >= 1
<1>1. k.mount[m] \in Seq(Chans)
  BY DEF TabsOK
<1>2. PICK d : d = k.mount[m][i]
  OBVIOUS
<1>3. Times(d, k.mount[m]) > 0 /\ Times(d, k.mount[m]) \in Nat
  BY <1>1, <1>2, TimesSome, AtIs
<1>4. Uses(k.mount, d) >= Times(d, k.mount[m])
  BY Families, UsesSome
<1>5. QED
  BY <1>2, <1>3, <1>4, InTablesType

(* and so is the place it is mounted on *)
LEMMA InFrom ==
  ASSUME NEW k, TabsOK(k), NEW m \in k.hashed
  PROVE  InTables(k, k.from[m]) >= 1
<1>1. PICK d : d = k.from[m]
  OBVIOUS
<1>2. Uses(Froms(k), d) >= Times(d, Froms(k)[m])
  BY Families, UsesSome
<1>3. Froms(k)[m] = <<d>> /\ Times(d, <<d>>) = 1
  BY <1>1, TimesOne DEF Froms, One
<1>4. QED
  BY <1>1, <1>2, <1>3, InTablesType

(* and in use, and no union that is open *)
LEMMA KeptPlain ==
  ASSUME NEW k, NEW e, NEW me, Bal(k, e, me), NEW c \in Chans, InTables(k, c) >= 1
  PROVE  c \notin k.free /\ k.umh[c] = None
<1>1. InTables(k, c) \in Nat /\ e[c] \in Nat
  BY InTablesType DEF Bal
<1>2. k.ref[c] >= 1
  BY <1>1 DEF Bal, Counted
<1>3. QED
  BY <1>1, <1>2 DEF Bal, Counted, Kept

(* the path is copied *)
LEMMA IncrefAllKeeps ==
  ASSUME NEW k, NEW e, NEW me, Bal(k, e, me), NEW q \in Seq(OrNone(Chans)),
         \A i \in DOMAIN q : q[i] \notin k.free
  PROVE  /\ Bal(IncrefAll(k, q), Plus(e, q), me)
         /\ \A x \in TabFields \ {"ref"} : IncrefAll(k, q)[x] = k[x]
<1> DEFINE k2 == IncrefAll(k, q)
           e2 == Plus(e, q)
<1>0. TabsOK(k) /\ k.stale = FALSE
  BY DEF Bal
<1>a. DOMAIN k2 = TabFields /\ k2 = [x \in TabFields |-> k2[x]]
  BY <1>0 DEF IncrefAll, TabsOK, TabFields
<1>1. /\ k2.ref = [c \in Chans |-> k.ref[c] + Times(c, q)]
      /\ k2.file = k.file /\ k2.offset = k.offset /\ k2.path = k.path
      /\ k2.umh = k.umh /\ k2.free = k.free /\ k2.mref = k.mref /\ k2.from = k.from
      /\ k2.mount = k.mount /\ k2.hashed = k.hashed /\ k2.moved = k.moved
  BY <1>0 DEF IncrefAll, TabsOK, TabFields
<1>b. k2.stale = FALSE
  BY <1>0 DEF IncrefAll, TabsOK, TabFields
<1>2. /\ e2 \in [Chans -> Nat] /\ \A d \in Chans : e2[d] = e[d] + Times(d, q)
      /\ \A d \in Chans : e[d] \in Nat
  BY PlusType DEF Bal
<1>3. \A d : Times(d, q) \in Nat
  BY AtIs
<1> HIDE DEF k2, e2
<1>4. k2.ref \in [Chans -> Int] /\ \A d \in Chans : k2.ref[d] = k.ref[d] + Times(d, q)
  <2>1. k.ref \in [Chans -> Int]
    BY <1>0 DEF TabsOK
  <2>2. QED
    BY <1>1, <1>3, <2>1
<1>5. TabsOK(k2)
  BY <1>0, <1>a, <1>1, <1>4 DEF TabsOK
<1>6. \A d \in Chans : InTables(k2, d) = InTables(k, d) /\ InTables(k, d) \in Nat
  <2>1. SameKeepers(k, k2)
    BY <1>1 DEF SameKeepers
  <2>2. QED
    BY <1>0, <2>1, InTablesSame, InTablesType
<1>7. \A m : MInTables(k2, m) = MInTables(k, m)
  BY <1>1 DEF MInTables
<1>8. \A d \in Chans : k.ref[d] = e[d] + InTables(k, d) /\ (d \in k.free <=> k.ref[d] = 0)
  BY DEF Bal, Counted
<1>9. \A d \in Chans : k2.ref[d] = e2[d] + InTables(k2, d)
  <2> TAKE d \in Chans
  <2>1. /\ k2.ref[d] = k.ref[d] + Times(d, q) /\ k.ref[d] = e[d] + InTables(k, d)
        /\ e2[d] = e[d] + Times(d, q) /\ InTables(k2, d) = InTables(k, d)
    BY <1>2, <1>4, <1>6, <1>8
  <2>2. e[d] \in Nat /\ InTables(k, d) \in Nat /\ Times(d, q) \in Nat
    BY <1>2, <1>3, <1>6
  <2>3. QED
    BY <2>1, <2>2
<1>10. \A d \in Chans : d \in k2.free <=> k2.ref[d] = 0
  <2>1. \A d \in Chans : d \in k.free => Times(d, q) = 0
    BY <1>3, TimesSome
  <2>2. \A d \in Chans : k.ref[d] \in Nat
    BY <1>2, <1>6, <1>8
  <2>3. QED
    BY <1>1, <1>3, <1>4, <1>8, <2>1, <2>2
<1>11. Counted(k2, e2, me)
  BY <1>1, <1>7, <1>9, <1>10 DEF Bal, Counted
<1>12. e2[Slash] >= 1
  <2>1. Slash \in Chans /\ e[Slash] >= 1
    BY ChansAre DEF Bal, Kept, Slash
  <2>2. QED
    BY <1>2, <1>3, <2>1
<1>13. Kept(k2, e2)
  BY <1>1, <1>6, <1>12 DEF Bal, Kept
<1>14. Bal(k2, e2, me)
  BY <1>2, <1>5, <1>b, <1>11, <1>13 DEF Bal
<1>15. \A x \in TabFields \ {"ref"} : k2[x] = k[x]
  BY <1>0, <1>1, <1>b DEF TabFields
<1>16. QED
  BY <1>14, <1>15 DEF k2, e2

(* newchan *)
LEMMA NewChanKeeps ==
  ASSUME NEW k, NEW e, NEW me, Bal(k, e, me), k.free # {}, NEW f
  PROVE  LET n == NewChan(k, f) IN
         /\ n.chan \in k.free /\ n.chan \in Chans
         /\ Bal(n.tabs, Plus(e, <<n.chan>>), me)
         /\ Same(k, n.tabs, e) /\ SameMounts(k, n.tabs)
         /\ n.tabs.path = k.path /\ n.tabs.umh = k.umh /\ n.tabs.free = k.free \ {n.chan}
         /\ e[n.chan] = 0 /\ InTables(k, n.chan) = 0 /\ k.umh[n.chan] = None
         /\ k.path[n.chan] = <<>> /\ n.chan # Slash
<1> DEFINE c == NewChan(k, f).chan
           k2 == NewChan(k, f).tabs
           e2 == Plus(e, <<c>>)
<1>0. TabsOK(k) /\ k.stale = FALSE
  BY DEF Bal
<1>1. c = Least(k.free) /\ k.free \subseteq Chans /\ Chans \subseteq Nat
  BY <1>0, ChansAre DEF NewChan, TabsOK
<1>2. c \in k.free /\ c \in Chans
  BY <1>1, LeastIs, ZenonT(60)
<1>a. DOMAIN k2 = TabFields /\ k2 = [x \in TabFields |-> k2[x]]
  BY <1>0, ZenonT(60) DEF NewChan, TabsOK, TabFields
<1>3. /\ k2.ref = [k.ref EXCEPT ![c] = 1] /\ k2.free = k.free \ {c}
      /\ k2.file = [k.file EXCEPT ![c] = f] /\ k2.path = [k.path EXCEPT ![c] = <<>>]
      /\ k2.umh = [k.umh EXCEPT ![c] = None] /\ k2.offset = [k.offset EXCEPT ![c] = 0]
      /\ k2.moved = k.moved \ {c} /\ k2.mref = k.mref /\ k2.from = k.from
      /\ k2.mount = k.mount /\ k2.hashed = k.hashed /\ k2.stale = k.stale
  BY <1>0, <1>1 DEF NewChan, TabsOK, TabFields
<1> HIDE DEF k2, c
<1>4. k.path[c] = <<>> /\ k.umh[c] = None /\ k.ref[c] = 0
  BY <1>2 DEF Bal, Counted
<1>5. k2.path = k.path /\ k2.umh = k.umh
  <2>1. k.path \in [Chans -> Seq(OrNone(Chans))] /\ k.umh \in [Chans -> OrNone(Mheads)]
    BY <1>0 DEF TabsOK
  <2>2. DOMAIN k2.path = Chans /\ \A d \in Chans : k2.path[d] = k.path[d]
    BY <1>2, <1>3, <1>4, <2>1
  <2>3. k2.path = [d \in Chans |-> k2.path[d]] /\ k.path = [d \in Chans |-> k.path[d]]
    BY <1>3, <2>1, <2>2
  <2>4. DOMAIN k2.umh = Chans /\ \A d \in Chans : k2.umh[d] = k.umh[d]
    BY <1>2, <1>3, <1>4, <2>1
  <2>5. k2.umh = [d \in Chans |-> k2.umh[d]] /\ k.umh = [d \in Chans |-> k.umh[d]]
    BY <1>3, <2>1, <2>4
  <2>6. k2.path = k.path
    BY <2>2, <2>3
  <2>7. k2.umh = k.umh
    BY <2>4, <2>5
  <2>8. QED
    BY <2>6, <2>7
<1>6. k2.ref \in [Chans -> Int] /\ k2.ref[c] = 1 /\ \A d \in Chans \ {c} : k2.ref[d] = k.ref[d]
  <2>1. k.ref \in [Chans -> Int]
    BY <1>0 DEF TabsOK
  <2>2. QED
    BY <1>2, <1>3, <2>1
<1>7. k2.offset \in [Chans -> Int] /\ \A d \in Chans \ {c} : k2.offset[d] = k.offset[d]
  <2>1. k.offset \in [Chans -> Int]
    BY <1>0 DEF TabsOK
  <2>2. QED
    BY <1>2, <1>3, <2>1
<1>8. k2.file = [d \in Chans |-> k2.file[d]]
  <2>1. DOMAIN k2.file = Chans
    BY <1>0, <1>3 DEF TabsOK
  <2>2. k2.file = [d \in DOMAIN k2.file |-> k2.file[d]]
    BY <1>3
  <2>3. QED
    BY <2>1, <2>2
<1>9. TabsOK(k2) /\ k2.stale = FALSE
  BY <1>0, <1>a, <1>3, <1>5, <1>6, <1>7, <1>8 DEF TabsOK
<1>10. \A d \in Chans : InTables(k2, d) = InTables(k, d) /\ InTables(k, d) \in Nat
  <2>1. SameKeepers(k, k2)
    BY <1>3, <1>5 DEF SameKeepers
  <2>2. QED
    BY <1>0, <2>1, InTablesSame, InTablesType
<1>11. \A m : MInTables(k2, m) = MInTables(k, m)
  BY <1>3, <1>5 DEF MInTables
<1>12. \A d \in Chans : /\ k.ref[d] = e[d] + InTables(k, d) /\ (d \in k.free <=> k.ref[d] = 0)
                        /\ e[d] \in Nat
  BY DEF Bal, Counted
<1>13. e[c] = 0 /\ InTables(k, c) = 0
  BY <1>2, <1>4, <1>10, <1>12
<1>14. /\ e2 \in [Chans -> Nat] /\ \A d \in Chans : e2[d] = e[d] + One(d, c)
  BY PlusOne DEF Bal
<1> HIDE DEF e2
<1>15. e2[c] = 1 /\ \A d \in Chans \ {c} : e2[d] = e[d]
  <2>1. One(c, c) = 1 /\ \A d \in Chans \ {c} : One(d, c) = 0
    BY DEF One
  <2>2. e2[c] = e[c] + 1 /\ \A d \in Chans \ {c} : e2[d] = e[d] + 0
    BY <1>2, <1>14, <2>1
  <2>3. QED
    BY <1>12, <1>13, <2>2
<1>16. \A d \in Chans : k2.ref[d] = e2[d] + InTables(k2, d)
  <2> TAKE d \in Chans
  <2>1. CASE d = c
    BY <2>1, <1>6, <1>10, <1>13, <1>15
  <2>2. CASE d # c
    BY <2>2, <1>6, <1>10, <1>12, <1>15
  <2>3. QED
    BY <2>1, <2>2
<1>17. \A d \in Chans : d \in k2.free <=> k2.ref[d] = 0
  BY <1>3, <1>6, <1>12
<1>18. Counted(k2, e2, me)
  BY <1>3, <1>5, <1>11, <1>16, <1>17 DEF Bal, Counted
<1>19. c # Slash
  BY <1>13 DEF Bal, Kept
<1>20. e2[Slash] >= 1
  <2>1. Slash \in Chans /\ e[Slash] >= 1
    BY ChansAre DEF Bal, Kept, Slash
  <2>2. QED
    BY <1>15, <1>19, <2>1
<1>21. Kept(k2, e2)
  BY <1>3, <1>5, <1>10, <1>20 DEF Bal, Kept
<1>22. Bal(k2, e2, me)
  BY <1>9, <1>14, <1>18, <1>21 DEF Bal
<1>23. Same(k, k2, e) /\ SameMounts(k, k2)
  <2>1. \A d \in Chans : e[d] >= 1 => d # c
    BY <1>13
  <2>2. QED
    BY <1>3, <1>5, <1>7, <2>1 DEF Same, SameMounts
<1>24. QED
  BY <1>2, <1>3, <1>4, <1>5, <1>13, <1>19, <1>22, <1>23 DEF c, k2, e2

-----------------------------------------------------------------------------
(* Fifth part: paths of channels.                                          *)

(* these tables are the same, but for one *)
But(f, k, k2) == \A x \in TabFields \ {f} : k2[x] = k[x]

WithPath(k, c, p) == [k EXCEPT !.path[c] = p]
WithUmh(k, c, m) == [k EXCEPT !.umh[c] = m]

(* a path is put in the place of another, which the caller has then *)
LEMMA PathPut ==
  ASSUME NEW k, NEW me, NEW c \in Chans, c # Slash, c \notin k.free,
         NEW p \in Seq(OrNone(Chans)), NEW e0 \in [Chans -> Nat], e0[Slash] >= 1,
         Bal(k, Plus(e0, p), me), Plain(k, p)
  PROVE  /\ Bal(WithPath(k, c, p), Plus(e0, k.path[c]), me)
         /\ But("path", k, WithPath(k, c, p))
         /\ \A d : InTables(k, d) = 0 /\ Times(d, p) = 0 => InTables(WithPath(k, c, p), d) = 0
<1> DEFINE k2 == WithPath(k, c, p)
           e == Plus(e0, p)
           e2 == Plus(e0, k.path[c])
<1>b. Bal(k, e, me)
  OBVIOUS
<1>0. TabsOK(k) /\ k.stale = FALSE
  BY DEF Bal
<1>a. DOMAIN k2 = TabFields /\ k2 = [x \in TabFields |-> k2[x]]
  BY <1>0 DEF WithPath, TabsOK, TabFields
<1>1. /\ k2.path = [k.path EXCEPT ![c] = p] /\ k2.ref = k.ref
      /\ k2.file = k.file /\ k2.offset = k.offset /\ k2.umh = k.umh /\ k2.free = k.free
      /\ k2.mref = k.mref /\ k2.from = k.from /\ k2.mount = k.mount /\ k2.hashed = k.hashed
      /\ k2.moved = k.moved /\ k2.stale = k.stale
  BY <1>0 DEF WithPath, TabsOK, TabFields
<1>2. k.path \in [Chans -> Seq(OrNone(Chans))] /\ k.path[c] \in Seq(OrNone(Chans))
  BY <1>0 DEF TabsOK
<1>3. /\ e \in [Chans -> Nat] /\ \A d \in Chans : e[d] = e0[d] + Times(d, p)
  BY PlusType
<1>4. /\ e2 \in [Chans -> Nat] /\ \A d \in Chans : e2[d] = e0[d] + Times(d, k.path[c])
  BY <1>2, PlusType
<1>5. \A d \in Chans : e2[d] >= e0[d] /\ e0[d] \in Nat
  BY <1>2, PlusType
<1>6. \A d : Times(d, p) \in Nat /\ Times(d, k.path[c]) \in Nat
  BY <1>2, AtIs
<1> HIDE DEF k2, e, e2
<1>7. /\ k2.path \in [Chans -> Seq(OrNone(Chans))] /\ k2.path[c] = p
      /\ \A d \in Chans \ {c} : k2.path[d] = k.path[d]
  BY <1>1, <1>2
<1>8. TabsOK(k2) /\ k2.stale = FALSE
  BY <1>0, <1>a, <1>1, <1>7 DEF TabsOK
<1>9. \A d : InTables(k2, d) + Times(d, k.path[c]) = InTables(k, d) + Times(d, p)
  <2> TAKE d
  <2>1. \A m \in k.hashed : k2.from[m] = k.from[m]
    BY <1>1
  <2>2. InTables(k2, d) + Times(d, k.path[c]) = InTables(k, d) + Times(d, k2.path[c])
    BY <1>0, <1>1, <1>7, <1>8, <2>1, InTablesPath, SMTT(40)
  <2>3. QED
    BY <2>2, <1>7
<1>10. \A d : InTables(k2, d) \in Nat /\ InTables(k, d) \in Nat
  BY <1>0, <1>8, InTablesType
<1>11. \A d : InTables(k, d) = 0 /\ Times(d, p) = 0 => InTables(k2, d) = 0
  BY <1>6, <1>9, <1>10
<1>12. \A d \in Chans : k2.ref[d] = e2[d] + InTables(k2, d)
  <2> TAKE d \in Chans
  <2>1. k.ref[d] = e[d] + InTables(k, d)
    BY <1>b DEF Bal, Counted
  <2>2. k2.ref[d] = (e0[d] + Times(d, p)) + InTables(k, d) /\ e2[d] = e0[d] + Times(d, k.path[c])
    BY <1>1, <1>3, <1>4, <2>1
  <2>3. InTables(k2, d) + Times(d, k.path[c]) = InTables(k, d) + Times(d, p)
    BY <1>9
  <2>4. PICK a \in Nat, b \in Nat, i \in Nat, j \in Nat, n \in Nat :
          /\ a = Times(d, p) /\ b = Times(d, k.path[c]) /\ i = InTables(k, d)
          /\ j = InTables(k2, d) /\ n = e0[d]
    BY <1>5, <1>6, <1>10
  <2>5. k2.ref[d] = (n + a) + i /\ e2[d] = n + b
    BY <2>2, <2>4
  <2>6. j + b = i + a
    BY <2>3, <2>4
  <2>7. (n + a) + i = (n + b) + j
    BY <2>6
  <2>8. QED
    BY <2>4, <2>5, <2>7
<1>13. \A m : MInTables(k2, m) = MInTables(k, m)
  BY <1>1 DEF MInTables
<1>14. \A d \in k2.free : k2.path[d] = <<>> /\ k2.umh[d] = None
  <2>1. \A d \in k.free : d \in Chans \ {c} /\ k.path[d] = <<>> /\ k.umh[d] = None
    BY <1>0, <1>b DEF Bal, Counted, TabsOK
  <2>2. QED
    BY <2>1, <1>1, <1>7
<1>15. Counted(k2, e2, me)
  BY <1>b, <1>1, <1>12, <1>13, <1>14 DEF Bal, Counted
<1>16. \A d \in Chans : k2.umh[d] # None => InTables(k2, d) = 0
  <2> SUFFICES ASSUME NEW d \in Chans, k.umh[d] # None PROVE InTables(k2, d) = 0
    BY <1>1
  <2>1. InTables(k, d) = 0
    BY <1>b DEF Bal, Kept
  <2>2. d # None
    BY ChansAre
  <2>3. \A i \in DOMAIN p : p[i] # d
    BY <2>2 DEF Plain
  <2>4. Times(d, p) = 0
    BY <2>3, <1>6, TimesSome
  <2>5. QED
    BY <2>1, <2>4, <1>11
<1>17. e2[Slash] >= 1 /\ k2.path[Slash] = <<None>>
  <2>1. Slash \in Chans
    BY ChansAre DEF Slash
  <2>2. e2[Slash] >= e0[Slash] /\ e2[Slash] \in Nat /\ e0[Slash] \in Nat
    BY <2>1, <1>4, <1>5
  <2>3. QED
    BY <1>b, <2>1, <2>2, <1>7 DEF Bal, Kept
<1>18. Kept(k2, e2)
  BY <1>b, <1>1, <1>16, <1>17 DEF Bal, Kept
<1>19. Bal(k2, e2, me)
  BY <1>b, <1>4, <1>8, <1>15, <1>18 DEF Bal
<1>20. But("path", k, k2)
  BY <1>1 DEF But, TabFields
<1>21. QED
  BY <1>11, <1>19, <1>20 DEF k2, e2

(* a channel gets the path that the caller has *)
LEMMA SetPathKeeps ==
  ASSUME NEW k, NEW me, NEW c \in Chans, c # Slash, c \notin k.free,
         NEW p \in Seq(OrNone(Chans)), NEW e \in [Chans -> Nat], e[Slash] >= 1,
         Bal(k, Plus(e, p), me), Plain(k, p)
  PROVE  /\ Bal(SetPath(k, c, p), e, me)
         /\ Same(k, SetPath(k, c, p), e) /\ SameMounts(k, SetPath(k, c, p))
         /\ \A d : InTables(k, d) = 0 /\ Times(d, p) = 0 => InTables(SetPath(k, c, p), d) = 0
<1>1. PICK k1 : k1 = WithPath(k, c, p)
  OBVIOUS
<1>2. /\ Bal(k1, Plus(e, k.path[c]), me)
      /\ But("path", k, k1)
      /\ \A d : InTables(k, d) = 0 /\ Times(d, p) = 0 => InTables(k1, d) = 0
  BY <1>1, PathPut
<1>3. k.path[c] \in Seq(OrNone(Chans))
  BY DEF Bal, TabsOK
<1>4. PICK k2 : k2 = CClose(k1, k.path[c])
  OBVIOUS
<1>5. Bal(k2, e, me) /\ Shrinks(k1, k2)
  BY <1>2, <1>3, <1>4, CCloseKeeps
<1>6. Same(k1, k2, e) /\ SameMounts(k1, k2)
  BY <1>5, SameShrinks
<1>7. Same(k, k1, e) /\ SameMounts(k, k1)
  BY <1>2 DEF But, Same, SameMounts, TabFields
<1>8. Same(k, k2, e) /\ SameMounts(k, k2)
  BY <1>6, <1>7, SameOn
<1>9. TabsOK(k1)
  BY <1>2 DEF Bal
<1>10. ASSUME NEW d, InTables(k, d) = 0, Times(d, p) = 0 PROVE InTables(k2, d) = 0
  <2>1. InTables(k1, d) = 0
    BY <1>2, <1>10
  <2>2. QED
    BY <1>5, <1>9, <2>1, ShrinksNone
<1>11. SetPath(k, c, p) = k2
  BY <1>1, <1>4 DEF SetPath, WithPath
<1>12. QED
  BY <1>5, <1>8, <1>10, <1>11

(* cunique *)
LEMMA CUniqueKeeps ==
  ASSUME NEW k, NEW me, NEW c \in Chans, NEW e \in [Chans -> Nat], e[Slash] >= 1,
         Bal(k, Plus(e, <<c>>), me), k.free # {}
  PROVE  LET u == CUnique(k, c) IN
         /\ u.chan \in Chans /\ u.chan # Slash
         /\ Bal(u.tabs, Plus(e, <<u.chan>>), me)
         /\ Same(k, u.tabs, e) /\ SameMounts(k, u.tabs)
         /\ e[u.chan] = 0 /\ InTables(u.tabs, u.chan) = 0
         /\ k.umh[c] = None => u.tabs.umh[u.chan] = None
<1> DEFINE e1 == Plus(e, <<c>>)
<1>0. TabsOK(k)
  BY DEF Bal
<1>1. /\ e1 \in [Chans -> Nat] /\ \A d \in Chans : e1[d] = e[d] + One(d, c)
  BY PlusOne
<1>2. e1[c] = e[c] + 1 /\ e[c] \in Nat /\ e1[c] >= 1
  <2>1. One(c, c) = 1
    BY DEF One
  <2>2. QED
    BY <1>1, <2>1
<1>3. k.ref[c] = e1[c] + InTables(k, c) /\ InTables(k, c) \in Nat
  BY <1>0, InTablesType DEF Bal, Counted
<1>4. Bal(k, e1, me)
  OBVIOUS
<1> HIDE DEF e1
<1>5. CASE k.ref[c] = 1
  <2>1. CUnique(k, c) = [chan |-> c, tabs |-> k]
    BY <1>5 DEF CUnique
  <2>2. e[c] = 0 /\ InTables(k, c) = 0
    BY <1>2, <1>3, <1>5
  <2>3. c # Slash
    BY <2>2
  <2>4. Same(k, k, e) /\ SameMounts(k, k)
    BY DEF Same, SameMounts
  <2>5. QED
    BY <1>4, <2>1, <2>2, <2>3, <2>4 DEF e1
<1>6. CASE k.ref[c] # 1
  <2> DEFINE n == NewChan(k, k.file[c])
             q == k.path[c]
             k2 == IncrefAll(n.tabs, q)
             k3 == [k2 EXCEPT !.path[n.chan] = q]
             k4 == CClose(k3, <<c>>)
  <2>1. CUnique(k, c) = [chan |-> n.chan, tabs |-> k4]
    BY <1>6 DEF CUnique
  <2>2. PICK b, k1 : b = n.chan /\ k1 = n.tabs
    OBVIOUS
  <2>3. /\ b \in k.free /\ b \in Chans /\ Bal(k1, Plus(e1, <<b>>), me)
        /\ Same(k, k1, e1) /\ SameMounts(k, k1)
        /\ k1.path = k.path /\ k1.umh = k.umh /\ k1.free = k.free \ {b}
        /\ e1[b] = 0 /\ InTables(k, b) = 0 /\ k.umh[b] = None
        /\ k.path[b] = <<>> /\ b # Slash
    BY <1>4, <2>2, NewChanKeeps
  <2>4. q \in Seq(OrNone(Chans))
    BY <1>0 DEF TabsOK
  <2>5. ASSUME NEW i \in DOMAIN q, q[i] # None
        PROVE  q[i] \in Chans /\ q[i] \notin k.free /\ k.umh[q[i]] = None
    <3>1. q[i] \in Chans
      BY <2>4, <2>5 DEF OrNone
    <3>2. InTables(k, q[i]) >= 1
      BY <1>0, InPath
    <3>3. QED
      BY <1>4, <3>1, <3>2, KeptPlain
  <2>6. \A i \in DOMAIN q : q[i] \notin k1.free
    <3>1. None \notin k.free
      BY <1>0, ChansAre DEF TabsOK
    <3>2. QED
      BY <2>3, <2>5, <3>1
  <2>7. Plain(k1, q)
    BY <2>3, <2>5 DEF Plain
  <2>8. b # c /\ Times(b, q) = 0
    <3>1. e1[c] # 0
      BY <1>2
    <3>2. \A i \in DOMAIN q : q[i] # b
      BY <2>3, <2>5, ChansAre
    <3>3. Times(b, q) \in Nat /\ ~(Times(b, q) > 0)
      BY <2>4, <3>2, TimesSome, AtIs
    <3>4. QED
      BY <2>3, <3>1, <3>3
  <2>9. <<b>> \in Seq(OrNone(Chans)) /\ <<c>> \in Seq(OrNone(Chans))
    BY <2>3 DEF OrNone
  <2> DEFINE eb == Plus(e, <<b>>)
             ec == Plus(e1, <<b>>)
  <2>10. ec \in [Chans -> Nat] /\ ec[Slash] >= 1
    <3>1. ec \in [Chans -> Nat] /\ \A d \in Chans : ec[d] >= e1[d]
      BY <1>1, <2>9, PlusType
    <3>2. Slash \in Chans
      BY ChansAre DEF Slash
    <3>3. e1[Slash] >= 1
      BY <1>4 DEF Bal, Kept
    <3> HIDE DEF ec
    <3>4. ec[Slash] \in Nat /\ e1[Slash] \in Nat /\ ec[Slash] >= e1[Slash]
      BY <1>1, <3>1, <3>2
    <3>5. QED
      BY <3>1, <3>3, <3>4
  <2>11. eb \in [Chans -> Nat] /\ eb[Slash] >= 1
    <3>1. eb \in [Chans -> Nat] /\ \A d \in Chans : eb[d] >= e[d]
      BY <2>9, PlusType
    <3>2. Slash \in Chans
      BY ChansAre DEF Slash
    <3> HIDE DEF eb
    <3>3. eb[Slash] \in Nat /\ e[Slash] \in Nat /\ eb[Slash] >= e[Slash]
      BY <3>1, <3>2
    <3>4. QED
      BY <3>1, <3>3
  <2>12. ec = Plus(eb, <<c>>)
    BY PlusSwap DEF e1, eb, ec
  <2> HIDE DEF eb, ec
  <2>13. Bal(k1, ec, me)
    BY <2>3 DEF ec
  <2>14. /\ Bal(k2, Plus(ec, q), me)
         /\ \A x \in TabFields \ {"ref"} : k2[x] = k1[x]
    BY <2>2, <2>4, <2>6, <2>13, IncrefAllKeeps
  <2>15. /\ k2.path = k1.path /\ k2.umh = k1.umh /\ k2.free = k1.free /\ Plain(k2, q)
         /\ Same(k1, k2, e) /\ SameMounts(k1, k2) /\ SameKeepers(k, k2)
    <3>1. /\ k2.path = k1.path /\ k2.umh = k1.umh /\ k2.free = k1.free /\ k2.hashed = k1.hashed
          /\ k2.mount = k1.mount /\ k2.from = k1.from /\ k2.offset = k1.offset
          /\ k2.moved = k1.moved
      BY <2>14 DEF TabFields
    <3> HIDE DEF k2
    <3>2. QED
      BY <2>3, <2>7, <3>1 DEF Plain, Same, SameMounts, SameKeepers
  <2>16. InTables(k2, b) = 0
    BY <2>3, <2>15, InTablesSame
  <2>17. k2.path[b] = <<>>
    BY <2>3, <2>15
  <2> HIDE DEF k2
  <2>18. /\ Bal(k3, Plus(ec, k2.path[b]), me)
         /\ But("path", k2, k3)
         /\ \A d : InTables(k2, d) = 0 /\ Times(d, q) = 0 => InTables(k3, d) = 0
    <3>1. k3 = WithPath(k2, b, q)
      BY <2>2 DEF WithPath
    <3>2. b \notin k2.free
      BY <2>3, <2>15
    <3> HIDE DEF k3, q, n
    <3>3. /\ b \in Chans /\ b # Slash /\ ec \in [Chans -> Nat] /\ Bal(k2, Plus(ec, q), me)
          /\ q \in Seq(OrNone(Chans)) /\ ec[Slash] >= 1 /\ Plain(k2, q)
      BY <2>3, <2>4, <2>10, <2>14, <2>15
    <3>4. QED
      BY <3>1, <3>2, <3>3, PathPut
  <2> HIDE DEF k3
  <2>19. Plus(ec, k2.path[b]) = ec
    BY <2>10, <2>17, PlusEmpty
  <2>20. Bal(k3, Plus(eb, <<c>>), me) /\ InTables(k3, b) = 0
    BY <2>8, <2>12, <2>16, <2>18, <2>19
  <2>21. Bal(k4, eb, me) /\ Shrinks(k3, k4)
    BY <2>9, <2>11, <2>20, CCloseKeeps
  <2> HIDE DEF k4
  <2>22. InTables(k4, b) = 0
    <3>1. TabsOK(k3)
      BY <2>20 DEF Bal
    <3>2. QED
      BY <2>20, <2>21, <3>1, ShrinksNone
  <2>23. Same(k3, k4, eb) /\ SameMounts(k3, k4)
    BY <2>21, SameShrinks
  <2>24. Same(k3, k4, e)
    BY <2>9, <2>23, SameLess DEF eb
  <2>25. Same(k2, k3, e) /\ SameMounts(k2, k3) /\ k3.umh = k2.umh
    BY <2>18 DEF But, Same, SameMounts, TabFields
  <2>26. Same(k, k1, e)
    BY <2>3, <2>9, SameLess DEF e1
  <2>27. Same(k, k4, e) /\ SameMounts(k, k4)
    <3>1. Same(k, k2, e) /\ SameMounts(k, k2)
      BY <2>3, <2>15, <2>26, SameOn
    <3>2. Same(k, k3, e) /\ SameMounts(k, k3)
      BY <2>25, <3>1, SameOn
    <3>3. QED
      BY <2>23, <2>24, <3>2, SameOn
  <2>28. k4.umh[b] = None /\ e[b] = 0
    <3>1. e1[b] = e[b] + One(b, c) /\ One(b, c) = 0 /\ e[b] \in Nat
      BY <1>1, <2>3, <2>8 DEF One
    <3>2. eb[b] = e[b] + One(b, b) /\ One(b, b) = 1
      BY <2>3, PlusOne DEF eb, One
    <3>3. e[b] = 0 /\ eb[b] >= 1
      BY <2>3, <3>1, <3>2
    <3>4. k3.umh[b] = None
      BY <2>3, <2>15, <2>25
    <3>5. QED
      BY <2>3, <2>23, <3>3, <3>4 DEF Same
  <2>29. CUnique(k, c).chan = b /\ CUnique(k, c).tabs = k4
    BY <2>1, <2>2
  <2>30. QED
    BY <2>3, <2>21, <2>22, <2>27, <2>28, <2>29 DEF eb
<1>7. QED
  BY <1>5, <1>6

(* a channel that is kept by nobody else keeps a Mhead *)
LEMMA UmhKeeps ==
  ASSUME NEW k, NEW e, NEW c \in Chans, c # Slash, c \notin k.free, k.umh[c] = None,
         InTables(k, c) = 0, NEW m \in Mheads, NEW me \in [Mheads -> Nat],
         Bal(k, e, MPlus(me, <<m>>))
  PROVE  /\ Bal(WithUmh(k, c, m), e, me) /\ But("umh", k, WithUmh(k, c, m))
         /\ \A d \in Chans \ {c} : WithUmh(k, c, m).umh[d] = k.umh[d]
<1> DEFINE k2 == WithUmh(k, c, m)
           me1 == MPlus(me, <<m>>)
<1>b. Bal(k, e, me1)
  OBVIOUS
<1>0. TabsOK(k) /\ k.stale = FALSE
  BY DEF Bal
<1>a. DOMAIN k2 = TabFields /\ k2 = [x \in TabFields |-> k2[x]]
  BY <1>0 DEF WithUmh, TabsOK, TabFields
<1>1. /\ k2.umh = [k.umh EXCEPT ![c] = m] /\ k2.ref = k.ref
      /\ k2.file = k.file /\ k2.offset = k.offset /\ k2.path = k.path /\ k2.free = k.free
      /\ k2.mref = k.mref /\ k2.from = k.from /\ k2.mount = k.mount /\ k2.hashed = k.hashed
      /\ k2.moved = k.moved /\ k2.stale = k.stale
  BY <1>0 DEF WithUmh, TabsOK, TabFields
<1>2. me1 \in [Mheads -> Nat] /\ \A n \in Mheads : me1[n] = me[n] + One(n, m)
  BY MPlusOne
<1> HIDE DEF k2, me1
<1>3. /\ k2.umh \in [Chans -> OrNone(Mheads)] /\ k2.umh[c] = m
      /\ \A d \in Chans \ {c} : k2.umh[d] = k.umh[d]
  <2>1. k.umh \in [Chans -> OrNone(Mheads)]
    BY <1>0 DEF TabsOK
  <2>2. QED
    BY <1>1, <2>1 DEF OrNone
<1>4. TabsOK(k2) /\ k2.stale = FALSE
  BY <1>0, <1>a, <1>1, <1>3 DEF TabsOK
<1>5. \A d : InTables(k2, d) = InTables(k, d)
  <2>1. SameKeepers(k, k2)
    BY <1>1 DEF SameKeepers
  <2>2. QED
    BY <2>1, InTablesSame
<1>6. \A n \in Mheads : k2.mref[n] = me[n] + MInTables(k2, n)
  <2> TAKE n \in Mheads
  <2>1. MInTables(k2, n) + One(n, k.umh[c]) = MInTables(k, n) + One(n, k2.umh[c])
    BY <1>0, <1>1, <1>3, <1>4, MInTablesUmh
  <2>2. One(n, k.umh[c]) = 0 /\ One(n, m) \in Nat
    BY ChansAre DEF One
  <2>3. MInTables(k2, n) = MInTables(k, n) + One(n, m)
    <3>1. MInTables(k2, n) \in Nat /\ MInTables(k, n) \in Nat
      BY <1>0, <1>4, InTablesType
    <3>2. QED
      BY <1>3, <2>1, <2>2, <3>1
  <2>4. k.mref[n] = me1[n] + MInTables(k, n) /\ MInTables(k, n) \in Nat /\ me[n] \in Nat
    BY <1>b, <1>0, InTablesType DEF Bal, Counted
  <2>5. QED
    BY <1>1, <1>2, <2>2, <2>3, <2>4
<1>7. \A d \in k2.free : k2.path[d] = <<>> /\ k2.umh[d] = None
  <2>1. \A d \in k.free : d \in Chans \ {c} /\ k.path[d] = <<>> /\ k.umh[d] = None
    BY <1>b, <1>0 DEF Bal, Counted, TabsOK
  <2>2. QED
    BY <2>1, <1>1, <1>3
<1>8. Counted(k2, e, me)
  BY <1>b, <1>1, <1>5, <1>6, <1>7 DEF Bal, Counted
<1>9. Kept(k2, e)
  <2>1. Slash \in Chans
    BY ChansAre DEF Slash
  <2>2. ASSUME NEW d \in Chans, k2.umh[d] # None PROVE InTables(k2, d) = 0
    <3>1. CASE d = c
      BY <3>1, <1>5
    <3>2. CASE d # c
      <4>1. k.umh[d] # None
        BY <2>2, <3>2, <1>3
      <4>2. QED
        BY <4>1, <1>b, <1>5 DEF Bal, Kept
    <3>3. QED
      BY <3>1, <3>2
  <2>3. QED
    BY <1>b, <1>1, <1>3, <2>1, <2>2 DEF Bal, Kept
<1>10. Bal(k2, e, me)
  BY <1>b, <1>4, <1>8, <1>9 DEF Bal
<1>11. But("umh", k, k2)
  BY <1>1 DEF But, TabFields
<1>12. QED
  BY <1>3, <1>10, <1>11 DEF k2

-----------------------------------------------------------------------------
(* Sixth part: the mount table.                                            *)

WithMount(k, m, q) == [k EXCEPT !.mount[m] = q]
WithHead(k, m, old) == [k EXCEPT !.mref[m] = 1, !.from[m] = old, !.hashed = @ \cup {m}]
Unhashed(k, m) == [k EXCEPT !.hashed = @ \ {m}]
MountIs(m, q, k, k2) ==
  k2.mount[m] = q /\ \A n \in Mheads \ {m} : k2.mount[n] = k.mount[n]

(* a and the mounts at m are q and b then *)
Swaps(k, m, q, a, b) ==
  \A d \in Chans : Times(d, q) + Times(d, b) = Times(d, k.mount[m]) + Times(d, a)

(* what is the same on both sides *)
LEMMA Across ==
  ASSUME NEW x \in Nat, NEW y \in Nat, NEW i \in Nat, NEW j \in Nat, NEW u \in Nat,
         NEW v \in Nat, j + v = i + u, u + y = v + x
  PROVE  j + y = i + x
OBVIOUS

(* other channels are mounted at a Mhead *)
LEMMA MountPut ==
  ASSUME NEW k, NEW me, NEW m \in k.hashed, NEW q \in Seq(Chans), NEW a \in Seq(Chans),
         NEW b \in Seq(Chans), Swaps(k, m, q, a, b), NEW e0 \in [Chans -> Nat], e0[Slash] >= 1,
         Bal(k, Plus(e0, a), me), Plain(k, a)
  PROVE  /\ Bal(WithMount(k, m, q), Plus(e0, b), me)
         /\ But("mount", k, WithMount(k, m, q))
         /\ MountIs(m, q, k, WithMount(k, m, q))
<1> DEFINE k2 == WithMount(k, m, q)
           e == Plus(e0, a)
           e2 == Plus(e0, b)
<1>b. Bal(k, e, me)
  OBVIOUS
<1>0. TabsOK(k) /\ k.stale = FALSE /\ m \in Mheads
  BY DEF Bal, TabsOK
<1>a. DOMAIN k2 = TabFields /\ k2 = [x \in TabFields |-> k2[x]]
  BY <1>0 DEF WithMount, TabsOK, TabFields
<1>1. /\ k2.mount = [k.mount EXCEPT ![m] = q] /\ k2.ref = k.ref /\ k2.path = k.path
      /\ k2.file = k.file /\ k2.offset = k.offset /\ k2.umh = k.umh /\ k2.free = k.free
      /\ k2.mref = k.mref /\ k2.from = k.from /\ k2.hashed = k.hashed
      /\ k2.moved = k.moved /\ k2.stale = k.stale
  BY <1>0 DEF WithMount, TabsOK, TabFields
<1>2. k.mount \in [Mheads -> Seq(Chans)] /\ k.mount[m] \in Seq(Chans)
  BY <1>0 DEF TabsOK
<1>3. /\ e \in [Chans -> Nat] /\ \A d \in Chans : e[d] = e0[d] + Times(d, a)
  BY PlusType
<1>4. /\ e2 \in [Chans -> Nat] /\ \A d \in Chans : e2[d] = e0[d] + Times(d, b)
  BY PlusType
<1>5. \A d \in Chans : e2[d] >= e0[d] /\ e0[d] \in Nat
  BY PlusType
<1>6. \A d : /\ Times(d, q) \in Nat /\ Times(d, a) \in Nat /\ Times(d, b) \in Nat
             /\ Times(d, k.mount[m]) \in Nat
  BY <1>2, AtIs
<1> HIDE DEF k2, e, e2
<1>7. /\ k2.mount \in [Mheads -> Seq(Chans)] /\ k2.mount[m] = q
      /\ \A n \in Mheads \ {m} : k2.mount[n] = k.mount[n]
  BY <1>0, <1>1, <1>2
<1>8. TabsOK(k2) /\ k2.stale = FALSE
  BY <1>0, <1>a, <1>1, <1>7 DEF TabsOK
<1>9. \A d \in Chans : InTables(k2, d) + Times(d, b) = InTables(k, d) + Times(d, a)
  <2> TAKE d \in Chans
  <2>1. \A n \in k.hashed : k2.from[n] = k.from[n]
    BY <1>1
  <2>2. InTables(k2, d) + Times(d, k.mount[m]) = InTables(k, d) + Times(d, k2.mount[m])
    BY <1>0, <1>1, <1>7, <1>8, <2>1, InTablesMount, SMTT(40)
  <2>3. Times(d, q) + Times(d, b) = Times(d, k.mount[m]) + Times(d, a)
    BY DEF Swaps
  <2>4. InTables(k2, d) \in Nat /\ InTables(k, d) \in Nat
    BY <1>0, <1>8, InTablesType
  <2>5. PICK x \in Nat, y \in Nat, i \in Nat, j \in Nat, u \in Nat, v \in Nat :
          /\ x = Times(d, a) /\ y = Times(d, b) /\ i = InTables(k, d)
          /\ j = InTables(k2, d) /\ u = Times(d, q) /\ v = Times(d, k.mount[m])
    BY <1>6, <2>4
  <2>6. j + v = i + u
    BY <2>2, <2>5, <1>7
  <2>7. u + y = v + x
    BY <2>3, <2>5
  <2>8. j + y = i + x
    BY <2>6, <2>7, Across, SMTT(40)
  <2>9. QED
    BY <2>5, <2>8
<1>10. \A d : InTables(k2, d) \in Nat /\ InTables(k, d) \in Nat
  BY <1>0, <1>8, InTablesType
<1>12. \A d \in Chans : k2.ref[d] = e2[d] + InTables(k2, d)
  <2> TAKE d \in Chans
  <2>1. k.ref[d] = e[d] + InTables(k, d)
    BY <1>b DEF Bal, Counted
  <2>2. k2.ref[d] = (e0[d] + Times(d, a)) + InTables(k, d) /\ e2[d] = e0[d] + Times(d, b)
    BY <1>1, <1>3, <1>4, <2>1
  <2>3. InTables(k2, d) + Times(d, b) = InTables(k, d) + Times(d, a)
    BY <1>9
  <2>4. PICK x \in Nat, y \in Nat, i \in Nat, j \in Nat, n \in Nat :
          /\ x = Times(d, a) /\ y = Times(d, b) /\ i = InTables(k, d)
          /\ j = InTables(k2, d) /\ n = e0[d]
    BY <1>5, <1>6, <1>10
  <2>5. k2.ref[d] = (n + x) + i /\ e2[d] = n + y
    BY <2>2, <2>4
  <2>6. j + y = i + x
    BY <2>3, <2>4
  <2>7. (n + x) + i = (n + y) + j
    BY <2>6
  <2>8. QED
    BY <2>4, <2>5, <2>7
<1>13. \A n : MInTables(k2, n) = MInTables(k, n)
  BY <1>1 DEF MInTables
<1>15. Counted(k2, e2, me)
  BY <1>b, <1>1, <1>12, <1>13 DEF Bal, Counted
<1>16. \A d \in Chans : k2.umh[d] # None => InTables(k2, d) = 0
  <2> SUFFICES ASSUME NEW d \in Chans, k.umh[d] # None PROVE InTables(k2, d) = 0
    BY <1>1
  <2>1. InTables(k, d) = 0
    BY <1>b DEF Bal, Kept
  <2>2. d # None
    BY ChansAre
  <2>3. \A i \in DOMAIN a : a[i] # d
    BY <2>2 DEF Plain
  <2>4. Times(d, a) = 0
    <3>1. Times(d, a) > 0 <=> \E i \in DOMAIN a : a[i] = d
      BY TimesSome
    <3>2. Times(d, a) \in Nat
      BY <1>6
    <3>3. QED
      BY <2>3, <3>1, <3>2
  <2>5. QED
    BY <2>1, <2>4, <1>6, <1>9, <1>10
<1>17. e2[Slash] >= 1
  <2>1. Slash \in Chans
    BY ChansAre DEF Slash
  <2>2. e2[Slash] >= e0[Slash] /\ e2[Slash] \in Nat /\ e0[Slash] \in Nat
    BY <2>1, <1>4, <1>5
  <2>3. QED
    BY <2>2
<1>18. Kept(k2, e2)
  <2>1. \A n \in Mheads \ k2.hashed : k2.mount[n] = <<>>
    BY <1>b, <1>1, <1>7 DEF Bal, Kept
  <2>2. QED
    BY <1>b, <1>1, <1>16, <1>17, <2>1 DEF Bal, Kept
<1>19. Bal(k2, e2, me)
  BY <1>b, <1>4, <1>8, <1>15, <1>18 DEF Bal
<1>20. But("mount", k, k2)
  BY <1>1 DEF But, TabFields
<1>21. MountIs(m, q, k, k2)
  BY <1>7 DEF MountIs
<1>22. QED
  BY <1>7, <1>19, <1>20, <1>21 DEF k2, e2

(* a Mhead that nobody has is put in the table *)
LEMMA HeadPut ==
  ASSUME NEW k, NEW me, NEW m \in Mheads, k.mref[m] = 0, NEW old \in Chans, k.umh[old] = None,
         NEW e2 \in [Chans -> Nat], e2[Slash] >= 1, Bal(k, Plus(e2, <<old>>), me)
  PROVE  LET k2 == WithHead(k, m, old) IN
         /\ Bal(k2, e2, me) /\ m \notin k.hashed /\ k2.hashed = k.hashed \cup {m}
         /\ k2.from[m] = old /\ \A n \in k.hashed : k2.from[n] = k.from[n]
         /\ k2.mount = k.mount /\ k2.file = k.file /\ k2.umh = k.umh /\ k2.free = k.free
         /\ k2.offset = k.offset /\ k2.moved = k.moved
<1> DEFINE k2 == WithHead(k, m, old)
           e == Plus(e2, <<old>>)
<1>b. Bal(k, e, me)
  OBVIOUS
<1>0. TabsOK(k) /\ k.stale = FALSE
  BY DEF Bal
<1>a. DOMAIN k2 = TabFields /\ k2 = [x \in TabFields |-> k2[x]]
  BY <1>0 DEF WithHead, TabsOK, TabFields
<1>1. /\ k2.mref = [k.mref EXCEPT ![m] = 1] /\ k2.from = [k.from EXCEPT ![m] = old]
      /\ k2.hashed = k.hashed \cup {m} /\ k2.mount = k.mount /\ k2.ref = k.ref
      /\ k2.path = k.path /\ k2.file = k.file /\ k2.offset = k.offset /\ k2.umh = k.umh
      /\ k2.free = k.free /\ k2.moved = k.moved /\ k2.stale = k.stale
  BY <1>0 DEF WithHead, TabsOK, TabFields
<1>2. /\ e \in [Chans -> Nat] /\ \A d \in Chans : e[d] = e2[d] + One(d, old)
  BY PlusOne
<1> HIDE DEF k2, e
<1>3. /\ k2.mref \in [Mheads -> Int] /\ k2.mref[m] = 1
      /\ \A n \in Mheads \ {m} : k2.mref[n] = k.mref[n]
  <2>1. k.mref \in [Mheads -> Int]
    BY <1>0 DEF TabsOK
  <2>2. QED
    BY <1>1, <2>1
<1>4. /\ k2.from \in [Mheads -> OrNone(Chans)] /\ k2.from[m] = old
      /\ \A n \in Mheads \ {m} : k2.from[n] = k.from[n]
  <2>1. k.from \in [Mheads -> OrNone(Chans)]
    BY <1>0 DEF TabsOK
  <2>2. QED
    BY <1>1, <2>1 DEF OrNone
<1>5. k2.hashed \subseteq Mheads
  BY <1>0, <1>1 DEF TabsOK
<1>6. TabsOK(k2) /\ k2.stale = FALSE
  BY <1>0, <1>a, <1>1, <1>3, <1>4, <1>5, ZenonT(60) DEF TabsOK
<1>7. me[m] = 0 /\ MInTables(k, m) = 0 /\ m \notin k.hashed
  <2>1. k.mref[m] = me[m] + MInTables(k, m) /\ me[m] \in Nat /\ MInTables(k, m) \in Nat
    BY <1>0, <1>b, InTablesType DEF Bal, Counted
  <2>2. me[m] = 0 /\ MInTables(k, m) = 0
    BY <2>1
  <2>3. m \in k.hashed => MInTables(k, m) >= 1
    BY <1>0, InTablesType
  <2>4. QED
    BY <2>2, <2>3
<1>8. \A n \in k.hashed : k2.from[n] = k.from[n]
  BY <1>0, <1>4, <1>7 DEF TabsOK
<1>9. \A d : InTables(k2, d) = InTables(k, d) + One(d, old)
  <2> TAKE d
  <2>1. InTables(k2, d) = InTables(k, d) + One(d, k2.from[m])
    <3>1. /\ TabsOK(k) /\ TabsOK(k2) /\ m \in Mheads \ k.hashed
          /\ k2.hashed = k.hashed \cup {m} /\ k2.path = k.path /\ k2.mount = k.mount
      BY <1>0, <1>1, <1>6, <1>7
    <3>2. QED
      BY <1>8, <3>1, InTablesHash
  <2>2. QED
    BY <2>1, <1>4
<1>10. \A d : InTables(k, d) \in Nat /\ One(d, old) \in Nat
  BY <1>0, InTablesType DEF One
<1>11. \A d \in Chans : k2.ref[d] = e2[d] + InTables(k2, d)
  <2> TAKE d \in Chans
  <2>1. k.ref[d] = e[d] + InTables(k, d)
    BY <1>b DEF Bal, Counted
  <2>2. e2[d] \in Nat /\ e[d] = e2[d] + One(d, old)
    BY <1>2
  <2>3. InTables(k2, d) = InTables(k, d) + One(d, old)
    BY <1>9
  <2>4. QED
    BY <1>1, <1>10, <2>1, <2>2, <2>3
<1>12. \A n \in Mheads : k2.mref[n] = me[n] + MInTables(k2, n)
  <2> TAKE n \in Mheads
  <2>1. CASE n = m
    <3>1. Umhs(k2) = Umhs(k)
      BY <1>1 DEF Umhs
    <3>2. MInTables(k, m) = 0 + Uses(Umhs(k), m) /\ MInTables(k2, m) = 1 + Uses(Umhs(k), m)
      BY <1>0, <1>1, <1>6, <1>7, <3>1, InTablesType
    <3>3. Uses(Umhs(k), m) \in Nat
      BY <1>0, InTablesType
    <3>4. QED
      BY <2>1, <3>2, <3>3, <1>3, <1>7
  <2>2. CASE n # m
    <3>1. MInTables(k2, n) = MInTables(k, n)
      BY <1>1, <2>2 DEF MInTables
    <3>2. QED
      BY <1>b, <1>3, <2>2, <3>1 DEF Bal, Counted
  <2>3. QED
    BY <2>1, <2>2
<1>13. Counted(k2, e2, me)
  BY <1>b, <1>1, <1>11, <1>12 DEF Bal, Counted
<1>14. \A d \in Chans : k2.umh[d] # None => InTables(k2, d) = 0
  <2> SUFFICES ASSUME NEW d \in Chans, k.umh[d] # None PROVE InTables(k2, d) = 0
    BY <1>1
  <2>1. InTables(k, d) = 0
    BY <1>b DEF Bal, Kept
  <2>2. One(d, old) = 0
    BY DEF One
  <2>3. QED
    BY <2>1, <2>2, <1>9
<1>15. Kept(k2, e2)
  <2>1. \A n \in k2.hashed : k2.from[n] \in Chans
    BY <1>b, <1>1, <1>4, <1>8 DEF Bal, Kept
  <2>2. \A n \in Mheads \ k2.hashed : k2.mount[n] = <<>>
    BY <1>b, <1>1 DEF Bal, Kept
  <2>3. QED
    BY <1>b, <1>1, <1>14, <2>1, <2>2 DEF Bal, Kept
<1>16. Bal(k2, e2, me)
  BY <1>b, <1>6, <1>13, <1>15 DEF Bal
<1>17. QED
  BY <1>1, <1>4, <1>7, <1>8, <1>16 DEF k2

(* a Mhead with no mounts leaves the table: the caller has it then *)
LEMMA HeadOut ==
  ASSUME NEW k, NEW e, NEW me, Bal(k, e, me), NEW m \in k.hashed, k.mount[m] = <<>>
  PROVE  LET k2 == Unhashed(k, m) IN
         /\ Bal(k2, Plus(e, <<k.from[m]>>), MPlus(me, <<m>>))
         /\ But("hashed", k, k2) /\ k2.hashed = k.hashed \ {m}
<1> DEFINE k2 == Unhashed(k, m)
           e2 == Plus(e, <<k.from[m]>>)
           me2 == MPlus(me, <<m>>)
           old == k.from[m]
<1>0. TabsOK(k) /\ k.stale = FALSE /\ m \in Mheads
  BY DEF Bal, TabsOK
<1>a. DOMAIN k2 = TabFields /\ k2 = [x \in TabFields |-> k2[x]]
  BY <1>0 DEF Unhashed, TabsOK, TabFields
<1>1. /\ k2.mref = k.mref /\ k2.from = k.from
      /\ k2.hashed = k.hashed \ {m} /\ k2.mount = k.mount /\ k2.ref = k.ref
      /\ k2.path = k.path /\ k2.file = k.file /\ k2.offset = k.offset /\ k2.umh = k.umh
      /\ k2.free = k.free /\ k2.moved = k.moved /\ k2.stale = k.stale
  BY <1>0 DEF Unhashed, TabsOK, TabFields
<1>2. /\ e2 \in [Chans -> Nat] /\ \A d \in Chans : e2[d] = e[d] + One(d, old)
      /\ \A d \in Chans : e[d] \in Nat
  BY PlusOne DEF Bal
<1>3. /\ me2 \in [Mheads -> Nat] /\ \A n \in Mheads : me2[n] = me[n] + One(n, m)
      /\ \A n \in Mheads : me[n] \in Nat
  BY MPlusOne DEF Bal
<1> HIDE DEF k2, e2, me2, old
<1>4. k2.hashed \subseteq Mheads
  BY <1>0, <1>1 DEF TabsOK
<1>5. TabsOK(k2) /\ k2.stale = FALSE
  BY <1>0, <1>a, <1>1, <1>4 DEF TabsOK
<1>6. \A d : InTables(k, d) = InTables(k2, d) + One(d, old)
  <2> TAKE d
  <2>1. /\ m \in Mheads \ k2.hashed /\ k.hashed = k2.hashed \cup {m} /\ k.path = k2.path
        /\ k.mount = k2.mount
    BY <1>0, <1>1
  <2>2. \A n \in k2.hashed : k.from[n] = k2.from[n]
    BY <1>1
  <2>3. QED
    BY <1>0, <1>5, <2>1, <2>2, InTablesHash DEF old
<1>7. \A d : InTables(k2, d) \in Nat /\ One(d, old) \in Nat
  BY <1>5, InTablesType DEF One
<1>8. \A d \in Chans : k2.ref[d] = e2[d] + InTables(k2, d)
  <2> TAKE d \in Chans
  <2>1. k.ref[d] = e[d] + InTables(k, d)
    BY DEF Bal, Counted
  <2>2. e[d] \in Nat /\ e2[d] = e[d] + One(d, old)
    BY <1>2
  <2>3. InTables(k, d) = InTables(k2, d) + One(d, old)
    BY <1>6
  <2>4. QED
    BY <1>1, <1>7, <2>1, <2>2, <2>3
<1>9. \A n \in Mheads : k2.mref[n] = me2[n] + MInTables(k2, n)
  <2> TAKE n \in Mheads
  <2>0. k.mref[n] = me[n] + MInTables(k, n)
    BY DEF Bal, Counted
  <2>1. CASE n = m
    <3>1. Umhs(k2) = Umhs(k)
      BY <1>1 DEF Umhs
    <3>2. MInTables(k, m) = 1 + Uses(Umhs(k), m) /\ MInTables(k2, m) = 0 + Uses(Umhs(k), m)
      BY <1>0, <1>1, <1>5, <3>1, InTablesType
    <3>3. Uses(Umhs(k), m) \in Nat
      BY <1>0, InTablesType
    <3>4. me2[m] = me[m] + 1
      BY <1>0, <1>3 DEF One
    <3>5. me[m] \in Nat /\ k2.mref[m] = k.mref[m]
      BY <1>0, <1>1, <1>3
    <3>6. QED
      BY <2>0, <2>1, <3>2, <3>3, <3>4, <3>5
  <2>2. CASE n # m
    <3>1. MInTables(k2, n) = MInTables(k, n) /\ MInTables(k, n) \in Nat
      BY <1>0, <1>1, <2>2, InTablesType DEF MInTables
    <3>2. me2[n] = me[n] + 0 /\ me[n] \in Nat
      BY <1>3, <2>2 DEF One
    <3>3. QED
      BY <1>1, <2>0, <3>1, <3>2
  <2>3. QED
    BY <2>1, <2>2
<1>10. Counted(k2, e2, me2)
  BY <1>1, <1>8, <1>9 DEF Bal, Counted
<1>11. \A d \in Chans : k2.umh[d] # None => InTables(k2, d) = 0
  <2> SUFFICES ASSUME NEW d \in Chans, k.umh[d] # None PROVE InTables(k2, d) = 0
    BY <1>1
  <2>1. InTables(k, d) = 0
    BY DEF Bal, Kept
  <2>2. QED
    BY <2>1, <1>6, <1>7
<1>12. e2[Slash] >= 1
  <2>1. Slash \in Chans /\ e[Slash] >= 1
    BY ChansAre DEF Slash, Bal, Kept
  <2>2. e2[Slash] = e[Slash] + One(Slash, old) /\ e[Slash] \in Nat /\ One(Slash, old) \in Nat
    BY <1>2, <1>7, <2>1
  <2>3. QED
    BY <2>1, <2>2
<1>13. Kept(k2, e2)
  <2>1. \A n \in k2.hashed : k2.from[n] \in Chans
    BY <1>1 DEF Bal, Kept
  <2>2. \A n \in Mheads \ k2.hashed : k2.mount[n] = <<>>
    BY <1>1 DEF Bal, Kept
  <2>3. QED
    BY <1>1, <1>11, <1>12, <2>1, <2>2 DEF Bal, Kept
<1>14. Bal(k2, e2, me2)
  BY <1>2, <1>3, <1>5, <1>10, <1>13 DEF Bal
<1>15. But("hashed", k, k2)
  BY <1>1 DEF But, TabFields
<1>16. QED
  BY <1>1, <1>14, <1>15 DEF k2, e2, me2

(* findmount: the place is left, what is mounted there is kept *)
LEMMA FindMountKeeps ==
  ASSUME NEW k, NEW e \in [Chans -> Nat], e[Slash] >= 1, NEW me \in [Mheads -> Nat],
         NEW c \in OrNone(Chans), NEW mh \in OrNone(Mheads), NEW m \in k.hashed,
         Bal(k, Plus(e, <<c>>), MPlus(me, <<mh>>)), Mounted(k)
  PROVE  LET k2 == FindMount(k, c, mh, m)
             h == Head(k.mount[m])
         IN /\ h \in Chans
            /\ Bal(k2, Plus(e, <<h>>), MPlus(me, <<m>>))
            /\ Same(k, k2, e) /\ SameMounts(k, k2) /\ k2.umh[h] = None
<1> DEFINE h == Head(k.mount[m])
           k1 == [k EXCEPT !.mref[m] = @ + 1]
           put == PutMhead(k1, mh)
           old == IF c = None THEN put ELSE CClose(put, <<c>>)
           k2 == Incref(old, h)
           ec == Plus(e, <<c>>)
           mm == MPlus(me, <<m>>)
<1>1. FindMount(k, c, mh, m) = k2
  BY DEF FindMount
<1>2. TabsOK(k) /\ m \in Mheads /\ k.mount[m] \in Seq(Chans) /\ k.mount[m] # <<>>
  BY DEF Bal, TabsOK, Mounted
<1>3. h \in Chans /\ 1 \in DOMAIN k.mount[m] /\ k.mount[m][1] = h
  BY <1>2
<1>4. InTables(k, h) >= 1
  BY <1>2, <1>3, InMount
<1>5. mm \in [Mheads -> Nat]
  BY MPlusOne
<1>6. Bal(k, ec, MPlus(me, <<mh>>))
  OBVIOUS
<1> HIDE DEF h, ec
<1>7. /\ Bal(k1, ec, MPlus(MPlus(me, <<mh>>), <<m>>))
      /\ \A x \in TabFields \ {"mref"} : k1[x] = k[x]
  BY <1>2, <1>6, GetMheadKeeps
<1>8. MPlus(MPlus(me, <<mh>>), <<m>>) = MPlus(mm, <<mh>>)
  <2>1. \A n \in Mheads : me[n] \in Nat /\ Times(n, <<mh>>) \in Nat /\ Times(n, <<m>>) \in Nat
    BY TimesOne DEF One
  <2>2. \A n \in Mheads : (me[n] + Times(n, <<mh>>)) + Times(n, <<m>>)
                            = (me[n] + Times(n, <<m>>)) + Times(n, <<mh>>)
    BY <2>1
  <2>3. QED
    BY <2>2 DEF MPlus
<1> HIDE DEF k1, mm
<1>9. Bal(k1, ec, MPlus(mm, <<mh>>))
  BY <1>7, <1>8
<1>10. /\ Bal(put, ec, mm)
       /\ \A x \in TabFields \ {"mref", "from"} : put[x] = k1[x]
       /\ \A n \in k1.hashed : put.from[n] = k1.from[n]
  BY <1>5, <1>9, PutMheadKeeps
<1> HIDE DEF put
<1>11. /\ SameMounts(k, put) /\ put.path = k.path /\ Same(k, put, e) /\ SameKeepers(k, put)
  <2>1. /\ put.hashed = k.hashed /\ put.mount = k.mount /\ put.path = k.path
        /\ put.umh = k.umh /\ put.offset = k.offset /\ put.moved = k.moved
        /\ k1.from = k.from /\ k1.hashed = k.hashed
    BY <1>7, <1>10 DEF TabFields
  <2>2. QED
    BY <1>10, <2>1 DEF SameMounts, Same, SameKeepers
<1>12. Bal(old, e, mm) /\ Same(put, old, e) /\ SameMounts(put, old)
  <2>1. CASE c = None
    <3>1. ec = e
      <4>1. \A d \in Chans : One(d, c) = 0
        BY <2>1, ChansAre DEF One
      <4>2. ec \in [Chans -> Nat] /\ \A d \in Chans : ec[d] = e[d] + 0
        BY <4>1, PlusOne DEF ec
      <4>3. QED
        BY <4>2
    <3>2. QED
      BY <1>10, <2>1, <3>1 DEF Same, SameMounts
  <2>2. CASE c # None
    BY <1>10, <2>2, CloseOneSame DEF ec
  <2>3. QED
    BY <2>1, <2>2
<1> HIDE DEF old
<1>13. Same(k, old, e) /\ SameMounts(k, old)
  BY <1>11, <1>12, SameOn
<1>14. InTables(old, h) >= 1 /\ TabsOK(old)
  <2>1. TabsOK(old)
    BY <1>12 DEF Bal
  <2>2. 1 \in DOMAIN old.mount[m] /\ old.mount[m][1] = h
    BY <1>3, <1>13 DEF SameMounts
  <2>3. QED
    BY <1>2, <2>1, <2>2, InMount
<1>15. h \notin old.free /\ old.umh[h] = None
  BY <1>3, <1>12, <1>14, KeptPlain
<1>16. /\ Bal(k2, Plus(e, <<h>>), mm)
       /\ \A x \in TabFields \ {"ref"} : k2[x] = old[x]
  BY <1>3, <1>12, <1>15, IncrefKeeps
<1> HIDE DEF k2
<1>17. Same(old, k2, e) /\ SameMounts(old, k2) /\ k2.umh = old.umh
  BY <1>16 DEF Same, SameMounts, TabFields
<1>18. Same(k, k2, e) /\ SameMounts(k, k2)
  BY <1>13, <1>17, SameOn
<1>19. QED
  BY <1>1, <1>3, <1>15, <1>16, <1>17, <1>18 DEF h, mm

(* k2 is k with a new Mhead m for old in the table *)
Heads(m, k, k2, old, order) ==
  /\ k2.hashed = k.hashed \cup {m} /\ k2.from[m] = old
  /\ \A n \in k.hashed : k2.mount[n] = k.mount[n] /\ k2.from[n] = k.from[n]
  /\ k2.mount[m] = IF order = "repl" THEN <<>> ELSE <<old>>

(* a Mhead for old *)
LEMMA NewMheadKeeps ==
  ASSUME NEW k, NEW e, NEW me, Bal(k, e, me), NEW old \in Chans, e[old] >= 1,
         k.umh[old] = None, \E m \in Mheads : k.mref[m] = 0, NEW order
  PROVE  /\ Bal(NewMhead(k, old, order), e, me)
         /\ NewMhead(k, old, order).file = k.file /\ Same(k, NewMhead(k, old, order), e)
         /\ \E m \in Mheads \ k.hashed : Heads(m, k, NewMhead(k, old, order), old, order)
<1> DEFINE m == CHOOSE m \in Mheads : k.mref[m] = 0
           k1 == Incref(k, old)
           u == [k1 EXCEPT !.mref[m] = 1, !.from[m] = old, !.hashed = @ \cup {m}]
           k3 == Incref(u, old)
           k4 == [k3 EXCEPT !.mount[m] = <<old>>]
<1>1. NewMhead(k, old, order) = IF order = "repl" THEN u ELSE k4
  BY DEF NewMhead
<1>2. m \in Mheads /\ k.mref[m] = 0
  OBVIOUS
<1> HIDE DEF m
<1>3. old \notin k.free /\ e \in [Chans -> Nat] /\ e[Slash] >= 1
  BY InUse DEF Bal, Kept
<1>4. Bal(k1, Plus(e, <<old>>), me) /\ \A x \in TabFields \ {"ref"} : k1[x] = k[x]
  BY <1>3, IncrefKeeps
<1> HIDE DEF k1
<1>5. /\ k1.umh = k.umh /\ k1.mref = k.mref /\ k1.hashed = k.hashed /\ k1.mount = k.mount
      /\ k1.from = k.from /\ k1.file = k.file /\ k1.free = k.free /\ k1.offset = k.offset
      /\ k1.moved = k.moved
  BY <1>4 DEF TabFields
<1>6. u = WithHead(k1, m, old)
  BY DEF WithHead
<1> HIDE DEF u
<1>7. /\ Bal(u, e, me) /\ m \notin k.hashed /\ u.hashed = k.hashed \cup {m}
      /\ u.from[m] = old /\ \A n \in k.hashed : u.from[n] = k.from[n]
      /\ u.mount = k.mount /\ u.file = k.file /\ u.umh = k.umh /\ u.free = k.free
      /\ u.offset = k.offset /\ u.moved = k.moved
  <2>1. k1.mref[m] = 0 /\ k1.umh[old] = None
    BY <1>2, <1>5
  <2>2. /\ Bal(u, e, me) /\ m \notin k1.hashed /\ u.hashed = k1.hashed \cup {m}
        /\ u.from[m] = old /\ \A n \in k1.hashed : u.from[n] = k1.from[n]
        /\ u.mount = k1.mount /\ u.file = k1.file /\ u.umh = k1.umh /\ u.free = k1.free
        /\ u.offset = k1.offset /\ u.moved = k1.moved
    BY <1>2, <1>3, <1>4, <1>6, <2>1, HeadPut
  <2>3. QED
    BY <1>5, <2>2
<1>8. u.mount[m] = <<>>
  BY <1>2, <1>7 DEF Bal, Kept
<1>9. CASE order = "repl"
  <2>1. Same(k, u, e)
    BY <1>7 DEF Same
  <2>2. Heads(m, k, u, old, order)
    BY <1>7, <1>8, <1>9 DEF Heads
  <2>3. QED
    BY <1>1, <1>2, <1>7, <1>9, <2>1, <2>2
<1>10. CASE order # "repl"
  <2>1. Bal(k3, Plus(e, <<old>>), me) /\ \A x \in TabFields \ {"ref"} : k3[x] = u[x]
    BY <1>3, <1>7, IncrefKeeps
  <2> HIDE DEF k3
  <2>2. /\ k3.umh = k.umh /\ k3.hashed = u.hashed /\ k3.mount = k.mount /\ k3.from = u.from
        /\ k3.file = k.file /\ k3.offset = k.offset /\ k3.moved = k.moved
    BY <1>7, <2>1 DEF TabFields
  <2>3. k4 = WithMount(k3, m, <<old>>)
    BY DEF WithMount
  <2> HIDE DEF k4
  <2>4. PICK q, z : q = <<old>> /\ z = <<>>
    OBVIOUS
  <2>5. q \in Seq(Chans) /\ z \in Seq(Chans)
    BY <2>4
  <2>6. Plain(k3, q)
    BY <2>2, <2>4 DEF Plain
  <2>7. Swaps(k3, m, q, q, z)
    <3>1. k3.mount[m] = <<>>
      BY <1>7, <1>8, <2>2
    <3>2. \A d : Times(d, <<>>) = 0
      BY TimesEmpty
    <3>3. \A d : Times(d, q) \in Nat
      BY <2>5, AtIs
    <3>4. QED
      BY <2>4, <3>1, <3>2, <3>3 DEF Swaps
  <2>8. m \in k3.hashed
    BY <1>7, <2>2
  <2>9. /\ Bal(k4, Plus(e, z), me) /\ But("mount", k3, k4) /\ MountIs(m, q, k3, k4)
    <3>1. Bal(k3, Plus(e, q), me)
      BY <2>1, <2>4
    <3>2. k4 = WithMount(k3, m, q)
      BY <2>3, <2>4
    <3>3. QED
      BY <1>3, <2>5, <2>6, <2>7, <2>8, <3>1, <3>2, MountPut
  <2>10. Plus(e, z) = e
    BY <1>3, <2>4, PlusEmpty
  <2>11. /\ k4.umh = k.umh /\ k4.hashed = u.hashed /\ k4.from = u.from
         /\ k4.file = k.file /\ k4.offset = k.offset /\ k4.moved = k.moved
    BY <2>2, <2>9 DEF But, TabFields
  <2>12. Same(k, k4, e)
    BY <2>11 DEF Same
  <2>13. \A n \in k.hashed : k4.mount[n] = k.mount[n]
    <3>1. k.hashed \subseteq Mheads
      BY DEF Bal, TabsOK
    <3>2. QED
      BY <3>1, <1>7, <2>2, <2>9 DEF MountIs
  <2>14. /\ Bal(k4, e, me) /\ m \in Mheads \ k.hashed /\ k4.hashed = k.hashed \cup {m}
         /\ k4.from[m] = old /\ \A n \in k.hashed : k4.from[n] = k.from[n]
         /\ k4.mount[m] = <<old>>
    BY <1>2, <1>7, <2>4, <2>9, <2>10, <2>11 DEF MountIs
  <2>15. NewMhead(k, old, order) = k4
    BY <1>1, <1>10
  <2>16. Heads(m, k, k4, old, order)
    BY <1>10, <2>13, <2>14 DEF Heads
  <2>17. QED
    BY <2>11, <2>12, <2>14, <2>15, <2>16
<1>11. QED
  BY <1>9, <1>10

(* k2 is k with q mounted at m *)
Mounts(m, q, k, k2, e) ==
  /\ Same(k, k2, e) /\ k2.hashed = k.hashed
  /\ MountIs(m, q, k, k2)

(* what is mounted at a Mhead is replaced, those before are closed *)
LEMMA MountAll ==
  ASSUME NEW k, NEW me, NEW m \in k.hashed, NEW q \in Seq(Chans), NEW e \in [Chans -> Nat],
         e[Slash] >= 1, Bal(k, Plus(e, q), me), Plain(k, q)
  PROVE  /\ Bal(CClose(WithMount(k, m, q), k.mount[m]), e, me)
         /\ Mounts(m, q, k, CClose(WithMount(k, m, q), k.mount[m]), e)
<1>1. PICK b : b = k.mount[m]
  OBVIOUS
<1>2. b \in Seq(Chans) /\ m \in Mheads
  BY <1>1 DEF Bal, TabsOK
<1>3. Swaps(k, m, q, q, b)
  <2>1. \A d : Times(d, q) \in Nat /\ Times(d, b) \in Nat
    BY <1>2, AtIs
  <2>2. QED
    BY <1>1, <2>1 DEF Swaps
<1>4. PICK k1 : k1 = WithMount(k, m, q)
  OBVIOUS
<1>5. /\ Bal(k1, Plus(e, b), me) /\ But("mount", k, k1) /\ MountIs(m, q, k, k1)
  BY <1>2, <1>3, <1>4, MountPut
<1>6. PICK k2 : k2 = CClose(k1, b)
  OBVIOUS
<1>7. b \in Seq(OrNone(Chans))
  BY <1>2 DEF OrNone
<1>8. Bal(k2, e, me) /\ Same(k1, k2, e) /\ SameMounts(k1, k2)
  BY <1>5, <1>6, <1>7, CloseSame
<1>9. /\ Same(k, k1, e) /\ k1.hashed = k.hashed /\ k1.from = k.from
  BY <1>5 DEF But, Same, TabFields
<1>10. Same(k, k2, e)
  BY <1>8, <1>9, SameOn
<1>11. k2 = CClose(WithMount(k, m, q), k.mount[m])
  BY <1>1, <1>4, <1>6
<1>12. Mounts(m, q, k, k2, e)
  BY <1>5, <1>8, <1>9, <1>10 DEF SameMounts, Mounts, MountIs
<1>13. QED
  BY <1>8, <1>11, <1>12

(* q has new once more than a *)
OneMore(new, q, a) == \A d : Times(d, q) = Times(d, a) + One(d, new)

(* one more is mounted at a Mhead *)
LEMMA MountMore ==
  ASSUME NEW k, NEW me, NEW m \in k.hashed, NEW new \in Chans, NEW q \in Seq(Chans),
         OneMore(new, q, k.mount[m]),
         NEW e \in [Chans -> Nat], e[Slash] >= 1, Bal(k, Plus(e, <<new>>), me),
         k.umh[new] = None
  PROVE  Bal(WithMount(k, m, q), e, me) /\ Mounts(m, q, k, WithMount(k, m, q), e)
<1>1. PICK a, b : a = <<new>> /\ b = <<>>
  OBVIOUS
<1>2. a \in Seq(Chans) /\ b \in Seq(Chans) /\ k.mount[m] \in Seq(Chans)
  <2>1. m \in Mheads /\ k.mount \in [Mheads -> Seq(Chans)]
    BY DEF Bal, TabsOK
  <2>2. k.mount[m] \in Seq(Chans)
    BY <2>1
  <2>3. b \in Seq(Chans)
    BY <1>1
  <2>4. a \in Seq(Chans)
    BY <1>1
  <2>5. QED
    BY <2>2, <2>3, <2>4
<1>3. Swaps(k, m, q, a, b)
  <2>1. \A d : Times(d, a) = One(d, new) /\ One(d, new) \in Nat
    BY <1>1, TimesOne DEF One
  <2>2. \A d : Times(d, b) = 0 /\ Times(d, k.mount[m]) \in Nat
    BY <1>1, <1>2, TimesEmpty, AtIs
  <2>3. QED
    BY <2>1, <2>2 DEF Swaps, OneMore
<1>4. Bal(k, Plus(e, a), me) /\ Plain(k, a)
  BY <1>1 DEF Plain
<1>5. PICK k1 : k1 = WithMount(k, m, q)
  OBVIOUS
<1>6. /\ Bal(k1, Plus(e, b), me) /\ But("mount", k, k1) /\ MountIs(m, q, k, k1)
  BY <1>2, <1>3, <1>4, <1>5, MountPut
<1>7. Plus(e, b) = e
  BY <1>1, PlusEmpty
<1>8. /\ Same(k, k1, e) /\ k1.hashed = k.hashed /\ k1.from = k.from
  BY <1>6 DEF But, Same, TabFields
<1>9. Mounts(m, q, k, k1, e)
  BY <1>6, <1>8 DEF Mounts
<1>10. QED
  BY <1>5, <1>6, <1>7, <1>9

(* cmount *)
LEMMA CMountKeeps ==
  ASSUME NEW k, NEW e, NEW me, Bal(k, e, me), NEW old \in Chans, NEW new \in Chans,
         e[old] >= 1, e[new] >= 1, k.umh[old] = None, k.umh[new] = None,
         \E m \in Mheads : k.mref[m] = 0, NEW order \in {"repl", "before", "after"}, Mounted(k)
  PROVE  LET k2 == CMount(k, new, old, order) IN
         Bal(k2, e, me) /\ Mounted(k2) /\ Same(k, k2, e) /\ k.hashed \subseteq k2.hashed
<1> DEFINE u == IF MountedOn(k, k.file[old]) = {} THEN NewMhead(k, old, order) ELSE k
           m == CHOOSE m \in MountedOn(u, k.file[old]) : TRUE
           n == Incref(u, new)
           k2 == CMount(k, new, old, order)
<1>1. k2 = CASE order = "repl"   -> CClose([n EXCEPT !.mount[m] = <<new>>], u.mount[m])
             [] order = "after"  -> [n EXCEPT !.mount[m] = Append(@, new)]
             [] order = "before" -> [n EXCEPT !.mount[m] = <<new>> \o @]
  BY DEF CMount
<1>2. e \in [Chans -> Nat] /\ e[Slash] >= 1
  BY DEF Bal, Kept
<1> HIDE DEF k2
<1>3. /\ Bal(u, e, me) /\ Same(k, u, e) /\ k.hashed \subseteq u.hashed
      /\ MountedOn(u, k.file[old]) # {}
      /\ \A i \in u.hashed \ MountedOn(u, k.file[old]) : u.mount[i] # <<>>
  <2>1. CASE MountedOn(k, k.file[old]) = {}
    <3>1. PICK v : v = NewMhead(k, old, order)
      OBVIOUS
    <3>2. u = v
      BY <2>1, <3>1
    <3> HIDE DEF u
    <3>3. /\ Bal(v, e, me)
          /\ v.file = k.file /\ Same(k, v, e)
          /\ \E i \in Mheads \ k.hashed : Heads(i, k, v, old, order)
      BY <3>1, NewMheadKeeps
    <3>4. PICK i \in Mheads \ k.hashed :
              /\ v.hashed = k.hashed \cup {i} /\ v.from[i] = old
              /\ \A j \in k.hashed : v.mount[j] = k.mount[j] /\ v.from[j] = k.from[j]
      BY <3>3 DEF Heads
    <3>5. i \in MountedOn(v, k.file[old])
      BY <3>3, <3>4 DEF MountedOn
    <3>6. \A j \in k.hashed : v.mount[j] # <<>>
      BY <3>4 DEF Mounted
    <3>7. QED
      BY <3>2, <3>3, <3>4, <3>5, <3>6
  <2>2. CASE MountedOn(k, k.file[old]) # {}
    BY <2>2 DEF Same, Mounted
  <2>3. QED
    BY <2>1, <2>2
<1>4. m \in MountedOn(u, k.file[old])
  BY <1>3
<1>5. m \in u.hashed
  BY <1>4, Zenon DEF MountedOn
<1> HIDE DEF m
<1>a. \A i \in u.hashed \ {m} : u.mount[i] # <<>>
  <2>1. CASE MountedOn(k, k.file[old]) = {}
    <3>1. PICK v : v = NewMhead(k, old, order)
      OBVIOUS
    <3>2. u = v
      BY <2>1, <3>1
    <3> HIDE DEF u
    <3>a. v.file = k.file /\ \E i \in Mheads \ k.hashed : Heads(i, k, v, old, order)
      BY <3>1, NewMheadKeeps
    <3>3. PICK i \in Mheads \ k.hashed :
              /\ v.hashed = k.hashed \cup {i} /\ v.from[i] = old /\ v.file = k.file
              /\ \A j \in k.hashed : v.mount[j] = k.mount[j] /\ v.from[j] = k.from[j]
      BY <3>a DEF Heads
    <3>4. \A j \in k.hashed : j \notin MountedOn(v, k.file[old])
      BY <2>1, <3>3 DEF MountedOn
    <3>5. m = i
      BY <1>4, <1>5, <3>2, <3>3, <3>4
    <3>6. \A j \in k.hashed : v.mount[j] # <<>>
      BY <3>3 DEF Mounted
    <3>7. QED
      BY <3>2, <3>3, <3>5, <3>6
  <2>2. CASE MountedOn(k, k.file[old]) # {}
    BY <2>2 DEF Mounted
  <2>3. QED
    BY <2>1, <2>2
<1> HIDE DEF u
<1>6. new \notin u.free /\ u.umh[new] = None
  <2>1. u.umh[new] = k.umh[new]
    BY <1>3 DEF Same
  <2>2. QED
    BY <1>3, <2>1, InUse
<1>7. Bal(n, Plus(e, <<new>>), me) /\ \A x \in TabFields \ {"ref"} : n[x] = u[x]
  BY <1>3, <1>6, IncrefKeeps
<1> HIDE DEF n
<1>8. /\ n.hashed = u.hashed /\ n.mount = u.mount /\ n.umh = u.umh /\ n.offset = u.offset
      /\ n.moved = u.moved
  BY <1>7 DEF TabFields
<1>9. Same(k, n, e)
  BY <1>3, <1>8 DEF Same
<1>10. n.umh[new] = None /\ m \in n.hashed /\ n.mount[m] \in Seq(Chans)
  <2>1. u.mount[m] \in Seq(Chans)
    BY <1>3, <1>5 DEF Bal, TabsOK
  <2>2. QED
    BY <1>5, <1>6, <1>8, <2>1
<1>11. SUFFICES \E q \in Seq(Chans) :
                  q # <<>> /\ Bal(k2, e, me) /\ Mounts(m, q, n, k2, e)
  <2>0. /\ Same(n, k2, e) /\ k2.hashed = n.hashed /\ k2.mount[m] # <<>>
        /\ \A i \in Mheads \ {m} : k2.mount[i] = n.mount[i]
    BY <1>11 DEF Mounts, MountIs
  <2>1. Same(k, k2, e)
    BY <1>9, <2>0, SameOn
  <2>2. k2.hashed = u.hashed /\ k2.hashed \subseteq Mheads
    BY <1>8, <1>11, <2>0 DEF Bal, TabsOK
  <2>3. Mounted(k2)
    BY <1>8, <1>a, <2>0, <2>2 DEF Mounted
  <2>4. QED
    BY <1>3, <1>11, <2>1, <2>2, <2>3 DEF k2
<1>12. CASE order = "repl"
  <2>1. PICK q : q = <<new>>
    OBVIOUS
  <2>2. k2 = CClose(WithMount(n, m, q), n.mount[m])
    BY <1>1, <1>8, <1>12, <2>1 DEF WithMount
  <2>3. q \in Seq(Chans) /\ q # <<>> /\ Plain(n, q) /\ Bal(n, Plus(e, q), me)
    BY <1>7, <1>10, <2>1 DEF Plain
  <2>4. Bal(k2, e, me) /\ Mounts(m, q, n, k2, e)
    BY <1>2, <1>10, <2>2, <2>3, MountAll
  <2>5. QED
    BY <2>3, <2>4
<1>13. ASSUME NEW q \in Seq(Chans), q # <<>>, k2 = WithMount(n, m, q),
              OneMore(new, q, n.mount[m])
       PROVE  Bal(k2, e, me) /\ Mounts(m, q, n, k2, e)
  BY <1>2, <1>7, <1>10, <1>13, MountMore
<1>14. CASE order = "after"
  <2>1. PICK q, x, y : q = Append(n.mount[m], new) /\ x = <<new>> /\ y = n.mount[m]
    OBVIOUS
  <2>2. k2 = WithMount(n, m, q)
    <3>1. m \in DOMAIN n.mount /\ "mount" \in DOMAIN n
      BY <1>5, <1>7, <1>8, <1>3 DEF Bal, TabsOK, TabFields
    <3>2. k2 = [n EXCEPT !.mount[m] = Append(@, new)]
      BY <1>1, <1>14
    <3>3. QED
      BY <2>1, <3>1, <3>2 DEF WithMount
  <2>a. y \in Seq(Chans)
    BY <1>10, <2>1
  <2>b. x \in Seq(Chans)
    BY <2>1
  <2>c. q = Append(y, new)
    BY <2>1
  <2>3. q = y \o x /\ q \in Seq(Chans) /\ q # <<>>
    <3>1. q \in Seq(Chans) /\ q # <<>>
      BY <2>a, <2>c
    <3>2. q = y \o <<new>>
      BY <2>a, <2>c
    <3>3. QED
      BY <2>1, <3>1, <3>2
  <2>4. OneMore(new, q, n.mount[m])
    <3>1. \A d : Times(d, q) = Times(d, y) + Times(d, x)
      BY <2>a, <2>b, <2>3, TimesConcat
    <3>2. QED
      BY <2>1, <3>1, TimesOne DEF OneMore
  <2>5. QED
    BY <1>13, <2>2, <2>3, <2>4
<1>15. CASE order = "before"
  <2>1. PICK q, x, y : q = x \o n.mount[m] /\ x = <<new>> /\ y = n.mount[m]
    OBVIOUS
  <2>2. k2 = WithMount(n, m, q)
    <3>1. m \in DOMAIN n.mount /\ "mount" \in DOMAIN n
      BY <1>5, <1>7, <1>8, <1>3 DEF Bal, TabsOK, TabFields
    <3>2. k2 = [n EXCEPT !.mount[m] = <<new>> \o @]
      BY <1>1, <1>15
    <3>3. QED
      BY <2>1, <3>1, <3>2 DEF WithMount
  <2>b. y \in Seq(Chans) /\ q = x \o y
    BY <1>10, <2>1
  <2>c. x \in Seq(Chans) /\ Len(x) = 1
    BY <2>1
  <2>3. q \in Seq(Chans) /\ Len(q) = Len(x) + Len(y) /\ Len(y) \in Nat
    <3>1. Len(x \o y) = Len(x) + Len(y) /\ x \o y \in Seq(Chans)
      BY <2>b, <2>c, ConcatProperties
    <3>2. Len(y) \in Nat
      BY <2>b
    <3>3. QED
      BY <2>b, <3>1, <3>2
  <2>a. q # <<>>
    BY <2>3, <2>c
  <2>4. OneMore(new, q, n.mount[m])
    <3>1. \A d : Times(d, q) = Times(d, x) + Times(d, y)
      BY <2>b, <2>c, TimesConcat
    <3>2. \A d : Times(d, y) \in Nat /\ One(d, new) \in Nat
      BY <2>b, AtIs DEF One
    <3>3. \A d : Times(d, x) = One(d, new)
      BY <2>1, TimesOne
    <3>4. QED
      BY <2>1, <3>1, <3>2, <3>3 DEF OneMore
  <2>5. QED
    BY <1>13, <2>2, <2>3, <2>a, <2>4
<1>16. QED
  BY <1>12, <1>14, <1>15

(* a Mhead with no mounts leaves the table *)
LEMMA UnhashKeeps ==
  ASSUME NEW k, NEW e, NEW me, Bal(k, e, me), NEW m \in k.hashed, k.mount[m] = <<>>
  PROVE  LET k2 == Unhash(k, m) IN
         Bal(k2, e, me) /\ Same(k, k2, e) /\ k2.hashed = k.hashed \ {m} /\ k2.mount = k.mount
<1>1. PICK k1, old : k1 = Unhashed(k, m) /\ old = k.from[m]
  OBVIOUS
<1>2. /\ Bal(k1, Plus(e, <<old>>), MPlus(me, <<m>>))
      /\ But("hashed", k, k1) /\ k1.hashed = k.hashed \ {m}
  BY <1>1, HeadOut
<1>3. old \in OrNone(Chans) /\ m \in OrNone(Mheads) /\ me \in [Mheads -> Nat]
      /\ e \in [Chans -> Nat] /\ e[Slash] >= 1
  BY <1>1 DEF Bal, TabsOK, Kept, OrNone
<1>4. PICK k2 : k2 = CClose(k1, <<old>>)
  OBVIOUS
<1>5. Bal(k2, e, MPlus(me, <<m>>)) /\ Same(k1, k2, e) /\ SameMounts(k1, k2)
  BY <1>2, <1>3, <1>4, CloseOneSame
<1>6. PICK k3 : k3 = PutMhead(k2, m)
  OBVIOUS
<1>7. /\ Bal(k3, e, me)
      /\ \A x \in TabFields \ {"mref", "from"} : k3[x] = k2[x]
  BY <1>3, <1>5, <1>6, PutMheadKeeps
<1>8. Same(k, k1, e) /\ k1.mount = k.mount
  BY <1>2 DEF But, Same, TabFields
<1>9. Same(k2, k3, e) /\ k3.mount = k2.mount /\ k3.hashed = k2.hashed
  BY <1>7 DEF Same, TabFields
<1>10. Same(k, k3, e)
  <2>1. Same(k, k2, e)
    BY <1>5, <1>8, SameOn
  <2>2. QED
    BY <1>9, <2>1, SameOn
<1>11. Unhash(k, m) = k3
  BY <1>1, <1>4, <1>6 DEF Unhash, Unhashed
<1>12. QED
  BY <1>2, <1>5, <1>7, <1>8, <1>9, <1>10, <1>11 DEF SameMounts

(* cunmount *)
LEMMA CUnmountKeeps ==
  ASSUME NEW k, NEW e, NEW me, Bal(k, e, me), NEW m \in k.hashed, Mounted(k), NEW f,
         f = None \/ MountsOf(k, m, f) # {}
  PROVE  LET k2 == CUnmount(k, m, f) IN
         /\ Bal(k2, e, me) /\ Mounted(k2) /\ Same(k, k2, e)
         /\ k2.hashed = k.hashed \/ k2.hashed = k.hashed \ {m}
<1>0. e \in [Chans -> Nat] /\ e[Slash] >= 1 /\ m \in Mheads /\ k.mount[m] \in Seq(Chans)
      /\ k.hashed \subseteq Mheads
  BY DEF Bal, Kept, TabsOK
<1>1. ASSUME NEW u, Bal(u, e, me), Same(k, u, e), u.hashed = k.hashed,
             \A n \in Mheads \ {m} : u.mount[n] = k.mount[n]
      PROVE  /\ u.mount[m] # <<>> => Mounted(u)
             /\ u.mount[m] = <<>> =>
                  LET v == Unhash(u, m) IN
                  Bal(v, e, me) /\ Mounted(v) /\ Same(k, v, e) /\ v.hashed = k.hashed \ {m}
  <2>1. \A n \in k.hashed \ {m} : u.mount[n] # <<>>
    BY <1>0, <1>1 DEF Mounted
  <2>2. u.mount[m] # <<>> => Mounted(u)
    BY <1>1, <2>1 DEF Mounted
  <2>3. ASSUME u.mount[m] = <<>>
        PROVE  LET v == Unhash(u, m) IN
               Bal(v, e, me) /\ Mounted(v) /\ Same(k, v, e) /\ v.hashed = k.hashed \ {m}
    <3>1. PICK v : v = Unhash(u, m)
      OBVIOUS
    <3>2. Bal(v, e, me) /\ Same(u, v, e) /\ v.hashed = u.hashed \ {m} /\ v.mount = u.mount
      BY <1>1, <2>3, <3>1, UnhashKeeps
    <3>3. Same(k, v, e)
      BY <1>1, <3>2, SameOn
    <3>4. Mounted(v)
      BY <1>1, <2>1, <3>2 DEF Mounted
    <3>5. QED
      BY <1>1, <3>1, <3>2, <3>3, <3>4
  <2>4. QED
    BY <2>2, <2>3
<1>2. CASE f = None
  <2>1. PICK q : q = <<>>
    OBVIOUS
  <2>2. q \in Seq(Chans) /\ Plain(k, q) /\ Bal(k, Plus(e, q), me)
    BY <1>0, <2>1, PlusEmpty DEF Plain
  <2>3. PICK u : u = CClose(WithMount(k, m, q), k.mount[m])
    OBVIOUS
  <2>4. /\ Bal(u, e, me) /\ Same(k, u, e) /\ u.hashed = k.hashed
        /\ u.mount[m] = q /\ \A n \in Mheads \ {m} : u.mount[n] = k.mount[n]
    <3>1. Bal(u, e, me) /\ Mounts(m, q, k, u, e)
      BY <1>0, <2>2, <2>3, MountAll
    <3>2. QED
      BY <3>1 DEF Mounts, MountIs
  <2>5. CUnmount(k, m, f) = Unhash(u, m)
    BY <1>2, <2>1, <2>3 DEF CUnmount, WithMount
  <2>6. QED
    BY <1>1, <2>1, <2>4, <2>5
<1>3. CASE f # None
  <2> DEFINE j == Least(MountsOf(k, m, f))
  <2>1. PICK i : i = j
    OBVIOUS
  <2>2. i \in 1..Len(k.mount[m])
    <3>1. MountsOf(k, m, f) \subseteq 1..Len(k.mount[m])
      BY <1>0 DEF MountsOf
    <3>2. MountsOf(k, m, f) # {} /\ MountsOf(k, m, f) \in SUBSET Nat
      BY <1>3, <3>1
    <3>3. QED
      BY <2>1, <3>1, <3>2, LeastIs
  <2>3. PICK q, c, a, b : q = RemoveAt(k.mount[m], i) /\ c = k.mount[m][i] /\ a = <<>> /\ b = <<c>>
    OBVIOUS
  <2>4. /\ q \in Seq(Chans) /\ c \in Chans /\ a \in Seq(Chans) /\ b \in Seq(Chans)
        /\ \A d : Times(d, k.mount[m]) = Times(d, q) + One(d, c)
    <3>1. q \in Seq(Chans) /\ \A d : Times(d, k.mount[m]) = Times(d, q) + One(d, c)
      BY <1>0, <2>2, <2>3, TimesRemoveAt
    <3>2. c \in Chans
      BY <1>0, <2>2, <2>3
    <3>3. QED
      BY <2>3, <3>1, <3>2
  <2>5. Swaps(k, m, q, a, b)
    <3>1. \A d : Times(d, a) = 0 /\ Times(d, b) = One(d, c)
      BY <2>3, TimesEmpty, TimesOne
    <3>2. \A d : Times(d, q) \in Nat /\ One(d, c) \in Nat
      BY <2>4, AtIs DEF One
    <3>3. QED
      BY <2>4, <3>1, <3>2 DEF Swaps
  <2>6. Plain(k, a) /\ Bal(k, Plus(e, a), me)
    BY <1>0, <2>3, PlusEmpty DEF Plain
  <2>7. PICK k1 : k1 = WithMount(k, m, q)
    OBVIOUS
  <2>8. /\ Bal(k1, Plus(e, b), me) /\ But("mount", k, k1) /\ MountIs(m, q, k, k1)
    BY <1>0, <2>4, <2>5, <2>6, <2>7, MountPut
  <2>9. PICK u : u = CClose(k1, b)
    OBVIOUS
  <2>10. Bal(u, e, me) /\ Same(k1, u, e) /\ SameMounts(k1, u)
    <3>1. b \in Seq(OrNone(Chans))
      BY <2>4 DEF OrNone
    <3>2. QED
      BY <1>0, <2>8, <2>9, <3>1, CloseSame
  <2>11. Same(k, k1, e) /\ k1.hashed = k.hashed
    BY <2>8 DEF But, Same, TabFields
  <2>12. Same(k, u, e)
    BY <2>10, <2>11, SameOn
  <2>13. u.hashed = k.hashed /\ \A n \in Mheads \ {m} : u.mount[n] = k.mount[n]
    BY <2>8, <2>10, <2>11 DEF SameMounts, MountIs
  <2>14. CUnmount(k, m, f) = IF u.mount[m] = <<>> THEN Unhash(u, m) ELSE u
    <3>1. "mount" \in DOMAIN k /\ m \in DOMAIN k.mount
      BY <1>0 DEF Bal, TabsOK, TabFields
    <3>2. k1 = [k EXCEPT !.mount[m] = RemoveAt(@, i)]
      BY <2>3, <2>7, <3>1 DEF WithMount
    <3>3. QED
      BY <1>3, <2>1, <2>3, <2>9, <3>2 DEF CUnmount
  <2>15. QED
    BY <1>1, <2>10, <2>12, <2>13, <2>14
<1>4. QED
  BY <1>2, <1>3

-----------------------------------------------------------------------------
(* Seventh part: what the calls hold.                                      *)

(* the counts e, and once more for each of what a name has *)
Adds(e, c, start, nc, path) ==
  [d \in Chans |-> e[d] + One(d, c) + One(d, start) + One(d, nc) + Times(d, path)]
MAdds(me, mh, nmh) == [m \in Mheads |-> me[m] + One(m, mh) + One(m, nmh)]

(* these are counts, and no less than those before *)
LEMMA AddsType ==
  ASSUME NEW e \in [Chans -> Nat], NEW c, NEW start, NEW nc, NEW S, NEW path \in Seq(S)
  PROVE  /\ Adds(e, c, start, nc, path) \in [Chans -> Nat]
         /\ \A d \in Chans :
              Adds(e, c, start, nc, path)[d]
                = e[d] + One(d, c) + One(d, start) + One(d, nc) + Times(d, path)
         /\ \A d \in Chans : Adds(e, c, start, nc, path)[d] >= e[d]
<1>1. \A d, x : One(d, x) \in Nat
  BY DEF One
<1>2. \A d : Times(d, path) \in Nat
  BY AtIs
<1>3. \A d \in Chans : e[d] \in Nat
  OBVIOUS
<1>4. \A d \in Chans : e[d] + One(d, c) + One(d, start) + One(d, nc) + Times(d, path) \in Nat
  BY <1>1, <1>2, <1>3
<1>5. \A d \in Chans : e[d] + One(d, c) + One(d, start) + One(d, nc) + Times(d, path) >= e[d]
  <2> TAKE d \in Chans
  <2>1. PICK n \in Nat, i \in Nat, j \in Nat, k \in Nat, l \in Nat :
          /\ n = e[d] /\ i = One(d, c) /\ j = One(d, start) /\ k = One(d, nc)
          /\ l = Times(d, path)
    BY <1>1, <1>2, <1>3
  <2>2. n + i + j + k + l >= n
    OBVIOUS
  <2>3. QED
    BY <2>1, <2>2
<1>6. QED
  BY <1>4, <1>5 DEF Adds

(* these are counts too *)
LEMMA MAddsType ==
  ASSUME NEW me \in [Mheads -> Nat], NEW mh, NEW nmh
  PROVE  MAdds(me, mh, nmh) \in [Mheads -> Nat]
<1>1. \A m, x : One(m, x) \in Nat
  BY DEF One
<1>2. \A m \in Mheads : me[m] \in Nat
  OBVIOUS
<1>3. QED
  BY <1>1, <1>2 DEF MAdds

(* the channel of a walk, apart *)
LEMMA AddsC ==
  ASSUME NEW e \in [Chans -> Nat], NEW c, NEW start, NEW nc, NEW S, NEW path \in Seq(S)
  PROVE  Adds(e, c, start, nc, path) = Plus(Adds(e, None, start, nc, path), <<c>>)
<1>1. ASSUME NEW d \in Chans
      PROVE  Adds(e, c, start, nc, path)[d] = Plus(Adds(e, None, start, nc, path), <<c>>)[d]
  <2>1. PICK n \in Nat, i \in Nat, j \in Nat, k \in Nat, l \in Nat :
          /\ n = e[d] /\ i = One(d, c) /\ j = One(d, start) /\ k = One(d, nc)
          /\ l = Times(d, path) /\ One(d, None) = 0 /\ Times(d, <<>>) = 0
          /\ Times(d, <<c>>) = i /\ Times(d, <<start>>) = j /\ Times(d, <<nc>>) = k
    <3>1. \A x : One(d, x) \in Nat /\ Times(d, <<x>>) = One(d, x)
      BY TimesOne DEF One
    <3>2. Times(d, path) \in Nat /\ Times(d, <<>>) = 0 /\ e[d] \in Nat
      BY AtIs, TimesEmpty
    <3>3. One(d, None) = 0
      BY ChansAre DEF One
    <3>4. QED
      BY <3>1, <3>2, <3>3
  <2>2. n + i + j + k + l = (n + 0 + j + k + l) + i
    OBVIOUS
  <2>3. Plus(Adds(e, None, start, nc, path), <<c>>)[d] = (n + 0 + j + k + l) + i
    BY <2>1 DEF Adds, Plus
  <2>4. Adds(e, c, start, nc, path)[d] = n + i + j + k + l
    BY <2>1 DEF Adds
  <2>5. QED
    BY <2>2, <2>3, <2>4
<1>2. QED
  BY <1>1 DEF Adds, Plus

(* where it starts, apart *)
LEMMA AddsStart ==
  ASSUME NEW e \in [Chans -> Nat], NEW c, NEW start, NEW nc, NEW S, NEW path \in Seq(S)
  PROVE  Adds(e, c, start, nc, path) = Plus(Adds(e, c, None, nc, path), <<start>>)
<1>1. ASSUME NEW d \in Chans
      PROVE  Adds(e, c, start, nc, path)[d] = Plus(Adds(e, c, None, nc, path), <<start>>)[d]
  <2>1. PICK n \in Nat, i \in Nat, j \in Nat, k \in Nat, l \in Nat :
          /\ n = e[d] /\ i = One(d, c) /\ j = One(d, start) /\ k = One(d, nc)
          /\ l = Times(d, path) /\ One(d, None) = 0 /\ Times(d, <<>>) = 0
          /\ Times(d, <<c>>) = i /\ Times(d, <<start>>) = j /\ Times(d, <<nc>>) = k
    <3>1. \A x : One(d, x) \in Nat /\ Times(d, <<x>>) = One(d, x)
      BY TimesOne DEF One
    <3>2. Times(d, path) \in Nat /\ Times(d, <<>>) = 0 /\ e[d] \in Nat
      BY AtIs, TimesEmpty
    <3>3. One(d, None) = 0
      BY ChansAre DEF One
    <3>4. QED
      BY <3>1, <3>2, <3>3
  <2>2. n + i + j + k + l = (n + i + 0 + k + l) + j
    OBVIOUS
  <2>3. Plus(Adds(e, c, None, nc, path), <<start>>)[d] = (n + i + 0 + k + l) + j
    BY <2>1 DEF Adds, Plus
  <2>4. Adds(e, c, start, nc, path)[d] = n + i + j + k + l
    BY <2>1 DEF Adds
  <2>5. QED
    BY <2>2, <2>3, <2>4
<1>2. QED
  BY <1>1 DEF Adds, Plus

(* where it goes, apart *)
LEMMA AddsNc ==
  ASSUME NEW e \in [Chans -> Nat], NEW c, NEW start, NEW nc, NEW S, NEW path \in Seq(S)
  PROVE  Adds(e, c, start, nc, path) = Plus(Adds(e, c, start, None, path), <<nc>>)
<1>1. ASSUME NEW d \in Chans
      PROVE  Adds(e, c, start, nc, path)[d] = Plus(Adds(e, c, start, None, path), <<nc>>)[d]
  <2>1. PICK n \in Nat, i \in Nat, j \in Nat, k \in Nat, l \in Nat :
          /\ n = e[d] /\ i = One(d, c) /\ j = One(d, start) /\ k = One(d, nc)
          /\ l = Times(d, path) /\ One(d, None) = 0 /\ Times(d, <<>>) = 0
          /\ Times(d, <<c>>) = i /\ Times(d, <<start>>) = j /\ Times(d, <<nc>>) = k
    <3>1. \A x : One(d, x) \in Nat /\ Times(d, <<x>>) = One(d, x)
      BY TimesOne DEF One
    <3>2. Times(d, path) \in Nat /\ Times(d, <<>>) = 0 /\ e[d] \in Nat
      BY AtIs, TimesEmpty
    <3>3. One(d, None) = 0
      BY ChansAre DEF One
    <3>4. QED
      BY <3>1, <3>2, <3>3
  <2>2. n + i + j + k + l = (n + i + j + 0 + l) + k
    OBVIOUS
  <2>3. Plus(Adds(e, c, start, None, path), <<nc>>)[d] = (n + i + j + 0 + l) + k
    BY <2>1 DEF Adds, Plus
  <2>4. Adds(e, c, start, nc, path)[d] = n + i + j + k + l
    BY <2>1 DEF Adds
  <2>5. QED
    BY <2>2, <2>3, <2>4
<1>2. QED
  BY <1>1 DEF Adds, Plus

(* and its path, apart *)
LEMMA AddsPath ==
  ASSUME NEW e \in [Chans -> Nat], NEW c, NEW start, NEW nc, NEW S, NEW path \in Seq(S)
  PROVE  Adds(e, c, start, nc, path) = Plus(Adds(e, c, start, nc, <<>>), path)
<1>1. ASSUME NEW d \in Chans
      PROVE  Adds(e, c, start, nc, path)[d] = Plus(Adds(e, c, start, nc, <<>>), path)[d]
  <2>1. PICK n \in Nat, i \in Nat, j \in Nat, k \in Nat, l \in Nat :
          /\ n = e[d] /\ i = One(d, c) /\ j = One(d, start) /\ k = One(d, nc)
          /\ l = Times(d, path) /\ One(d, None) = 0 /\ Times(d, <<>>) = 0
          /\ Times(d, <<c>>) = i /\ Times(d, <<start>>) = j /\ Times(d, <<nc>>) = k
    <3>1. \A x : One(d, x) \in Nat /\ Times(d, <<x>>) = One(d, x)
      BY TimesOne DEF One
    <3>2. Times(d, path) \in Nat /\ Times(d, <<>>) = 0 /\ e[d] \in Nat
      BY AtIs, TimesEmpty
    <3>3. One(d, None) = 0
      BY ChansAre DEF One
    <3>4. QED
      BY <3>1, <3>2, <3>3
  <2>2. n + i + j + k + l = (n + i + j + k + 0) + l
    OBVIOUS
  <2>3. Plus(Adds(e, c, start, nc, <<>>), path)[d] = (n + i + j + k + 0) + l
    BY <2>1 DEF Adds, Plus
  <2>4. Adds(e, c, start, nc, path)[d] = n + i + j + k + l
    BY <2>1 DEF Adds
  <2>5. QED
    BY <2>2, <2>3, <2>4
<1>2. QED
  BY <1>1 DEF Adds, Plus

(* the Mhead of a walk, apart *)
LEMMA MAddsMh ==
  ASSUME NEW me \in [Mheads -> Nat], NEW mh, NEW nmh
  PROVE  MAdds(me, mh, nmh) = MPlus(MAdds(me, None, nmh), <<mh>>)
<1>1. ASSUME NEW m \in Mheads
      PROVE  MAdds(me, mh, nmh)[m] = MPlus(MAdds(me, None, nmh), <<mh>>)[m]
  <2>1. PICK n \in Nat, i \in Nat, j \in Nat :
          /\ n = me[m] /\ i = One(m, mh) /\ j = One(m, nmh) /\ One(m, None) = 0
          /\ Times(m, <<mh>>) = i /\ Times(m, <<nmh>>) = j
    BY ChansAre, TimesOne DEF One
  <2>2. n + i + j = (n + 0 + j) + i
    OBVIOUS
  <2>3. MPlus(MAdds(me, None, nmh), <<mh>>)[m] = (n + 0 + j) + i
    BY <2>1 DEF MAdds, MPlus
  <2>4. MAdds(me, mh, nmh)[m] = n + i + j
    BY <2>1 DEF MAdds
  <2>5. QED
    BY <2>2, <2>3, <2>4
<1>2. QED
  BY <1>1 DEF MAdds, MPlus

(* and the one it goes to, apart *)
LEMMA MAddsNmh ==
  ASSUME NEW me \in [Mheads -> Nat], NEW mh, NEW nmh
  PROVE  MAdds(me, mh, nmh) = MPlus(MAdds(me, mh, None), <<nmh>>)
<1>1. ASSUME NEW m \in Mheads
      PROVE  MAdds(me, mh, nmh)[m] = MPlus(MAdds(me, mh, None), <<nmh>>)[m]
  <2>1. PICK n \in Nat, i \in Nat, j \in Nat :
          /\ n = me[m] /\ i = One(m, mh) /\ j = One(m, nmh) /\ One(m, None) = 0
          /\ Times(m, <<mh>>) = i /\ Times(m, <<nmh>>) = j
    BY ChansAre, TimesOne DEF One
  <2>2. n + i + j = (n + i + 0) + j
    OBVIOUS
  <2>3. MPlus(MAdds(me, mh, None), <<nmh>>)[m] = (n + i + 0) + j
    BY <2>1 DEF MAdds, MPlus
  <2>4. MAdds(me, mh, nmh)[m] = n + i + j
    BY <2>1 DEF MAdds
  <2>5. QED
    BY <2>2, <2>3, <2>4
<1>2. QED
  BY <1>1 DEF MAdds, MPlus

(* nothing of these *)
LEMMA AddsNone ==
  ASSUME NEW e \in [Chans -> Nat], NEW me \in [Mheads -> Nat]
  PROVE  Adds(e, None, None, None, <<>>) = e /\ MAdds(me, None, None) = me
<1>1. \A d \in Chans : One(d, None) = 0 /\ Times(d, <<>>) = 0
  BY ChansAre, TimesEmpty DEF One
<1>2. \A d \in Mheads : One(d, None) = 0
  BY ChansAre DEF One
<1>3. \A d \in Chans : e[d] + 0 + 0 + 0 + 0 = e[d]
  OBVIOUS
<1>4. \A d \in Mheads : me[d] + 0 + 0 = me[d]
  OBVIOUS
<1>5. Adds(e, None, None, None, <<>>) = e
  BY <1>1, <1>3 DEF Adds
<1>6. MAdds(me, None, None) = me
  BY <1>2, <1>4 DEF MAdds
<1>7. QED
  BY <1>5, <1>6

-----------------------------------------------------------------------------
(* what is held by a call on a descriptor *)
ChanHeld(r, x) == IF r.pc = "fdclose" THEN None ELSE x.chan

(* what a process holds, by its parts *)
LEMMA HoldIs ==
  ASSUME NEW r, WOK(r), NEW x, SOK(x)
  PROVE  /\ Hold(r, x) \in Seq(OrNone(Chans)) /\ ChanHeld(r, x) \in OrNone(Chans)
         /\ \A d \in Chans :
              Times(d, Hold(r, x)) = One(d, r.c) + One(d, r.start) + One(d, r.nc)
                                       + Times(d, r.path) + Times(d, r.got)
                                       + One(d, ChanHeld(r, x))
<1> DEFINE S == OrNone(Chans)
<1>1. PICK a, b, o, z : /\ a = <<r.c, r.start, r.nc>> /\ b = r.path /\ o = r.got
                        /\ z = IF r.pc = "fdclose" THEN <<>> ELSE <<x.chan>>
  OBVIOUS
<1>2. a \in Seq(S)
  BY <1>1 DEF WOK
<1>3. b \in Seq(S) /\ o \in Seq(S)
  <2>1. r.got \in Seq(Chans) /\ r.path \in Seq(S)
    BY DEF WOK
  <2>2. Chans \subseteq S
    BY DEF OrNone
  <2>3. QED
    BY <1>1, <2>1, <2>2
<1>4. z \in Seq(S) /\ ChanHeld(r, x) \in S
  <2>1. x.chan \in S
    BY DEF SOK
  <2>2. CASE r.pc = "fdclose"
    BY <1>1, <2>2 DEF ChanHeld, OrNone
  <2>3. CASE r.pc # "fdclose"
    <3>1. z = <<x.chan>> /\ ChanHeld(r, x) = x.chan
      BY <1>1, <2>3 DEF ChanHeld
    <3>2. <<x.chan>> \in Seq(S)
      BY <2>1
    <3>3. QED
      BY <2>1, <3>1, <3>2
  <2>4. QED
    BY <2>2, <2>3
<1>5. Hold(r, x) = ((a \o b) \o o) \o z
  BY <1>1 DEF Hold
<1> HIDE DEF S
<1>6. a \o b \in Seq(S)
  BY <1>2, <1>3, ConcatProperties
<1>7. (a \o b) \o o \in Seq(S)
  BY <1>3, <1>6, ConcatProperties
<1>8. ((a \o b) \o o) \o z \in Seq(S)
  BY <1>4, <1>7, ConcatProperties
<1>9. \A d : /\ Times(d, ((a \o b) \o o) \o z) = Times(d, (a \o b) \o o) + Times(d, z)
             /\ Times(d, (a \o b) \o o) = Times(d, a \o b) + Times(d, o)
             /\ Times(d, a \o b) = Times(d, a) + Times(d, b)
  BY <1>2, <1>3, <1>4, <1>6, <1>7, TimesConcat
<1>10. \A d : Times(d, a) = One(d, r.c) + One(d, r.start) + One(d, r.nc)
  <2> TAKE d
  <2>1. PICK a1, a2, a3 : a1 = <<r.c>> /\ a2 = <<r.start>> /\ a3 = <<r.nc>>
    OBVIOUS
  <2>2. a1 \in Seq(S) /\ a2 \in Seq(S) /\ a3 \in Seq(S)
    BY <2>1 DEF WOK, S
  <2>3. a = (a1 \o a2) \o a3 /\ a1 \o a2 \in Seq(S)
    BY <1>1, <2>1 DEF WOK, S
  <2>4. Times(d, (a1 \o a2) \o a3) = Times(d, a1 \o a2) + Times(d, a3)
        /\ Times(d, a1 \o a2) = Times(d, a1) + Times(d, a2)
    BY <2>2, <2>3, TimesConcat
  <2>5. QED
    BY <2>1, <2>3, <2>4, TimesOne
<1>11. \A d \in Chans : Times(d, z) = One(d, ChanHeld(r, x))
  <2>1. \A d \in Chans : One(d, None) = 0 /\ Times(d, <<>>) = 0
    BY ChansAre, TimesEmpty DEF One
  <2>2. QED
    BY <1>1, <2>1, TimesOne DEF ChanHeld
<1>12. \A d \in Chans : Times(d, Hold(r, x)) = ((Times(d, a) + Times(d, b)) + Times(d, o)) + Times(d, z)
  BY <1>5, <1>9
<1>13. QED
  BY <1>1, <1>4, <1>5, <1>8, <1>10, <1>11, <1>12 DEF S

(* the counts with what it holds *)
LEMMA PlusHold ==
  ASSUME NEW r, WOK(r), NEW x, SOK(x), NEW e \in [Chans -> Nat]
  PROVE  /\ Plus(Plus(e, <<ChanHeld(r, x)>>), r.got) \in [Chans -> Nat]
         /\ Plus(e, Hold(r, x))
              = Adds(Plus(Plus(e, <<ChanHeld(r, x)>>), r.got), r.c, r.start, r.nc, r.path)
         /\ \A d \in Chans : Plus(Plus(e, <<ChanHeld(r, x)>>), r.got)[d] >= e[d]
<1> DEFINE e1 == Plus(e, <<ChanHeld(r, x)>>)
           e2 == Plus(e1, r.got)
<1>1. /\ e1 \in [Chans -> Nat] /\ \A d \in Chans : e1[d] = e[d] + One(d, ChanHeld(r, x))
  BY PlusOne
<1> HIDE DEF e1
<1>2. r.got \in Seq(Chans) /\ r.path \in Seq(OrNone(Chans))
  BY DEF WOK
<1>3. /\ e2 \in [Chans -> Nat]
      /\ \A d \in Chans : e2[d] = e1[d] + Times(d, r.got) /\ e2[d] >= e1[d]
  BY <1>1, <1>2, PlusType
<1> HIDE DEF e2
<1>4. \A d \in Chans :
        Times(d, Hold(r, x)) = One(d, r.c) + One(d, r.start) + One(d, r.nc)
                                 + Times(d, r.path) + Times(d, r.got) + One(d, ChanHeld(r, x))
  BY HoldIs
<1>5. \A d, y : One(d, y) \in Nat
  BY DEF One
<1>6. \A d : Times(d, r.got) \in Nat /\ Times(d, r.path) \in Nat
  BY <1>2, AtIs
<1>7. ASSUME NEW d \in Chans
      PROVE  /\ e[d] + Times(d, Hold(r, x))
                  = e2[d] + One(d, r.c) + One(d, r.start) + One(d, r.nc) + Times(d, r.path)
             /\ e2[d] >= e[d]
  <2>1. PICK n \in Nat, h \in Nat, i \in Nat, j \in Nat, k \in Nat, l \in Nat, o \in Nat :
          /\ n = e[d] /\ h = One(d, ChanHeld(r, x)) /\ i = One(d, r.c) /\ j = One(d, r.start)
          /\ k = One(d, r.nc) /\ l = Times(d, r.path) /\ o = Times(d, r.got)
    BY <1>5, <1>6
  <2>2. n + (i + j + k + l + o + h) = ((n + h) + o) + i + j + k + l /\ (n + h) + o >= n
    OBVIOUS
  <2>3. e2[d] = (n + h) + o
    BY <1>1, <1>3, <2>1
  <2>4. Times(d, Hold(r, x)) = i + j + k + l + o + h
    BY <1>4, <2>1
  <2>5. QED
    BY <2>1, <2>2, <2>3, <2>4
<1>8. Plus(e, Hold(r, x)) = Adds(e2, r.c, r.start, r.nc, r.path)
  BY <1>7 DEF Plus, Adds
<1>9. QED
  BY <1>3, <1>7, <1>8 DEF e1, e2

(* the Mheads that it holds *)
LEMMA MPlusHold ==
  ASSUME NEW r, NEW me \in [Mheads -> Nat]
  PROVE  MPlus(me, MHold(r)) = MAdds(me, r.mh, r.nmh)
<1>1. PICK S, a, b : S = {r.mh, r.nmh} /\ a = <<r.mh>> /\ b = <<r.nmh>>
  OBVIOUS
<1>2. a \in Seq(S) /\ b \in Seq(S) /\ MHold(r) = a \o b
  BY <1>1 DEF MHold
<1>3. \A d : Times(d, MHold(r)) = One(d, r.mh) + One(d, r.nmh)
  <2>1. \A d : Times(d, a \o b) = Times(d, a) + Times(d, b)
    BY <1>2, TimesConcat
  <2>2. QED
    BY <1>1, <1>2, <2>1, TimesOne
<1>4. \A d \in Mheads : me[d] + (One(d, r.mh) + One(d, r.nmh)) = me[d] + One(d, r.mh) + One(d, r.nmh)
  <2>1. \A d, y : One(d, y) \in Nat
    BY DEF One
  <2>2. QED
    BY <2>1
<1>5. QED
  BY <1>3, <1>4 DEF MPlus, MAdds

-----------------------------------------------------------------------------
(* what all but p hold *)
Rest(ww, ss, p) == Holds(ww, ss, Procs \ {p})
MRest(ww, p) == MHolds(ww, Procs \ {p})

Typed(ww, ss) == \A q \in Procs : WOK(ww[q]) /\ SOK(ss[q])

(* what processes hold are finite families *)
LEMMA HoldsFamily ==
  ASSUME NEW ww, NEW ss, Typed(ww, ss), NEW P \in SUBSET Procs
  PROVE  /\ Family(Holds(ww, ss, P), P, OrNone(Chans))
         /\ Family(MHolds(ww, P), P, OrNone(Mheads))
<1>1. IsFiniteSet(P)
  BY CallsAre, FS_Subset
<1>2. \A q \in P : Hold(ww[q], ss[q]) \in Seq(OrNone(Chans))
  <2> TAKE q \in P
  <2>1. WOK(ww[q]) /\ SOK(ss[q])
    BY DEF Typed
  <2>2. QED
    BY <2>1, HoldIs
<1>3. \A q \in P : MHold(ww[q]) \in Seq(OrNone(Mheads))
  <2> TAKE q \in P
  <2>1. ww[q].mh \in OrNone(Mheads) /\ ww[q].nmh \in OrNone(Mheads)
    BY DEF Typed, WOK
  <2>2. QED
    BY <2>1 DEF MHold
<1>4. QED
  BY <1>1, <1>2, <1>3 DEF Family, Holds, MHolds

(* and so are the descriptors *)
LEMMA FdFamily ==
  ASSUME NEW h, GOK(h)
  PROVE  Family(FdSeqs(h.fd), 0..h.nfd - 1, OrNone(Chans))
<1>1. h.nfd \in Nat /\ h.fd \in [0..h.nfd - 1 -> OrNone(Chans)]
  BY DEF GOK
<1>2. IsFiniteSet(0..h.nfd - 1)
  BY <1>1, FS_Interval
<1>3. \A i \in 0..h.nfd - 1 : <<h.fd[i]>> \in Seq(OrNone(Chans))
  BY <1>1
<1>4. DOMAIN h.fd = 0..h.nfd - 1
  BY <1>1
<1>5. FdSeqs(h.fd) \in [0..h.nfd - 1 -> Seq(OrNone(Chans))]
  BY <1>3, <1>4 DEF FdSeqs
<1>6. QED
  BY <1>2, <1>5 DEF Family

(* the counts of calls are numbers; the slash is always counted *)
LEMMA CountsType ==
  ASSUME NEW h, GOK(h), NEW P, NEW R, Family(R, P, OrNone(Chans))
  PROVE  /\ Counts(h.fd, R) \in [Chans -> Nat] /\ Counts(h.fd, R)[Slash] >= 1
         /\ \A c \in Chans : Uses(R, c) >= 1 => Counts(h.fd, R)[c] >= 1
         /\ \A c \in Chans : Uses(FdSeqs(h.fd), c) >= 1 => Counts(h.fd, R)[c] >= 1
<1>1. \A c : Uses(FdSeqs(h.fd), c) \in Nat /\ Uses(R, c) \in Nat
  BY FdFamily, UsesType
<1>2. \A c \in Chans : Counts(h.fd, R)[c] = (IF c = Slash THEN 1 ELSE 0) + Uses(FdSeqs(h.fd), c) + Uses(R, c)
  BY DEF Counts
<1>3. Slash \in Chans
  BY ChansAre DEF Slash
<1>4. Counts(h.fd, R) \in [Chans -> Nat]
  BY <1>1 DEF Counts
<1>5. \A c \in Chans : Uses(R, c) >= 1 => Counts(h.fd, R)[c] >= 1
  BY <1>1, <1>2
<1>6. \A c \in Chans : Uses(FdSeqs(h.fd), c) >= 1 => Counts(h.fd, R)[c] >= 1
  BY <1>1, <1>2
<1>7. Counts(h.fd, R)[Slash] >= 1
  BY <1>1, <1>2, <1>3
<1>8. QED
  BY <1>4, <1>5, <1>6, <1>7

(* the counts of Mheads are numbers *)
LEMMA MCountsType ==
  ASSUME NEW P, NEW R, Family(R, P, OrNone(Mheads))
  PROVE  MCounts(R) \in [Mheads -> Nat]
<1>1. \A m : Uses(R, m) \in Nat
  BY UsesType
<1>2. QED
  BY <1>1 DEF MCounts

(* what all hold, is what p holds and what the others hold *)
LEMMA CallsSplit ==
  ASSUME NEW ww, NEW ss, Typed(ww, ss), NEW p \in Procs, NEW h, GOK(h)
  PROVE  /\ Counts(h.fd, Holds(ww, ss, Procs))
              = Plus(Counts(h.fd, Rest(ww, ss, p)), Hold(ww[p], ss[p]))
         /\ MCounts(MHolds(ww, Procs)) = MPlus(MCounts(MRest(ww, p)), MHold(ww[p]))
<1>1. /\ Family(Holds(ww, ss, Procs), Procs, OrNone(Chans))
      /\ Family(MHolds(ww, Procs), Procs, OrNone(Mheads))
  BY HoldsFamily
<1>2. /\ [q \in Procs \ {p} |-> Holds(ww, ss, Procs)[q]] = Rest(ww, ss, p)
      /\ [q \in Procs \ {p} |-> MHolds(ww, Procs)[q]] = MRest(ww, p)
      /\ Holds(ww, ss, Procs)[p] = Hold(ww[p], ss[p])
      /\ MHolds(ww, Procs)[p] = MHold(ww[p])
  BY DEF Rest, MRest, Holds, MHolds
<1>3. \A c : Uses(Holds(ww, ss, Procs), c) = Uses(Rest(ww, ss, p), c) + Times(c, Hold(ww[p], ss[p]))
  BY <1>1, <1>2, UsesWithout
<1>4. \A m : Uses(MHolds(ww, Procs), m) = Uses(MRest(ww, p), m) + Times(m, MHold(ww[p]))
  BY <1>1, <1>2, UsesWithout
<1>5. /\ Family(Rest(ww, ss, p), Procs \ {p}, OrNone(Chans))
  BY HoldsFamily DEF Rest
<1>6. \A c : /\ Uses(Rest(ww, ss, p), c) \in Nat /\ Uses(FdSeqs(h.fd), c) \in Nat
  BY <1>5, FdFamily, UsesType
<1>7. \A c : Times(c, Hold(ww[p], ss[p])) \in Nat
  <2>1. Hold(ww[p], ss[p]) \in Seq(OrNone(Chans))
    BY HoldIs DEF Typed
  <2>2. QED
    BY <2>1, AtIs
<1>8. ASSUME NEW c \in Chans
      PROVE  (IF c = Slash THEN 1 ELSE 0) + Uses(FdSeqs(h.fd), c) + Uses(Holds(ww, ss, Procs), c)
               = ((IF c = Slash THEN 1 ELSE 0) + Uses(FdSeqs(h.fd), c) + Uses(Rest(ww, ss, p), c))
                   + Times(c, Hold(ww[p], ss[p]))
  <2>1. PICK o \in Nat, i \in Nat, j \in Nat, k \in Nat :
          /\ o = (IF c = Slash THEN 1 ELSE 0) /\ i = Uses(FdSeqs(h.fd), c)
          /\ j = Uses(Rest(ww, ss, p), c) /\ k = Times(c, Hold(ww[p], ss[p]))
    BY <1>6, <1>7
  <2>2. o + i + (j + k) = (o + i + j) + k
    OBVIOUS
  <2>3. QED
    BY <1>3, <2>1, <2>2
<1>9. Counts(h.fd, Holds(ww, ss, Procs)) = Plus(Counts(h.fd, Rest(ww, ss, p)), Hold(ww[p], ss[p]))
  BY <1>8 DEF Counts, Plus
<1>10. MCounts(MHolds(ww, Procs)) = MPlus(MCounts(MRest(ww, p)), MHold(ww[p]))
  BY <1>4 DEF MCounts, MPlus
<1>11. QED
  BY <1>9, <1>10

(* the rest is counted *)
LEMMA RestType ==
  ASSUME NEW ww, NEW ss, Typed(ww, ss), NEW p \in Procs, NEW h, GOK(h)
  PROVE  /\ Counts(h.fd, Rest(ww, ss, p)) \in [Chans -> Nat]
         /\ Counts(h.fd, Rest(ww, ss, p))[Slash] >= 1
         /\ MCounts(MRest(ww, p)) \in [Mheads -> Nat]
         /\ \A q \in Procs \ {p} : \A c \in Chans :
              Times(c, Hold(ww[q], ss[q])) >= 1 => Counts(h.fd, Rest(ww, ss, p))[c] >= 1
<1>1. Procs \ {p} \in SUBSET Procs
  OBVIOUS
<1>2. /\ Family(Rest(ww, ss, p), Procs \ {p}, OrNone(Chans))
      /\ Family(MRest(ww, p), Procs \ {p}, OrNone(Mheads))
  BY <1>1, HoldsFamily DEF Rest, MRest
<1>3. /\ Counts(h.fd, Rest(ww, ss, p)) \in [Chans -> Nat]
      /\ Counts(h.fd, Rest(ww, ss, p))[Slash] >= 1
      /\ \A c \in Chans : Uses(Rest(ww, ss, p), c) >= 1 => Counts(h.fd, Rest(ww, ss, p))[c] >= 1
  BY <1>2, CountsType
<1>4. MCounts(MRest(ww, p)) \in [Mheads -> Nat]
  BY <1>2, MCountsType
<1>5. ASSUME NEW q \in Procs \ {p}, NEW c \in Chans, Times(c, Hold(ww[q], ss[q])) >= 1
      PROVE  Counts(h.fd, Rest(ww, ss, p))[c] >= 1
  <2>1. Rest(ww, ss, p)[q] = Hold(ww[q], ss[q])
    BY DEF Rest, Holds
  <2>2. Uses(Rest(ww, ss, p), c) >= Times(c, Rest(ww, ss, p)[q])
    BY <1>2, UsesSome
  <2>3. Uses(Rest(ww, ss, p), c) \in Nat /\ Times(c, Hold(ww[q], ss[q])) \in Nat
    <3>1. Hold(ww[q], ss[q]) \in Seq(OrNone(Chans))
      BY HoldIs DEF Typed
    <3>2. QED
      BY <1>2, <3>1, UsesType, AtIs
  <2>4. Uses(Rest(ww, ss, p), c) >= 1
    BY <1>5, <2>1, <2>2, <2>3
  <2>5. QED
    BY <1>3, <2>4
<1>6. QED
  BY <1>3, <1>4, <1>5

-----------------------------------------------------------------------------
(* a step of p alone: the others are as they were, but for calm *)
Alike(ww, ss, w2, s2, p) ==
  /\ DOMAIN w2 = Procs /\ DOMAIN s2 = Procs
  /\ \A q \in Procs \ {p} :
       /\ s2[q] = ss[q] /\ DOMAIN w2[q] = DOMAIN ww[q]
       /\ \A x \in WFields \ {"calm"} : w2[q][x] = ww[q][x]

(* then they hold what they held *)
LEMMA AlikeHold ==
  ASSUME NEW ww, NEW ss, NEW w2, NEW s2, NEW p \in Procs, Alike(ww, ss, w2, s2, p)
  PROVE  /\ Rest(w2, s2, p) = Rest(ww, ss, p) /\ MRest(w2, p) = MRest(ww, p)
         /\ \A q \in Procs \ {p} : NotOpen(w2[q]) = NotOpen(ww[q]) /\ Hold(w2[q], s2[q]) = Hold(ww[q], ss[q])
<1>1. \A q \in Procs \ {p} :
        /\ w2[q].c = ww[q].c /\ w2[q].start = ww[q].start /\ w2[q].nc = ww[q].nc
        /\ w2[q].path = ww[q].path /\ w2[q].got = ww[q].got /\ w2[q].pc = ww[q].pc
        /\ w2[q].mh = ww[q].mh /\ w2[q].nmh = ww[q].nmh /\ w2[q].mode = ww[q].mode
        /\ s2[q] = ss[q]
  BY DEF Alike, WFields
<1>2. \A q \in Procs \ {p} : Hold(w2[q], s2[q]) = Hold(ww[q], ss[q])
  BY <1>1 DEF Hold
<1>3. \A q \in Procs \ {p} : MHold(w2[q]) = MHold(ww[q])
  BY <1>1 DEF MHold
<1>4. \A q \in Procs \ {p} : NotOpen(w2[q]) = NotOpen(ww[q])
  BY <1>1 DEF NotOpen
<1>5. QED
  BY <1>2, <1>3, <1>4 DEF Rest, MRest, Holds, MHolds

(* what is not opened is held *)
LEMMA NotOpenHeld ==
  ASSUME NEW r, WOK(r), NEW x, SOK(x), NEW i \in DOMAIN NotOpen(r), NotOpen(r)[i] # None
  PROVE  NotOpen(r)[i] \in Chans /\ Times(NotOpen(r)[i], Hold(r, x)) >= 1
<1> DEFINE S == OrNone(Chans)
           d == NotOpen(r)[i]
<1>1. PICK a, b, o, z : /\ a = <<r.start, r.nc>> /\ b = r.path /\ o = r.got
                        /\ z = IF r.pc = "back" /\ r.mode = "Aopen" THEN <<>> ELSE <<r.c>>
  OBVIOUS
<1>2. a \in Seq(S)
  BY <1>1 DEF WOK
<1>3. b \in Seq(S) /\ o \in Seq(S)
  <2>1. r.got \in Seq(Chans) /\ r.path \in Seq(S)
    BY DEF WOK
  <2>2. Chans \subseteq S
    BY DEF OrNone
  <2>3. QED
    BY <1>1, <2>1, <2>2
<1>4. z \in Seq(S)
  <2>1. <<r.c>> \in Seq(S)
    BY DEF WOK
  <2>2. <<>> \in Seq(S)
    OBVIOUS
  <2>3. QED
    BY <1>1, <2>1, <2>2
<1>5. NotOpen(r) = ((z \o a) \o b) \o o
  BY <1>1 DEF NotOpen
<1> HIDE DEF S
<1>6. z \o a \in Seq(S)
  BY <1>2, <1>4, ConcatProperties
<1>7. (z \o a) \o b \in Seq(S)
  BY <1>3, <1>6, ConcatProperties
<1>8. NotOpen(r) \in Seq(S)
  BY <1>3, <1>5, <1>7, ConcatProperties
<1>9. Times(d, NotOpen(r)) > 0
  BY <1>8, TimesSome
<1>10. d \in S
  BY <1>8
<1>11. d \in Chans
  BY <1>10 DEF OrNone, S
<1>12. /\ Times(d, NotOpen(r)) = Times(d, (z \o a) \o b) + Times(d, o)
       /\ Times(d, (z \o a) \o b) = Times(d, z \o a) + Times(d, b)
       /\ Times(d, z \o a) = Times(d, z) + Times(d, a)
  BY <1>2, <1>3, <1>4, <1>5, <1>6, <1>7, TimesConcat
<1>13. Times(d, a) = One(d, r.start) + One(d, r.nc)
  <2>1. PICK a2, a3 : a2 = <<r.start>> /\ a3 = <<r.nc>>
    OBVIOUS
  <2>2. a2 \in Seq(S) /\ a3 \in Seq(S)
    BY <2>1 DEF WOK, S
  <2>3. a = a2 \o a3
    BY <1>1, <2>1
  <2>4. Times(d, a2 \o a3) = Times(d, a2) + Times(d, a3)
    BY <2>2, TimesConcat
  <2>5. QED
    BY <2>1, <2>3, <2>4, TimesOne
<1>14. Times(d, z) = 0 \/ Times(d, z) = One(d, r.c)
  BY <1>1, TimesOne, TimesEmpty
<1>15. Times(d, Hold(r, x)) = One(d, r.c) + One(d, r.start) + One(d, r.nc)
                                + Times(d, r.path) + Times(d, r.got) + One(d, ChanHeld(r, x))
  BY <1>11, HoldIs
<1>16. \A y : One(d, y) \in Nat
  BY DEF One
<1>17. Times(d, b) \in Nat /\ Times(d, o) \in Nat
  BY <1>3, AtIs
<1> HIDE DEF d
<1>18. PICK i1 \in Nat, i2 \in Nat, i3 \in Nat, i4 \in Nat, i5 \in Nat, i6 \in Nat :
         /\ i1 = One(d, r.c) /\ i2 = One(d, r.start) /\ i3 = One(d, r.nc)
         /\ i4 = Times(d, r.path) /\ i5 = Times(d, r.got) /\ i6 = One(d, ChanHeld(r, x))
  BY <1>1, <1>16, <1>17
<1>19. PICK j \in Nat : j = Times(d, z) /\ (j = 0 \/ j = i1)
  BY <1>14, <1>18
<1>20. Times(d, Hold(r, x)) = i1 + i2 + i3 + i4 + i5 + i6
  BY <1>15, <1>18
<1>21. ((j + (i2 + i3)) + i4) + i5 > 0
  BY <1>1, <1>9, <1>12, <1>13, <1>18, <1>19 DEF d
<1>22. i1 + i2 + i3 + i4 + i5 + i6 >= 1
  BY <1>19, <1>21
<1>23. QED
  BY <1>11, <1>20, <1>22 DEF d

-----------------------------------------------------------------------------
(* Eighth part: a step of one process, and the others.                     *)

(* the channels that others than p hold are counted in e *)
Covers(e, ww, ss, p) ==
  \A q \in Procs \ {p} : \A c \in Chans : Times(c, Hold(ww[q], ss[q])) >= 1 => e[c] >= 1

(* those keep the Mhead that they did *)
SameUmh(k, k2, e) == \A c \in Chans : e[c] >= 1 => k2.umh[c] = k.umh[c]

(* the Mheads that others than p cross to are in the table k2 *)
Crossings(k2, ww, p) ==
  \A q \in Procs \ {p} :
    /\ ww[q].pc = "cross" => ww[q].mh \in k2.hashed
    /\ ww[q].pc = "elem" /\ ww[q].nmh # None => ww[q].nmh \in k2.hashed

(* the control of another process *)
LEMMA ControlKept ==
  ASSUME NEW k, NEW k2, NEW n \in Int, NEW n2 \in Int, n <= n2, NEW r, NEW x, NEW r2, Control(k, n, r, x),
         \A f \in WFields \ {"calm"} : r2[f] = r[f],
         r.pc = "cross" => r.mh \in k2.hashed,
         r.pc = "elem" /\ r.nmh # None => r.nmh \in k2.hashed
  PROVE  Control(k2, n2, r2, x)
<1>1. /\ r2.c = r.c /\ r2.start = r.start /\ r2.nc = r.nc /\ r2.path = r.path
      /\ r2.got = r.got /\ r2.pc = r.pc /\ r2.mh = r.mh /\ r2.nmh = r.nmh
      /\ r2.mode = r.mode /\ r2.rest = r.rest /\ r2.n = r.n
  BY DEF WFields
<1>2. Naming(k, r) => Naming(k2, r2)
  BY <1>1 DEF Naming
<1>3. CallIs(r, x) => CallIs(r2, x)
  BY <1>1 DEF CallIs
<1>4. NoName(r) => NoName(r2)
  BY <1>1 DEF NoName
<1>5. Head(x.load).fd \in 0..n - 1 => Head(x.load).fd \in 0..n2 - 1
  OBVIOUS
<1>6. QED
  BY <1>1, <1>2, <1>3, <1>4, <1>5 DEF Control

(* the other processes, when p made a step *)
LEMMA OthersKeep ==
  ASSUME NEW k, NEW h, NEW ww, NEW ss, Inv(k, h, ww, ss), NEW p \in Procs,
         NEW k2, NEW h2, NEW w2, NEW s2, Alike(ww, ss, w2, s2, p),
         GOK(h2), h.nfd <= h2.nfd, NEW e, Covers(e, ww, ss, p), SameUmh(k, k2, e),
         Crossings(k2, ww, p)
  PROVE  \A q \in Procs \ {p} : Proc(k2, h2.nfd, w2[q], s2[q])
<1> TAKE q \in Procs \ {p}
<1>1. WOK(ww[q]) /\ SOK(ss[q]) /\ Control(k, h.nfd, ww[q], ss[q]) /\ Plain(k, NotOpen(ww[q]))
  BY DEF Inv, Proc
<1>2. s2[q] = ss[q] /\ DOMAIN w2[q] = DOMAIN ww[q]
  BY DEF Alike
<1>3. \A f \in WFields \ {"calm"} : w2[q][f] = ww[q][f]
  BY DEF Alike
<1>4. WOK(w2[q])
  <2>1. /\ w2[q].c = ww[q].c /\ w2[q].start = ww[q].start /\ w2[q].nc = ww[q].nc
        /\ w2[q].path = ww[q].path /\ w2[q].got = ww[q].got
        /\ w2[q].mh = ww[q].mh /\ w2[q].nmh = ww[q].nmh /\ w2[q].rest = ww[q].rest
    BY <1>3 DEF WFields
  <2>2. QED
    BY <1>1, <1>2, <2>1 DEF WOK
<1>5. SOK(s2[q])
  BY <1>1, <1>2
<1>6. Control(k2, h2.nfd, w2[q], s2[q])
  <2>1. h.nfd \in Int /\ h2.nfd \in Int
    BY DEF Inv, GOK
  <2>2. /\ ww[q].pc = "cross" => ww[q].mh \in k2.hashed
        /\ ww[q].pc = "elem" /\ ww[q].nmh # None => ww[q].nmh \in k2.hashed
    BY DEF Crossings
  <2>3. Control(k2, h2.nfd, w2[q], ss[q])
    BY <1>1, <1>3, <2>1, <2>2, ControlKept
  <2>4. QED
    BY <1>2, <2>3
<1>7. Plain(k2, NotOpen(w2[q]))
  <2>1. NotOpen(w2[q]) = NotOpen(ww[q])
    BY AlikeHold
  <2>2. PICK no : no = NotOpen(ww[q])
    OBVIOUS
  <2>3. ASSUME NEW i \in DOMAIN no, no[i] # None
        PROVE  k2.umh[no[i]] = None
    <3>1. no[i] \in Chans /\ Times(no[i], Hold(ww[q], ss[q])) >= 1
      BY <1>1, <2>2, <2>3, NotOpenHeld
    <3>2. e[no[i]] >= 1
      BY <3>1 DEF Covers
    <3>3. k2.umh[no[i]] = k.umh[no[i]]
      BY <3>1, <3>2 DEF SameUmh
    <3>4. k.umh[no[i]] = None
      BY <1>1, <2>2, <2>3 DEF Plain
    <3>5. QED
      BY <3>3, <3>4
  <2>4. QED
    BY <2>1, <2>2, <2>3 DEF Plain
<1>8. QED
  BY <1>4, <1>5, <1>6, <1>7 DEF Proc

(* the invariant, when p made a step *)
LEMMA StepKeeps ==
  ASSUME NEW k, NEW h, NEW ww, NEW ss, Inv(k, h, ww, ss), NEW p \in Procs,
         NEW k2, NEW h2, NEW w2, NEW s2, Alike(ww, ss, w2, s2, p),
         GOK(h2), h.nfd <= h2.nfd, NEW e, Covers(e, ww, ss, p), SameUmh(k, k2, e),
         Crossings(k2, ww, p), Mounted(k2), Proc(k2, h2.nfd, w2[p], s2[p]),
         Bal(k2, Plus(Counts(h2.fd, Rest(ww, ss, p)), Hold(w2[p], s2[p])),
             MPlus(MCounts(MRest(ww, p)), MHold(w2[p])))
  PROVE  Inv(k2, h2, w2, s2)
<1>1. \A q \in Procs : Proc(k2, h2.nfd, w2[q], s2[q])
  <2>1. \A q \in Procs \ {p} : Proc(k2, h2.nfd, w2[q], s2[q])
    BY OthersKeep
  <2>2. QED
    BY <2>1
<1>2. Typed(w2, s2)
  BY <1>1 DEF Typed, Proc
<1>3. Rest(w2, s2, p) = Rest(ww, ss, p) /\ MRest(w2, p) = MRest(ww, p)
  BY AlikeHold
<1>4. /\ Counts(h2.fd, Holds(w2, s2, Procs))
           = Plus(Counts(h2.fd, Rest(w2, s2, p)), Hold(w2[p], s2[p]))
      /\ MCounts(MHolds(w2, Procs)) = MPlus(MCounts(MRest(w2, p)), MHold(w2[p]))
  BY <1>2, CallsSplit
<1>5. Bal(k2, Counts(h2.fd, Holds(w2, s2, Procs)), MCounts(MHolds(w2, Procs)))
  BY <1>3, <1>4
<1>6. DOMAIN w2 = Procs /\ DOMAIN s2 = Procs
  BY DEF Alike
<1>7. QED
  BY <1>1, <1>5, <1>6 DEF Inv

(* what a call on a descriptor holds, counts *)
LEMMA ChanCounts ==
  ASSUME NEW r, WOK(r), NEW x, SOK(x), r.pc # "fdclose", x.chan \in Chans
  PROVE  Times(x.chan, Hold(r, x)) >= 1
<1>1. PICK d \in Chans : d = x.chan
  OBVIOUS
<1>2. ChanHeld(r, x) = d
  BY <1>1 DEF ChanHeld
<1>3. Times(d, Hold(r, x)) = One(d, r.c) + One(d, r.start) + One(d, r.nc)
                                + Times(d, r.path) + Times(d, r.got) + One(d, d)
  BY <1>2, HoldIs
<1>4. \A y : One(d, y) \in Nat
  BY DEF One
<1>5. One(d, d) = 1
  BY DEF One
<1>6. Times(d, r.path) \in Nat /\ Times(d, r.got) \in Nat
  BY AtIs DEF WOK
<1>7. PICK i1 \in Nat, i2 \in Nat, i3 \in Nat, i4 \in Nat, i5 \in Nat :
         /\ i1 = One(d, r.c) /\ i2 = One(d, r.start) /\ i3 = One(d, r.nc)
         /\ i4 = Times(d, r.path) /\ i5 = Times(d, r.got)
  BY <1>4, <1>6
<1>8. i1 + i2 + i3 + i4 + i5 + 1 >= 1
  OBVIOUS
<1>9. QED
  BY <1>1, <1>3, <1>5, <1>7, <1>8

(* the writes of others, when p does something else *)
LEMMA WritesKeep ==
  ASSUME NEW k, NEW h, NEW ww, NEW ss, Inv(k, h, ww, ss), WritesOK(k, ww, ss), NEW p \in Procs,
         NEW k2, NEW w2, NEW s2, Alike(ww, ss, w2, s2, p), w2[p].pc # "devwrite",
         NEW e, Covers(e, ww, ss, p), Same(k, k2, e)
  PROVE  WritesOK(k2, w2, s2)
<1>1. ASSUME NEW q \in Procs, NEW c \in Chans, Under(k2, w2[q], s2[q], c)
      PROVE  /\ Under(k, ww[q], ss[q], c) /\ s2[q] = ss[q] /\ k2.offset[c] = k.offset[c]
  <2>1. q # p /\ w2[q].pc = "devwrite" /\ s2[q].chan = c /\ c \notin k2.moved
    BY <1>1 DEF Under
  <2>2. s2[q] = ss[q] /\ w2[q].pc = ww[q].pc
    BY <2>1 DEF Alike, WFields
  <2>3. Times(c, Hold(ww[q], ss[q])) >= 1
    <3>1. WOK(ww[q]) /\ SOK(ss[q])
      BY DEF Inv, Proc
    <3>2. ss[q].chan = c /\ ww[q].pc # "fdclose"
      BY <2>1, <2>2
    <3>3. QED
      BY <3>1, <3>2, ChanCounts
  <2>4. e[c] >= 1
    BY <2>1, <2>3 DEF Covers
  <2>5. k2.offset[c] = k.offset[c] /\ c \notin k.moved
    BY <2>1, <2>4 DEF Same
  <2>6. QED
    BY <2>1, <2>2, <2>5 DEF Under
<1>2. ASSUME NEW q1 \in Procs, NEW q2 \in Procs, NEW c \in Chans, q1 # q2,
             Under(k2, w2[q1], s2[q1], c), Under(k2, w2[q2], s2[q2], c)
      PROVE  s2[q1].off + s2[q1].n <= s2[q2].off \/ s2[q2].off + s2[q2].n <= s2[q1].off
  <2>1. /\ Under(k, ww[q1], ss[q1], c) /\ s2[q1] = ss[q1]
        /\ Under(k, ww[q2], ss[q2], c) /\ s2[q2] = ss[q2]
    BY <1>1, <1>2
  <2>2. ss[q1].off + ss[q1].n <= ss[q2].off \/ ss[q2].off + ss[q2].n <= ss[q1].off
    BY <1>2, <2>1 DEF WritesOK
  <2>3. QED
    BY <2>1, <2>2
<1>3. ASSUME NEW q \in Procs, NEW c \in Chans, Under(k2, w2[q], s2[q], c)
      PROVE  s2[q].off + s2[q].n <= k2.offset[c]
  <2>1. Under(k, ww[q], ss[q], c) /\ s2[q] = ss[q] /\ k2.offset[c] = k.offset[c]
    BY <1>1, <1>3
  <2>2. ss[q].off + ss[q].n <= k.offset[c]
    BY <2>1 DEF WritesOK
  <2>3. QED
    BY <2>1, <2>2
<1>4. QED
  BY <1>2, <1>3 DEF WritesOK

-----------------------------------------------------------------------------
(* Ninth part: the steps of a name.                                        *)

(* what is counted besides what the walk of p has *)
Base(h, ww, ss, p) ==
  Plus(Plus(Counts(h.fd, Rest(ww, ss, p)), <<ChanHeld(ww[p], ss[p])>>), ww[p].got)
MBase(ww, p) == MCounts(MRest(ww, p))

(* the tables before a step *)
LEMMA NameStart ==
  ASSUME NEW k, NEW h, NEW ww, NEW ss, Inv(k, h, ww, ss), NEW p \in Procs
  PROVE  /\ Base(h, ww, ss, p) \in [Chans -> Nat] /\ Base(h, ww, ss, p)[Slash] >= 1
         /\ MBase(ww, p) \in [Mheads -> Nat]
         /\ Covers(Base(h, ww, ss, p), ww, ss, p)
         /\ Bal(k, Adds(Base(h, ww, ss, p), ww[p].c, ww[p].start, ww[p].nc, ww[p].path),
                MAdds(MBase(ww, p), ww[p].mh, ww[p].nmh))
<1>1. Typed(ww, ss) /\ GOK(h) /\ WOK(ww[p]) /\ SOK(ss[p])
  BY DEF Inv, Typed, Proc
<1>2. PICK e : e = Counts(h.fd, Rest(ww, ss, p))
  OBVIOUS
<1>3. /\ e \in [Chans -> Nat] /\ e[Slash] >= 1 /\ MBase(ww, p) \in [Mheads -> Nat]
      /\ \A q \in Procs \ {p} : \A c \in Chans : Times(c, Hold(ww[q], ss[q])) >= 1 => e[c] >= 1
  BY <1>1, <1>2, RestType DEF MBase
<1>4. PICK b : b = Base(h, ww, ss, p)
  OBVIOUS
<1>5. /\ b \in [Chans -> Nat] /\ \A d \in Chans : b[d] >= e[d]
      /\ Plus(e, Hold(ww[p], ss[p])) = Adds(b, ww[p].c, ww[p].start, ww[p].nc, ww[p].path)
  BY <1>1, <1>2, <1>3, <1>4, PlusHold DEF Base
<1>6. MPlus(MBase(ww, p), MHold(ww[p])) = MAdds(MBase(ww, p), ww[p].mh, ww[p].nmh)
  BY <1>3, MPlusHold
<1>7. Bal(k, Counts(h.fd, Holds(ww, ss, Procs)), MCounts(MHolds(ww, Procs)))
  BY DEF Inv
<1>8. /\ Counts(h.fd, Holds(ww, ss, Procs)) = Plus(e, Hold(ww[p], ss[p]))
      /\ MCounts(MHolds(ww, Procs)) = MPlus(MBase(ww, p), MHold(ww[p]))
  BY <1>1, <1>2, CallsSplit DEF MBase
<1>9. Bal(k, Adds(b, ww[p].c, ww[p].start, ww[p].nc, ww[p].path),
          MAdds(MBase(ww, p), ww[p].mh, ww[p].nmh))
  BY <1>5, <1>6, <1>7, <1>8
<1>10. \A d \in Chans : e[d] >= 1 => b[d] >= 1
  <2>1. \A d \in Chans : b[d] \in Nat /\ e[d] \in Nat /\ b[d] >= e[d]
    BY <1>3, <1>5
  <2>2. QED
    BY <2>1
<1>11. b[Slash] >= 1
  <2>1. Slash \in Chans
    BY ChansAre DEF Slash
  <2>2. QED
    BY <2>1, <1>3, <1>10
<1>12. Covers(b, ww, ss, p)
  BY <1>3, <1>10 DEF Covers
<1>13. QED
  BY <1>3, <1>4, <1>5, <1>9, <1>11, <1>12

(* the mounts are the same: what others cross to is in the table *)
LEMMA CrossingsKept ==
  ASSUME NEW k, NEW h, NEW ww, NEW ss, Inv(k, h, ww, ss), NEW p \in Procs, NEW k2,
         k.hashed \subseteq k2.hashed
  PROVE  Crossings(k2, ww, p)
<1>1. ASSUME NEW q \in Procs \ {p}
      PROVE  /\ ww[q].pc = "cross" => ww[q].mh \in k.hashed
             /\ ww[q].pc = "elem" /\ ww[q].nmh # None => ww[q].nmh \in k.hashed
  <2>1. Control(k, h.nfd, ww[q], ss[q])
    BY DEF Inv, Proc
  <2>2. ww[q].pc \in {"cross", "elem"} => Naming(k, ww[q])
    BY <2>1 DEF Control, NamePC
  <2>3. QED
    BY <2>2 DEF Naming
<1>2. QED
  BY <1>1 DEF Crossings

(* the invariant after a step *)
LEMMA NameEnd ==
  ASSUME NEW k, NEW h, NEW ww, NEW ss, Inv(k, h, ww, ss), WritesOK(k, ww, ss), NEW p \in Procs,
         NEW k2, NEW w2, NEW s2, Alike(ww, ss, w2, s2, p), s2[p] = ss[p],
         ww[p].pc \in NamePC, w2[p].pc \in NamePC, w2[p].got = ww[p].got,
         w2[p].mode = ww[p].mode, WOK(w2[p]), Naming(k2, w2[p]), Plain(k2, NotOpen(w2[p])),
         Same(k, k2, Base(h, ww, ss, p)), SameMounts(k, k2),
         Bal(k2, Adds(Base(h, ww, ss, p), w2[p].c, w2[p].start, w2[p].nc, w2[p].path),
             MAdds(MBase(ww, p), w2[p].mh, w2[p].nmh))
  PROVE  Inv(k2, h, w2, s2) /\ WritesOK(k2, w2, s2)
<1>1. Typed(ww, ss) /\ GOK(h) /\ WOK(ww[p]) /\ SOK(ss[p]) /\ Control(k, h.nfd, ww[p], ss[p])
  BY DEF Inv, Typed, Proc
<1>2. CallIs(ww[p], ss[p]) /\ ss[p].chan = None
  BY <1>1 DEF Control
<1>3. ChanHeld(ww[p], ss[p]) = ChanHeld(w2[p], s2[p])
  BY DEF ChanHeld, NamePC
<1>4. CallIs(w2[p], s2[p])
  BY <1>2 DEF CallIs
<1>5. Control(k2, h.nfd, w2[p], s2[p])
  <2>1. w2[p].pc # "idle" /\ w2[p].pc # "fdclose" /\ w2[p].pc \notin FdPC
    BY DEF NamePC, FdPC
  <2>2. QED
    BY <1>2, <1>4, <2>1 DEF Control
<1>6. Proc(k2, h.nfd, w2[p], s2[p])
  BY <1>1, <1>5 DEF Proc
<1>7. /\ Counts(h.fd, Rest(ww, ss, p)) \in [Chans -> Nat] /\ MBase(ww, p) \in [Mheads -> Nat]
  BY <1>1, RestType DEF MBase
<1>8. PICK e : e = Counts(h.fd, Rest(ww, ss, p))
  OBVIOUS
<1>9. Plus(e, Hold(w2[p], s2[p]))
        = Adds(Plus(Plus(e, <<ChanHeld(w2[p], s2[p])>>), w2[p].got), w2[p].c, w2[p].start, w2[p].nc, w2[p].path)
  <2>1. SOK(s2[p]) /\ e \in [Chans -> Nat]
    BY <1>1, <1>7, <1>8
  <2>2. QED
    BY <2>1, PlusHold
<1>10. Plus(Plus(e, <<ChanHeld(w2[p], s2[p])>>), w2[p].got) = Base(h, ww, ss, p)
  BY <1>3, <1>8 DEF Base
<1>11. MPlus(MBase(ww, p), MHold(w2[p])) = MAdds(MBase(ww, p), w2[p].mh, w2[p].nmh)
  BY <1>7, MPlusHold
<1>12. Bal(k2, Plus(Counts(h.fd, Rest(ww, ss, p)), Hold(w2[p], s2[p])),
           MPlus(MCounts(MRest(ww, p)), MHold(w2[p])))
  BY <1>8, <1>9, <1>10, <1>11 DEF MBase
<1>13. Crossings(k2, ww, p)
  BY CrossingsKept DEF SameMounts
<1>14. Mounted(k2)
  BY DEF Inv, Mounted, SameMounts
<1>15. PICK b : b = Base(h, ww, ss, p)
  OBVIOUS
<1>16. Covers(b, ww, ss, p) /\ SameUmh(k, k2, b) /\ Same(k, k2, b)
  BY <1>15, NameStart DEF Same, SameUmh
<1>17. h.nfd <= h.nfd
  BY <1>1 DEF GOK
<1>18. Inv(k2, h, w2, s2)
  BY <1>1, <1>6, <1>12, <1>13, <1>14, <1>16, <1>17, StepKeeps
<1>19. w2[p].pc # "devwrite"
  BY DEF NamePC
<1>20. WritesOK(k2, w2, s2)
  BY <1>16, <1>19, WritesKeep
<1>21. QED
  BY <1>18, <1>20

-----------------------------------------------------------------------------
(* c, if it is a channel, keeps no Mhead *)
PlainOne(k, c) == c # None => k.umh[c] = None

(* what is not opened, one by one *)
LEMMA PlainIs ==
  ASSUME NEW k, NEW r, WOK(r)
  PROVE  Plain(k, NotOpen(r)) <=>
           /\ ~ (r.pc = "back" /\ r.mode = "Aopen") => PlainOne(k, r.c)
           /\ PlainOne(k, r.start) /\ PlainOne(k, r.nc)
           /\ Plain(k, r.path) /\ Plain(k, r.got)
<1>1. ASSUME NEW S, NEW a \in Seq(S), NEW b \in Seq(S)
      PROVE  Plain(k, a \o b) <=> Plain(k, a) /\ Plain(k, b)
  <2>1. PICK i \in Nat, j \in Nat : i = Len(a) /\ j = Len(b)
    BY <1>1
  <2>2. DOMAIN a = 1..i /\ DOMAIN b = 1..j
    BY <1>1, <2>1
  <2>3. PICK z : z = a \o b
    OBVIOUS
  <2>4. /\ z \in Seq(S) /\ Len(z) = i + j /\ DOMAIN z = 1..i + j
        /\ \A n \in 1..i + j : z[n] = IF n <= i THEN a[n] ELSE b[n - i]
    <3>1. /\ Len(z) = i + j /\ z \in Seq(S)
          /\ \A n \in 1..i + j : z[n] = IF n <= i THEN a[n] ELSE b[n - i]
      BY <1>1, <2>1, <2>3, ConcatProperties
    <3>2. QED
      BY <3>1
  <2>5. ASSUME Plain(k, z) PROVE Plain(k, a) /\ Plain(k, b)
    <3>1. \A n \in 1..i : n \in 1..i + j /\ z[n] = a[n]
      BY <2>4
    <3>2. \A n \in 1..j : n + i \in 1..i + j /\ z[n + i] = b[n]
      <4> TAKE n \in 1..j
      <4>1. n + i \in 1..i + j /\ ~(n + i <= i) /\ (n + i) - i = n
        OBVIOUS
      <4>2. QED
        BY <2>4, <4>1
    <3>3. Plain(k, a)
      BY <2>2, <2>4, <2>5, <3>1 DEF Plain
    <3>4. Plain(k, b)
      BY <2>2, <2>4, <2>5, <3>2 DEF Plain
    <3>5. QED
      BY <3>3, <3>4
  <2>6. ASSUME Plain(k, a), Plain(k, b) PROVE Plain(k, z)
    <3>1. ASSUME NEW n \in 1..i + j, z[n] # None PROVE k.umh[z[n]] = None
      <4>1. CASE n <= i
        <5>1. n \in 1..i /\ z[n] = a[n]
          BY <2>4, <4>1
        <5>2. QED
          BY <2>2, <2>6, <3>1, <5>1 DEF Plain
      <4>2. CASE ~(n <= i)
        <5>1. n - i \in 1..j
          BY <4>2
        <5>2. z[n] = b[n - i]
          BY <2>4, <4>2
        <5>3. QED
          BY <2>2, <2>6, <3>1, <5>1, <5>2 DEF Plain
      <4>3. QED
        BY <4>1, <4>2
    <3>2. QED
      BY <2>4, <3>1 DEF Plain
  <2>7. QED
    BY <2>3, <2>5, <2>6
<1> DEFINE S == OrNone(Chans)
<1>2. PICK a, b, o, z : /\ a = <<r.start, r.nc>> /\ b = r.path /\ o = r.got
                        /\ z = IF r.pc = "back" /\ r.mode = "Aopen" THEN <<>> ELSE <<r.c>>
  OBVIOUS
<1>3. a \in Seq(S)
  BY <1>2 DEF WOK
<1>4. b \in Seq(S) /\ o \in Seq(S)
  <2>1. r.got \in Seq(Chans) /\ r.path \in Seq(S)
    BY DEF WOK
  <2>2. Chans \subseteq S
    BY DEF OrNone
  <2>3. QED
    BY <1>2, <2>1, <2>2
<1>5. z \in Seq(S)
  <2>1. <<r.c>> \in Seq(S)
    BY DEF WOK
  <2>2. <<>> \in Seq(S)
    OBVIOUS
  <2>3. QED
    BY <1>2, <2>1, <2>2
<1>6. NotOpen(r) = ((z \o a) \o b) \o o
  BY <1>2 DEF NotOpen
<1> HIDE DEF S
<1>7. z \o a \in Seq(S)
  BY <1>3, <1>5, ConcatProperties
<1>8. (z \o a) \o b \in Seq(S)
  BY <1>4, <1>7, ConcatProperties
<1>9. Plain(k, NotOpen(r)) <=> ((Plain(k, z) /\ Plain(k, a)) /\ Plain(k, b)) /\ Plain(k, o)
  <2>1. Plain(k, ((z \o a) \o b) \o o) <=> Plain(k, (z \o a) \o b) /\ Plain(k, o)
    BY <1>1, <1>4, <1>8
  <2>2. Plain(k, (z \o a) \o b) <=> Plain(k, z \o a) /\ Plain(k, b)
    BY <1>1, <1>4, <1>7
  <2>3. Plain(k, z \o a) <=> Plain(k, z) /\ Plain(k, a)
    BY <1>1, <1>3, <1>5
  <2>4. QED
    BY <1>6, <2>1, <2>2, <2>3
<1>10. Plain(k, a) <=> PlainOne(k, r.start) /\ PlainOne(k, r.nc)
  <2>1. DOMAIN a = {1, 2} /\ a[1] = r.start /\ a[2] = r.nc
    BY <1>2
  <2>2. QED
    BY <2>1 DEF Plain, PlainOne
<1>11. Plain(k, z) <=> (~ (r.pc = "back" /\ r.mode = "Aopen") => PlainOne(k, r.c))
  <2>1. CASE r.pc = "back" /\ r.mode = "Aopen"
    BY <1>2, <2>1 DEF Plain
  <2>2. CASE ~ (r.pc = "back" /\ r.mode = "Aopen")
    <3>1. DOMAIN z = {1} /\ z[1] = r.c
      BY <1>2, <2>2
    <3>2. QED
      BY <2>2, <3>1 DEF Plain, PlainOne
  <2>3. QED
    BY <2>1, <2>2
<1>12. QED
  BY <1>2, <1>9, <1>10, <1>11

(* those that are kept, keep what they did *)
LEMMA PlainKept ==
  ASSUME NEW k, NEW k2, NEW e, Same(k, k2, e), NEW q \in Seq(OrNone(Chans)), Plain(k, q),
         \A c \in Chans : Times(c, q) >= 1 => e[c] >= 1
  PROVE  Plain(k2, q)
<1>1. ASSUME NEW i \in DOMAIN q, q[i] # None PROVE k2.umh[q[i]] = None
  <2>1. q[i] \in Chans
    BY <1>1 DEF OrNone
  <2>2. Times(q[i], q) > 0 /\ Times(q[i], q) \in Nat
    BY <1>1, TimesSome, AtIs
  <2>3. e[q[i]] >= 1
    BY <2>1, <2>2
  <2>4. QED
    BY <1>1, <2>1, <2>3 DEF Same, Plain
<1>2. QED
  BY <1>1 DEF Plain

(* when these are kept, they are plain as before, and so are the others *)
LEMMA SameAdds ==
  ASSUME NEW e \in [Chans -> Nat], NEW c, NEW start, NEW nc, NEW path \in Seq(OrNone(Chans)),
         NEW k, NEW k2, Same(k, k2, Adds(e, c, start, nc, path))
  PROVE  /\ Same(k, k2, e)
         /\ c \in OrNone(Chans) /\ PlainOne(k, c) => PlainOne(k2, c)
         /\ start \in OrNone(Chans) /\ PlainOne(k, start) => PlainOne(k2, start)
         /\ nc \in OrNone(Chans) /\ PlainOne(k, nc) => PlainOne(k2, nc)
         /\ Plain(k, path) => Plain(k2, path)
<1>1. PICK a : a = Adds(e, c, start, nc, path)
  OBVIOUS
<1>2. \A d \in Chans :
        /\ a[d] = e[d] + One(d, c) + One(d, start) + One(d, nc) + Times(d, path)
        /\ e[d] \in Nat /\ One(d, c) \in Nat /\ One(d, start) \in Nat /\ One(d, nc) \in Nat
        /\ Times(d, path) \in Nat
  BY <1>1, AddsType, AtIs DEF One
<1>3. ASSUME NEW d \in Chans
      PROVE  /\ e[d] >= 1 => a[d] >= 1
             /\ d = c \/ d = start \/ d = nc => a[d] >= 1
             /\ Times(d, path) >= 1 => a[d] >= 1
  <2>1. PICK n \in Nat, i \in Nat, j \in Nat, m \in Nat, l \in Nat :
          /\ n = e[d] /\ i = One(d, c) /\ j = One(d, start) /\ m = One(d, nc)
          /\ l = Times(d, path)
    BY <1>2
  <2>2. a[d] = n + i + j + m + l
    BY <1>2, <2>1
  <2>3. (d = c => i = 1) /\ (d = start => j = 1) /\ (d = nc => m = 1)
    BY <2>1 DEF One
  <2>4. e[d] >= 1 => a[d] >= 1
    <3>1. n >= 1 => n + i + j + m + l >= 1
      OBVIOUS
    <3>2. QED
      BY <2>1, <2>2, <3>1
  <2>5. d = c \/ d = start \/ d = nc => a[d] >= 1
    <3>1. i = 1 \/ j = 1 \/ m = 1 => n + i + j + m + l >= 1
      OBVIOUS
    <3>2. QED
      BY <2>2, <2>3, <3>1
  <2>6. Times(d, path) >= 1 => a[d] >= 1
    <3>1. l >= 1 => n + i + j + m + l >= 1
      OBVIOUS
    <3>2. QED
      BY <2>1, <2>2, <3>1
  <2>7. QED
    BY <2>4, <2>5, <2>6
<1>4. Same(k, k2, a)
  BY <1>1
<1>5. Same(k, k2, e)
  BY <1>3, <1>4 DEF Same
<1>6. ASSUME NEW x \in OrNone(Chans), x = c \/ x = start \/ x = nc, PlainOne(k, x)
      PROVE  PlainOne(k2, x)
  BY <1>3, <1>4, <1>6 DEF PlainOne, Same, OrNone
<1>7. Plain(k, path) => Plain(k2, path)
  <2>1. \A d \in Chans : Times(d, path) >= 1 => a[d] >= 1
    BY <1>3
  <2>2. QED
    BY <1>4, <2>1, PlainKept
<1>8. QED
  BY <1>5, <1>6, <1>7

(* and so are those that the calls before got *)
LEMMA SameBase ==
  ASSUME NEW k, NEW h, NEW ww, NEW ss, Inv(k, h, ww, ss), NEW p \in Procs, NEW k2,
         Same(k, k2, Base(h, ww, ss, p)), Plain(k, ww[p].got)
  PROVE  Plain(k2, ww[p].got)
<1>1. Typed(ww, ss) /\ GOK(h) /\ WOK(ww[p]) /\ SOK(ss[p])
  BY DEF Inv, Typed, Proc
<1>2. Counts(h.fd, Rest(ww, ss, p)) \in [Chans -> Nat]
  BY <1>1, RestType
<1>3. PICK e : e = Plus(Counts(h.fd, Rest(ww, ss, p)), <<ChanHeld(ww[p], ss[p])>>)
  OBVIOUS
<1>4. e \in [Chans -> Nat]
  BY <1>2, <1>3, PlusOne
<1>5. PICK b, q : b = Base(h, ww, ss, p) /\ q = ww[p].got
  OBVIOUS
<1>6. b = Plus(e, q)
  BY <1>3, <1>5 DEF Base
<1>7. q \in Seq(Chans)
  BY <1>1, <1>5 DEF WOK
<1>8. q \in Seq(OrNone(Chans))
  BY <1>7 DEF OrNone
<1>9. \A c \in Chans : b[c] = e[c] + Times(c, q)
  BY <1>4, <1>6, <1>7, PlusType
<1>10. \A c \in Chans : e[c] \in Nat /\ Times(c, q) \in Nat
  BY <1>4, <1>7, AtIs
<1>11. \A c \in Chans : Times(c, q) >= 1 => b[c] >= 1
  BY <1>9, <1>10
<1>12. Same(k, k2, b) /\ Plain(k, q)
  BY <1>5
<1>13. Plain(k2, q)
  BY <1>8, <1>11, <1>12, PlainKept
<1>14. QED
  BY <1>5, <1>13

-----------------------------------------------------------------------------
(* Tenth part: the walk of one process, whatever the others have.          *)

(* only counts changed *)
LEMMA ButRefSame ==
  ASSUME NEW k, NEW k2, But("ref", k, k2)
  PROVE  /\ SameMounts(k, k2) /\ \A e : Same(k, k2, e)
         /\ k2.path = k.path /\ k2.umh = k.umh /\ k2.free = k.free /\ k2.file = k.file
<1>1. /\ k2.path = k.path /\ k2.umh = k.umh /\ k2.free = k.free /\ k2.file = k.file
      /\ k2.offset = k.offset /\ k2.moved = k.moved /\ k2.hashed = k.hashed
      /\ k2.mount = k.mount /\ k2.from = k.from
  BY DEF But, TabFields
<1>2. SameMounts(k, k2)
  BY <1>1 DEF SameMounts
<1>3. \A e : Same(k, k2, e)
  BY <1>1 DEF Same
<1>4. QED
  BY <1>1, <1>2, <1>3

(* a Mhead is given back, and nothing else changes *)
LEMMA PutSame ==
  ASSUME NEW k, NEW e, NEW m \in OrNone(Mheads), NEW me \in [Mheads -> Nat],
         Bal(k, e, MPlus(me, <<m>>))
  PROVE  /\ Bal(PutMhead(k, m), e, me)
         /\ SameMounts(k, PutMhead(k, m)) /\ \A x : Same(k, PutMhead(k, m), x)
         /\ PutMhead(k, m).path = k.path /\ PutMhead(k, m).umh = k.umh
         /\ PutMhead(k, m).free = k.free /\ PutMhead(k, m).file = k.file
<1>1. PICK k2 : k2 = PutMhead(k, m)
  OBVIOUS
<1>2. /\ Bal(k2, e, me)
      /\ \A x \in TabFields \ {"mref", "from"} : k2[x] = k[x]
      /\ \A n \in k.hashed : k2.from[n] = k.from[n]
  BY <1>1, PutMheadKeeps
<1>3. /\ k2.path = k.path /\ k2.umh = k.umh /\ k2.free = k.free /\ k2.file = k.file
      /\ k2.offset = k.offset /\ k2.moved = k.moved /\ k2.hashed = k.hashed
      /\ k2.mount = k.mount
  BY <1>2 DEF TabFields
<1>4. SameMounts(k, k2)
  BY <1>2, <1>3 DEF SameMounts
<1>5. \A x : Same(k, k2, x)
  BY <1>3 DEF Same
<1>6. QED
  BY <1>1, <1>2, <1>3, <1>4, <1>5

(* what is not opened, one by one *)
PlainAll(k, r) ==
  /\ ~ (r.pc = "back" /\ r.mode = "Aopen") => PlainOne(k, r.c)
  /\ PlainOne(k, r.start) /\ PlainOne(k, r.nc)
  /\ Plain(k, r.path) /\ Plain(k, r.got)

(* a process in a name has r, and the tables count e and me besides *)
Walks(k, r, e, me) ==
  /\ r.pc \in NamePC /\ WOK(r) /\ Naming(k, r) /\ PlainAll(k, r)
  /\ \A c \in Chans : Times(c, r.got) >= 1 => e[c] >= 1
  /\ e \in [Chans -> Nat] /\ e[Slash] >= 1 /\ me \in [Mheads -> Nat]
  /\ Bal(k, Adds(e, r.c, r.start, r.nc, r.path), MAdds(me, r.mh, r.nmh))

(* and a step of it *)
Turns(k, r, k2, r2, e, me) ==
  /\ Walks(k2, r2, e, me) /\ Same(k, k2, e) /\ SameMounts(k, k2)
  /\ r2.got = r.got /\ r2.mode = r.mode

(* the invariant says so of each process in a name *)
LEMMA WalkOf ==
  ASSUME NEW k, NEW h, NEW ww, NEW ss, Inv(k, h, ww, ss), NEW p \in Procs, ww[p].pc \in NamePC
  PROVE  Walks(k, ww[p], Base(h, ww, ss, p), MBase(ww, p)) /\ Mounted(k)
<1>1. Typed(ww, ss) /\ GOK(h) /\ WOK(ww[p]) /\ SOK(ss[p]) /\ Control(k, h.nfd, ww[p], ss[p])
  BY DEF Inv, Typed, Proc
<1>2. Naming(k, ww[p])
  BY <1>1 DEF Control
<1>3. PlainAll(k, ww[p])
  <2>1. Plain(k, NotOpen(ww[p]))
    BY DEF Inv, Proc
  <2>2. QED
    BY <1>1, <2>1, PlainIs DEF PlainAll
<1>4. Counts(h.fd, Rest(ww, ss, p)) \in [Chans -> Nat]
  BY <1>1, RestType
<1>5. PICK e : e = Plus(Counts(h.fd, Rest(ww, ss, p)), <<ChanHeld(ww[p], ss[p])>>)
  OBVIOUS
<1>6. e \in [Chans -> Nat]
  BY <1>4, <1>5, PlusOne
<1>7. PICK b, q : b = Base(h, ww, ss, p) /\ q = ww[p].got
  OBVIOUS
<1>8. b = Plus(e, q) /\ q \in Seq(Chans)
  BY <1>1, <1>5, <1>7 DEF Base, WOK
<1>9. \A c \in Chans : b[c] = e[c] + Times(c, q)
  BY <1>6, <1>8, PlusType
<1>10. \A c \in Chans : e[c] \in Nat /\ Times(c, q) \in Nat
  BY <1>6, <1>8, AtIs
<1>11. \A c \in Chans : Times(c, q) >= 1 => b[c] >= 1
  BY <1>9, <1>10
<1>12. Mounted(k)
  BY DEF Inv
<1>13. QED
  BY <1>1, <1>2, <1>3, <1>7, <1>11, <1>12, NameStart DEF Walks

(* a turn of one of them keeps the invariant *)
LEMMA TurnKeeps ==
  ASSUME NEW k, NEW h, NEW ww, NEW ss, Inv(k, h, ww, ss), WritesOK(k, ww, ss), NEW p \in Procs,
         NEW k2, NEW w2, NEW s2, Alike(ww, ss, w2, s2, p), s2[p] = ss[p],
         ww[p].pc \in NamePC,
         Turns(k, ww[p], k2, w2[p], Base(h, ww, ss, p), MBase(ww, p))
  PROVE  Inv(k2, h, w2, s2) /\ WritesOK(k2, w2, s2)
<1>1. PICK r2 : r2 = w2[p]
  OBVIOUS
<1>2. WOK(r2) /\ PlainAll(k2, r2)
  BY <1>1 DEF Turns, Walks
<1>3. Plain(k2, NotOpen(r2))
  BY <1>2, PlainIs DEF PlainAll
<1>4. QED
  BY <1>1, <1>3, NameEnd DEF Turns, Walks

(* those that the calls before got stay as they are *)
LEMMA GotKept ==
  ASSUME NEW k, NEW r, NEW e, NEW me, Walks(k, r, e, me), NEW k2, Same(k, k2, e)
  PROVE  Plain(k2, r.got)
<1>1. PICK q : q = r.got
  OBVIOUS
<1>2. q \in Seq(OrNone(Chans)) /\ Plain(k, q)
  <2>1. q \in Seq(Chans)
    BY <1>1 DEF Walks, WOK
  <2>2. Plain(k, q)
    BY <1>1 DEF Walks, PlainAll
  <2>3. QED
    BY <2>1, <2>2 DEF OrNone
<1>3. \A c \in Chans : Times(c, q) >= 1 => e[c] >= 1
  BY <1>1 DEF Walks
<1>4. Plain(k2, q)
  BY <1>2, <1>3, PlainKept
<1>5. QED
  BY <1>1, <1>4

(* what a step makes of w *)
LEMMA DoesIs ==
  ASSUME NEW p \in Procs, DOMAIN w = Procs, DOMAIN w[p] = WFields, NEW f, Does(p, f)
  PROVE  /\ DOMAIN w' = Procs /\ DOMAIN w'[p] = WFields
         /\ \A q \in Procs \ {p} : w'[q] = w[q]
         /\ \A x \in WFields : w'[p][x] = IF x \in DOMAIN f THEN f[x] ELSE w[p][x]
BY DEF Does

(* the others do nothing *)
LEMMA DoesAlike ==
  ASSUME NEW p \in Procs, DOMAIN w = Procs, DOMAIN s = Procs, NEW f, Does(p, f),
         DOMAIN s' = Procs, \A q \in Procs \ {p} : s'[q] = s[q]
  PROVE  Alike(w, s, w', s', p)
BY DEF Alike, Does

(* what a walk gives up, it has counted *)
LEMMA AddsGone ==
  ASSUME NEW e \in [Chans -> Nat], NEW c \in OrNone(Chans), NEW start \in OrNone(Chans),
         NEW path \in Seq(OrNone(Chans))
  PROVE  /\ <<c>> \o path \o <<start>> \in Seq(OrNone(Chans))
         /\ Adds(e, c, start, None, path) = Plus(e, <<c>> \o path \o <<start>>)
<1> DEFINE S == OrNone(Chans)
<1>1. PICK a, b : a = <<c>> /\ b = <<start>>
  OBVIOUS
<1>2. a \in Seq(S) /\ b \in Seq(S) /\ path \in Seq(S)
  BY <1>1
<1> HIDE DEF S
<1>3. a \o path \in Seq(S)
  BY <1>2, ConcatProperties
<1>4. (a \o path) \o b \in Seq(S)
  BY <1>2, <1>3, ConcatProperties
<1>5. ASSUME NEW d \in Chans
      PROVE  Adds(e, c, start, None, path)[d] = e[d] + Times(d, (a \o path) \o b)
  <2>1. Times(d, (a \o path) \o b) = Times(d, a \o path) + Times(d, b)
    BY <1>2, <1>3, TimesConcat
  <2>2. Times(d, a \o path) = Times(d, a) + Times(d, path)
    BY <1>2, TimesConcat
  <2>3. Times(d, a) = One(d, c) /\ Times(d, b) = One(d, start)
    BY <1>1, TimesOne
  <2>4. One(d, None) = 0
    BY ChansAre DEF One
  <2>5. Adds(e, c, start, None, path)[d]
          = e[d] + One(d, c) + One(d, start) + One(d, None) + Times(d, path)
    BY DEF Adds
  <2>6. PICK n \in Nat, i \in Nat, j \in Nat, l \in Nat :
          n = e[d] /\ i = One(d, c) /\ j = One(d, start) /\ l = Times(d, path)
    BY <1>2, AtIs DEF One
  <2>7. n + i + j + 0 + l = n + ((i + l) + j)
    OBVIOUS
  <2>8. QED
    BY <2>1, <2>2, <2>3, <2>4, <2>5, <2>6, <2>7
<1>6. Adds(e, c, start, None, path) = Plus(e, (a \o path) \o b)
  BY <1>5 DEF Adds, Plus
<1>7. QED
  BY <1>1, <1>4, <1>6 DEF S

(* one Mhead that is counted besides *)
LEMMA MAddsIs ==
  ASSUME NEW me \in [Mheads -> Nat]
  PROVE  MAdds(me, None, None) = me /\ \A x : MAdds(me, x, None) = MPlus(me, <<x>>)
<1>1. MAdds(me, None, None) = me
  <2>1. \A m \in Mheads : One(m, None) = 0 /\ me[m] \in Nat
    BY ChansAre DEF One
  <2>2. QED
    BY <2>1 DEF MAdds
<1>2. ASSUME NEW x PROVE MAdds(me, x, None) = MPlus(me, <<x>>)
  <2>1. MAdds(me, x, None) = MPlus(MAdds(me, None, None), <<x>>)
    BY MAddsMh
  <2>2. QED
    BY <1>1, <2>1
<1>3. QED
  BY <1>1, <1>2

(* walk or namec gives up *)
LEMMA UndoTurns ==
  ASSUME NEW p \in Procs, DOMAIN w = Procs, NEW e, NEW me, Walks(t, w[p], e, me),
         w[p].nc = None, w[p].nmh = None, Undo(p, t)
  PROVE  Turns(t, w[p], t', w'[p], e, me)
<1>1. PICK k, r, r2 : k = t /\ r = w[p] /\ r2 = w'[p]
  OBVIOUS
<1>2. Walks(k, r, e, me) /\ r.nc = None /\ r.nmh = None
  BY <1>1
<1>3. WOK(r) /\ e \in [Chans -> Nat] /\ e[Slash] >= 1 /\ me \in [Mheads -> Nat]
  BY <1>2 DEF Walks
<1>4. Bal(k, Adds(e, r.c, r.start, None, r.path), MAdds(me, r.mh, None))
  BY <1>2 DEF Walks
<1>5. MAdds(me, r.mh, None) = MPlus(me, <<r.mh>>) /\ MAdds(me, None, None) = me
  <2>1. me \in [Mheads -> Nat]
    BY <1>3
  <2>2. QED
    BY <2>1, MAddsIs
<1>6. PICK q : q = <<r.c>> \o r.path \o <<r.start>>
  OBVIOUS
<1>7. q \in Seq(OrNone(Chans)) /\ Adds(e, r.c, r.start, None, r.path) = Plus(e, q)
  BY <1>3, <1>6, AddsGone DEF WOK
<1>8. PICK k1 : k1 = PutMhead(k, r.mh)
  OBVIOUS
<1>9. Bal(k1, Plus(e, q), me) /\ SameMounts(k, k1) /\ Same(k, k1, e)
  <2>1. Bal(k, Plus(e, q), MPlus(me, <<r.mh>>))
    BY <1>4, <1>5, <1>7
  <2>2. r.mh \in OrNone(Mheads)
    BY <1>3 DEF WOK
  <2>3. QED
    BY <1>3, <1>8, <2>1, <2>2, PutSame
<1>10. PICK k2 : k2 = CClose(k1, q)
  OBVIOUS
<1>11. Bal(k2, e, me) /\ Same(k1, k2, e) /\ SameMounts(k1, k2)
  BY <1>3, <1>7, <1>9, <1>10, CloseSame
<1>12. Same(k, k2, e) /\ SameMounts(k, k2)
  BY <1>9, <1>11, SameOn
<1>13. t' = k2
  BY <1>1, <1>6, <1>8, <1>10 DEF Undo
<1>14. /\ DOMAIN r2 = WFields /\ r2.pc = "failed" /\ r2.mode = r.mode /\ r2.got = r.got
       /\ r2.c = None /\ r2.start = None /\ r2.nc = None /\ r2.path = <<>>
       /\ r2.mh = None /\ r2.nmh = None /\ r2.rest = <<>>
  <2>1. DOMAIN w[p] = WFields
    BY <1>1, <1>3 DEF WOK
  <2>2. QED
    BY <1>1, <2>1 DEF Undo, Does, Resting, WFields
<1>15. Adds(e, None, None, None, <<>>) = e
  BY <1>3, AddsNone
<1>16. Walks(k2, r2, e, me)
  <2>1. WOK(r2)
    <3>1. r.got \in Seq(Chans)
      BY <1>3 DEF WOK
    <3>2. QED
      BY <1>14, <3>1 DEF WOK, OrNone
  <2>2. Naming(k2, r2)
    BY <1>14 DEF Naming
  <2>3. PlainAll(k2, r2)
    <3>1. Plain(k2, r.got)
      BY <1>2, <1>12, GotKept
    <3>2. QED
      BY <1>14, <3>1 DEF PlainAll, PlainOne, Plain
  <2>4. Bal(k2, Adds(e, r2.c, r2.start, r2.nc, r2.path), MAdds(me, r2.mh, r2.nmh))
    BY <1>5, <1>11, <1>14, <1>15
  <2>5. \A c \in Chans : Times(c, r2.got) >= 1 => e[c] >= 1
    BY <1>2, <1>14 DEF Walks
  <2>6. QED
    BY <1>3, <1>14, <2>1, <2>2, <2>3, <2>4, <2>5 DEF Walks, NamePC
<1>17. QED
  BY <1>1, <1>12, <1>13, <1>14, <1>16 DEF Turns

(* counted besides: the start and the path of a walk *)
LEMMA AddsWalk ==
  ASSUME NEW e \in [Chans -> Nat], e[Slash] >= 1, NEW start \in OrNone(Chans),
         NEW path \in Seq(OrNone(Chans))
  PROVE  /\ Adds(e, None, start, None, path) \in [Chans -> Nat]
         /\ Adds(e, None, start, None, path)[Slash] >= 1
         /\ \A c : Adds(e, c, start, None, path) = Plus(Adds(e, None, start, None, path), <<c>>)
<1>1. PICK a : a = Adds(e, None, start, None, path)
  OBVIOUS
<1>2. a \in [Chans -> Nat] /\ \A d \in Chans : a[d] >= e[d]
  BY <1>1, AddsType
<1>3. Slash \in Chans
  BY ChansAre DEF Slash
<1>4. a[Slash] >= 1
  <2>1. PICK i \in Nat, j \in Nat : i = a[Slash] /\ j = e[Slash]
    BY <1>2, <1>3
  <2>2. i >= j /\ j >= 1
    BY <1>2, <1>3, <2>1
  <2>3. QED
    BY <2>1, <2>2
<1>5. \A c : Adds(e, c, start, None, path) = Plus(Adds(e, None, start, None, path), <<c>>)
  <2> TAKE c
  <2>1. PICK S : path \in Seq(S)
    OBVIOUS
  <2>2. QED
    BY <2>1, AddsC
<1>6. QED
  BY <1>1, <1>2, <1>4, <1>5

(* from a channel to what is mounted on its file (domount) *)
LEMMA CrossTurns ==
  ASSUME NEW p \in Procs, DOMAIN w = Procs, NEW e, NEW me, Walks(t, w[p], e, me), Mounted(t),
         w[p].nc = None, w[p].nmh = None, w[p].c \in Chans, w[p].path # <<>>,
         w[p].rest # <<>> => w[p].start \in Chans,
         w[p].rest = <<>> => w[p].start = None /\ w[p].mode = "Aopen",
         NEW m \in t.hashed, t' = FindMount(t, w[p].c, w[p].mh, m),
         Does(p, [c |-> Head(t.mount[m]), mh |-> m, pc |-> "cross"])
  PROVE  Turns(t, w[p], t', w'[p], e, me)
<1>1. PICK k, r, r2, h : k = t /\ r = w[p] /\ r2 = w'[p] /\ h = Head(t.mount[m])
  OBVIOUS
<1>2. Walks(k, r, e, me) /\ r.nc = None /\ r.nmh = None /\ Mounted(k) /\ m \in k.hashed
  BY <1>1
<1>3. WOK(r) /\ e \in [Chans -> Nat] /\ e[Slash] >= 1 /\ me \in [Mheads -> Nat]
  BY <1>2 DEF Walks
<1>4. PICK a : a = Adds(e, None, r.start, None, r.path)
  OBVIOUS
<1>5. /\ a \in [Chans -> Nat] /\ a[Slash] >= 1
      /\ \A c : Adds(e, c, r.start, None, r.path) = Plus(a, <<c>>)
  <2>1. r.start \in OrNone(Chans) /\ r.path \in Seq(OrNone(Chans))
    BY <1>3 DEF WOK
  <2>2. QED
    BY <1>3, <1>4, <2>1, AddsWalk
<1>6. \A x : MAdds(me, x, None) = MPlus(me, <<x>>)
  BY <1>3, MAddsIs
<1>7. Bal(k, Plus(a, <<r.c>>), MPlus(me, <<r.mh>>))
  <2>1. Bal(k, Adds(e, r.c, r.start, None, r.path), MAdds(me, r.mh, None))
    BY <1>2 DEF Walks
  <2>2. QED
    BY <1>5, <1>6, <2>1
<1>8. PICK k2 : k2 = FindMount(k, r.c, r.mh, m)
  OBVIOUS
<1>9. /\ h \in Chans /\ Bal(k2, Plus(a, <<h>>), MPlus(me, <<m>>))
      /\ Same(k, k2, a) /\ SameMounts(k, k2) /\ k2.umh[h] = None
  <2>1. r.mh \in OrNone(Mheads) /\ r.c \in OrNone(Chans)
    BY <1>3 DEF WOK
  <2>2. h = Head(k.mount[m])
    BY <1>1
  <2>3. QED
    BY <1>2, <1>3, <1>5, <1>7, <1>8, <2>1, <2>2, FindMountKeeps
<1>10. t' = k2
  BY <1>1, <1>8
<1>11. /\ DOMAIN r2 = WFields /\ r2.pc = "cross" /\ r2.mode = r.mode /\ r2.got = r.got
       /\ r2.c = h /\ r2.start = r.start /\ r2.nc = None /\ r2.path = r.path
       /\ r2.mh = m /\ r2.nmh = None /\ r2.rest = r.rest
  <2>1. DOMAIN w[p] = WFields
    BY <1>1, <1>3 DEF WOK
  <2>2. QED
    BY <1>1, <2>1 DEF Does, WFields
<1>12. /\ Same(k, k2, e) /\ PlainOne(k2, r.start) /\ Plain(k2, r.path)
  <2>1. r.start \in OrNone(Chans) /\ r.path \in Seq(OrNone(Chans))
    BY <1>3 DEF WOK
  <2>2. PlainOne(k, r.start) /\ Plain(k, r.path)
    BY <1>2 DEF Walks, PlainAll
  <2>3. QED
    BY <1>3, <1>4, <1>9, <2>1, <2>2, SameAdds
<1>13. Walks(k2, r2, e, me)
  <2>1. WOK(r2)
    <3>1. m \in Mheads
      BY <1>2, <1>7 DEF Bal, TabsOK
    <3>2. QED
      BY <1>3, <1>9, <1>11, <3>1 DEF WOK, OrNone
  <2>2. Naming(k2, r2)
    <3>1. m \in k2.hashed
      BY <1>2, <1>9 DEF SameMounts
    <3>2. QED
      BY <1>1, <1>9, <1>11, <3>1 DEF Naming
  <2>3. PlainAll(k2, r2)
    <3>1. Plain(k2, r.got)
      BY <1>2, <1>12, GotKept
    <3>2. QED
      BY <1>9, <1>11, <1>12, <3>1 DEF PlainAll, PlainOne
  <2>4. Bal(k2, Adds(e, r2.c, r2.start, r2.nc, r2.path), MAdds(me, r2.mh, r2.nmh))
    BY <1>5, <1>6, <1>9, <1>11
  <2>5. \A c \in Chans : Times(c, r2.got) >= 1 => e[c] >= 1
    BY <1>2, <1>11 DEF Walks
  <2>6. QED
    BY <1>3, <1>11, <2>1, <2>2, <2>3, <2>4, <2>5 DEF Walks, NamePC
<1>14. QED
  BY <1>1, <1>9, <1>10, <1>11, <1>12, <1>13 DEF Turns

(* only where the process is changes *)
LEMMA PcTurns ==
  ASSUME NEW p \in Procs, DOMAIN w = Procs, NEW e, NEW me, Walks(t, w[p], e, me), t' = t,
         NEW pc \in NamePC, Does(p, [pc |-> pc]), Naming(t, [w[p] EXCEPT !.pc = pc]),
         pc # "back", w[p].pc # "back"
  PROVE  Turns(t, w[p], t', w'[p], e, me)
<1>1. PICK k, r, r2 : k = t /\ r = w[p] /\ r2 = w'[p]
  OBVIOUS
<1>2. Walks(k, r, e, me)
  BY <1>1
<1>3. WOK(r)
  BY <1>2 DEF Walks
<1>4. /\ DOMAIN r2 = WFields /\ r2.pc = pc /\ r2.mode = r.mode /\ r2.got = r.got
      /\ r2.c = r.c /\ r2.start = r.start /\ r2.nc = r.nc /\ r2.path = r.path
      /\ r2.mh = r.mh /\ r2.nmh = r.nmh /\ r2.rest = r.rest /\ r2.n = r.n
  <2>1. DOMAIN w[p] = WFields
    BY <1>1, <1>3 DEF WOK
  <2>2. QED
    BY <1>1, <2>1 DEF Does, WFields
<1>5. WOK(r2)
  BY <1>3, <1>4 DEF WOK
<1>6. Naming(k, r2)
  <2>1. Naming(k, [r EXCEPT !.pc = pc])
    BY <1>1
  <2>2. DOMAIN r = WFields
    BY <1>3 DEF WOK
  <2>3. PICK r3 : r3 = [r EXCEPT !.pc = pc]
    OBVIOUS
  <2>4. /\ r3.pc = pc /\ r3.mode = r.mode /\ r3.got = r.got
        /\ r3.c = r.c /\ r3.start = r.start /\ r3.nc = r.nc /\ r3.path = r.path
        /\ r3.mh = r.mh /\ r3.nmh = r.nmh /\ r3.rest = r.rest /\ r3.n = r.n
    BY <2>2, <2>3 DEF WFields
  <2>5. Naming(k, r3)
    BY <2>1, <2>3
  <2>6. QED
    BY <1>4, <2>4, <2>5 DEF Naming
<1>7. PlainAll(k, r2)
  BY <1>1, <1>2, <1>4 DEF Walks, PlainAll
<1>8. Walks(k, r2, e, me)
  BY <1>2, <1>4, <1>5, <1>6, <1>7 DEF Walks
<1>9. Same(k, k, e) /\ SameMounts(k, k)
  BY DEF Same, SameMounts
<1>10. QED
  BY <1>1, <1>4, <1>8, <1>9 DEF Turns

(* a place that is looked for in the table is there *)
LEMMA MountedOnIs ==
  ASSUME NEW k, NEW f, NEW m \in MountedOn(k, f)
  PROVE  m \in k.hashed /\ k.file[k.from[m]] = f
BY DEF MountedOn

(* the fields of a process in the middle of a walk *)
LEMMA WalkOnTurns ==
  ASSUME NEW p \in Procs, DOMAIN w = Procs, NEW e, NEW me, Walks(t, w[p], e, me), Mounted(t),
         WalkOn(p)
  PROVE  Turns(t, w[p], t', w'[p], e, me)
<1> DEFINE at == IF Head(w[p].rest) = ".." \/ Nomount(p) \/ w[p].didmount THEN {}
                 ELSE MountedOn(t, t.file[w[p].c])
<1>1. w[p].pc = "walk" /\ w[p].rest # <<>>
  BY DEF WalkOn
<1>2. Naming(t, w[p]) /\ WOK(w[p])
  BY DEF Walks
<1>3. /\ w[p].nc = None /\ w[p].nmh = None /\ w[p].c \in Chans /\ w[p].path # <<>>
      /\ w[p].start \in Chans
  BY <1>1, <1>2 DEF Naming
<1>4. CASE t.file[w[p].c] \notin Dirs
  <2>1. Undo(p, t)
    BY <1>4 DEF WalkOn
  <2>2. QED
    BY <1>3, <2>1, UndoTurns
<1>5. CASE t.file[w[p].c] \in Dirs /\ at = {}
  <2>1. t' = t /\ Does(p, [pc |-> "ewalk"])
    BY <1>5 DEF WalkOn
  <2>2. Naming(t, [w[p] EXCEPT !.pc = "ewalk"])
    <3>1. DOMAIN w[p] = WFields
      BY <1>2 DEF WOK
    <3>2. PICK r, r3 : r = w[p] /\ r3 = [w[p] EXCEPT !.pc = "ewalk"]
      OBVIOUS
    <3>3. /\ r3.pc = "ewalk" /\ r3.mode = r.mode /\ r3.got = r.got
          /\ r3.c = r.c /\ r3.start = r.start /\ r3.nc = r.nc /\ r3.path = r.path
          /\ r3.mh = r.mh /\ r3.nmh = r.nmh /\ r3.rest = r.rest /\ r3.n = r.n
      BY <3>1, <3>2 DEF WFields
    <3>4. Naming(t, r3)
      BY <1>1, <1>2, <1>3, <3>2, <3>3 DEF Naming
    <3>5. QED
      BY <3>2, <3>4
  <2>3. "ewalk" \in NamePC
    BY DEF NamePC
  <2>4. QED
    BY <1>1, <2>1, <2>2, <2>3, PcTurns
<1>6. CASE t.file[w[p].c] \in Dirs /\ at # {}
  <2>1. PICK m \in at : /\ t' = FindMount(t, w[p].c, w[p].mh, m)
                        /\ Does(p, [c |-> Head(t.mount[m]), mh |-> m, pc |-> "cross"])
    BY <1>6 DEF WalkOn
  <2>2. m \in t.hashed
    <3>1. m \in MountedOn(t, t.file[w[p].c])
      BY <2>1
    <3>2. QED
      BY <3>1, MountedOnIs
  <2>3. QED
    BY <1>1, <1>3, <2>1, <2>2, CrossTurns
<1>7. QED
  BY <1>4, <1>5, <1>6

(* what is mounted on the file that is opened *)
LEMMA OpenDomountTurns ==
  ASSUME NEW p \in Procs, DOMAIN w = Procs, NEW e, NEW me, Walks(t, w[p], e, me), Mounted(t),
         OpenDomount(p)
  PROVE  Turns(t, w[p], t', w'[p], e, me)
<1> DEFINE at == IF Nomount(p) THEN {} ELSE MountedOn(t, t.file[w[p].c])
<1>1. w[p].pc = "domount"
  BY DEF OpenDomount
<1>2. Naming(t, w[p]) /\ WOK(w[p])
  BY DEF Walks
<1>3. /\ w[p].nc = None /\ w[p].nmh = None /\ w[p].c \in Chans /\ w[p].path # <<>>
      /\ w[p].start = None /\ w[p].mh = None /\ w[p].mode = "Aopen" /\ w[p].rest = <<>>
  BY <1>1, <1>2 DEF Naming
<1>4. CASE at = {}
  <2>1. t' = t /\ Does(p, [pc |-> "open"])
    BY <1>4 DEF OpenDomount
  <2>2. Naming(t, [w[p] EXCEPT !.pc = "open"])
    <3>1. DOMAIN w[p] = WFields
      BY <1>2 DEF WOK
    <3>2. PICK r, r3 : r = w[p] /\ r3 = [w[p] EXCEPT !.pc = "open"]
      OBVIOUS
    <3>3. /\ r3.pc = "open" /\ r3.mode = r.mode /\ r3.got = r.got
          /\ r3.c = r.c /\ r3.start = r.start /\ r3.nc = r.nc /\ r3.path = r.path
          /\ r3.mh = r.mh /\ r3.nmh = r.nmh /\ r3.rest = r.rest /\ r3.n = r.n
      BY <3>1, <3>2 DEF WFields
    <3>4. Naming(t, r3)
      BY <1>1, <1>2, <1>3, <3>2, <3>3 DEF Naming
    <3>5. QED
      BY <3>2, <3>4
  <2>3. "open" \in NamePC
    BY DEF NamePC
  <2>4. QED
    BY <1>1, <2>1, <2>2, <2>3, PcTurns
<1>5. CASE at # {}
  <2>1. PICK m \in at : /\ t' = FindMount(t, w[p].c, None, m)
                        /\ Does(p, [c |-> Head(t.mount[m]), mh |-> m, pc |-> "cross"])
    BY <1>5 DEF OpenDomount
  <2>2. m \in t.hashed
    <3>1. m \in MountedOn(t, t.file[w[p].c])
      BY <2>1
    <3>2. QED
      BY <3>1, MountedOnIs
  <2>3. t' = FindMount(t, w[p].c, w[p].mh, m)
    BY <1>3, <2>1
  <2>4. QED
    BY <1>3, <2>1, <2>2, <2>3, CrossTurns
<1>6. QED
  BY <1>4, <1>5

-----------------------------------------------------------------------------
(* Eleventh part: the path of a walk.                                      *)

(* plain, by what is in it *)
LEMMA PlainTimes ==
  ASSUME NEW k, NEW q \in Seq(OrNone(Chans))
  PROVE  Plain(k, q) <=> \A c \in Chans : Times(c, q) >= 1 => k.umh[c] = None
<1>1. \A c \in Chans : Times(c, q) >= 1 <=> \E i \in DOMAIN q : q[i] = c
  <2> TAKE c \in Chans
  <2>1. Times(c, q) > 0 <=> \E i \in DOMAIN q : q[i] = c
    BY TimesSome
  <2>2. Times(c, q) \in Nat
    BY AtIs
  <2>3. QED
    BY <2>1, <2>2
<1>2. \A i \in DOMAIN q : q[i] # None <=> q[i] \in Chans
  BY ChansAre DEF OrNone
<1>3. QED
  BY <1>1, <1>2 DEF Plain

(* one in the place of the last *)
LEMMA LastPut ==
  ASSUME NEW S, NEW q \in Seq(S), q # <<>>, NEW x \in S
  PROVE  /\ Append(Front(q), x) \in Seq(S) /\ Append(Front(q), x) # <<>>
         /\ \A c : Times(c, Append(Front(q), x)) = Times(c, Front(q)) + One(c, x)
<1>1. PICK f, l : f = Front(q) /\ l = <<x>>
  OBVIOUS
<1>2. f \in Seq(S)
  BY <1>1, TimesLast
<1>3. l \in Seq(S)
  BY <1>1
<1>4. Append(f, x) = f \o l
  BY <1>1, <1>2, AppendIsConcat
<1>5. \A c : Times(c, f \o l) = Times(c, f) + One(c, x)
  <2> TAKE c
  <2>1. Times(c, f \o l) = Times(c, f) + Times(c, l)
    BY <1>2, <1>3, TimesConcat
  <2>2. Times(c, l) = One(c, x)
    BY <1>1, TimesOne
  <2>3. QED
    BY <2>1, <2>2
<1>6. Append(f, x) \in Seq(S) /\ Append(f, x) # <<>>
  BY <1>2
<1>7. QED
  BY <1>1, <1>4, <1>5, <1>6

(* fewer are the same *)
LEMMA SameFewer ==
  ASSUME NEW k, NEW k2, NEW e, NEW f, Same(k, k2, e), \A c \in Chans : f[c] >= 1 => e[c] >= 1
  PROVE  Same(k, k2, f)
BY DEF Same

(* from the place where something is mounted to what is mounted (cross) *)
LEMMA OverTurns ==
  ASSUME NEW p \in Procs, DOMAIN w = Procs, NEW e, NEW me, Walks(t, w[p], e, me),
         Cross(p)
  PROVE  Turns(t, w[p], t', w'[p], e, me)
<1>1. PICK k, r, r2, from : k = t /\ r = w[p] /\ r2 = w'[p] /\ from = t.from[w[p].mh]
  OBVIOUS
<1>2. Walks(k, r, e, me) /\ r.pc = "cross"
  BY <1>1 DEF Cross
<1>3. /\ WOK(r) /\ Naming(k, r) /\ e \in [Chans -> Nat] /\ e[Slash] >= 1
      /\ me \in [Mheads -> Nat] /\ PlainAll(k, r)
      /\ Bal(k, Adds(e, r.c, r.start, r.nc, r.path), MAdds(me, r.mh, r.nmh))
  BY <1>2 DEF Walks
<1>4. /\ r.nc = None /\ r.nmh = None /\ r.c \in Chans /\ r.path # <<>> /\ r.mh \in k.hashed
      /\ r.rest # <<>> => r.start \in Chans
      /\ r.rest = <<>> => r.start = None /\ r.mode = "Aopen"
  BY <1>2, <1>3 DEF Naming
<1>5. /\ r.start \in OrNone(Chans) /\ r.path \in Seq(OrNone(Chans)) /\ r.c \in OrNone(Chans)
      /\ r.mh \in OrNone(Mheads)
  BY <1>3 DEF WOK
<1>6. PICK a : a = Adds(e, r.c, r.start, None, r.path)
  OBVIOUS
<1>7. a \in [Chans -> Nat] /\ Bal(k, a, MAdds(me, r.mh, None))
  BY <1>3, <1>4, <1>5, <1>6, AddsType
<1>8. TabsOK(k)
  BY <1>7 DEF Bal
<1>9. from \in Chans /\ from \notin k.free /\ k.umh[from] = None
  <2>1. from = k.from[r.mh]
    BY <1>1
  <2>2. k.from[r.mh] \in Chans
    BY <1>4, <1>7 DEF Bal, Kept
  <2>3. InTables(k, k.from[r.mh]) >= 1
    BY <1>4, <1>8, InFrom
  <2>4. QED
    BY <1>7, <2>1, <2>2, <2>3, KeptPlain
<1>10. PICK path2 : path2 = Append(Front(r.path), from)
  OBVIOUS
<1>11. PICK last : last = Last(r.path)
  OBVIOUS
<1>12. /\ path2 \in Seq(OrNone(Chans)) /\ path2 # <<>> /\ last \in OrNone(Chans)
       /\ \A d : /\ Times(d, path2) = Times(d, Front(r.path)) + One(d, from)
                 /\ Times(d, r.path) = Times(d, Front(r.path)) + One(d, last)
                 /\ Times(d, Front(r.path)) \in Nat
  <2>1. from \in OrNone(Chans)
    BY <1>9 DEF OrNone
  <2>2. path2 \in Seq(OrNone(Chans)) /\ path2 # <<>>
    BY <1>4, <1>5, <1>10, <2>1, LastPut
  <2>3. ASSUME NEW d
        PROVE  /\ Times(d, path2) = Times(d, Front(r.path)) + One(d, from)
               /\ Times(d, r.path) = Times(d, Front(r.path)) + One(d, last)
               /\ Times(d, Front(r.path)) \in Nat /\ last \in OrNone(Chans)
    <3>1. Times(d, path2) = Times(d, Front(r.path)) + One(d, from)
      BY <1>4, <1>5, <1>10, <2>1, LastPut
    <3>2. /\ Times(d, r.path) = Times(d, Front(r.path)) + One(d, last)
          /\ Front(r.path) \in Seq(OrNone(Chans)) /\ last \in OrNone(Chans)
      BY <1>4, <1>5, <1>11, TimesLast
    <3>3. Times(d, Front(r.path)) \in Nat
      BY <3>2, AtIs
    <3>4. QED
      BY <3>1, <3>2, <3>3
  <2>4. QED
    BY <2>2, <2>3
<1>13. PICK b : b = Adds(e, r.c, r.start, None, path2)
  OBVIOUS
<1>14. b \in [Chans -> Nat] /\ b[Slash] >= 1
  <2>1. b \in [Chans -> Nat] /\ \A d \in Chans : b[d] >= e[d]
    BY <1>3, <1>12, <1>13, AddsType
  <2>2. Slash \in Chans
    BY ChansAre DEF Slash
  <2>3. PICK i \in Nat, j \in Nat : i = b[Slash] /\ j = e[Slash]
    BY <1>3, <2>1, <2>2
  <2>4. i >= j /\ j >= 1
    BY <1>3, <2>1, <2>2, <2>3
  <2>5. QED
    BY <2>1, <2>3, <2>4
<1>15. Plus(a, <<from>>) = Plus(b, <<last>>)
  <2>1. ASSUME NEW d \in Chans PROVE a[d] + Times(d, <<from>>) = b[d] + Times(d, <<last>>)
    <3>1. Times(d, <<from>>) = One(d, from) /\ Times(d, <<last>>) = One(d, last)
      BY TimesOne
    <3>2. /\ a[d] = e[d] + One(d, r.c) + One(d, r.start) + One(d, None) + Times(d, r.path)
          /\ b[d] = e[d] + One(d, r.c) + One(d, r.start) + One(d, None) + Times(d, path2)
      BY <1>6, <1>13 DEF Adds
    <3>3. PICK n \in Nat, i \in Nat, j \in Nat, m \in Nat, l \in Nat, x \in Nat, y \in Nat :
            /\ n = e[d] /\ i = One(d, r.c) /\ j = One(d, r.start) /\ m = One(d, None)
            /\ l = Times(d, Front(r.path)) /\ x = One(d, from) /\ y = One(d, last)
      BY <1>3, <1>12, ZenonT(60) DEF One
    <3>4. n + i + j + m + (l + y) + x = n + i + j + m + (l + x) + y
      OBVIOUS
    <3>5. QED
      BY <1>12, <3>1, <3>2, <3>3, <3>4
  <2>2. QED
    BY <2>1 DEF Plus
<1>16. PICK k1 : k1 = Incref(k, from)
  OBVIOUS
<1>17. Bal(k1, Plus(b, <<last>>), MAdds(me, r.mh, None)) /\ But("ref", k, k1)
  BY <1>7, <1>9, <1>15, <1>16, IncrefKeeps DEF But
<1>18. PICK k2 : k2 = CClose(k1, <<last>>)
  OBVIOUS
<1>19. Bal(k2, b, MAdds(me, r.mh, None)) /\ Same(k1, k2, b) /\ SameMounts(k1, k2)
  BY <1>12, <1>14, <1>17, <1>18, CloseOneSame
<1>20. Same(k, k2, b) /\ SameMounts(k, k2)
  <2>1. Same(k, k1, b) /\ SameMounts(k, k1)
    BY <1>17, ButRefSame
  <2>2. QED
    BY <1>19, <2>1, SameOn
<1>21. t' = k2
  BY <1>1, <1>11, <1>16, <1>18 DEF Cross
<1>22. /\ DOMAIN r2 = WFields /\ r2.pc = (IF r.rest # <<>> THEN "ewalk" ELSE "open")
       /\ r2.mode = r.mode /\ r2.got = r.got
       /\ r2.c = r.c /\ r2.start = r.start /\ r2.nc = None /\ r2.path = path2
       /\ r2.mh = r.mh /\ r2.nmh = None /\ r2.rest = r.rest
  <2>1. DOMAIN w[p] = WFields
    BY <1>1, <1>3 DEF WOK
  <2>2. QED
    BY <1>1, <1>4, <1>10, <2>1 DEF Cross, Does, WFields
<1>23. Plain(k, path2)
  <2>1. \A d \in Chans : Times(d, r.path) >= 1 => k.umh[d] = None
    <3>1. Plain(k, r.path)
      BY <1>3 DEF PlainAll
    <3>2. QED
      BY <1>5, <3>1, PlainTimes
  <2>2. ASSUME NEW d \in Chans, Times(d, path2) >= 1 PROVE k.umh[d] = None
    <3>1. CASE d = from
      BY <1>9, <3>1
    <3>2. CASE d # from
      <4>1. PICK l \in Nat, y \in Nat : l = Times(d, Front(r.path)) /\ y = One(d, last)
        BY <1>12 DEF One
      <4>2. One(d, from) = 0
        BY <3>2 DEF One
      <4>3. Times(d, path2) = l + 0 /\ Times(d, r.path) = l + y
        BY <1>12, <4>1, <4>2
      <4>4. l >= 1
        BY <2>2, <4>3
      <4>5. Times(d, r.path) >= 1
        BY <4>3, <4>4
      <4>6. QED
        BY <2>1, <4>5
    <3>3. QED
      BY <3>1, <3>2
  <2>3. QED
    BY <1>12, <2>2, PlainTimes
<1>24. /\ Same(k, k2, e) /\ PlainOne(k2, r.c) /\ PlainOne(k2, r.start) /\ Plain(k2, path2)
  <2>1. PlainOne(k, r.c) /\ PlainOne(k, r.start)
    BY <1>2, <1>3 DEF PlainAll
  <2>2. QED
    BY <1>3, <1>5, <1>12, <1>13, <1>20, <1>23, <2>1, SameAdds
<1>25. Walks(k2, r2, e, me)
  <2>1. WOK(r2)
    <3>1. r.got \in Seq(Chans) /\ r.rest \in Seq(STRING)
      BY <1>3 DEF WOK
    <3>2. QED
      BY <1>5, <1>12, <1>22, <3>1 DEF WOK, OrNone
  <2>2. Naming(k2, r2)
    BY <1>4, <1>12, <1>22 DEF Naming
  <2>3. PlainAll(k2, r2)
    <3>1. Plain(k2, r.got)
      BY <1>2, <1>24, GotKept
    <3>2. PlainOne(k2, None)
      BY DEF PlainOne
    <3>3. QED
      BY <1>22, <1>24, <3>1, <3>2 DEF PlainAll
  <2>4. Bal(k2, Adds(e, r2.c, r2.start, r2.nc, r2.path), MAdds(me, r2.mh, r2.nmh))
    BY <1>13, <1>19, <1>22
  <2>5. \A d \in Chans : Times(d, r2.got) >= 1 => e[d] >= 1
    BY <1>2, <1>22 DEF Walks
  <2>6. r2.pc \in NamePC
    BY <1>22 DEF NamePC
  <2>7. QED
    BY <1>3, <2>1, <2>2, <2>3, <2>4, <2>5, <2>6 DEF Walks
<1>26. QED
  BY <1>1, <1>20, <1>21, <1>22, <1>24, <1>25 DEF Turns

-----------------------------------------------------------------------------
(* Twelfth part: up, and down.                                             *)

(* Same, but for one that is closed *)
LEMMA SameBut ==
  ASSUME NEW k, NEW k2, NEW e \in [Chans -> Nat], NEW x, Same(k, k2, Plus(e, <<x>>))
  PROVE  Same(k, k2, e)
<1>1. PICK f : f = Plus(e, <<x>>)
  OBVIOUS
<1>2. ASSUME NEW d \in Chans, e[d] >= 1 PROVE f[d] >= 1
  <2>1. PICK i \in Nat, j \in Nat : i = e[d] /\ j = One(d, x)
    BY DEF One
  <2>2. f[d] = i + j
    BY <1>1, <2>1, PlusOne
  <2>3. QED
    BY <1>2, <2>1, <2>2
<1>3. Same(k, k2, f)
  BY <1>1
<1>4. QED
  BY <1>2, <1>3, SameFewer

(* what is counted besides the path *)
LEMMA SlashPlus ==
  ASSUME NEW e \in [Chans -> Nat], e[Slash] >= 1, NEW S, NEW q \in Seq(S)
  PROVE  Plus(e, q) \in [Chans -> Nat] /\ Plus(e, q)[Slash] >= 1
<1>1. PICK f : f = Plus(e, q)
  OBVIOUS
<1>2. f \in [Chans -> Nat] /\ \A c \in Chans : f[c] >= e[c]
  BY <1>1, PlusType
<1>3. Slash \in Chans
  BY ChansAre DEF Slash
<1>4. f[Slash] >= e[Slash] /\ f[Slash] \in Nat /\ e[Slash] \in Nat
  BY <1>2, <1>3
<1>5. QED
  BY <1>1, <1>2, <1>4

(* one in the place of the last of a path, counted *)
LEMMA PlusLastPut ==
  ASSUME NEW e \in [Chans -> Nat], NEW S, NEW q \in Seq(S), q # <<>>, NEW x \in S
  PROVE  Plus(Plus(e, q), <<x>>) = Plus(Plus(e, Append(Front(q), x)), <<Last(q)>>)
<1>1. PICK f, z, l : f = Front(q) /\ z = Append(Front(q), x) /\ l = Last(q)
  OBVIOUS
<1>2. ASSUME NEW d \in Chans
      PROVE  e[d] + Times(d, q) + Times(d, <<x>>) = e[d] + Times(d, z) + Times(d, <<l>>)
  <2>1. f \in Seq(S) /\ Times(d, q) = Times(d, f) + One(d, l)
    BY <1>1, TimesLast
  <2>2. Times(d, z) = Times(d, f) + One(d, x)
    BY <1>1, LastPut
  <2>3. Times(d, <<x>>) = One(d, x) /\ Times(d, <<l>>) = One(d, l)
    BY TimesOne
  <2>4. Times(d, f) \in Nat
    BY <2>1, AtIs
  <2>5. PICK n \in Nat, i \in Nat, j \in Nat, m \in Nat :
          n = e[d] /\ i = Times(d, f) /\ j = One(d, x) /\ m = One(d, l)
    BY <2>4 DEF One
  <2>6. n + (i + m) + j = n + (i + j) + m
    OBVIOUS
  <2>7. QED
    BY <2>1, <2>2, <2>3, <2>5, <2>6
<1>3. Plus(Plus(e, q), <<x>>) = Plus(Plus(e, z), <<l>>)
  BY <1>2 DEF Plus
<1>4. QED
  BY <1>1, <1>3

(* a path without its last *)
LEMMA PlusFront ==
  ASSUME NEW e \in [Chans -> Nat], NEW S, NEW q \in Seq(S), q # <<>>
  PROVE  Plus(e, q) = Plus(Plus(e, Front(q)), <<Last(q)>>)
<1>1. PICK f, l : f = Front(q) /\ l = Last(q)
  OBVIOUS
<1>2. ASSUME NEW d \in Chans
      PROVE  e[d] + Times(d, q) = e[d] + Times(d, f) + Times(d, <<l>>)
  <2>1. f \in Seq(S) /\ Times(d, q) = Times(d, f) + One(d, l)
    BY <1>1, TimesLast
  <2>2. Times(d, <<l>>) = One(d, l)
    BY TimesOne
  <2>3. Times(d, f) \in Nat
    BY <2>1, AtIs
  <2>4. PICK n \in Nat, i \in Nat, m \in Nat :
          n = e[d] /\ i = Times(d, f) /\ m = One(d, l)
    BY <2>3 DEF One
  <2>5. n + (i + m) = n + i + m
    OBVIOUS
  <2>6. QED
    BY <2>1, <2>2, <2>4, <2>5
<1>3. Plus(e, q) = Plus(Plus(e, f), <<l>>)
  BY <1>2 DEF Plus
<1>4. QED
  BY <1>1, <1>3

(* what is in it is plain *)
LEMMA PlainFront ==
  ASSUME NEW k, NEW q \in Seq(OrNone(Chans)), q # <<>>, Plain(k, q)
  PROVE  Plain(k, Front(q)) /\ PlainOne(k, Last(q)) /\ Plain(k, Append(Front(q), None))
<1>1. PICK f, l, z : f = Front(q) /\ l = Last(q) /\ z = Append(Front(q), None)
  OBVIOUS
<1>2. f \in Seq(OrNone(Chans)) /\ l \in OrNone(Chans) /\ \A d : Times(d, q) = Times(d, f) + One(d, l)
  BY <1>1, TimesLast
<1>3. z \in Seq(OrNone(Chans)) /\ \A d : Times(d, z) = Times(d, f) + One(d, None)
  <2>1. None \in OrNone(Chans)
    BY DEF OrNone
  <2>2. QED
    BY <1>1, <2>1, LastPut
<1>4. \A d \in Chans : Times(d, q) >= 1 => k.umh[d] = None
  BY PlainTimes
<1>5. ASSUME NEW d \in Chans
      PROVE  /\ Times(d, f) >= 1 => k.umh[d] = None
             /\ d = l => k.umh[d] = None
             /\ Times(d, z) >= 1 => k.umh[d] = None
  <2>1. PICK i \in Nat, j \in Nat : i = Times(d, f) /\ j = One(d, l)
    BY <1>2, AtIs DEF One
  <2>2. Times(d, q) = i + j /\ (d = l => j = 1)
    BY <1>2, <2>1 DEF One
  <2>3. Times(d, z) = i
    <3>1. One(d, None) = 0
      BY ChansAre DEF One
    <3>2. Times(d, z) = i + 0
      BY <1>3, <2>1, <3>1
    <3>3. QED
      BY <3>2
  <2>4. i >= 1 \/ j = 1 => i + j >= 1
    OBVIOUS
  <2>5. QED
    BY <1>4, <2>1, <2>2, <2>3, <2>4
<1>6. Plain(k, f)
  BY <1>2, <1>5, PlainTimes
<1>7. Plain(k, z)
  BY <1>3, <1>5, PlainTimes
<1>8. PlainOne(k, l)
  BY <1>2, <1>5 DEF PlainOne, OrNone
<1>9. QED
  BY <1>1, <1>6, <1>7, <1>8

(* to the place of the tree that is left *)
LEMMA UndomountKeeps ==
  ASSUME NEW k, NEW e \in [Chans -> Nat], e[Slash] >= 1, NEW me, NEW c \in Chans,
         NEW path \in Seq(OrNone(Chans)), path # <<>>, Bal(k, Plus(Plus(e, path), <<c>>), me),
         Plain(k, path), PlainOne(k, c)
  PROVE  LET u == Undomount(k, c, path) IN
         /\ u.chan \in Chans /\ u.path \in Seq(OrNone(Chans)) /\ u.path # <<>>
         /\ Bal(u.tabs, Plus(Plus(e, u.path), <<u.chan>>), me)
         /\ Same(k, u.tabs, Plus(Plus(e, u.path), <<u.chan>>)) /\ SameMounts(k, u.tabs)
         /\ Plain(k, u.path) /\ PlainOne(k, u.chan)
<1>1. PICK u : u = Undomount(k, c, path)
  OBVIOUS
<1>2. CASE Last(path) = None
  <2>1. u.tabs = k /\ u.chan = c /\ u.path = path
    BY <1>1, <1>2 DEF Undomount
  <2>2. Same(k, k, Plus(Plus(e, path), <<c>>)) /\ SameMounts(k, k)
    BY DEF Same, SameMounts
  <2>3. QED
    BY <1>1, <2>1, <2>2
<1>3. CASE Last(path) # None
  <2>1. PICK l, z : l = Last(path) /\ z = Append(Front(path), None)
    OBVIOUS
  <2>2. u.tabs = CClose(k, <<c>>) /\ u.chan = l /\ u.path = z
    BY <1>1, <1>3, <2>1 DEF Undomount
  <2>3. l \in Chans
    <3>1. l \in OrNone(Chans)
      BY <2>1, TimesLast
    <3>2. QED
      BY <1>3, <2>1, <3>1 DEF OrNone
  <2>4. z \in Seq(OrNone(Chans)) /\ z # <<>>
    <3>1. None \in OrNone(Chans)
      BY DEF OrNone
    <3>2. QED
      BY <2>1, <3>1, LastPut
  <2>5. Plain(k, z) /\ PlainOne(k, l)
    BY <2>1, PlainFront
  <2>6. PICK f : f = Plus(Plus(e, z), <<l>>)
    OBVIOUS
  <2>7. f \in [Chans -> Nat] /\ f[Slash] >= 1
    <3>1. PICK x : x = Plus(e, z)
      OBVIOUS
    <3>2. x \in [Chans -> Nat] /\ x[Slash] >= 1
      BY <2>4, <3>1, SlashPlus
    <3>3. PICK b : b = <<l>>
      OBVIOUS
    <3>4. b \in Seq(Chans)
      BY <2>3, <3>3
    <3>5. f = Plus(x, b)
      BY <2>6, <3>1, <3>3
    <3>6. QED
      BY <3>2, <3>4, <3>5, SlashPlus
  <2>8. Plus(e, path) = f
    <3>1. Plus(Plus(e, path), <<None>>) = f
      <4>1. None \in OrNone(Chans)
        BY DEF OrNone
      <4>2. QED
        BY <2>1, <2>6, <4>1, PlusLastPut
    <3>2. PICK x : x = Plus(e, path)
      OBVIOUS
    <3>3. x \in [Chans -> Nat]
      BY <3>2, PlusType
    <3>4. \A d \in Chans : Times(d, <<None>>) = 0 /\ x[d] \in Nat
      BY <3>3, TimesOne, ChansAre DEF One
    <3>5. Plus(x, <<None>>) = x
      BY <3>3, <3>4 DEF Plus
    <3>6. QED
      BY <3>1, <3>2, <3>5
  <2>9. Bal(k, Plus(f, <<c>>), me)
    BY <2>8
  <2>10. c \in OrNone(Chans)
    BY DEF OrNone
  <2>11. PICK k2 : k2 = CClose(k, <<c>>)
    OBVIOUS
  <2>12. Bal(k2, f, me) /\ Same(k, k2, f) /\ SameMounts(k, k2)
    BY <2>7, <2>9, <2>10, <2>11, CloseOneSame
  <2>13. QED
    BY <1>1, <2>2, <2>3, <2>4, <2>5, <2>6, <2>11, <2>12
<1>4. QED
  BY <1>2, <1>3

(* those that are counted twice over *)
LEMMA PlainPlus ==
  ASSUME NEW e \in [Chans -> Nat], NEW q \in Seq(OrNone(Chans)), NEW x \in OrNone(Chans),
         NEW k, NEW k2, Same(k, k2, Plus(Plus(e, q), <<x>>)), Plain(k, q), PlainOne(k, x)
  PROVE  Plain(k2, q) /\ PlainOne(k2, x) /\ Same(k, k2, e)
<1>1. PICK b, f : b = Plus(e, q) /\ f = Plus(b, <<x>>)
  OBVIOUS
<1>2. b \in [Chans -> Nat] /\ \A d \in Chans : b[d] = e[d] + Times(d, q)
  BY <1>1, PlusType
<1>3. \A d \in Chans : f[d] = b[d] + One(d, x)
  BY <1>1, <1>2, PlusOne
<1>4. ASSUME NEW d \in Chans
      PROVE  (e[d] >= 1 => f[d] >= 1) /\ (Times(d, q) >= 1 => f[d] >= 1) /\ (d = x => f[d] >= 1)
  <2>1. PICK n \in Nat, i \in Nat, j \in Nat : n = e[d] /\ i = Times(d, q) /\ j = One(d, x)
    BY AtIs DEF One
  <2>2. f[d] = n + i + j /\ (d = x => j = 1)
    BY <1>2, <1>3, <2>1 DEF One
  <2>3. n >= 1 \/ i >= 1 \/ j = 1 => n + i + j >= 1
    OBVIOUS
  <2>4. QED
    BY <2>1, <2>2, <2>3
<1>5. Same(k, k2, f)
  BY <1>1
<1>6. Plain(k2, q)
  BY <1>4, <1>5, PlainKept
<1>7. PlainOne(k2, x)
  BY <1>4, <1>5 DEF PlainOne, Same, OrNone
<1>8. Same(k, k2, e)
  BY <1>4, <1>5, SameFewer
<1>9. QED
  BY <1>6, <1>7, <1>8

(* up from path, to the directory f, and to the place of the tree *)
UpFrom(k, path, f) ==
  LET n == NewChan(k, f)
      top == Len(path) = 1
  IN Undomount(IF top THEN n.tabs ELSE CClose(n.tabs, <<Last(path)>>), n.chan,
               IF top THEN path ELSE Front(path))

(* UpFrom counts right: the path and the channel it leads to *)
LEMMA UpFromKeeps ==
  ASSUME NEW k, NEW e \in [Chans -> Nat], e[Slash] >= 1, NEW me,
         NEW path \in Seq(OrNone(Chans)), path # <<>>, Bal(k, Plus(e, path), me), k.free # {},
         Plain(k, path), NEW f
  PROVE  LET u == UpFrom(k, path, f) IN
         /\ u.chan \in Chans /\ u.path \in Seq(OrNone(Chans)) /\ u.path # <<>>
         /\ Bal(u.tabs, Plus(Plus(e, u.path), <<u.chan>>), me)
         /\ Same(k, u.tabs, e) /\ SameMounts(k, u.tabs)
         /\ Plain(u.tabs, u.path) /\ PlainOne(u.tabs, u.chan)
<1>1. PICK n : n = NewChan(k, f)
  OBVIOUS
<1>2. PICK c, kn : c = n.chan /\ kn = n.tabs
  OBVIOUS
<1>3. PICK k1, path1 : /\ k1 = IF Len(path) = 1 THEN kn ELSE CClose(kn, <<Last(path)>>)
                       /\ path1 = IF Len(path) = 1 THEN path ELSE Front(path)
  OBVIOUS
<1>4. PICK u : u = Undomount(k1, c, path1)
  OBVIOUS
<1>5. u = UpFrom(k, path, f)
  BY <1>1, <1>2, <1>3, <1>4 DEF UpFrom
<1>6. PICK ep : ep = Plus(e, path)
  OBVIOUS
<1>7. /\ c \in Chans /\ Bal(kn, Plus(ep, <<c>>), me) /\ Same(k, kn, ep) /\ SameMounts(k, kn)
      /\ kn.umh = k.umh /\ k.umh[c] = None
  <2>1. Bal(k, ep, me)
    BY <1>6
  <2>2. QED
    BY <1>1, <1>2, <2>1, NewChanKeeps
<1>8. Same(k, kn, e)
  <2>1. Same(k, kn, Plus(e, path))
    BY <1>6, <1>7
  <2>2. QED
    BY <2>1, SameLess
<1>9. Plain(kn, path) /\ PlainOne(kn, c)
  <2>1. PlainOne(kn, c)
    BY <1>7 DEF PlainOne
  <2>2. Plain(kn, path)
    BY <1>7 DEF Plain
  <2>3. QED
    BY <2>1, <2>2
<1>10. /\ path1 \in Seq(OrNone(Chans)) /\ path1 # <<>>
       /\ Bal(k1, Plus(Plus(e, path1), <<c>>), me)
       /\ Same(kn, k1, Plus(Plus(e, path1), <<c>>)) /\ SameMounts(kn, k1)
       /\ Plain(kn, path1)
  <2>1. CASE Len(path) = 1
    <3>1. k1 = kn /\ path1 = path
      BY <1>3, <2>1
    <3>2. Same(kn, kn, Plus(ep, <<c>>)) /\ SameMounts(kn, kn)
      BY DEF Same, SameMounts
    <3>3. QED
      BY <1>6, <1>7, <1>9, <3>1, <3>2
  <2>2. CASE Len(path) # 1
    <3>1. PICK l : l = Last(path)
      OBVIOUS
    <3>2. k1 = CClose(kn, <<l>>) /\ path1 = Front(path)
      BY <1>3, <2>2, <3>1
    <3>3. path1 \in Seq(OrNone(Chans)) /\ l \in OrNone(Chans) /\ Len(path1) = Len(path) - 1
      BY <3>1, <3>2, TimesLast
    <3>4. path1 # <<>>
      <4>1. Len(path) # 1 /\ Len(path) \in Nat
        BY <2>2
      <4>2. Len(path1) # 0
        BY <3>3, <4>1
      <4>3. QED
        BY <4>2
    <3>5. PICK e1 : e1 = Plus(e, path1)
      OBVIOUS
    <3>6. e1 \in [Chans -> Nat] /\ e1[Slash] >= 1
      BY <3>3, <3>5, SlashPlus
    <3>7. ep = Plus(e1, <<l>>)
      BY <1>6, <3>1, <3>2, <3>5, PlusFront
    <3>8. PICK f1 : f1 = Plus(e1, <<c>>)
      OBVIOUS
    <3>9. f1 \in [Chans -> Nat] /\ f1[Slash] >= 1
      <4>1. PICK b : b = <<c>>
        OBVIOUS
      <4>2. b \in Seq(Chans)
        BY <1>7, <4>1
      <4>3. f1 = Plus(e1, b)
        BY <3>8, <4>1
      <4>4. QED
        BY <3>6, <4>2, <4>3, SlashPlus
    <3>10. Plus(ep, <<c>>) = Plus(f1, <<l>>)
      BY <3>6, <3>7, <3>8, PlusSwap
    <3>11. Bal(kn, Plus(f1, <<l>>), me)
      BY <1>7, <3>10
    <3>12. Bal(k1, f1, me) /\ Same(kn, k1, f1) /\ SameMounts(kn, k1)
      BY <3>2, <3>3, <3>9, <3>11, CloseOneSame
    <3>13. Plain(kn, path1)
      BY <1>9, <3>2, PlainFront
    <3>14. QED
      BY <3>3, <3>4, <3>5, <3>8, <3>12, <3>13
  <2>3. QED
    BY <2>1, <2>2
<1>11. Plain(k1, path1) /\ PlainOne(k1, c) /\ Same(kn, k1, e)
  <2>1. c \in OrNone(Chans)
    BY <1>7 DEF OrNone
  <2>2. QED
    BY <1>9, <1>10, <2>1, PlainPlus
<1>12. /\ u.chan \in Chans /\ u.path \in Seq(OrNone(Chans)) /\ u.path # <<>>
       /\ Bal(u.tabs, Plus(Plus(e, u.path), <<u.chan>>), me)
       /\ Same(k1, u.tabs, Plus(Plus(e, u.path), <<u.chan>>)) /\ SameMounts(k1, u.tabs)
       /\ Plain(k1, u.path) /\ PlainOne(k1, u.chan)
  BY <1>4, <1>7, <1>10, <1>11, UndomountKeeps
<1>13. Plain(u.tabs, u.path) /\ PlainOne(u.tabs, u.chan) /\ Same(k1, u.tabs, e)
  <2>1. PICK q, x, k2 : q = u.path /\ x = u.chan /\ k2 = u.tabs
    OBVIOUS
  <2>2. x \in OrNone(Chans) /\ q \in Seq(OrNone(Chans))
    BY <1>12, <2>1 DEF OrNone
  <2>3. Same(k1, k2, Plus(Plus(e, q), <<x>>)) /\ Plain(k1, q) /\ PlainOne(k1, x)
    BY <1>12, <2>1
  <2>4. Plain(k2, q) /\ PlainOne(k2, x) /\ Same(k1, k2, e)
    BY <2>2, <2>3, PlainPlus
  <2>5. QED
    BY <2>1, <2>4
<1>14. Same(k, u.tabs, e) /\ SameMounts(k, u.tabs)
  <2>1. PICK k2 : k2 = u.tabs
    OBVIOUS
  <2>2. Same(k1, k2, e) /\ SameMounts(k1, k2)
    BY <1>12, <1>13, <2>1
  <2>3. Same(k, k1, e) /\ SameMounts(k, k1)
    BY <1>7, <1>8, <1>10, <1>11, SameOn
  <2>4. Same(k, k2, e) /\ SameMounts(k, k2)
    BY <2>2, <2>3, SameOn
  <2>5. QED
    BY <2>1, <2>4
<1>15. QED
  BY <1>5, <1>12, <1>13, <1>14

(* up one directory (walk, "..") *)
LEMMA EWalkUpTurns ==
  ASSUME NEW p \in Procs, DOMAIN w = Procs, NEW e, NEW me, Walks(t, w[p], e, me), EWalkUp(p)
  PROVE  Turns(t, w[p], t', w'[p], e, me)
<1>1. PICK k, r, r2 : k = t /\ r = w[p] /\ r2 = w'[p]
  OBVIOUS
<1>2. Walks(k, r, e, me) /\ r.pc = "ewalk" /\ k.free # {}
  BY <1>1, Zenon DEF EWalkUp
<1>3. /\ WOK(r) /\ Naming(k, r) /\ e \in [Chans -> Nat] /\ e[Slash] >= 1
      /\ me \in [Mheads -> Nat] /\ PlainAll(k, r)
      /\ Bal(k, Adds(e, r.c, r.start, r.nc, r.path), MAdds(me, r.mh, r.nmh))
  BY <1>2 DEF Walks
<1>4. /\ r.nc = None /\ r.nmh = None /\ r.c \in Chans /\ r.path # <<>> /\ r.start \in Chans
      /\ r.rest # <<>>
  BY <1>2, <1>3 DEF Naming
<1>5. /\ r.start \in OrNone(Chans) /\ r.path \in Seq(OrNone(Chans)) /\ r.c \in OrNone(Chans)
      /\ r.mh \in OrNone(Mheads)
  BY <1>3 DEF WOK
<1>6. PICK a : a = Adds(e, r.c, r.start, None, <<>>)
  OBVIOUS
<1>7. PICK none : none = <<>>
  OBVIOUS
<1>8. none \in Seq(OrNone(Chans))
  BY <1>7
<1>9. a \in [Chans -> Nat] /\ a[Slash] >= 1
  <2>1. a \in [Chans -> Nat] /\ \A d \in Chans : a[d] >= e[d]
    BY <1>3, <1>6, <1>7, <1>8, AddsType
  <2>2. Slash \in Chans
    BY ChansAre DEF Slash
  <2>3. a[Slash] \in Nat /\ e[Slash] \in Nat /\ a[Slash] >= e[Slash]
    BY <1>3, <2>1, <2>2
  <2>4. QED
    BY <1>3, <2>1, <2>3
<1>10. Bal(k, Plus(a, r.path), MPlus(me, <<r.mh>>))
  <2>1. MAdds(me, r.mh, None) = MPlus(me, <<r.mh>>)
    BY <1>3, MAddsIs
  <2>2. Adds(e, r.c, r.start, None, r.path) = Plus(a, r.path)
    BY <1>3, <1>5, <1>6, AddsPath
  <2>3. QED
    BY <1>3, <1>4, <2>1, <2>2
<1>11. PICK f : f = IF Len(k.file[r.c]) = 1 THEN k.file[r.c] ELSE Front(k.file[r.c])
  OBVIOUS
<1>12. PICK u, uc, up, k1 : /\ u = UpFrom(k, r.path, f)
                            /\ uc = u.chan /\ up = u.path /\ k1 = u.tabs
  OBVIOUS
<1>13. /\ uc \in Chans /\ up \in Seq(OrNone(Chans)) /\ up # <<>>
       /\ Bal(k1, Plus(Plus(a, up), <<uc>>), MPlus(me, <<r.mh>>))
       /\ Same(k, k1, a) /\ SameMounts(k, k1)
       /\ Plain(k1, up) /\ PlainOne(k1, uc)
  <2>1. Plain(k, r.path)
    BY <1>3 DEF PlainAll
  <2>2. QED
    BY <1>2, <1>4, <1>5, <1>9, <1>10, <1>12, <2>1, UpFromKeeps
<1>14. PICK b : b = Adds(e, uc, r.start, None, up)
  OBVIOUS
<1>15. b \in [Chans -> Nat] /\ b[Slash] >= 1
  <2>1. b \in [Chans -> Nat] /\ \A d \in Chans : b[d] >= e[d]
    BY <1>3, <1>13, <1>14, AddsType
  <2>2. Slash \in Chans
    BY ChansAre DEF Slash
  <2>3. b[Slash] \in Nat /\ e[Slash] \in Nat /\ b[Slash] >= e[Slash]
    BY <1>3, <2>1, <2>2
  <2>4. QED
    BY <1>3, <2>1, <2>3
<1>16. Plus(Plus(a, up), <<uc>>) = Plus(b, <<r.c>>)
  <2>1. ASSUME NEW d \in Chans
        PROVE  a[d] + Times(d, up) + Times(d, <<uc>>) = b[d] + Times(d, <<r.c>>)
    <3>1. Times(d, <<uc>>) = One(d, uc) /\ Times(d, <<r.c>>) = One(d, r.c)
      BY TimesOne
    <3>2. Times(d, up) \in Nat /\ Times(d, <<>>) = 0
      BY <1>13, AtIs, TimesEmpty
    <3>3. /\ a[d] = e[d] + One(d, r.c) + One(d, r.start) + One(d, None) + Times(d, <<>>)
          /\ b[d] = e[d] + One(d, uc) + One(d, r.start) + One(d, None) + Times(d, up)
      BY <1>6, <1>14 DEF Adds
    <3>4. PICK n \in Nat, i \in Nat, j \in Nat, m \in Nat, l \in Nat, x \in Nat :
            /\ n = e[d] /\ i = One(d, r.c) /\ j = One(d, r.start) /\ m = One(d, None)
            /\ l = Times(d, up) /\ x = One(d, uc)
      BY <1>3, <3>2 DEF One
    <3>5. (n + i + j + m + 0) + l + x = (n + x + j + m + l) + i
      OBVIOUS
    <3>6. QED
      BY <3>1, <3>2, <3>3, <3>4, <3>5
  <2>2. QED
    BY <2>1 DEF Plus
<1>17. PICK k2, k3 : k2 = CClose(k1, <<r.c>>) /\ k3 = PutMhead(k2, r.mh)
  OBVIOUS
<1>18. Bal(k2, b, MPlus(me, <<r.mh>>)) /\ Same(k1, k2, b) /\ SameMounts(k1, k2)
  BY <1>5, <1>13, <1>15, <1>16, <1>17, CloseOneSame
<1>19. Bal(k3, b, me) /\ Same(k2, k3, b) /\ SameMounts(k2, k3)
  BY <1>3, <1>5, <1>17, <1>18, PutSame
<1>20. Same(k1, k3, b) /\ SameMounts(k, k3)
  <2>1. Same(k1, k3, b) /\ SameMounts(k1, k3)
    BY <1>18, <1>19, SameOn
  <2>2. QED
    BY <1>13, <2>1, SameOn
<1>21. Same(k, k1, e) /\ PlainOne(k1, r.start)
  <2>1. PlainOne(k, r.start)
    BY <1>3 DEF PlainAll
  <2>2. Same(k, k1, Adds(e, r.c, r.start, None, none))
    BY <1>6, <1>7, <1>13
  <2>3. QED
    BY <1>3, <1>5, <1>8, <2>1, <2>2, SameAdds
<1>22. Same(k1, k3, e) /\ PlainOne(k3, uc) /\ PlainOne(k3, r.start) /\ Plain(k3, up)
  <2>1. uc \in OrNone(Chans)
    BY <1>13 DEF OrNone
  <2>2. QED
    BY <1>3, <1>5, <1>13, <1>14, <1>20, <1>21, <2>1, SameAdds
<1>23. Same(k, k3, e)
  BY <1>21, <1>22, SameOn
<1>24. /\ t' = k3
       /\ Does(p, [c |-> uc, path |-> up, mh |-> None, rest |-> Tail(w[p].rest),
                   didmount |-> FALSE, pc |-> "walk"])
  <2>1. u = UpFrom(t, w[p].path, IF Len(t.file[w[p].c]) = 1 THEN t.file[w[p].c]
                                 ELSE Front(t.file[w[p].c]))
    BY <1>1, <1>11, <1>12
  <2>2. QED
    BY <1>1, <1>12, <1>17, <2>1, Zenon DEF EWalkUp, UpFrom
<1>25. /\ DOMAIN r2 = WFields /\ r2.pc = "walk" /\ r2.mode = r.mode /\ r2.got = r.got
       /\ r2.c = uc /\ r2.start = r.start /\ r2.nc = None /\ r2.path = up
       /\ r2.mh = None /\ r2.nmh = None /\ r2.rest = Tail(r.rest)
  <2>1. DOMAIN w[p] = WFields
    BY <1>1, <1>3 DEF WOK
  <2>2. QED
    BY <1>1, <1>4, <1>24, <2>1 DEF Does, WFields
<1>26. Walks(k3, r2, e, me)
  <2>1. WOK(r2)
    <3>1. r.got \in Seq(Chans) /\ Tail(r.rest) \in Seq(STRING)
      <4>1. r.got \in Seq(Chans) /\ r.rest \in Seq(STRING)
        BY <1>3 DEF WOK
      <4>2. Tail(r.rest) \in Seq(STRING)
        BY <1>4, <4>1, HeadTailProperties
      <4>3. QED
        BY <4>1, <4>2
    <3>2. QED
      BY <1>5, <1>13, <1>25, <3>1 DEF WOK, OrNone
  <2>2. Naming(k3, r2)
    BY <1>4, <1>13, <1>25 DEF Naming
  <2>3. PlainAll(k3, r2)
    <3>1. Plain(k3, r.got)
      BY <1>2, <1>23, GotKept
    <3>2. PlainOne(k3, None)
      BY DEF PlainOne
    <3>3. QED
      BY <1>22, <1>25, <3>1, <3>2 DEF PlainAll
  <2>4. Bal(k3, Adds(e, r2.c, r2.start, r2.nc, r2.path), MAdds(me, r2.mh, r2.nmh))
    <3>1. MAdds(me, None, None) = me
      BY <1>3, MAddsIs
    <3>2. QED
      BY <1>14, <1>19, <1>25, <3>1
  <2>5. \A d \in Chans : Times(d, r2.got) >= 1 => e[d] >= 1
    BY <1>2, <1>25 DEF Walks
  <2>6. r2.pc \in NamePC
    BY <1>25 DEF NamePC
  <2>7. QED
    BY <1>3, <2>1, <2>2, <2>3, <2>4, <2>5, <2>6 DEF Walks
<1>27. QED
  BY <1>1, <1>20, <1>23, <1>24, <1>25, <1>26 DEF Turns

-----------------------------------------------------------------------------
(* Thirteenth part: the elements of a walk.                                *)

(* what is walked at once is something *)
LEMMA PrefixIs ==
  ASSUME NEW q \in Seq(STRING), q # <<>>
  PROVE  Prefix(q) \in Seq(STRING \cup {".."}) /\ Len(Prefix(q)) \in Nat \ {0}
<1> DEFINE up == {i \in DOMAIN q : q[i] = ".."}
           S == STRING \cup {".."}
<1>1. /\ Len(q) \in Nat /\ Len(q) # 0 /\ DOMAIN q = 1..Len(q)
      /\ \A i \in 1..Len(q) : q[i] \in STRING
  BY EmptySeq, LenProperties, ElementOfSeq
<1>2. CASE up = {}
  <2>1. Prefix(q) = q
    BY <1>2 DEF Prefix
  <2>2. q \in Seq(S)
    BY SeqMonotonic
  <2>3. QED
    BY <1>1, <2>1, <2>2
<1>3. CASE up # {} /\ Head(q) = ".."
  <2>1. Prefix(q) = <<"..">>
    BY <1>3 DEF Prefix
  <2>2. PICK x, z : x = ".." /\ z = <<x>>
    OBVIOUS
  <2>3. x \in S
    BY <2>2
  <2>4. z \in Seq(S) /\ Len(z) = 1
    BY <2>2, <2>3
  <2>5. QED
    BY <2>1, <2>2, <2>4
<1>4. CASE up # {} /\ Head(q) # ".."
  <2>1. PICK m : m = Least(up)
    OBVIOUS
  <2>2. Prefix(q) = SubSeq(q, 1, m - 1)
    BY <1>4, <2>1 DEF Prefix
  <2>3. up \in SUBSET Nat
    BY <1>1
  <2>4. m \in up
    BY <1>4, <2>1, <2>3, LeastIs
  <2>5. m \in 1..Len(q) /\ q[m] = ".."
    BY <1>1, <2>4
  <2>6. m # 1
    BY <1>1, <1>4, <2>5
  <2>7. m - 1 \in 1..Len(q) /\ m - 1 \in Nat \ {0}
    BY <1>1, <2>5, <2>6
  <2>8. PICK n \in Nat \ {0} : n = m - 1
    BY <2>7
  <2>9. SubSeq(q, 1, n) \in Seq(S) /\ Len(SubSeq(q, 1, n)) = n
    <3>1. n \in 1..Len(q)
      BY <2>7, <2>8
    <3>2. \A i \in 1..n : q[i] \in S
      BY <1>1, <3>1
    <3>3. QED
      BY <1>1, <3>1, <3>2, SubSeqProperties
  <2>10. QED
    BY <2>2, <2>8, <2>9
<1>5. QED
  BY <1>2, <1>3, <1>4

(* how many it walks is a number *)
LEMMA WalkedIs ==
  ASSUME NEW f, NEW S, NEW q \in Seq(S)
  PROVE  Walked(f, q) \in Nat
<1>1. Len(q) \in Nat /\ DOMAIN q = 1..Len(q)
  BY LenProperties
<1>2. IsFiniteSet(1..Len(q))
  BY <1>1, FS_Interval
<1>3. IsFiniteSet({i \in DOMAIN q : f \o SubSeq(q, 1, i) \in Files})
  BY <1>1, <1>2, FS_Subset
<1>4. QED
  BY <1>3, FS_CardinalityType DEF Walked

(* to a place on the way (findmount in walk) *)
LEMMA StopTurns ==
  ASSUME NEW p \in Procs, DOMAIN w = Procs, NEW e, NEW me, Walks(t, w[p], e, me), Mounted(t),
         w[p].pc = "ewalk", NEW m \in t.hashed, NEW n \in Nat \ {0},
         t' = FindMount(t, None, None, m),
         Does(p, [nc |-> Head(t.mount[m]), nmh |-> m, n |-> n, didmount |-> TRUE, pc |-> "elem"])
  PROVE  Turns(t, w[p], t', w'[p], e, me)
<1>1. PICK k, r, r2, h : k = t /\ r = w[p] /\ r2 = w'[p] /\ h = Head(t.mount[m])
  OBVIOUS
<1>2. Walks(k, r, e, me) /\ r.pc = "ewalk" /\ Mounted(k) /\ m \in k.hashed
  BY <1>1
<1>3. /\ WOK(r) /\ Naming(k, r) /\ e \in [Chans -> Nat] /\ e[Slash] >= 1
      /\ me \in [Mheads -> Nat] /\ PlainAll(k, r)
      /\ Bal(k, Adds(e, r.c, r.start, r.nc, r.path), MAdds(me, r.mh, r.nmh))
  BY <1>2 DEF Walks
<1>4. /\ r.nc = None /\ r.nmh = None /\ r.c \in Chans /\ r.path # <<>> /\ r.start \in Chans
      /\ r.rest # <<>>
  BY <1>2, <1>3 DEF Naming
<1>5. /\ r.start \in OrNone(Chans) /\ r.path \in Seq(OrNone(Chans)) /\ r.c \in OrNone(Chans)
      /\ r.mh \in OrNone(Mheads)
  BY <1>3 DEF WOK
<1>6. PICK a, ma, none : /\ none = None /\ a = Adds(e, r.c, r.start, none, r.path)
                         /\ ma = MAdds(me, r.mh, none)
  OBVIOUS
<1>7. /\ a \in [Chans -> Nat] /\ a[Slash] >= 1 /\ ma \in [Mheads -> Nat]
  <2>1. a \in [Chans -> Nat] /\ \A d \in Chans : a[d] >= e[d]
    BY <1>3, <1>5, <1>6, AddsType
  <2>2. Slash \in Chans
    BY ChansAre DEF Slash
  <2>3. a[Slash] \in Nat /\ e[Slash] \in Nat /\ a[Slash] >= e[Slash]
    BY <1>3, <2>1, <2>2
  <2>4. ma \in [Mheads -> Nat]
    BY <1>3, <1>6, MAddsType
  <2>5. QED
    BY <1>3, <2>1, <2>3, <2>4
<1>8. Plus(a, <<none>>) = a /\ MPlus(ma, <<none>>) = ma
  <2>1. \A d \in Chans : a[d] \in Nat /\ Times(d, <<none>>) = 0
    BY <1>6, <1>7, TimesOne, ChansAre DEF One
  <2>2. \A d \in Mheads : ma[d] \in Nat /\ Times(d, <<none>>) = 0
    BY <1>6, <1>7, TimesOne, ChansAre DEF One
  <2>3. Plus(a, <<none>>) = a
    BY <1>7, <2>1 DEF Plus
  <2>4. MPlus(ma, <<none>>) = ma
    BY <1>7, <2>2 DEF MPlus
  <2>5. QED
    BY <2>3, <2>4
<1>9. Bal(k, Plus(a, <<none>>), MPlus(ma, <<none>>))
  BY <1>3, <1>4, <1>6, <1>8
<1>10. PICK k2 : k2 = FindMount(k, none, none, m)
  OBVIOUS
<1>11. /\ h \in Chans /\ Bal(k2, Plus(a, <<h>>), MPlus(ma, <<m>>))
       /\ Same(k, k2, a) /\ SameMounts(k, k2) /\ k2.umh[h] = None
  <2>1. none \in OrNone(Mheads) /\ none \in OrNone(Chans)
    BY <1>6 DEF OrNone
  <2>2. h = Head(k.mount[m])
    BY <1>1
  <2>3. QED
    BY <1>2, <1>7, <1>9, <1>10, <2>1, <2>2, FindMountKeeps
<1>12. t' = k2
  BY <1>1, <1>6, <1>10
<1>13. /\ DOMAIN r2 = WFields /\ r2.pc = "elem" /\ r2.mode = r.mode /\ r2.got = r.got
       /\ r2.c = r.c /\ r2.start = r.start /\ r2.nc = h /\ r2.path = r.path
       /\ r2.mh = r.mh /\ r2.nmh = m /\ r2.rest = r.rest /\ r2.n = n
  <2>1. DOMAIN w[p] = WFields
    BY <1>1, <1>3 DEF WOK
  <2>2. QED
    BY <1>1, <2>1 DEF Does, WFields
<1>14. Adds(e, r.c, r.start, h, r.path) = Plus(a, <<h>>)
  <2>1. Adds(e, r.c, r.start, h, r.path) = Plus(Adds(e, r.c, r.start, None, r.path), <<h>>)
    BY <1>3, <1>5, AddsNc
  <2>2. QED
    BY <1>6, <2>1
<1>15. MAdds(me, r.mh, m) = MPlus(ma, <<m>>)
  <2>1. MAdds(me, r.mh, m) = MPlus(MAdds(me, r.mh, None), <<m>>)
    BY <1>3, MAddsNmh
  <2>2. QED
    BY <1>6, <2>1
<1>16. Same(k, k2, e) /\ PlainOne(k2, r.c) /\ PlainOne(k2, r.start) /\ Plain(k2, r.path)
  <2>1. PlainOne(k, r.c) /\ PlainOne(k, r.start) /\ Plain(k, r.path)
    BY <1>2, <1>3 DEF PlainAll
  <2>2. Same(k, k2, Adds(e, r.c, r.start, none, r.path))
    BY <1>6, <1>11
  <2>3. e \in [Chans -> Nat] /\ r.path \in Seq(OrNone(Chans))
    BY <1>3, <1>5
  <2>4. QED
    BY <1>5, <2>1, <2>2, <2>3, SameAdds
<1>17. Walks(k2, r2, e, me)
  <2>1. WOK(r2)
    <3>1. m \in Mheads
      BY <1>2, <1>3 DEF Bal, TabsOK
    <3>2. QED
      BY <1>3, <1>11, <1>13, <3>1 DEF WOK, OrNone
  <2>2. Naming(k2, r2)
    <3>1. m \in k2.hashed
      BY <1>2, <1>11 DEF SameMounts
    <3>2. QED
      BY <1>4, <1>11, <1>13, <3>1 DEF Naming
  <2>3. PlainAll(k2, r2)
    <3>1. Plain(k2, r.got)
      BY <1>2, <1>16, GotKept
    <3>2. QED
      BY <1>11, <1>13, <1>16, <3>1 DEF PlainAll, PlainOne
  <2>4. Bal(k2, Adds(e, r2.c, r2.start, r2.nc, r2.path), MAdds(me, r2.mh, r2.nmh))
    BY <1>11, <1>13, <1>14, <1>15
  <2>5. \A d \in Chans : Times(d, r2.got) >= 1 => e[d] >= 1
    BY <1>2, <1>13 DEF Walks
  <2>6. r2.pc \in NamePC
    BY <1>13 DEF NamePC
  <2>7. QED
    BY <1>3, <2>1, <2>2, <2>3, <2>4, <2>5, <2>6 DEF Walks
<1>18. QED
  BY <1>1, <1>11, <1>12, <1>13, <1>16, <1>17 DEF Turns

(* to a channel of its own, for the file that it walked to *)
LEMMA NewTurns ==
  ASSUME NEW p \in Procs, DOMAIN w = Procs, NEW e, NEW me, Walks(t, w[p], e, me),
         w[p].pc = "ewalk", t.free # {}, NEW f, NEW n \in Nat \ {0},
         t' = NewChan(t, f).tabs,
         Does(p, [nc |-> NewChan(t, f).chan, n |-> n, didmount |-> FALSE, pc |-> "elem"])
  PROVE  Turns(t, w[p], t', w'[p], e, me)
<1>1. PICK k, r, r2, h, k2 : /\ k = t /\ r = w[p] /\ r2 = w'[p]
                             /\ h = NewChan(t, f).chan /\ k2 = NewChan(t, f).tabs
  OBVIOUS
<1>2. Walks(k, r, e, me) /\ r.pc = "ewalk"
  BY <1>1
<1>3. /\ WOK(r) /\ Naming(k, r) /\ e \in [Chans -> Nat] /\ e[Slash] >= 1
      /\ me \in [Mheads -> Nat] /\ PlainAll(k, r)
      /\ Bal(k, Adds(e, r.c, r.start, r.nc, r.path), MAdds(me, r.mh, r.nmh))
  BY <1>2 DEF Walks
<1>4. /\ r.nc = None /\ r.nmh = None /\ r.c \in Chans /\ r.path # <<>> /\ r.start \in Chans
      /\ r.rest # <<>>
  BY <1>2, <1>3 DEF Naming
<1>5. /\ r.start \in OrNone(Chans) /\ r.path \in Seq(OrNone(Chans)) /\ r.c \in OrNone(Chans)
      /\ r.mh \in OrNone(Mheads)
  BY <1>3 DEF WOK
<1>6. PICK a, ma, none : /\ none = None /\ a = Adds(e, r.c, r.start, none, r.path)
                         /\ ma = MAdds(me, r.mh, none)
  OBVIOUS
<1>7. Bal(k, a, ma)
  BY <1>3, <1>4, <1>6
<1>8. /\ h \in Chans /\ Bal(k2, Plus(a, <<h>>), ma)
      /\ Same(k, k2, a) /\ SameMounts(k, k2) /\ k2.umh[h] = None
  <2>1. k.free # {} /\ h = NewChan(k, f).chan /\ k2 = NewChan(k, f).tabs
    BY <1>1
  <2>2. QED
    BY <1>7, <2>1, NewChanKeeps
<1>9. t' = k2
  BY <1>1
<1>10. /\ DOMAIN r2 = WFields /\ r2.pc = "elem" /\ r2.mode = r.mode /\ r2.got = r.got
       /\ r2.c = r.c /\ r2.start = r.start /\ r2.nc = h /\ r2.path = r.path
       /\ r2.mh = r.mh /\ r2.nmh = None /\ r2.rest = r.rest /\ r2.n = n
  <2>1. DOMAIN w[p] = WFields
    BY <1>1, <1>3 DEF WOK
  <2>2. Does(p, [nc |-> h, n |-> n, didmount |-> FALSE, pc |-> "elem"])
    BY <1>1
  <2>3. QED
    BY <1>1, <1>4, <2>1, <2>2 DEF Does, WFields
<1>11. Adds(e, r.c, r.start, h, r.path) = Plus(a, <<h>>)
  <2>1. Adds(e, r.c, r.start, h, r.path) = Plus(Adds(e, r.c, r.start, None, r.path), <<h>>)
    BY <1>3, <1>5, AddsNc
  <2>2. QED
    BY <1>6, <2>1
<1>12. Same(k, k2, e) /\ PlainOne(k2, r.c) /\ PlainOne(k2, r.start) /\ Plain(k2, r.path)
  <2>1. PlainOne(k, r.c) /\ PlainOne(k, r.start) /\ Plain(k, r.path)
    BY <1>2, <1>3 DEF PlainAll
  <2>2. Same(k, k2, Adds(e, r.c, r.start, none, r.path))
    BY <1>6, <1>8
  <2>3. e \in [Chans -> Nat] /\ r.path \in Seq(OrNone(Chans))
    BY <1>3, <1>5
  <2>4. QED
    BY <1>5, <2>1, <2>2, <2>3, SameAdds
<1>13. Walks(k2, r2, e, me)
  <2>1. WOK(r2)
    BY <1>3, <1>8, <1>10 DEF WOK, OrNone
  <2>2. Naming(k2, r2)
    BY <1>4, <1>8, <1>10 DEF Naming
  <2>3. PlainAll(k2, r2)
    <3>1. Plain(k2, r.got)
      BY <1>2, <1>12, GotKept
    <3>2. QED
      BY <1>8, <1>10, <1>12, <3>1 DEF PlainAll, PlainOne
  <2>4. Bal(k2, Adds(e, r2.c, r2.start, r2.nc, r2.path), MAdds(me, r2.mh, r2.nmh))
    BY <1>6, <1>8, <1>10, <1>11
  <2>5. \A d \in Chans : Times(d, r2.got) >= 1 => e[d] >= 1
    BY <1>2, <1>10 DEF Walks
  <2>6. r2.pc \in NamePC
    BY <1>10 DEF NamePC
  <2>7. QED
    BY <1>3, <2>1, <2>2, <2>3, <2>4, <2>5, <2>6 DEF Walks
<1>14. QED
  BY <1>1, <1>8, <1>9, <1>10, <1>12, <1>13 DEF Turns

(* the walk of the device *)
LEMMA EWalkTurns ==
  ASSUME NEW p \in Procs, DOMAIN w = Procs, NEW e, NEW me, Walks(t, w[p], e, me), Mounted(t),
         EWalk(p)
  PROVE  Turns(t, w[p], t', w'[p], e, me)
<1> DEFINE q == Prefix(w[p].rest)
           from == WalkFrom(p, q)
           f == Head(from)
           at(i) == IF Nomount(p) THEN {} ELSE MountedOn(t, f \o SubSeq(q, 1, i))
           stops == {i \in 1..Walked(f, q) : i < Len(q) /\ at(i) # {}}
<1>1. w[p].pc = "ewalk"
  BY DEF EWalk
<1>2. Naming(t, w[p]) /\ WOK(w[p])
  BY DEF Walks
<1>3. w[p].nc = None /\ w[p].nmh = None /\ w[p].rest # <<>>
  BY <1>1, <1>2 DEF Naming
<1>4. q \in Seq(STRING \cup {".."}) /\ Len(q) \in Nat \ {0}
  <2>1. w[p].rest \in Seq(STRING)
    BY <1>2 DEF WOK
  <2>2. QED
    BY <1>3, <2>1, PrefixIs
<1>5. \/ Undo(p, t)
      \/ /\ stops # {}
         /\ \E m \in at(Least(stops)) :
              /\ t' = FindMount(t, None, None, m)
              /\ Does(p, [nc |-> Head(t.mount[m]), nmh |-> m, n |-> Least(stops),
                          didmount |-> TRUE, pc |-> "elem"])
      \/ /\ t.free # {} /\ t' = NewChan(t, f \o q).tabs
         /\ Does(p, [nc |-> NewChan(t, f \o q).chan, n |-> Len(q), didmount |-> FALSE,
                     pc |-> "elem"])
  BY DEF EWalk
<1>6. CASE Undo(p, t)
  BY <1>3, <1>6, UndoTurns
<1>7. ASSUME stops # {}, NEW m \in at(Least(stops)), t' = FindMount(t, None, None, m),
             Does(p, [nc |-> Head(t.mount[m]), nmh |-> m, n |-> Least(stops),
                      didmount |-> TRUE, pc |-> "elem"])
      PROVE  Turns(t, w[p], t', w'[p], e, me)
  <2>1. Least(stops) \in Nat \ {0}
    <3>1. Walked(f, q) \in Nat
      BY <1>4, WalkedIs
    <3> HIDE DEF at, f, from, q
    <3>2. stops \in SUBSET Nat
      BY <3>1
    <3>3. Least(stops) \in stops
      BY <1>7, <3>2, LeastIs
    <3>4. QED
      BY <3>1, <3>3
  <2>2. m \in t.hashed
    <3>1. m \in MountedOn(t, f \o SubSeq(q, 1, Least(stops)))
      BY <1>7
    <3>2. QED
      BY <3>1, MountedOnIs
  <2> HIDE DEF stops, at, f, from, q
  <2>3. PICK n \in Nat \ {0} : n = Least(stops)
    BY <2>1
  <2>4. Does(p, [nc |-> Head(t.mount[m]), nmh |-> m, n |-> n, didmount |-> TRUE, pc |-> "elem"])
    BY <1>7, <2>3
  <2>5. QED
    BY <1>1, <1>7, <2>2, <2>4, StopTurns
<1>8. ASSUME t.free # {}, t' = NewChan(t, f \o q).tabs,
             Does(p, [nc |-> NewChan(t, f \o q).chan, n |-> Len(q), didmount |-> FALSE,
                      pc |-> "elem"])
      PROVE  Turns(t, w[p], t', w'[p], e, me)
  <2> HIDE DEF f, from, q
  <2>1. PICK n, z : n \in Nat \ {0} /\ n = Len(q) /\ z = f \o q
    BY <1>4
  <2>2. /\ t' = NewChan(t, z).tabs
        /\ Does(p, [nc |-> NewChan(t, z).chan, n |-> n, didmount |-> FALSE, pc |-> "elem"])
    BY <1>8, <2>1
  <2>3. QED
    BY <1>1, <1>8, <2>1, <2>2, NewTurns
<1> HIDE DEF stops, at, f, from, q
<1>9. QED
  BY <1>5, <1>6, <1>7, <1>8

(* a path that goes on: the last of n elements is x *)
LEMMA MorePath ==
  ASSUME NEW n \in Nat \ {0}, NEW x \in OrNone(Chans), NEW q,
         q = [i \in 1..n |-> IF i = n THEN x ELSE None]
  PROVE  q \in Seq(OrNone(Chans)) /\ \A d \in Chans : Times(d, q) = One(d, x)
<1>1. q \in Seq(OrNone(Chans))
  <2>1. q \in [1..n -> OrNone(Chans)]
    BY DEF OrNone
  <2>2. QED
    BY <2>1
<1>2. ASSUME NEW d \in Chans PROVE Times(d, q) = One(d, x)
  <2>1. d # None
    BY ChansAre
  <2>2. CASE d = x
    <3>1. At(d, q) = {n}
      BY <2>1, <2>2 DEF At
    <3>2. Cardinality({n}) = 1
      BY FS_Singleton
    <3>3. QED
      BY <2>2, <3>1, <3>2 DEF Times, One
  <2>3. CASE d # x
    <3>1. At(d, q) = {}
      BY <2>1, <2>3 DEF At
    <3>2. Cardinality({}) = 0
      BY FS_EmptySet
    <3>3. QED
      BY <2>3, <3>1, <3>2 DEF Times, One
  <2>4. QED
    BY <2>2, <2>3
<1>3. QED
  BY <1>1, <1>2

(* the Mhead that a walk goes to becomes the one it is at *)
LEMMA MAddsMoved ==
  ASSUME NEW me \in [Mheads -> Nat], NEW x
  PROVE  MAdds(me, None, x) = MAdds(me, x, None)
<1>1. \A m \in Mheads : me[m] \in Nat /\ One(m, None) \in Nat /\ One(m, x) \in Nat
  BY DEF One
<1>2. \A m \in Mheads : me[m] + One(m, None) + One(m, x) = me[m] + One(m, x) + One(m, None)
  BY <1>1
<1>3. QED
  BY <1>2 DEF MAdds

(* addelem *)
LEMMA ElemTurns ==
  ASSUME NEW p \in Procs, DOMAIN w = Procs, NEW e, NEW me, Walks(t, w[p], e, me), Elem(p)
  PROVE  Turns(t, w[p], t', w'[p], e, me)
<1>1. PICK k, r, r2, from, q :
         /\ k = t /\ r = w[p] /\ r2 = w'[p]
         /\ from = IF w[p].nmh = None THEN None ELSE t.from[w[p].nmh]
         /\ q = [i \in 1..w[p].n |-> IF i = w[p].n THEN from ELSE None]
  OBVIOUS
<1>2. Walks(k, r, e, me) /\ r.pc = "elem"
  BY <1>1 DEF Elem
<1>3. /\ WOK(r) /\ Naming(k, r) /\ e \in [Chans -> Nat] /\ e[Slash] >= 1
      /\ me \in [Mheads -> Nat] /\ PlainAll(k, r)
      /\ Bal(k, Adds(e, r.c, r.start, r.nc, r.path), MAdds(me, r.mh, r.nmh))
  BY <1>2 DEF Walks
<1>4. /\ r.c \in Chans /\ r.path # <<>> /\ r.start \in Chans /\ r.nc \in Chans
      /\ r.n \in Nat \ {0} /\ (r.nmh # None => r.nmh \in k.hashed)
  BY <1>2, <1>3 DEF Naming
<1>5. /\ r.start \in OrNone(Chans) /\ r.path \in Seq(OrNone(Chans)) /\ r.c \in OrNone(Chans)
      /\ r.mh \in OrNone(Mheads) /\ r.nmh \in OrNone(Mheads) /\ r.nc \in OrNone(Chans)
  BY <1>3 DEF WOK
<1>6. PICK a, ma : a = Adds(e, r.c, r.start, r.nc, r.path) /\ ma = MAdds(me, r.mh, r.nmh)
  OBVIOUS
<1>7. Bal(k, a, ma)
  BY <1>3, <1>6
<1>8. TabsOK(k)
  BY <1>7 DEF Bal
<1>9. from \in OrNone(Chans) /\ from \notin k.free /\ PlainOne(k, from)
  <2>1. CASE r.nmh = None
    <3>1. from = None
      BY <1>1, <2>1
    <3>2. None \notin k.free
      BY <1>8, ChansAre DEF TabsOK
    <3>3. QED
      BY <3>1, <3>2 DEF OrNone, PlainOne
  <2>2. CASE r.nmh # None
    <3>1. from = k.from[r.nmh]
      BY <1>1, <2>2
    <3>2. k.from[r.nmh] \in Chans
      BY <1>4, <1>7, <2>2 DEF Bal, Kept
    <3>3. InTables(k, k.from[r.nmh]) >= 1
      BY <1>4, <1>8, <2>2, InFrom
    <3>4. from \notin k.free /\ k.umh[from] = None
      BY <1>7, <3>1, <3>2, <3>3, KeptPlain
    <3>5. QED
      BY <3>1, <3>2, <3>4 DEF OrNone, PlainOne
  <2>3. QED
    BY <2>1, <2>2
<1>10. q \in Seq(OrNone(Chans)) /\ \A d \in Chans : Times(d, q) = One(d, from)
  <2>1. PICK n : n = r.n
    OBVIOUS
  <2>2. n \in Nat \ {0} /\ q = [i \in 1..n |-> IF i = n THEN from ELSE None]
    BY <1>1, <1>4, <2>1
  <2>3. QED
    BY <1>9, <2>2, MorePath
<1>11. PICK path2 : path2 = r.path \o q
  OBVIOUS
<1>12. /\ path2 \in Seq(OrNone(Chans)) /\ path2 # <<>>
       /\ \A d \in Chans : Times(d, path2) = Times(d, r.path) + One(d, from)
  <2>1. path2 \in Seq(OrNone(Chans)) /\ Len(path2) = Len(r.path) + Len(q)
    BY <1>5, <1>10, <1>11, ConcatProperties
  <2>2. path2 # <<>>
    <3>1. Len(r.path) \in Nat /\ Len(r.path) # 0 /\ Len(q) \in Nat
      BY <1>4, <1>5, <1>10, EmptySeq, LenProperties
    <3>2. Len(path2) # 0
      BY <2>1, <3>1
    <3>3. QED
      BY <3>2
  <2>3. ASSUME NEW d \in Chans PROVE Times(d, path2) = Times(d, r.path) + One(d, from)
    <3>1. Times(d, r.path \o q) = Times(d, r.path) + Times(d, q)
      BY <1>5, <1>10, TimesConcat
    <3>2. QED
      BY <1>10, <1>11, <3>1
  <2>4. QED
    BY <2>1, <2>2, <2>3
<1>13. PICK none, b : none = None /\ b = Adds(e, r.nc, r.start, none, path2)
  OBVIOUS
<1>14. b \in [Chans -> Nat] /\ b[Slash] >= 1
  <2>1. b \in [Chans -> Nat] /\ \A d \in Chans : b[d] >= e[d]
    BY <1>3, <1>12, <1>13, AddsType
  <2>2. Slash \in Chans
    BY ChansAre DEF Slash
  <2>3. b[Slash] \in Nat /\ e[Slash] \in Nat /\ b[Slash] >= e[Slash]
    BY <1>3, <2>1, <2>2
  <2>4. QED
    BY <1>3, <2>1, <2>3
<1>15. Plus(a, <<from>>) = Plus(b, <<r.c>>)
  <2>1. ASSUME NEW d \in Chans PROVE a[d] + Times(d, <<from>>) = b[d] + Times(d, <<r.c>>)
    <3>1. Times(d, <<from>>) = One(d, from) /\ Times(d, <<r.c>>) = One(d, r.c)
      BY TimesOne
    <3>2. /\ a[d] = e[d] + One(d, r.c) + One(d, r.start) + One(d, r.nc) + Times(d, r.path)
          /\ b[d] = e[d] + One(d, r.nc) + One(d, r.start) + One(d, None) + Times(d, path2)
      BY <1>6, <1>13 DEF Adds
    <3>3. One(d, None) = 0 /\ Times(d, r.path) \in Nat
      BY <1>5, AtIs, ChansAre DEF One
    <3>4. PICK n \in Nat, i \in Nat, j \in Nat, m \in Nat, l \in Nat, x \in Nat :
            /\ n = e[d] /\ i = One(d, r.c) /\ j = One(d, r.start) /\ m = One(d, r.nc)
            /\ l = Times(d, r.path) /\ x = One(d, from)
      BY <1>3, <3>3 DEF One
    <3>5. n + i + j + m + l + x = n + m + j + 0 + (l + x) + i
      OBVIOUS
    <3>6. QED
      BY <1>12, <3>1, <3>2, <3>3, <3>4, <3>5
  <2>2. QED
    BY <2>1 DEF Plus
<1>16. PICK k1 : k1 = IncrefAll(k, <<from>>)
  OBVIOUS
<1>17. Bal(k1, Plus(b, <<r.c>>), ma) /\ But("ref", k, k1)
  <2>1. PICK z : z = <<from>>
    OBVIOUS
  <2>2. z \in Seq(OrNone(Chans)) /\ \A i \in DOMAIN z : z[i] \notin k.free
    BY <1>9, <2>1
  <2>3. Bal(k1, Plus(a, z), ma) /\ But("ref", k, k1)
    BY <1>7, <1>16, <2>1, <2>2, IncrefAllKeeps DEF But
  <2>4. QED
    BY <1>15, <2>1, <2>3
<1>18. PICK k2, k3 : k2 = CClose(k1, <<r.c>>) /\ k3 = PutMhead(k2, r.mh)
  OBVIOUS
<1>19. Bal(k2, b, ma) /\ Same(k1, k2, b) /\ SameMounts(k1, k2)
  BY <1>5, <1>14, <1>17, <1>18, CloseOneSame
<1>20. Bal(k3, b, MAdds(me, r.nmh, None)) /\ Same(k2, k3, b) /\ SameMounts(k2, k3)
  <2>1. ma = MPlus(MAdds(me, None, r.nmh), <<r.mh>>)
    BY <1>3, <1>6, MAddsMh
  <2>2. MAdds(me, None, r.nmh) = MAdds(me, r.nmh, None)
    BY <1>3, MAddsMoved
  <2>3. PICK m2 : m2 = MAdds(me, r.nmh, None)
    OBVIOUS
  <2>4. m2 \in [Mheads -> Nat]
    BY <1>3, <2>3, MAddsType
  <2>5. Bal(k2, b, MPlus(m2, <<r.mh>>))
    BY <1>19, <2>1, <2>2, <2>3
  <2>6. Bal(k3, b, m2) /\ Same(k2, k3, b) /\ SameMounts(k2, k3)
    BY <1>5, <1>18, <2>4, <2>5, PutSame
  <2>7. QED
    BY <2>3, <2>6
<1>21. Same(k, k3, b) /\ SameMounts(k, k3)
  <2>1. Same(k, k1, b) /\ SameMounts(k, k1)
    BY <1>17, ButRefSame
  <2>2. Same(k, k2, b) /\ SameMounts(k, k2)
    BY <1>19, <2>1, SameOn
  <2>3. QED
    BY <1>20, <2>2, SameOn
<1>22. t' = k3
  BY <1>1, <1>16, <1>18 DEF Elem
<1>23. /\ DOMAIN r2 = WFields /\ r2.pc = "walk" /\ r2.mode = r.mode /\ r2.got = r.got
       /\ r2.c = r.nc /\ r2.start = r.start /\ r2.nc = None /\ r2.path = path2
       /\ r2.mh = r.nmh /\ r2.nmh = None /\ r2.rest = SubSeq(r.rest, r.n + 1, Len(r.rest))
  <2>1. DOMAIN w[p] = WFields
    BY <1>1, <1>3 DEF WOK
  <2>2. QED
    BY <1>1, <1>11, <2>1, Zenon DEF Elem, Does, WFields
<1>24. Plain(k, path2)
  <2>1. \A d \in Chans : Times(d, r.path) >= 1 => k.umh[d] = None
    <3>1. Plain(k, r.path)
      BY <1>3 DEF PlainAll
    <3>2. QED
      BY <1>5, <3>1, PlainTimes
  <2>2. ASSUME NEW d \in Chans, Times(d, path2) >= 1 PROVE k.umh[d] = None
    <3>1. CASE d = from
      <4>1. from # None
        BY <3>1, ChansAre
      <4>2. QED
        BY <1>9, <3>1, <4>1 DEF PlainOne
    <3>2. CASE d # from
      <4>1. One(d, from) = 0
        BY <3>2 DEF One
      <4>2. Times(d, r.path) \in Nat
        BY <1>5, AtIs
      <4>3. Times(d, path2) = Times(d, r.path)
        BY <1>12, <4>1, <4>2
      <4>4. QED
        BY <2>1, <2>2, <4>3
    <3>3. QED
      BY <3>1, <3>2
  <2>3. QED
    BY <1>12, <2>2, PlainTimes
<1>25. /\ Same(k, k3, e) /\ PlainOne(k3, r.nc) /\ PlainOne(k3, r.start) /\ Plain(k3, path2)
  <2>1. PlainOne(k, r.nc) /\ PlainOne(k, r.start)
    BY <1>2, <1>3 DEF PlainAll
  <2>2. Same(k, k3, Adds(e, r.nc, r.start, none, path2))
    BY <1>13, <1>21
  <2>3. e \in [Chans -> Nat] /\ path2 \in Seq(OrNone(Chans))
    BY <1>3, <1>12
  <2>4. QED
    BY <1>5, <1>24, <2>1, <2>2, <2>3, SameAdds
<1>26. Walks(k3, r2, e, me)
  <2>1. WOK(r2)
    <3>1. r.got \in Seq(Chans) /\ r.rest \in Seq(STRING)
      BY <1>3 DEF WOK
    <3>2. SubSeq(r.rest, r.n + 1, Len(r.rest)) \in Seq(STRING)
      <4>1. Len(r.rest) \in Nat /\ r.n \in Nat
        BY <1>4, <3>1, LenProperties
      <4>2. \A i \in (r.n + 1)..Len(r.rest) : i \in 1..Len(r.rest)
        BY <4>1
      <4>3. \A i \in (r.n + 1)..Len(r.rest) : r.rest[i] \in STRING
        BY <3>1, <4>2, ElementOfSeq
      <4>4. r.n + 1 \in Int /\ Len(r.rest) \in Int
        BY <4>1
      <4>5. QED
        BY <4>3, <4>4, SubSeqProperties
    <3>3. QED
      BY <1>5, <1>12, <1>23, <3>1, <3>2 DEF WOK, OrNone
  <2>2. Naming(k3, r2)
    BY <1>4, <1>12, <1>23 DEF Naming
  <2>3. PlainAll(k3, r2)
    <3>1. Plain(k3, r.got)
      BY <1>2, <1>25, GotKept
    <3>2. PlainOne(k3, None)
      BY DEF PlainOne
    <3>3. QED
      BY <1>23, <1>25, <3>1, <3>2 DEF PlainAll
  <2>4. Bal(k3, Adds(e, r2.c, r2.start, r2.nc, r2.path), MAdds(me, r2.mh, r2.nmh))
    BY <1>13, <1>20, <1>23
  <2>5. \A d \in Chans : Times(d, r2.got) >= 1 => e[d] >= 1
    BY <1>2, <1>23 DEF Walks
  <2>6. r2.pc \in NamePC
    BY <1>23 DEF NamePC
  <2>7. QED
    BY <1>3, <2>1, <2>2, <2>3, <2>4, <2>5, <2>6 DEF Walks
<1>27. QED
  BY <1>1, <1>21, <1>22, <1>23, <1>25, <1>26 DEF Turns

-----------------------------------------------------------------------------
(* Fourteenth part: the end of a walk, and the open.                       *)

(* what these are has a count *)
LEMMA AddsSlash ==
  ASSUME NEW e \in [Chans -> Nat], e[Slash] >= 1, NEW c, NEW start, NEW nc, NEW S,
         NEW path \in Seq(S), NEW b, b = Adds(e, c, start, nc, path)
  PROVE  b \in [Chans -> Nat] /\ b[Slash] >= 1
<1>1. b \in [Chans -> Nat] /\ \A d \in Chans : b[d] >= e[d]
  BY AddsType
<1>2. Slash \in Chans
  BY ChansAre DEF Slash
<1>3. b[Slash] \in Nat /\ e[Slash] \in Nat /\ b[Slash] >= e[Slash]
  BY <1>1, <1>2
<1>4. QED
  BY <1>1, <1>3

(* the path of c is p *)
PathIs(k, c, p) == k.path[c] = p

(* SetPath gives the channel its path *)
LEMMA SetPathIs ==
  ASSUME NEW k, NEW me, NEW c \in Chans, c # Slash, c \notin k.free,
         NEW p \in Seq(OrNone(Chans)), NEW e \in [Chans -> Nat], e[Slash] >= 1, e[c] >= 1,
         Bal(k, Plus(e, p), me), Plain(k, p)
  PROVE  PathIs(SetPath(k, c, p), c, p)
<1>1. PICK k1 : k1 = WithPath(k, c, p)
  OBVIOUS
<1>2. Bal(k1, Plus(e, k.path[c]), me)
  BY <1>1, PathPut
<1>3. k.path[c] \in Seq(OrNone(Chans))
  BY DEF Bal, TabsOK
<1>4. PICK k2 : k2 = CClose(k1, k.path[c])
  OBVIOUS
<1>5. Bal(k2, e, me) /\ Shrinks(k1, k2)
  BY <1>2, <1>3, <1>4, CCloseKeeps
<1>6. SetPath(k, c, p) = k2
  BY <1>1, <1>4 DEF SetPath, WithPath
<1>7. k1.path[c] = p
  <2>1. TabsOK(k)
    BY DEF Bal
  <2>2. k.path \in [Chans -> Seq(OrNone(Chans))] /\ DOMAIN k = TabFields
    BY <2>1 DEF TabsOK
  <2>3. QED
    BY <1>1, <2>2 DEF WithPath, TabFields
<1>8. c \notin k2.free
  BY <1>5, InUse
<1>9. k2.path[c] = k1.path[c]
  BY <1>5, <1>8 DEF Shrinks
<1>10. QED
  BY <1>6, <1>7, <1>9 DEF PathIs

(* closing leaves the path of one that is kept *)
LEMMA ClosePathIs ==
  ASSUME NEW k, NEW x \in OrNone(Chans), NEW e \in [Chans -> Nat], NEW me,
         Bal(k, Plus(e, <<x>>), me), e[Slash] >= 1, NEW c \in Chans, e[c] >= 1, NEW p,
         PathIs(k, c, p)
  PROVE  PathIs(CClose(k, <<x>>), c, p)
<1>1. PICK q : q = <<x>>
  OBVIOUS
<1>2. q \in Seq(OrNone(Chans)) /\ Bal(k, Plus(e, q), me)
  BY <1>1
<1>3. PICK k2 : k2 = CClose(k, q)
  OBVIOUS
<1>4. Bal(k2, e, me) /\ Shrinks(k, k2)
  BY <1>2, <1>3, CCloseKeeps
<1>5. c \notin k2.free
  BY <1>4, InUse
<1>6. k2.path[c] = k.path[c]
  BY <1>4, <1>5 DEF Shrinks
<1>7. QED
  BY <1>1, <1>3, <1>6 DEF PathIs

(* the channel gets a copy of its own, with the path *)
OwnPath(k, c, p) == SetPath(CUnique(k, c).tabs, CUnique(k, c).chan, p)

(* OwnPath counts right: the path goes to the channel *)
LEMMA OwnPathKeeps ==
  ASSUME NEW k, NEW me, NEW c \in Chans, k.free # {}, NEW p \in Seq(OrNone(Chans)),
         Plain(k, p), PlainOne(k, c), NEW e \in [Chans -> Nat], e[Slash] >= 1,
         Bal(k, Plus(Plus(e, p), <<c>>), me)
  PROVE  LET uc == CUnique(k, c).chan
             k2 == OwnPath(k, c, p)
         IN /\ uc \in Chans /\ uc # Slash /\ e[uc] = 0
            /\ Bal(k2, Plus(e, <<uc>>), me) /\ Same(k, k2, e) /\ SameMounts(k, k2)
            /\ PlainOne(k2, uc) /\ PathIs(k2, uc, p) /\ InTables(k2, uc) = 0
<1>1. PICK uc, u1, k2 : /\ uc = CUnique(k, c).chan /\ u1 = CUnique(k, c).tabs
                        /\ k2 = SetPath(u1, uc, p)
  OBVIOUS
<1>2. PICK a : a = Plus(e, p)
  OBVIOUS
<1>3. a \in [Chans -> Nat] /\ a[Slash] >= 1 /\ \A d \in Chans : a[d] = e[d] + Times(d, p)
  <2>1. \A d \in Chans : a[d] = e[d] + Times(d, p)
    BY <1>2, PlusType
  <2>2. QED
    BY <1>2, <2>1, SlashPlus
<1>4. /\ uc \in Chans /\ uc # Slash
      /\ Bal(u1, Plus(a, <<uc>>), me)
      /\ Same(k, u1, a) /\ SameMounts(k, u1)
      /\ a[uc] = 0 /\ InTables(u1, uc) = 0
      /\ (k.umh[c] = None => u1.umh[uc] = None)
  <2>1. Bal(k, Plus(a, <<c>>), me)
    BY <1>2
  <2>2. QED
    BY <1>1, <1>3, <2>1, CUniqueKeeps
<1>5. e[uc] = 0 /\ Times(uc, p) = 0
  <2>1. e[uc] \in Nat /\ Times(uc, p) \in Nat
    BY <1>4, AtIs
  <2>2. e[uc] + Times(uc, p) = 0
    BY <1>3, <1>4
  <2>3. QED
    BY <2>1, <2>2
<1>6. PlainOne(u1, uc)
  <2>1. k.umh[c] = None
    BY ChansAre DEF PlainOne
  <2>2. QED
    BY <1>4, <2>1 DEF PlainOne
<1>7. Same(k, u1, e) /\ Plain(u1, p)
  <2>1. \A d \in Chans : e[d] \in Nat /\ Times(d, p) \in Nat
    BY AtIs
  <2>2. \A d \in Chans : (e[d] >= 1 => a[d] >= 1) /\ (Times(d, p) >= 1 => a[d] >= 1)
    BY <1>3, <2>1
  <2>3. Same(k, u1, e)
    BY <1>4, <2>2, SameFewer
  <2>4. Plain(u1, p)
    BY <1>4, <2>2, PlainKept
  <2>5. QED
    BY <2>3, <2>4
<1>8. PICK b : b = Plus(e, <<uc>>)
  OBVIOUS
<1>9. /\ b \in [Chans -> Nat] /\ b[Slash] >= 1 /\ b[uc] >= 1
      /\ \A d \in Chans : e[d] >= 1 => b[d] >= 1
  <2>1. b \in [Chans -> Nat] /\ \A d \in Chans : b[d] = e[d] + One(d, uc)
    BY <1>8, PlusOne
  <2>2. \A d \in Chans : e[d] \in Nat /\ One(d, uc) \in Nat
    BY DEF One
  <2>3. \A d \in Chans : e[d] >= 1 => b[d] >= 1
    BY <2>1, <2>2
  <2>4. Slash \in Chans
    BY ChansAre DEF Slash
  <2>5. One(uc, uc) = 1
    BY DEF One
  <2>6. b[uc] = e[uc] + 1
    BY <1>4, <2>1, <2>5
  <2>7. b[uc] >= 1
    BY <1>5, <2>6
  <2>8. QED
    BY <2>1, <2>3, <2>4, <2>7
<1>10. Plus(a, <<uc>>) = Plus(b, p)
  <2>1. PICK z : z = <<uc>>
    OBVIOUS
  <2>2. z \in Seq(OrNone(Chans))
    BY <1>4, <2>1 DEF OrNone
  <2>3. Plus(Plus(e, p), z) = Plus(e, p \o z) /\ Plus(Plus(e, z), p) = Plus(e, p \o z)
    BY <2>2, PlusPlus
  <2>4. QED
    BY <1>2, <1>8, <2>1, <2>3
<1>11. Bal(u1, Plus(b, p), me)
  BY <1>4, <1>10
<1>12. uc \notin u1.free
  <2>1. PICK f : f = Plus(b, p)
    OBVIOUS
  <2>2. f[uc] >= 1
    <3>1. f[uc] >= b[uc] /\ f[uc] \in Nat /\ b[uc] \in Nat
      BY <1>4, <1>9, <2>1, PlusType
    <3>2. QED
      BY <1>9, <3>1
  <2>3. Bal(u1, f, me)
    BY <1>11, <2>1
  <2>4. QED
    BY <1>4, <2>2, <2>3, InUse
<1>13. /\ Bal(k2, b, me) /\ Same(u1, k2, b) /\ SameMounts(u1, k2)
       /\ InTables(k2, uc) = 0
  <2>1. uc \in Chans /\ uc # Slash /\ b \in [Chans -> Nat] /\ b[Slash] >= 1 /\ Plain(u1, p)
    BY <1>4, <1>7, <1>9
  <2>2. PICK k3 : k3 = SetPath(u1, uc, p)
    OBVIOUS
  <2>3. /\ Bal(k3, b, me) /\ Same(u1, k3, b) /\ SameMounts(u1, k3)
        /\ \A d : InTables(u1, d) = 0 /\ Times(d, p) = 0 => InTables(k3, d) = 0
    BY <1>11, <1>12, <2>1, <2>2, SetPathKeeps
  <2>4. InTables(k3, uc) = 0
    BY <1>4, <1>5, <2>3
  <2>5. k3 = k2
    BY <1>1, <2>2
  <2>6. QED
    BY <2>3, <2>4, <2>5
<1>14. PathIs(k2, uc, p)
  BY <1>1, <1>4, <1>7, <1>9, <1>11, <1>12, SetPathIs
<1>15. Same(u1, k2, e)
  BY <1>9, <1>13, SameFewer
<1>16. Same(k, k2, e) /\ SameMounts(k, k2)
  BY <1>4, <1>7, <1>13, <1>15, SameOn
<1>17. PlainOne(k2, uc)
  BY <1>4, <1>6, <1>9, <1>13 DEF PlainOne, Same
<1>18. k2 = OwnPath(k, c, p)
  BY <1>1 DEF OwnPath
<1>19. QED
  BY <1>1, <1>4, <1>5, <1>8, <1>13, <1>14, <1>16, <1>17, <1>18

(* what is in a path is kept by the tables *)
LEMMA PathCounted ==
  ASSUME NEW k, NEW e, NEW me, Bal(k, e, me), NEW c \in Chans, NEW p \in Seq(OrNone(Chans)),
         PathIs(k, c, p)
  PROVE  (\A i \in DOMAIN p : p[i] \notin k.free) /\ Plain(k, p)
<1>1. TabsOK(k) /\ k.path[c] = p
  BY DEF Bal, PathIs
<1>2. ASSUME NEW i \in DOMAIN p, p[i] # None PROVE p[i] \notin k.free /\ k.umh[p[i]] = None
  <2>1. p[i] \in Chans
    BY <1>2 DEF OrNone
  <2>2. InTables(k, p[i]) >= 1
    BY <1>1, InPath
  <2>3. QED
    BY <2>1, <2>2, KeptPlain
<1>3. None \notin k.free
  BY <1>1, ChansAre DEF TabsOK
<1>4. QED
  BY <1>2, <1>3 DEF Plain

(* the end of a walk *)
LEMMA WalkEndTurns ==
  ASSUME NEW p \in Procs, DOMAIN w = Procs, NEW e, NEW me, Walks(t, w[p], e, me), WalkEnd(p)
  PROVE  Turns(t, w[p], t', w'[p], e, me)
<1>1. PICK k, r, r2 : k = t /\ r = w[p] /\ r2 = w'[p]
  OBVIOUS
<1>2. Walks(k, r, e, me) /\ r.pc = "walk" /\ r.rest = <<>> /\ k.free # {}
  BY <1>1 DEF WalkEnd
<1>3. /\ WOK(r) /\ Naming(k, r) /\ e \in [Chans -> Nat] /\ e[Slash] >= 1
      /\ me \in [Mheads -> Nat] /\ PlainAll(k, r)
      /\ Bal(k, Adds(e, r.c, r.start, r.nc, r.path), MAdds(me, r.mh, r.nmh))
  BY <1>2 DEF Walks
<1>4. r.c \in Chans /\ r.path # <<>> /\ r.start \in Chans /\ r.nc = None /\ r.nmh = None
  BY <1>2, <1>3 DEF Naming
<1>5. /\ r.start \in OrNone(Chans) /\ r.path \in Seq(OrNone(Chans)) /\ r.c \in OrNone(Chans)
      /\ r.mh \in OrNone(Mheads)
  BY <1>3 DEF WOK
<1>6. PlainOne(k, r.c) /\ PlainOne(k, r.start) /\ Plain(k, r.path)
  BY <1>2, <1>3 DEF PlainAll
<1>7. PICK k1 : k1 = PutMhead(k, r.mh)
  OBVIOUS
<1>8. PICK none, a : none = <<>> /\ a = Adds(e, None, r.start, None, none)
  OBVIOUS
<1>9. none \in Seq(OrNone(Chans))
  BY <1>8
<1>10. a \in [Chans -> Nat] /\ a[Slash] >= 1
  BY <1>3, <1>8, <1>9, AddsSlash
<1>11. Adds(e, r.c, r.start, None, r.path) = Plus(Plus(a, r.path), <<r.c>>)
  <2>1. Adds(e, r.c, r.start, None, r.path) = Plus(Adds(e, None, r.start, None, r.path), <<r.c>>)
    BY <1>3, <1>5, AddsC
  <2>2. Adds(e, None, r.start, None, r.path) = Plus(Adds(e, None, r.start, None, <<>>), r.path)
    BY <1>3, <1>5, AddsPath
  <2>3. QED
    BY <1>8, <2>1, <2>2
<1>12. /\ Bal(k1, Plus(Plus(a, r.path), <<r.c>>), me) /\ SameMounts(k, k1)
       /\ k1.umh = k.umh /\ k1.free = k.free /\ Same(k, k1, e)
  <2>1. MAdds(me, r.mh, None) = MPlus(me, <<r.mh>>)
    BY <1>3, MAddsIs
  <2>2. PICK b : b = Plus(Plus(a, r.path), <<r.c>>)
    OBVIOUS
  <2>3. Bal(k, b, MPlus(me, <<r.mh>>))
    BY <1>3, <1>4, <1>11, <2>1, <2>2
  <2>4. QED
    BY <1>3, <1>5, <1>7, <2>2, <2>3, PutSame
<1>13. PlainOne(k1, r.c) /\ PlainOne(k1, r.start) /\ Plain(k1, r.path)
  BY <1>6, <1>12 DEF PlainOne, Plain
<1>14. PICK uc, k2 : uc = CUnique(k1, r.c).chan /\ k2 = OwnPath(k1, r.c, r.path)
  OBVIOUS
<1>15. /\ uc \in Chans
       /\ Bal(k2, Plus(a, <<uc>>), me) /\ Same(k1, k2, a) /\ SameMounts(k1, k2)
       /\ PlainOne(k2, uc) /\ PathIs(k2, uc, r.path)
  BY <1>2, <1>4, <1>5, <1>10, <1>12, <1>13, <1>14, OwnPathKeeps
<1>16. Same(k1, k2, e) /\ PlainOne(k2, r.start)
  <2>1. Same(k1, k2, Adds(e, None, r.start, None, none))
    BY <1>8, <1>15
  <2>2. QED
    BY <1>3, <1>5, <1>9, <1>13, <2>1, SameAdds
<1>17. PICK b : b = Adds(e, uc, None, None, none)
  OBVIOUS
<1>18. b \in [Chans -> Nat] /\ b[Slash] >= 1
  BY <1>3, <1>9, <1>17, AddsSlash
<1>19. Plus(a, <<uc>>) = Plus(b, <<r.start>>) /\ b = Plus(e, <<uc>>)
  <2>1. Adds(e, uc, r.start, None, none) = Plus(a, <<uc>>)
    <3>1. Adds(e, uc, r.start, None, none) = Plus(Adds(e, None, r.start, None, none), <<uc>>)
      BY <1>3, <1>9, AddsC
    <3>2. QED
      BY <1>8, <3>1
  <2>2. Adds(e, uc, r.start, None, none) = Plus(b, <<r.start>>)
    <3>1. Adds(e, uc, r.start, None, none) = Plus(Adds(e, uc, None, None, none), <<r.start>>)
      BY <1>3, <1>9, AddsStart
    <3>2. QED
      BY <1>17, <3>1
  <2>3. b = Plus(e, <<uc>>)
    <3>1. Adds(e, uc, None, None, none) = Plus(Adds(e, None, None, None, none), <<uc>>)
      BY <1>3, <1>9, AddsC
    <3>2. Adds(e, None, None, None, <<>>) = e
      BY <1>3, AddsNone
    <3>3. QED
      BY <1>8, <1>17, <3>1, <3>2
  <2>4. QED
    BY <2>1, <2>2, <2>3
<1>20. Bal(k2, Plus(b, <<r.start>>), me)
  BY <1>15, <1>19
<1>21. b[uc] >= 1 /\ \A d \in Chans : e[d] >= 1 => b[d] >= 1
  <2>1. \A d \in Chans : b[d] = e[d] + One(d, uc) /\ One(d, uc) \in Nat /\ e[d] \in Nat
    BY <1>3, <1>19, PlusOne DEF One
  <2>2. One(uc, uc) = 1
    BY DEF One
  <2>3. b[uc] >= 1
    <3>1. b[uc] = e[uc] + 1 /\ e[uc] \in Nat
      BY <1>15, <2>1, <2>2
    <3>2. QED
      BY <3>1
  <2>4. \A d \in Chans : e[d] >= 1 => b[d] >= 1
    BY <2>1
  <2>5. QED
    BY <2>3, <2>4
<1>22. PICK k3 : k3 = CClose(k2, <<r.start>>)
  OBVIOUS
<1>23. Bal(k3, b, me) /\ Same(k2, k3, b) /\ SameMounts(k2, k3)
  BY <1>5, <1>18, <1>20, <1>22, CloseOneSame
<1>24. PathIs(k3, uc, r.path)
  BY <1>5, <1>15, <1>18, <1>20, <1>21, <1>22, ClosePathIs
<1>25. Same(k, k3, e) /\ SameMounts(k, k3)
  <2>1. Same(k2, k3, e)
    BY <1>21, <1>23, SameFewer
  <2>2. Same(k, k2, e) /\ SameMounts(k, k2)
    BY <1>12, <1>15, <1>16, SameOn
  <2>3. QED
    BY <1>23, <2>1, <2>2, SameOn
<1>26. PlainOne(k3, uc)
  BY <1>15, <1>21, <1>23 DEF PlainOne, Same
<1>27. k3 = CClose(SetPath(CUnique(k1, r.c).tabs, uc, r.path), <<r.start>>)
  BY <1>14, <1>22 DEF OwnPath
<1>28. MAdds(me, None, None) = me
  BY <1>3, MAddsIs
<1>29. CASE r.mode = "Aopen"
  <2>1. PICK k4 : k4 = IncrefAll(k3, r.path)
    OBVIOUS
  <2>2. t' = k4
    BY <1>1, <1>7, <1>14, <1>27, <1>29, <2>1 DEF WalkEnd
  <2>3. (\A i \in DOMAIN r.path : r.path[i] \notin k3.free) /\ Plain(k3, r.path)
    BY <1>5, <1>15, <1>23, <1>24, PathCounted
  <2>4. Bal(k4, Plus(b, r.path), me) /\ But("ref", k3, k4)
    BY <1>5, <1>23, <2>1, <2>3, IncrefAllKeeps DEF But
  <2>5. Same(k3, k4, e) /\ SameMounts(k3, k4) /\ k4.umh = k3.umh
    BY <2>4, ButRefSame
  <2>6. Same(k, k4, e) /\ SameMounts(k, k4)
    BY <1>25, <2>5, SameOn
  <2>7. Plus(b, r.path) = Adds(e, uc, None, None, r.path)
    <3>1. Adds(e, uc, None, None, r.path) = Plus(Adds(e, uc, None, None, <<>>), r.path)
      BY <1>3, <1>5, AddsPath
    <3>2. QED
      BY <1>8, <1>17, <3>1
  <2>8. /\ DOMAIN r2 = WFields /\ r2.pc = "domount" /\ r2.mode = r.mode /\ r2.got = r.got
        /\ r2.c = uc /\ r2.start = None /\ r2.nc = None /\ r2.path = r.path
        /\ r2.mh = None /\ r2.nmh = None /\ r2.rest = <<>>
    <3>1. DOMAIN w[p] = WFields
      BY <1>1, <1>3 DEF WOK
    <3>2. QED
      BY <1>1, <1>2, <1>4, <1>7, <1>14, <1>29, <3>1 DEF WalkEnd, Does, WFields
  <2>9. Walks(k4, r2, e, me)
    <3>1. WOK(r2)
      BY <1>2, <1>3, <1>5, <1>15, <2>8 DEF WOK, OrNone
    <3>2. Naming(k4, r2)
      BY <1>4, <1>15, <1>29, <2>8 DEF Naming
    <3>3. PlainAll(k4, r2)
      <4>1. Plain(k4, r.got)
        BY <1>2, <2>6, GotKept
      <4>2. PlainOne(k4, None)
        BY DEF PlainOne
      <4>3. PlainOne(k4, uc) /\ Plain(k4, r.path)
        BY <1>26, <2>3, <2>5 DEF PlainOne, Plain
      <4>4. QED
        BY <2>8, <4>1, <4>2, <4>3 DEF PlainAll
    <3>4. Bal(k4, Adds(e, r2.c, r2.start, r2.nc, r2.path), MAdds(me, r2.mh, r2.nmh))
      BY <1>28, <2>4, <2>7, <2>8
    <3>5. \A d \in Chans : Times(d, r2.got) >= 1 => e[d] >= 1
      BY <1>2, <2>8 DEF Walks
    <3>6. r2.pc \in NamePC
      BY <2>8 DEF NamePC
    <3>7. QED
      BY <1>3, <3>1, <3>2, <3>3, <3>4, <3>5, <3>6 DEF Walks
  <2>10. QED
    BY <1>1, <2>2, <2>6, <2>8, <2>9 DEF Turns
<1>30. CASE r.mode # "Aopen"
  <2>1. t' = k3
    BY <1>1, <1>7, <1>14, <1>27, <1>30 DEF WalkEnd
  <2>2. /\ DOMAIN r2 = WFields /\ r2.pc = "back" /\ r2.mode = r.mode /\ r2.got = r.got
        /\ r2.c = uc /\ r2.start = None /\ r2.nc = None /\ r2.path = <<>>
        /\ r2.mh = None /\ r2.nmh = None /\ r2.rest = <<>>
    <3>1. DOMAIN w[p] = WFields
      BY <1>1, <1>3 DEF WOK
    <3>2. QED
      BY <1>1, <1>2, <1>4, <1>7, <1>14, <1>30, <3>1 DEF WalkEnd, Does, WFields
  <2>3. Walks(k3, r2, e, me)
    <3>1. WOK(r2)
      BY <1>2, <1>3, <1>5, <1>15, <2>2 DEF WOK, OrNone
    <3>2. Naming(k3, r2)
      BY <1>15, <2>2 DEF Naming
    <3>3. PlainAll(k3, r2)
      <4>1. Plain(k3, r.got)
        BY <1>2, <1>25, GotKept
      <4>2. PlainOne(k3, None) /\ Plain(k3, <<>>)
        BY DEF PlainOne, Plain
      <4>3. QED
        BY <1>26, <2>2, <4>1, <4>2 DEF PlainAll
    <3>4. Bal(k3, Adds(e, r2.c, r2.start, r2.nc, r2.path), MAdds(me, r2.mh, r2.nmh))
      BY <1>8, <1>17, <1>23, <1>28, <2>2
    <3>5. \A d \in Chans : Times(d, r2.got) >= 1 => e[d] >= 1
      BY <1>2, <2>2 DEF Walks
    <3>6. r2.pc \in NamePC
      BY <2>2 DEF NamePC
    <3>7. QED
      BY <1>3, <3>1, <3>2, <3>3, <3>4, <3>5, <3>6 DEF Walks
  <2>4. QED
    BY <1>1, <1>25, <2>1, <2>2, <2>3 DEF Turns
<1>31. QED
  BY <1>29, <1>30

(* the open: a union's Mhead goes to the channel, any other is put back *)
OpenPut(k, c, mh, union) == IF union THEN WithUmh(k, c, mh) ELSE PutMhead(k, mh)

(* which keeps all counts *)
LEMMA OpenPutKeeps ==
  ASSUME NEW k, NEW e \in [Chans -> Nat], e[Slash] >= 1, NEW me \in [Mheads -> Nat],
         NEW c \in Chans, c # Slash, e[c] = 0, InTables(k, c) = 0, PlainOne(k, c),
         NEW mh \in OrNone(Mheads), NEW union, union => mh # None,
         Bal(k, Plus(e, <<c>>), MPlus(me, <<mh>>))
  PROVE  LET v == OpenPut(k, c, mh, union) IN
         Bal(v, Plus(e, <<c>>), me) /\ Same(k, v, e) /\ SameMounts(k, v)
<1>1. PICK b : b = Plus(e, <<c>>)
  OBVIOUS
<1>2. Bal(k, b, MPlus(me, <<mh>>))
  BY <1>1
<1>3. CASE union
  <2>1. PICK v : v = WithUmh(k, c, mh)
    OBVIOUS
  <2>2. mh \in Mheads
    BY <1>3 DEF OrNone
  <2>3. b[c] = e[c] + One(c, c)
    BY <1>1, PlusOne
  <2>4. b[c] >= 1
    BY <2>3 DEF One
  <2>5. c \notin k.free
    BY <1>2, <2>4, InUse
  <2>6. k.umh[c] = None
    BY ChansAre DEF PlainOne
  <2>7. /\ Bal(v, b, me) /\ But("umh", k, v)
        /\ \A d \in Chans \ {c} : v.umh[d] = k.umh[d]
    BY <1>2, <2>1, <2>2, <2>5, <2>6, UmhKeeps
  <2>8. Same(k, v, e) /\ SameMounts(k, v)
    <3>1. \A d \in Chans : e[d] >= 1 => d # c
      OBVIOUS
    <3>2. v.offset = k.offset /\ v.moved = k.moved /\ v.hashed = k.hashed /\ v.mount = k.mount
            /\ v.from = k.from
      BY <2>7 DEF But, TabFields
    <3>3. QED
      BY <2>7, <3>1, <3>2 DEF Same, SameMounts
  <2>9. v = OpenPut(k, c, mh, union)
    BY <1>3, <2>1 DEF OpenPut
  <2>10. QED
    BY <1>1, <2>7, <2>8, <2>9
<1>4. CASE ~ union
  <2>1. PICK v : v = PutMhead(k, mh)
    OBVIOUS
  <2>2. Bal(v, b, me) /\ Same(k, v, e) /\ SameMounts(k, v)
    BY <1>2, <2>1, PutSame
  <2>3. v = OpenPut(k, c, mh, union)
    BY <1>4, <2>1, SMTT(40) DEF OpenPut
  <2>4. QED
    BY <1>1, <2>2, <2>3
<1>5. QED
  BY <1>3, <1>4

(* the open *)
LEMMA OpenTurns ==
  ASSUME NEW p \in Procs, DOMAIN w = Procs, NEW e, NEW me, Walks(t, w[p], e, me), Open(p)
  PROVE  Turns(t, w[p], t', w'[p], e, me)
<1>1. PICK k, r, r2 : k = t /\ r = w[p] /\ r2 = w'[p]
  OBVIOUS
<1>2. Walks(k, r, e, me) /\ r.pc = "open" /\ k.free # {}
  BY <1>1 DEF Open
<1>3. /\ WOK(r) /\ Naming(k, r) /\ e \in [Chans -> Nat] /\ e[Slash] >= 1
      /\ me \in [Mheads -> Nat] /\ PlainAll(k, r)
      /\ Bal(k, Adds(e, r.c, r.start, r.nc, r.path), MAdds(me, r.mh, r.nmh))
  BY <1>2 DEF Walks
<1>4. /\ r.c \in Chans /\ r.path # <<>> /\ r.start = None /\ r.nc = None /\ r.nmh = None
      /\ r.mode = "Aopen"
  BY <1>2, <1>3 DEF Naming
<1>5. /\ r.path \in Seq(OrNone(Chans)) /\ r.c \in OrNone(Chans) /\ r.mh \in OrNone(Mheads)
  BY <1>3 DEF WOK
<1>6. PlainOne(k, r.c) /\ Plain(k, r.path)
  BY <1>2, <1>3 DEF PlainAll
<1>7. PICK none, M : none = None /\ M = MPlus(me, <<r.mh>>)
  OBVIOUS
<1>8. MAdds(me, r.mh, r.nmh) = M /\ MAdds(me, None, None) = me
  BY <1>3, <1>4, <1>7, MAddsIs
<1>9. Adds(e, r.c, r.start, r.nc, r.path) = Plus(Plus(e, r.path), <<r.c>>)
  <2>1. Adds(e, r.c, none, none, r.path) = Plus(Adds(e, None, none, none, r.path), <<r.c>>)
    BY <1>3, <1>5, AddsC
  <2>2. Adds(e, none, none, none, r.path) = Plus(Adds(e, none, none, none, <<>>), r.path)
    BY <1>3, <1>5, AddsPath
  <2>3. Adds(e, None, None, None, <<>>) = e
    BY <1>3, AddsNone
  <2>4. QED
    BY <1>4, <1>7, <2>1, <2>2, <2>3
<1>10. Bal(k, Plus(Plus(e, r.path), <<r.c>>), M)
  BY <1>3, <1>8, <1>9
<1>11. PICK uc, k2 : uc = CUnique(k, r.c).chan /\ k2 = OwnPath(k, r.c, r.path)
  OBVIOUS
<1>12. /\ uc \in Chans /\ uc # Slash /\ e[uc] = 0
       /\ Bal(k2, Plus(e, <<uc>>), M) /\ Same(k, k2, e) /\ SameMounts(k, k2)
       /\ PlainOne(k2, uc) /\ InTables(k2, uc) = 0
  BY <1>2, <1>3, <1>4, <1>5, <1>6, <1>10, <1>11, OwnPathKeeps, ZenonT(60)
<1>13. PICK v : v = OpenPut(k2, uc, r.mh, r.mh # None /\ Len(k.mount[r.mh]) > 1)
  OBVIOUS
<1>14. Bal(v, Plus(e, <<uc>>), me) /\ Same(k2, v, e) /\ SameMounts(k2, v)
  <2>1. Bal(k2, Plus(e, <<uc>>), MPlus(me, <<r.mh>>))
    BY <1>7, <1>12
  <2>2. r.mh # None /\ Len(k.mount[r.mh]) > 1 => r.mh # None
    OBVIOUS
  <2>3. QED
    BY <1>3, <1>5, <1>12, <1>13, <2>1, <2>2, OpenPutKeeps
<1>15. Same(k, v, e) /\ SameMounts(k, v)
  BY <1>12, <1>14, SameOn, Zenon
<1>16. \/ t' = v /\ Does(p, [c |-> uc, path |-> <<>>, mh |-> None, pc |-> "back"])
       \/ /\ t' = CClose(v, <<uc>>)
          /\ Does(p, [c |-> None, path |-> <<>>, mh |-> None, calm |-> FALSE, pc |-> "failed"])
  <2>1. k2 = SetPath(CUnique(t, w[p].c).tabs, CUnique(t, w[p].c).chan, w[p].path)
    BY <1>1, <1>11 DEF OwnPath
  <2>2. v = IF w[p].mh # None /\ Len(t.mount[w[p].mh]) > 1
            THEN [k2 EXCEPT !.umh[uc] = w[p].mh] ELSE PutMhead(k2, w[p].mh)
    BY <1>1, <1>13 DEF OpenPut, WithUmh
  <2>3. QED
    BY <1>1, <1>11, <2>1, <2>2, Zenon DEF Open
<1>17. DOMAIN w[p] = WFields
  BY <1>1, <1>3 DEF WOK
<1>18. CASE t' = v /\ Does(p, [c |-> uc, path |-> <<>>, mh |-> None, pc |-> "back"])
  <2>1. /\ DOMAIN r2 = WFields /\ r2.pc = "back" /\ r2.mode = r.mode /\ r2.got = r.got
        /\ r2.c = uc /\ r2.start = None /\ r2.nc = None /\ r2.path = <<>>
        /\ r2.mh = None /\ r2.nmh = None /\ r2.rest = r.rest
    BY <1>1, <1>4, <1>17, <1>18 DEF Does, WFields
  <2>2. Walks(v, r2, e, me)
    <3>1. WOK(r2)
      BY <1>3, <1>12, <2>1 DEF WOK, OrNone
    <3>2. Naming(v, r2)
      BY <1>12, <2>1 DEF Naming
    <3>3. PlainAll(v, r2)
      <4>1. Plain(v, r.got)
        BY <1>2, <1>15, GotKept
      <4>2. PlainOne(v, None) /\ Plain(v, <<>>)
        BY DEF PlainOne, Plain
      <4>3. QED
        BY <1>4, <2>1, <4>1, <4>2 DEF PlainAll
    <3>4. Bal(v, Adds(e, r2.c, r2.start, r2.nc, r2.path), MAdds(me, r2.mh, r2.nmh))
      <4>1. PICK q : q = <<>>
        OBVIOUS
      <4>2. q \in Seq(OrNone(Chans))
        BY <4>1
      <4>3. Adds(e, uc, none, none, q) = Plus(Adds(e, None, none, none, q), <<uc>>)
        BY <1>3, <4>2, AddsC
      <4>4. Adds(e, None, None, None, <<>>) = e
        BY <1>3, AddsNone
      <4>5. QED
        BY <1>7, <1>8, <1>14, <2>1, <4>1, <4>3, <4>4
    <3>5. \A d \in Chans : Times(d, r2.got) >= 1 => e[d] >= 1
      BY <1>2, <2>1 DEF Walks
    <3>6. r2.pc \in NamePC
      BY <2>1 DEF NamePC
    <3>7. QED
      BY <1>3, <3>1, <3>2, <3>3, <3>4, <3>5, <3>6 DEF Walks
  <2>3. QED
    BY <1>1, <1>15, <1>18, <2>1, <2>2 DEF Turns
<1>19. CASE /\ t' = CClose(v, <<uc>>)
            /\ Does(p, [c |-> None, path |-> <<>>, mh |-> None, calm |-> FALSE, pc |-> "failed"])
  <2>1. /\ DOMAIN r2 = WFields /\ r2.pc = "failed" /\ r2.mode = r.mode /\ r2.got = r.got
        /\ r2.c = None /\ r2.start = None /\ r2.nc = None /\ r2.path = <<>>
        /\ r2.mh = None /\ r2.nmh = None /\ r2.rest = r.rest
    BY <1>1, <1>4, <1>17, <1>19 DEF Does, WFields
  <2>2. PICK v2 : v2 = CClose(v, <<uc>>)
    OBVIOUS
  <2>3. Bal(v2, e, me) /\ Same(v, v2, e) /\ SameMounts(v, v2)
    <3>1. uc \in OrNone(Chans)
      BY <1>12 DEF OrNone
    <3>2. QED
      BY <1>3, <1>14, <2>2, <3>1, CloseOneSame
  <2>4. Same(k, v2, e) /\ SameMounts(k, v2)
    BY <1>15, <2>3, SameOn
  <2>5. Walks(v2, r2, e, me)
    <3>1. WOK(r2)
      BY <1>3, <2>1 DEF WOK, OrNone
    <3>2. Naming(v2, r2)
      BY <2>1 DEF Naming
    <3>3. PlainAll(v2, r2)
      <4>1. Plain(v2, r.got)
        BY <1>2, <2>4, GotKept
      <4>2. PlainOne(v2, None) /\ Plain(v2, <<>>)
        BY DEF PlainOne, Plain
      <4>3. QED
        BY <2>1, <4>1, <4>2 DEF PlainAll
    <3>4. Bal(v2, Adds(e, r2.c, r2.start, r2.nc, r2.path), MAdds(me, r2.mh, r2.nmh))
      <4>1. Adds(e, None, None, None, <<>>) = e
        BY <1>3, AddsNone
      <4>2. QED
        BY <1>8, <2>1, <2>3, <4>1
    <3>5. \A d \in Chans : Times(d, r2.got) >= 1 => e[d] >= 1
      BY <1>2, <2>1 DEF Walks
    <3>6. r2.pc \in NamePC
      BY <2>1 DEF NamePC
    <3>7. QED
      BY <1>3, <3>1, <3>2, <3>3, <3>4, <3>5, <3>6 DEF Walks
  <2>6. QED
    BY <1>1, <1>19, <2>1, <2>2, <2>4, <2>5 DEF Turns
<1>20. QED
  BY <1>16, <1>18, <1>19

(* a step of namec keeps the invariant *)
LEMMA NamecKeeps ==
  ASSUME NEW p \in Procs, Inv(t, g, w, s), WritesOK(t, w, s), NamecStep(p), s' = s, g' = g
  PROVE  Inv(t', g', w', s') /\ WritesOK(t', w', s')
<1>1. DOMAIN w = Procs /\ DOMAIN s = Procs
  BY DEF Inv
<1>2. w[p].pc \in NamePC
  BY Zenon DEF NamecStep, WalkOn, Cross, EWalkUp, EWalk, Elem, WalkEnd, OpenDomount,
     Open, NamePC
<1>3. PICK e, me : e = Base(g, w, s, p) /\ me = MBase(w, p)
  OBVIOUS
<1>4. Walks(t, w[p], e, me) /\ Mounted(t)
  BY <1>2, <1>3, WalkOf
<1>5. Turns(t, w[p], t', w'[p], e, me)
  <2>1. CASE WalkOn(p)
    BY <1>1, <1>4, <2>1, WalkOnTurns
  <2>2. CASE Cross(p)
    BY <1>1, <1>4, <2>2, OverTurns
  <2>3. CASE EWalkUp(p)
    BY <1>1, <1>4, <2>3, EWalkUpTurns
  <2>4. CASE EWalk(p)
    BY <1>1, <1>4, <2>4, EWalkTurns
  <2>5. CASE Elem(p)
    BY <1>1, <1>4, <2>5, ElemTurns
  <2>6. CASE WalkEnd(p)
    BY <1>1, <1>4, <2>6, WalkEndTurns
  <2>7. CASE OpenDomount(p)
    BY <1>1, <1>4, <2>7, OpenDomountTurns
  <2>8. CASE Open(p)
    BY <1>1, <1>4, <2>8, OpenTurns
  <2>9. QED
    BY <2>1, <2>2, <2>3, <2>4, <2>5, <2>6, <2>7, <2>8 DEF NamecStep
<1>6. \E f : Does(p, f)
  <2>1. CASE WalkOn(p)
    BY <2>1, Zenon DEF WalkOn, Undo
  <2>2. CASE Cross(p)
    BY <2>2 DEF Cross
  <2>3. CASE EWalkUp(p)
    BY <2>3, Zenon DEF EWalkUp
  <2>4. CASE EWalk(p)
    BY <2>4 DEF EWalk, Undo
  <2>5. CASE Elem(p)
    BY <2>5 DEF Elem
  <2>6. CASE WalkEnd(p)
    BY <2>6 DEF WalkEnd
  <2>7. CASE OpenDomount(p)
    BY <2>7, Zenon DEF OpenDomount
  <2>8. CASE Open(p)
    BY <2>8, Zenon DEF Open
  <2>9. QED
    BY <2>1, <2>2, <2>3, <2>4, <2>5, <2>6, <2>7, <2>8 DEF NamecStep
<1>7. Alike(w, s, w', s', p)
  BY <1>1, <1>6, DoesAlike
<1>8. PICK k, h, ww, ss, k2, w2, s2 :
         k = t /\ h = g /\ ww = w /\ ss = s /\ k2 = t' /\ w2 = w' /\ s2 = s'
  OBVIOUS
<1>9. Inv(k2, h, w2, s2) /\ WritesOK(k2, w2, s2)
  BY <1>2, <1>3, <1>5, <1>7, <1>8, TurnKeeps
<1>10. QED
  BY <1>8, <1>9

-----------------------------------------------------------------------------
(* Fifteenth part: the start of a namec.                                   *)

(* a walk from a channel that is counted *)
LEMMA WalkForTurns ==
  ASSUME NEW p \in Procs, DOMAIN w = Procs, WOK(w[p]), w[p].nc = None, w[p].mh = None,
         w[p].nmh = None, NEW k, NEW start \in Chans, NEW e \in [Chans -> Nat], e[Slash] >= 1,
         NEW me \in [Mheads -> Nat], Bal(k, Plus(e, <<start>>), me), PlainOne(k, start),
         k.path[start] # <<>>, NEW got \in Seq(Chans), Plain(k, got),
         \A c \in Chans : Times(c, got) >= 1 => e[c] >= 1,
         NEW name \in FileNames, NEW mode, WalkFor(p, k, start, got, name, mode)
  PROVE  /\ Walks(t', w'[p], e, me) /\ Same(k, t', e) /\ SameMounts(k, t')
         /\ w'[p].got = got /\ w'[p].mode = mode /\ w'[p].pc = "walk"
<1>1. PICK r, r2, path : r = w[p] /\ r2 = w'[p] /\ path = k.path[start]
  OBVIOUS
<1>2. path \in Seq(OrNone(Chans)) /\ path # <<>> /\ PathIs(k, start, path)
  BY <1>1 DEF Bal, TabsOK, PathIs
<1>3. PICK z, a : z = <<start>> /\ a = Plus(e, z)
  OBVIOUS
<1>4. z \in Seq(OrNone(Chans))
  BY <1>3 DEF OrNone
<1>5. a \in [Chans -> Nat] /\ a[Slash] >= 1 /\ a[start] >= 1
  <2>1. a \in [Chans -> Nat] /\ a[Slash] >= 1
    BY <1>3, <1>4, SlashPlus
  <2>2. a[start] = e[start] + One(start, start)
    BY <1>3, PlusOne
  <2>3. QED
    BY <2>1, <2>2 DEF One
<1>6. Bal(k, a, me) /\ start \notin k.free
  BY <1>3, <1>5, InUse
<1>7. PICK k1 : k1 = Incref(k, start)
  OBVIOUS
<1>8. Bal(k1, Plus(a, z), me) /\ But("ref", k, k1)
  BY <1>3, <1>6, <1>7, IncrefKeeps DEF But
<1>9. (\A i \in DOMAIN path : path[i] \notin k.free) /\ Plain(k, path)
  BY <1>2, <1>6, PathCounted
<1>10. Same(k, k1, e) /\ SameMounts(k, k1) /\ k1.umh = k.umh /\ k1.free = k.free
  BY <1>8, ButRefSame
<1>11. PICK k2 : k2 = IncrefAll(k1, path)
  OBVIOUS
<1>12. PICK b : b = Plus(a, z)
  OBVIOUS
<1>13. Bal(k2, Plus(b, path), me) /\ But("ref", k1, k2)
  <2>1. Bal(k1, b, me) /\ \A i \in DOMAIN path : path[i] \notin k1.free
    BY <1>8, <1>9, <1>10, <1>12
  <2>2. QED
    BY <1>2, <1>11, <2>1, IncrefAllKeeps DEF But
<1>14. Same(k1, k2, e) /\ SameMounts(k1, k2) /\ k2.umh = k1.umh
  BY <1>13, ButRefSame
<1>15. Same(k, k2, e) /\ SameMounts(k, k2) /\ k2.umh = k.umh
  BY <1>10, <1>14, SameOn
<1>16. PICK none, q : none = None /\ q = <<>>
  OBVIOUS
<1>17. Plus(b, path) = Adds(e, start, start, none, path)
  <2>1. q \in Seq(OrNone(Chans))
    BY <1>16
  <2>2. Adds(e, start, start, none, path) = Plus(Adds(e, start, start, none, <<>>), path)
    BY <1>2, AddsPath
  <2>3. Adds(e, start, start, none, q) = Plus(Adds(e, start, None, none, q), <<start>>)
    BY <2>1, AddsStart
  <2>4. Adds(e, start, none, none, q) = Plus(Adds(e, None, none, none, q), <<start>>)
    BY <2>1, AddsC
  <2>5. Adds(e, None, None, None, <<>>) = e
    BY AddsNone
  <2>6. QED
    BY <1>3, <1>12, <1>16, <2>2, <2>3, <2>4, <2>5
<1>18. MAdds(me, None, None) = me
  BY MAddsIs
<1>19. t' = k2
  BY <1>1, <1>7, <1>11 DEF WalkFor
<1>20. Tail(name) \in Seq(STRING)
  BY DEF FileNames
<1>21. /\ DOMAIN r2 = WFields /\ r2.pc = "walk" /\ r2.mode = mode /\ r2.got = got
       /\ r2.c = start /\ r2.start = start /\ r2.nc = None /\ r2.path = path
       /\ r2.mh = None /\ r2.nmh = None /\ r2.rest = Tail(name)
  <2>1. DOMAIN w[p] = WFields
    BY DEF WOK
  <2>2. QED
    BY <1>1, <2>1 DEF WalkFor, Does, WFields
<1>22. WOK(r2)
  BY <1>2, <1>20, <1>21 DEF WOK, OrNone
<1>23. Naming(k2, r2)
  BY <1>2, <1>21 DEF Naming
<1>24. PlainAll(k2, r2)
  <2>1. Plain(k2, got) /\ Plain(k2, path) /\ PlainOne(k2, start) /\ PlainOne(k2, None)
    BY <1>9, <1>15 DEF Plain, PlainOne
  <2>2. QED
    BY <1>21, <2>1 DEF PlainAll
<1>25. Bal(k2, Adds(e, r2.c, r2.start, r2.nc, r2.path), MAdds(me, r2.mh, r2.nmh))
  BY <1>13, <1>16, <1>17, <1>18, <1>21
<1>26. \A d \in Chans : Times(d, r2.got) >= 1 => e[d] >= 1
  BY <1>21
<1>27. r2.pc \in NamePC
  BY <1>21 DEF NamePC
<1>28. Walks(k2, r2, e, me)
  BY <1>22, <1>23, <1>24, <1>25, <1>26, <1>27 DEF Walks
<1>29. QED
  BY <1>1, <1>15, <1>19, <1>21, <1>28

(* the slash, or a channel of a device *)
LEMMA NamecTurns ==
  ASSUME NEW p \in Procs, DOMAIN w = Procs, WOK(w[p]), w[p].nc = None, w[p].mh = None,
         w[p].nmh = None, NEW e \in [Chans -> Nat], e[Slash] >= 1,
         NEW me \in [Mheads -> Nat], Bal(t, e, me), NEW got \in Seq(Chans), Plain(t, got),
         \A c \in Chans : Times(c, got) >= 1 => e[c] >= 1,
         NEW name \in FileNames, NEW mode, Namec(p, got, name, mode)
  PROVE  /\ Walks(t', w'[p], e, me) /\ Same(t, t', e) /\ SameMounts(t, t')
         /\ w'[p].got = got /\ w'[p].mode = mode /\ w'[p].pc = "walk"
<1>1. PICK k : k = t
  OBVIOUS
<1>2. Slash \in Chans
  BY ChansAre DEF Slash
<1>3. PICK none, z : none = None /\ z = <<none>>
  OBVIOUS
<1>4. z \in Seq(OrNone(Chans)) /\ z # <<>> /\ \A d \in Chans : Times(d, z) = 0
  <2>1. z \in Seq(OrNone(Chans)) /\ z # <<>>
    BY <1>3 DEF OrNone
  <2>2. \A d \in Chans : One(d, none) = 0
    BY <1>3, ChansAre DEF One
  <2>3. QED
    BY <1>3, <2>1, <2>2, TimesOne
<1>5. CASE Head(name) = "/"
  <2>1. PICK k1 : k1 = Incref(k, Slash)
    OBVIOUS
  <2>2. WalkFor(p, k1, Slash, got, name, mode)
    BY <1>1, <1>5, <2>1 DEF Namec
  <2>3. Slash \notin k.free
    BY <1>1, <1>2, InUse
  <2>4. Bal(k1, Plus(e, <<Slash>>), me) /\ But("ref", k, k1)
    BY <1>1, <1>2, <2>1, <2>3, IncrefKeeps DEF But
  <2>5. Same(k, k1, e) /\ SameMounts(k, k1) /\ k1.umh = k.umh /\ k1.path = k.path
    BY <2>4, ButRefSame
  <2>6. k.path[Slash] = <<None>> /\ k.umh[Slash] = None
    BY <1>1 DEF Bal, Kept
  <2>7. PlainOne(k1, Slash) /\ k1.path[Slash] # <<>> /\ Plain(k1, got)
    BY <1>1, <1>3, <1>4, <2>5, <2>6 DEF PlainOne, Plain
  <2>8. /\ Walks(t', w'[p], e, me) /\ Same(k1, t', e) /\ SameMounts(k1, t')
        /\ w'[p].got = got /\ w'[p].mode = mode /\ w'[p].pc = "walk"
    BY <1>2, <2>2, <2>4, <2>7, WalkForTurns
  <2>9. Same(k, t', e) /\ SameMounts(k, t')
    BY <2>5, <2>8, SameOn
  <2>10. QED
    BY <1>1, <2>8, <2>9
<1>6. CASE Head(name) # "/"
  <2>1. PICK f, c, k0 : /\ f = <<Head(name)>>
                        /\ c = NewChan(k, f).chan /\ k0 = NewChan(k, f).tabs
    OBVIOUS
  <2>2. PICK k1 : k1 = WithPath(k0, c, z)
    OBVIOUS
  <2>3. WalkFor(p, k1, c, got, name, mode) /\ k.free # {}
    BY <1>1, <1>3, <1>6, <2>1, <2>2 DEF Namec, WithPath
  <2>4. /\ c \in Chans /\ Bal(k0, Plus(e, <<c>>), me)
        /\ Same(k, k0, e) /\ SameMounts(k, k0)
        /\ k0.path = k.path /\ k0.umh = k.umh /\ k0.free = k.free \ {c}
        /\ k.umh[c] = None /\ k.path[c] = <<>> /\ c # Slash
    BY <1>1, <2>1, <2>3, NewChanKeeps
  <2>5. PICK a : a = Plus(e, <<c>>)
    OBVIOUS
  <2>6. a \in [Chans -> Nat] /\ a[Slash] >= 1
    <3>1. PICK y : y = <<c>>
      OBVIOUS
    <3>2. y \in Seq(Chans)
      BY <2>4, <3>1
    <3>3. QED
      BY <2>5, <3>1, <3>2, SlashPlus
  <2>7. Plus(a, z) = a
    <3>1. Plus(a, z) \in [Chans -> Nat] /\ \A d \in Chans : Plus(a, z)[d] = a[d] + Times(d, z)
      BY <1>4, <2>6, PlusType
    <3>2. \A d \in Chans : a[d] + 0 = a[d]
      BY <2>6
    <3>3. \A d \in Chans : Plus(a, z)[d] = a[d]
      BY <1>4, <3>1, <3>2
    <3>4. QED
      BY <2>6, <3>1, <3>3
  <2>8. Bal(k0, Plus(a, z), me) /\ Plain(k0, z) /\ c \notin k0.free
    BY <1>3, <2>4, <2>5, <2>7 DEF Plain
  <2>9. Bal(k1, Plus(a, k0.path[c]), me) /\ But("path", k0, k1)
    BY <1>4, <2>2, <2>4, <2>6, <2>8, PathPut
  <2>10. Bal(k1, Plus(e, <<c>>), me)
    <3>1. Plus(a, <<>>) = a
      BY <2>6, PlusEmpty
    <3>2. QED
      BY <2>4, <2>5, <2>9, <3>1
  <2>11. /\ k1.umh = k0.umh /\ k1.offset = k0.offset /\ k1.moved = k0.moved
         /\ k1.hashed = k0.hashed /\ k1.mount = k0.mount /\ k1.from = k0.from
    BY <2>9 DEF But, TabFields
  <2>12. Same(k, k1, e) /\ SameMounts(k, k1)
    <3>1. Same(k0, k1, e) /\ SameMounts(k0, k1)
      BY <2>11 DEF Same, SameMounts
    <3>2. QED
      BY <2>4, <3>1, SameOn
  <2>13. k1.path[c] = z
    <3>1. TabsOK(k0)
      BY <2>4 DEF Bal
    <3>2. QED
      BY <2>2, <2>4, <3>1 DEF WithPath, TabsOK, TabFields
  <2>14. PlainOne(k1, c) /\ k1.path[c] # <<>> /\ Plain(k1, got)
    BY <1>1, <1>4, <2>4, <2>11, <2>13 DEF PlainOne, Plain
  <2>15. /\ Walks(t', w'[p], e, me) /\ Same(k1, t', e) /\ SameMounts(k1, t')
         /\ w'[p].got = got /\ w'[p].mode = mode /\ w'[p].pc = "walk"
    BY <2>3, <2>4, <2>10, <2>14, WalkForTurns
  <2>16. Same(k, t', e) /\ SameMounts(k, t')
    BY <2>12, <2>15, SameOn
  <2>17. QED
    BY <1>1, <2>15, <2>16
<1>7. QED
  BY <1>5, <1>6

(* the calls *)
LEMMA CallTypes ==
  ASSUME NEW x \in Calls
  PROVE  /\ x.call \in {"open", "unmount"} => x.name \in FileNames
         /\ x.call = "bind" => /\ x.name \in FileNames /\ x.from \in STRING
                               /\ x.order \in {"repl", "before", "after"}
         /\ x.call = "unmount" => x.from \in {None} \cup STRING
         /\ x.call \in {"close", "read", "write", "dup"} => x.fd \in Int
         /\ x.call = "dup" => x.to \in Int
<1>1. \/ x \in [call : {"open"}, name : FileNames]
      \/ x \in [call : {"close", "read", "write"}, fd : Int]
      \/ x \in [call : {"dup"}, fd : Int, to : Int]
      \/ x \in [call : {"bind"}, from : STRING, name : FileNames,
                order : {"repl", "before", "after"}]
      \/ x \in [call : {"unmount"}, from : {None} \cup STRING, name : FileNames]
  BY DEF Calls
<1>2. CASE x \in [call : {"open"}, name : FileNames]
  BY <1>2
<1>3. CASE x \in [call : {"close", "read", "write"}, fd : Int]
  BY <1>3
<1>4. CASE x \in [call : {"dup"}, fd : Int, to : Int]
  BY <1>4
<1>5. CASE x \in [call : {"bind"}, from : STRING, name : FileNames,
                  order : {"repl", "before", "after"}]
  BY <1>5
<1>6. CASE x \in [call : {"unmount"}, from : {None} \cup STRING, name : FileNames]
  BY <1>6
<1>7. QED
  BY <1>1, <1>2, <1>3, <1>4, <1>5, <1>6

(* a sequence of one *)
LEMMA OneSeq ==
  ASSUME NEW S, NEW x \in S
  PROVE  <<x>> \in Seq(S) /\ <<x>> # <<>>
OBVIOUS

(* a name of one element *)
LEMMA OneName ==
  ASSUME NEW x \in STRING
  PROVE  <<x>> \in FileNames
BY OneSeq, Zenon DEF FileNames

(* the invariant, when p is in a namec after the step, and holds what it walks *)
LEMMA WalksKeep ==
  ASSUME NEW k, NEW h, NEW ww, NEW ss, Inv(k, h, ww, ss), WritesOK(k, ww, ss), NEW p \in Procs,
         NEW k2, NEW w2, NEW s2, Alike(ww, ss, w2, s2, p), s2[p] = ss[p],
         ss[p].chan = None, CallIs(w2[p], ss[p]), NEW e, NEW me,
         Walks(k2, w2[p], e, me), Same(k, k2, e), SameMounts(k, k2), me = MBase(ww, p),
         e = Plus(Plus(Counts(h.fd, Rest(ww, ss, p)), <<ss[p].chan>>), w2[p].got)
  PROVE  Inv(k2, h, w2, s2) /\ WritesOK(k2, w2, s2)
<1>1. Typed(ww, ss) /\ GOK(h) /\ SOK(ss[p])
  BY DEF Inv, Typed, Proc
<1>2. PICK r2, x : r2 = w2[p] /\ x = ss[p]
  OBVIOUS
<1>3. /\ WOK(r2) /\ Naming(k2, r2) /\ PlainAll(k2, r2) /\ r2.pc \in NamePC
      /\ Bal(k2, Adds(e, r2.c, r2.start, r2.nc, r2.path), MAdds(me, r2.mh, r2.nmh))
  BY <1>2 DEF Walks
<1>4. r2.pc # "idle" /\ r2.pc # "fdclose" /\ r2.pc \notin FdPC /\ r2.pc # "devwrite"
  BY <1>3 DEF NamePC, FdPC
<1>5. Control(k2, h.nfd, r2, x)
  BY <1>2, <1>3, <1>4 DEF Control
<1>6. Plain(k2, NotOpen(r2))
  BY <1>3, PlainIs DEF PlainAll
<1>7. Proc(k2, h.nfd, w2[p], s2[p])
  BY <1>1, <1>2, <1>3, <1>5, <1>6 DEF Proc
<1>8. PICK a : a = Counts(h.fd, Rest(ww, ss, p))
  OBVIOUS
<1>9. /\ a \in [Chans -> Nat] /\ MBase(ww, p) \in [Mheads -> Nat]
      /\ \A q \in Procs \ {p} : \A c \in Chans : Times(c, Hold(ww[q], ss[q])) >= 1 => a[c] >= 1
  BY <1>1, <1>8, RestType DEF MBase
<1>10. ChanHeld(r2, x) = x.chan
  BY <1>4 DEF ChanHeld
<1>11. /\ Plus(a, Hold(r2, x)) = Adds(e, r2.c, r2.start, r2.nc, r2.path)
       /\ e \in [Chans -> Nat] /\ \A d \in Chans : e[d] >= a[d]
  <2>1. e = Plus(Plus(a, <<ChanHeld(r2, x)>>), r2.got)
    BY <1>2, <1>8, <1>10
  <2>2. SOK(x)
    BY <1>1, <1>2
  <2>3. QED
    BY <1>3, <1>9, <2>1, <2>2, PlusHold
<1>12. MPlus(me, MHold(r2)) = MAdds(me, r2.mh, r2.nmh)
  BY <1>9, MPlusHold
<1>13. Bal(k2, Plus(Counts(h.fd, Rest(ww, ss, p)), Hold(w2[p], s2[p])),
           MPlus(MCounts(MRest(ww, p)), MHold(w2[p])))
  BY <1>2, <1>3, <1>8, <1>11, <1>12 DEF MBase
<1>14. Crossings(k2, ww, p)
  BY CrossingsKept DEF SameMounts
<1>15. Mounted(k2)
  BY DEF Inv, Mounted, SameMounts
<1>16. Covers(e, ww, ss, p)
  <2>1. \A d \in Chans : a[d] >= 1 => e[d] >= 1
    <3>1. \A d \in Chans : a[d] \in Nat /\ e[d] \in Nat
      BY <1>9, <1>11
    <3>2. QED
      BY <1>11, <3>1
  <2>2. QED
    BY <1>9, <2>1 DEF Covers
<1>17. SameUmh(k, k2, e)
  BY DEF Same, SameUmh
<1>18. h.nfd <= h.nfd
  BY <1>1 DEF GOK
<1>19. Inv(k2, h, w2, s2)
  BY <1>1, <1>7, <1>13, <1>14, <1>15, <1>16, <1>17, <1>18, StepKeeps
<1>20. w2[p].pc # "devwrite"
  BY <1>2, <1>4
<1>21. WritesOK(k2, w2, s2)
  BY <1>16, <1>20, WritesKeep
<1>22. QED
  BY <1>19, <1>21

(* a call that starts a namec, its first or its second *)
Starts(r, got) ==
  \/ r.pc = "idle" /\ got = <<>>
  \/ r.pc = "back" /\ r.got = <<>> /\ r.mode # "Aopen" /\ got = <<r.c>>

(* what it has then is what it had *)
LEMMA StartCounts ==
  ASSUME Inv(t, g, w, s), NEW p \in Procs, NEW got, Starts(w[p], got), NEW e,
         e = Plus(Plus(Counts(g.fd, Rest(w, s, p)), <<s[p].chan>>), got)
  PROVE  /\ got \in Seq(Chans) /\ Plain(t, got) /\ s[p].chan = None
         /\ w[p].nc = None /\ w[p].mh = None /\ w[p].nmh = None /\ WOK(w[p])
         /\ e \in [Chans -> Nat] /\ e[Slash] >= 1 /\ MBase(w, p) \in [Mheads -> Nat]
         /\ Bal(t, e, MBase(w, p)) /\ \A c \in Chans : Times(c, got) >= 1 => e[c] >= 1
<1>1. PICK r, x, me, b : r = w[p] /\ x = s[p] /\ me = MBase(w, p) /\ b = Base(g, w, s, p)
  OBVIOUS
<1>2. /\ WOK(r) /\ SOK(x) /\ Control(t, g.nfd, r, x) /\ Plain(t, NotOpen(r))
      /\ Typed(w, s) /\ GOK(g)
  BY <1>1 DEF Inv, Proc, Typed
<1>3. /\ b \in [Chans -> Nat] /\ b[Slash] >= 1 /\ me \in [Mheads -> Nat]
      /\ Bal(t, Adds(b, r.c, r.start, r.nc, r.path), MAdds(me, r.mh, r.nmh))
  BY <1>1, NameStart
<1>4. r.pc # "fdclose"
  BY <1>1 DEF Starts
<1>5. PICK a : a = Plus(Counts(g.fd, Rest(w, s, p)), <<x.chan>>)
  OBVIOUS
<1>6. a \in [Chans -> Nat]
  <2>1. Counts(g.fd, Rest(w, s, p)) \in [Chans -> Nat]
    BY <1>2, RestType
  <2>2. QED
    BY <1>5, <2>1, PlusOne
<1>7. b = Plus(a, r.got) /\ e = Plus(a, got)
  BY <1>1, <1>4, <1>5 DEF Base, ChanHeld
<1>8. Plus(a, <<>>) = a /\ MAdds(me, None, None) = me
  BY <1>3, <1>6, PlusEmpty, MAddsIs
<1>9. CASE r.pc = "idle" /\ got = <<>>
  <2>1. NoName(r) /\ x.chan = None
    BY <1>2, <1>9 DEF Control, NamePC
  <2>2. /\ r.c = None /\ r.start = None /\ r.nc = None /\ r.path = <<>>
        /\ r.mh = None /\ r.nmh = None /\ r.got = <<>>
    BY <2>1 DEF NoName
  <2>3. e = b
    BY <1>7, <1>9, <2>2
  <2>4. Adds(b, None, None, None, <<>>) = b
    BY <1>3, AddsNone
  <2>5. Bal(t, e, me)
    BY <1>3, <1>8, <2>2, <2>3, <2>4
  <2>6. got \in Seq(Chans) /\ Plain(t, got) /\ \A c \in Chans : Times(c, got) = 0
    BY <1>9, TimesEmpty DEF Plain
  <2>7. QED
    BY <1>1, <1>2, <1>3, <2>1, <2>2, <2>3, <2>5, <2>6
<1>10. CASE r.pc = "back" /\ r.got = <<>> /\ r.mode # "Aopen" /\ got = <<r.c>>
  <2>1. Naming(t, r) /\ x.chan = None
    BY <1>2, <1>10 DEF Control, NamePC
  <2>2. /\ r.c \in Chans /\ r.start = None /\ r.nc = None /\ r.path = <<>>
        /\ r.mh = None /\ r.nmh = None
    BY <1>10, <2>1 DEF Naming
  <2>3. e = Plus(b, <<r.c>>)
    BY <1>7, <1>8, <1>10
  <2>4. Adds(b, r.c, None, None, <<>>) = Plus(b, <<r.c>>)
    <3>1. PICK none, q : none = None /\ q = <<>>
      OBVIOUS
    <3>2. q \in Seq(OrNone(Chans))
      BY <3>1
    <3>3. Adds(b, r.c, none, none, q) = Plus(Adds(b, None, none, none, q), <<r.c>>)
      BY <1>3, <3>2, AddsC
    <3>4. Adds(b, None, None, None, <<>>) = b
      BY <1>3, AddsNone
    <3>5. QED
      BY <3>1, <3>3, <3>4
  <2>5. Bal(t, e, me)
    BY <1>3, <1>8, <2>2, <2>3, <2>4
  <2>6. got \in Seq(Chans)
    BY <1>10, <2>2
  <2>7. Plain(t, got)
    <3>1. PlainOne(t, r.c)
      BY <1>2, <1>10, PlainIs
    <3>2. \A i \in DOMAIN got : got[i] = r.c
      BY <1>10
    <3>3. QED
      BY <3>1, <3>2 DEF Plain, PlainOne
  <2>8. e \in [Chans -> Nat] /\ e[Slash] >= 1
    BY <1>3, <1>10, <2>3, <2>6, SlashPlus
  <2>9. \A c \in Chans : Times(c, got) >= 1 => e[c] >= 1
    <3>1. \A c \in Chans : e[c] = b[c] + Times(c, got)
      BY <1>3, <1>10, <2>3, <2>6, PlusType
    <3>2. \A c \in Chans : b[c] \in Nat /\ Times(c, got) \in Nat
      BY <1>3, <2>6, AtIs
    <3>3. QED
      BY <3>1, <3>2
  <2>10. QED
    BY <1>1, <1>2, <1>3, <2>1, <2>2, <2>5, <2>6, <2>7, <2>8, <2>9
<1>11. QED
  BY <1>1, <1>9, <1>10 DEF Starts

(* the start of a namec keeps the invariant *)
LEMMA NamecStarts ==
  ASSUME NEW p \in Procs, Inv(t, g, w, s), WritesOK(t, w, s), s' = s, g' = g,
         NEW got, Starts(w[p], got), NEW name \in FileNames, NEW mode,
         Namec(p, got, name, mode), CallIs([mode |-> mode, got |-> got], s[p])
  PROVE  Inv(t', g', w', s') /\ WritesOK(t', w', s')
<1>1. DOMAIN w = Procs /\ DOMAIN s = Procs
  BY DEF Inv
<1>2. PICK e, me : /\ e = Plus(Plus(Counts(g.fd, Rest(w, s, p)), <<s[p].chan>>), got)
                   /\ me = MBase(w, p)
  OBVIOUS
<1>3. /\ got \in Seq(Chans) /\ Plain(t, got) /\ s[p].chan = None
      /\ w[p].nc = None /\ w[p].mh = None /\ w[p].nmh = None /\ WOK(w[p])
      /\ e \in [Chans -> Nat] /\ e[Slash] >= 1 /\ me \in [Mheads -> Nat]
      /\ Bal(t, e, me) /\ \A c \in Chans : Times(c, got) >= 1 => e[c] >= 1
  BY <1>2, StartCounts
<1>4. /\ Walks(t', w'[p], e, me) /\ Same(t, t', e) /\ SameMounts(t, t')
      /\ w'[p].got = got /\ w'[p].mode = mode /\ w'[p].pc = "walk"
  BY <1>1, <1>3, NamecTurns
<1>5. \E f : Does(p, f)
  BY DEF Namec, WalkFor
<1>6. Alike(w, s, w', s', p)
  BY <1>1, <1>5, DoesAlike
<1>7. PICK k, h, ww, ss, k2, w2, s2 :
         k = t /\ h = g /\ ww = w /\ ss = s /\ k2 = t' /\ w2 = w' /\ s2 = s'
  OBVIOUS
<1>8. CallIs(w2[p], ss[p])
  BY <1>4, <1>7 DEF CallIs
<1>9. /\ Inv(k, h, ww, ss) /\ WritesOK(k, ww, ss) /\ Alike(ww, ss, w2, s2, p)
      /\ s2[p] = ss[p] /\ ss[p].chan = None
      /\ Walks(k2, w2[p], e, me) /\ Same(k, k2, e) /\ SameMounts(k, k2) /\ me = MBase(ww, p)
      /\ e = Plus(Plus(Counts(h.fd, Rest(ww, ss, p)), <<ss[p].chan>>), w2[p].got)
  BY <1>2, <1>3, <1>4, <1>6, <1>7
<1>10. Inv(k2, h, w2, s2) /\ WritesOK(k2, w2, s2)
  BY <1>8, <1>9, WalksKeep
<1>11. QED
  BY <1>7, <1>10

-----------------------------------------------------------------------------
(* Sixteenth part: the descriptors.                                        *)

(* nothing is counted for None *)
LEMMA PlusNone ==
  ASSUME NEW e \in [Chans -> Nat]
  PROVE  Plus(e, <<None>>) = e
<1>1. Plus(e, <<None>>) \in [Chans -> Nat] /\ \A c \in Chans : Plus(e, <<None>>)[c] = e[c] + One(c, None)
  BY PlusOne
<1>2. \A c \in Chans : One(c, None) = 0 /\ e[c] + 0 = e[c]
  BY ChansAre DEF One
<1>3. \A c \in Chans : Plus(e, <<None>>)[c] = e[c]
  BY <1>1, <1>2
<1>4. QED
  BY <1>1, <1>3

(* slot i of the descriptors changes *)
SlotChanges(h, h2, i) ==
  h2.nfd = h.nfd /\ \A j \in (0..h.nfd - 1) \ {i} : h2.fd[j] = h.fd[j]

(* and the counts with it *)
LEMMA CountsPut ==
  ASSUME NEW h, GOK(h), NEW h2, GOK(h2), NEW i \in 0..h.nfd - 1, SlotChanges(h, h2, i),
         NEW P, NEW R, Family(R, P, OrNone(Chans))
  PROVE  Plus(Counts(h.fd, R), <<h2.fd[i]>>) = Plus(Counts(h2.fd, R), <<h.fd[i]>>)
<1>1. PICK D, ix, F, F2 : /\ D = 0..h.nfd - 1 /\ ix = i
                          /\ F = FdSeqs(h.fd) /\ F2 = FdSeqs(h2.fd)
  OBVIOUS
<1>2. Family(F, D, OrNone(Chans)) /\ Family(F2, D, OrNone(Chans))
  BY <1>1, FdFamily DEF SlotChanges
<1>3. DOMAIN h.fd = D /\ DOMAIN h2.fd = D
  BY <1>1 DEF GOK, SlotChanges
<1>4. ix \in D /\ \A j \in D \ {ix} : F2[j] = F[j]
  BY <1>1, <1>3 DEF FdSeqs, SlotChanges
<1>5. F[ix] = <<h.fd[i]>> /\ F2[ix] = <<h2.fd[i]>>
  BY <1>1, <1>3 DEF FdSeqs
<1>6. PICK a, b, x, y : /\ a = Counts(h.fd, R) /\ b = Counts(h2.fd, R)
                        /\ x = h.fd[i] /\ y = h2.fd[i]
  OBVIOUS
<1>7. a \in [Chans -> Nat] /\ b \in [Chans -> Nat]
  BY <1>6, CountsType
<1>8. ASSUME NEW c \in Chans
      PROVE  a[c] + One(c, y) = b[c] + One(c, x)
  <2>1. PICK u \in Nat, v \in Nat, z \in Nat : /\ u = Uses(F, c) /\ v = Uses(F2, c)
                                              /\ z = Uses(R, c)
    BY <1>2, UsesType
  <2>2. Uses(F2, c) + Times(c, F[ix]) = Uses(F, c) + Times(c, F2[ix])
    BY <1>2, <1>4, UsesUpdate
  <2>3. v + One(c, x) = u + One(c, y)
    BY <1>5, <1>6, <2>1, <2>2, TimesOne
  <2>4. PICK sl \in Nat : sl = IF c = Slash THEN 1 ELSE 0
    OBVIOUS
  <2>5. a[c] = sl + u + z /\ b[c] = sl + v + z
    BY <1>1, <1>6, <2>1, <2>4 DEF Counts
  <2>6. PICK i1 \in Nat, i2 \in Nat : i1 = One(c, x) /\ i2 = One(c, y)
    BY DEF One
  <2>7. v + i1 = u + i2
    BY <2>3, <2>6
  <2>8. sl + u + z + i2 = sl + v + z + i1
    BY <2>7
  <2>9. QED
    BY <2>5, <2>6, <2>8
<1>9. PICK A, B : A = Plus(a, <<y>>) /\ B = Plus(b, <<x>>)
  OBVIOUS
<1>10. /\ A \in [Chans -> Nat] /\ B \in [Chans -> Nat]
       /\ \A c \in Chans : A[c] = a[c] + One(c, y) /\ B[c] = b[c] + One(c, x)
  BY <1>7, <1>9, PlusOne
<1>11. \A c \in Chans : A[c] = B[c]
  BY <1>8, <1>10
<1>12. A = B
  BY <1>10, <1>11
<1>13. QED
  BY <1>6, <1>9, <1>12

(* more slots: they are empty *)
LEMMA GrowFdKeeps ==
  ASSUME NEW h, GOK(h), NEW fd \in Int, NEW R
  PROVE  LET h2 == GrowFd(h, fd) IN
         /\ GOK(h2) /\ h.nfd <= h2.nfd /\ Counts(h2.fd, R) = Counts(h.fd, R)
         /\ \A j \in 0..h.nfd - 1 : h2.fd[j] = h.fd[j]
         /\ \A j \in h.nfd..h2.nfd - 1 : h2.fd[j] = None
<1>1. PICK n \in Nat : n = h.nfd
  BY DEF GOK
<1>2. DOMAIN h.fd = 0..n - 1 /\ \A j \in 0..n - 1 : h.fd[j] \in OrNone(Chans)
  BY <1>1 DEF GOK
<1>3. PICK h2 : h2 = GrowFd(h, fd)
  OBVIOUS
<1>4. CASE fd < h.nfd \/ fd >= h.nfd + DELTAFD \/ h.nfd >= FdLimit
  <2>1. h2 = h
    BY <1>3, <1>4 DEF GrowFd
  <2>2. \A j \in n..n - 1 : h2.fd[j] = None
    BY <1>1
  <2>3. QED
    BY <1>1, <1>3, <2>1, <2>2
<1>5. CASE ~ (fd < h.nfd \/ fd >= h.nfd + DELTAFD \/ h.nfd >= FdLimit)
  <2>1. PICK f : f = [i \in 0..h.nfd + DELTAFD - 1 |-> IF i < h.nfd THEN h.fd[i] ELSE None]
    OBVIOUS
  <2>2. PICK d \in Nat : d = DELTAFD
    BY TableIs
  <2>3. /\ h2 = [fd |-> h2.fd, nfd |-> h2.nfd, maxfd |-> h2.maxfd]
        /\ h2.fd = f /\ h2.nfd = n + d
    BY <1>1, <1>3, <1>5, <2>1, <2>2 DEF GrowFd
  <2>4. /\ DOMAIN f = 0..n + d - 1
        /\ \A j \in 0..n - 1 : f[j] = h.fd[j]
        /\ \A j \in n..n + d - 1 : f[j] = None
        /\ f = [j \in DOMAIN f |-> f[j]]
    <3>1. f = [j \in 0..n + d - 1 |-> IF j < n THEN h.fd[j] ELSE None]
      BY <1>1, <2>1, <2>2
    <3>2. \A j \in 0..n - 1 : j \in 0..n + d - 1 /\ j < n
      OBVIOUS
    <3>3. \A j \in n..n + d - 1 : j \in 0..n + d - 1 /\ ~ j < n
      OBVIOUS
    <3>4. QED
      BY <3>1, <3>2, <3>3
  <2>5. f \in [0..n + d - 1 -> OrNone(Chans)]
    BY <1>2, <2>4 DEF OrNone
  <2>6. GOK(h2)
    BY <2>3, <2>5 DEF GOK
  <2>7. ASSUME NEW c \in Chans
        PROVE  Uses(FdSeqs(f), c) = Uses(FdSeqs(h.fd), c)
    <3>1. PICK A, B : /\ A = [x \in DOMAIN FdSeqs(h.fd) |-> At(c, FdSeqs(h.fd)[x])]
                      /\ B = [x \in DOMAIN FdSeqs(f) |-> At(c, FdSeqs(f)[x])]
      OBVIOUS
    <3>2. DOMAIN A = 0..n - 1 /\ DOMAIN B = 0..n + d - 1
      BY <1>2, <2>4, <3>1 DEF FdSeqs
    <3>3. \A j \in 0..n - 1 : B[j] = A[j]
      <4>1. \A j \in 0..n - 1 : A[j] = At(c, <<h.fd[j]>>)
        BY <1>2, <3>1 DEF FdSeqs
      <4>2. \A j \in 0..n - 1 : j \in 0..n + d - 1
        OBVIOUS
      <4>3. \A j \in 0..n - 1 : B[j] = At(c, <<f[j]>>)
        BY <2>4, <3>1, <4>2 DEF FdSeqs
      <4>4. QED
        BY <2>4, <4>1, <4>3
    <3>4. \A j \in n..n + d - 1 : B[j] = {}
      <4>1. \A j \in n..n + d - 1 : j \in 0..n + d - 1
        OBVIOUS
      <4>2. \A j \in n..n + d - 1 : B[j] = At(c, <<None>>)
        BY <2>4, <3>1, <4>1 DEF FdSeqs
      <4>3. At(c, <<None>>) = {}
        BY ChansAre DEF At
      <4>4. QED
        BY <4>2, <4>3
    <3>5. Pairs(A) = Pairs(B)
      <4>1. ASSUME NEW z \in Pairs(A) PROVE z \in Pairs(B)
        <5>1. PICK j \in 0..n - 1 : z \in {j} \X A[j]
          BY <3>2, <4>1 DEF Pairs
        <5>2. j \in DOMAIN B /\ z \in {j} \X B[j]
          BY <3>2, <3>3, <5>1
        <5>3. QED
          BY <5>2 DEF Pairs
      <4>2. ASSUME NEW z \in Pairs(B) PROVE z \in Pairs(A)
        <5>1. PICK j \in 0..n + d - 1 : z \in {j} \X B[j]
          BY <3>2, <4>2 DEF Pairs
        <5>2. j \in 0..n - 1
          <6>1. B[j] # {}
            BY <5>1
          <6>2. j \notin n..n + d - 1
            BY <3>4, <6>1
          <6>3. QED
            BY <5>1, <6>2
        <5>3. j \in DOMAIN A /\ z \in {j} \X A[j]
          BY <3>2, <3>3, <5>1, <5>2
        <5>4. QED
          BY <5>3 DEF Pairs
      <4>3. QED
        BY <4>1, <4>2
    <3>6. QED
      BY <3>1, <3>5 DEF Uses
  <2>8. Counts(f, R) = Counts(h.fd, R)
    BY <2>7 DEF Counts
  <2>9. n <= n + d
    OBVIOUS
  <2>10. QED
    BY <1>1, <1>3, <2>3, <2>4, <2>6, <2>8, <2>9
<1>6. QED
  BY <1>4, <1>5

(* a slot of the table is put, or dropped *)
LEMMA PutFdIs ==
  ASSUME NEW h, GOK(h), NEW fd \in 0..h.nfd - 1, NEW c \in OrNone(Chans)
  PROVE  LET h2 == PutFd(h, fd, c) IN
         GOK(h2) /\ SlotChanges(h, h2, fd) /\ h2.fd[fd] = c
<1>1. PICK f : f = [h.fd EXCEPT ![fd] = c]
  OBVIOUS
<1>2. /\ PutFd(h, fd, c).fd = f /\ PutFd(h, fd, c).nfd = h.nfd
      /\ PutFd(h, fd, c) = [fd |-> PutFd(h, fd, c).fd, nfd |-> PutFd(h, fd, c).nfd,
                            maxfd |-> PutFd(h, fd, c).maxfd]
  <2>1. PICK G, n, m : h = [fd |-> G, nfd |-> n, maxfd |-> m]
    BY DEF GOK
  <2>2. PutFd(h, fd, c) = [h EXCEPT !.fd[fd] = c, !.maxfd = IF fd > @ THEN fd ELSE @]
    BY DEF PutFd
  <2>3. PICK x : x = IF fd > m THEN fd ELSE m
    OBVIOUS
  <2>4. PutFd(h, fd, c) = [fd |-> f, nfd |-> n, maxfd |-> x]
    BY <1>1, <2>1, <2>2, <2>3
  <2>5. QED
    BY <2>1, <2>4
<1>3. f \in [0..h.nfd - 1 -> OrNone(Chans)] /\ f[fd] = c /\ \A j \in (0..h.nfd - 1) \ {fd} : f[j] = h.fd[j]
  BY <1>1 DEF GOK
<1>4. h.nfd \in Nat
  BY DEF GOK
<1>5. QED
  BY <1>2, <1>3, <1>4 DEF GOK, SlotChanges

(* the same of fdclose *)
LEMMA DropFdIs ==
  ASSUME GOK(g), NEW fd \in 0..g.nfd - 1
  PROVE  LET h2 == DropFd(fd) IN
         GOK(h2) /\ SlotChanges(g, h2, fd) /\ h2.fd[fd] = None
<1>1. PICK f : f = [g.fd EXCEPT ![fd] = None]
  OBVIOUS
<1>2. /\ DropFd(fd).fd = f /\ DropFd(fd).nfd = g.nfd
      /\ DropFd(fd) = [fd |-> DropFd(fd).fd, nfd |-> DropFd(fd).nfd, maxfd |-> DropFd(fd).maxfd]
  <2>1. PICK G, n, m : g = [fd |-> G, nfd |-> n, maxfd |-> m]
    BY DEF GOK
  <2>2. PICK below : below = {i \in 0..fd - 1 : \A j \in i..fd - 1 : g.fd[j] = None}
    OBVIOUS
  <2>3. DropFd(fd) = [g EXCEPT !.fd[fd] = None,
                               !.maxfd = IF fd = @ /\ below # {} THEN Least(below) ELSE @]
    BY <2>2 DEF DropFd
  <2>4. PICK x : x = IF fd = m /\ below # {} THEN Least(below) ELSE m
    OBVIOUS
  <2>5. DropFd(fd) = [fd |-> f, nfd |-> n, maxfd |-> x]
    BY <1>1, <2>1, <2>3, <2>4
  <2>6. QED
    BY <2>1, <2>5
<1>3. f \in [0..g.nfd - 1 -> OrNone(Chans)] /\ f[fd] = None /\ \A j \in (0..g.nfd - 1) \ {fd} : f[j] = g.fd[j]
  BY <1>1 DEF GOK, OrNone
<1>4. g.nfd \in Nat
  BY DEF GOK
<1>5. QED
  BY <1>2, <1>3, <1>4 DEF GOK, SlotChanges

(* findfreefd: a slot that is free, or the end of the table *)
LEMMA FreeFdIs ==
  ASSUME NEW h, GOK(h)
  PROVE  /\ FreeFd(h) \in Nat /\ FreeFd(h) <= h.nfd
         /\ FreeFd(h) < h.nfd => h.fd[FreeFd(h)] = None
<1>1. PICK n \in Nat : n = h.nfd
  BY DEF GOK
<1>2. DOMAIN h.fd = 0..n - 1
  BY <1>1 DEF GOK
<1>3. PICK T : T = {i \in DOMAIN h.fd : h.fd[i] = None} \cup {h.nfd}
  OBVIOUS
<1>4. T \in SUBSET Nat /\ T # {} /\ n \in T
  BY <1>1, <1>2, <1>3
<1>5. Least(T) \in T /\ Least(T) <= n
  BY <1>4, LeastIs
<1>6. FreeFd(h) = Least(T)
  BY <1>3 DEF FreeFd
<1>7. QED
  BY <1>1, <1>2, <1>3, <1>4, <1>5, <1>6

(* newfd: the slot gets the channel, or the channel is closed *)
LEMMA NewFdKeeps ==
  ASSUME GOK(g), NEW P, NEW R, Family(R, P, OrNone(Chans)), NEW k, NEW me, NEW c \in Chans,
         Bal(k, Plus(Counts(g.fd, R), <<c>>), me), NewFd(k, c)
  PROVE  /\ GOK(g') /\ g.nfd <= g'.nfd /\ Bal(t', Counts(g'.fd, R), me)
         /\ Same(k, t', Counts(g.fd, R)) /\ SameMounts(k, t')
<1>1. PICK fd, h, e : fd = FreeFd(g) /\ h = GrowFd(g, fd) /\ e = Counts(g.fd, R)
  OBVIOUS
<1>2. PICK n \in Nat : n = g.nfd
  BY DEF GOK
<1>3. fd \in Nat /\ fd <= n /\ (fd < n => g.fd[fd] = None)
  BY <1>1, <1>2, FreeFdIs
<1>4. /\ GOK(h) /\ n <= h.nfd /\ Counts(h.fd, R) = e
      /\ \A j \in 0..n - 1 : h.fd[j] = g.fd[j]
      /\ \A j \in n..h.nfd - 1 : h.fd[j] = None
  <2>1. fd \in Int
    BY <1>3
  <2>2. /\ GOK(h) /\ g.nfd <= h.nfd /\ Counts(h.fd, R) = Counts(g.fd, R)
        /\ \A j \in 0..g.nfd - 1 : h.fd[j] = g.fd[j]
        /\ \A j \in g.nfd..h.nfd - 1 : h.fd[j] = None
    BY <1>1, <2>1, GrowFdKeeps, ZenonT(60)
  <2>3. QED
    BY <1>1, <1>2, <2>2
<1>5. e \in [Chans -> Nat] /\ e[Slash] >= 1
  BY <1>1, CountsType
<1>6. h.nfd \in Nat
  BY <1>4 DEF GOK
<1>7. CASE fd < h.nfd
  <2>1. t' = k /\ g' = PutFd(h, fd, c)
    BY <1>1, <1>7 DEF NewFd
  <2>2. fd \in 0..h.nfd - 1 /\ h.fd[fd] = None
    <3>1. CASE fd < n
      BY <1>3, <1>4, <1>6, <1>7, <3>1
    <3>2. CASE fd = n
      BY <1>3, <1>4, <1>6, <1>7, <3>2
    <3>3. QED
      BY <1>3, <3>1, <3>2
  <2>3. PICK h2 : h2 = PutFd(h, fd, c)
    OBVIOUS
  <2>4. GOK(h2) /\ SlotChanges(h, h2, fd) /\ h2.fd[fd] = c
    BY <1>4, <2>2, <2>3, PutFdIs DEF OrNone
  <2>5. Plus(Counts(h.fd, R), <<h2.fd[fd]>>) = Plus(Counts(h2.fd, R), <<h.fd[fd]>>)
    BY <1>4, <2>2, <2>4, CountsPut
  <2>6. Counts(h2.fd, R) \in [Chans -> Nat]
    BY <2>4, CountsType
  <2>7. Plus(Counts(h2.fd, R), <<None>>) = Counts(h2.fd, R)
    BY <2>6, PlusNone
  <2>8. Plus(e, <<c>>) = Counts(h2.fd, R)
    BY <1>4, <2>2, <2>4, <2>5, <2>7
  <2>9. Bal(k, Counts(h2.fd, R), me)
    BY <1>1, <2>8
  <2>10. Same(k, k, e) /\ SameMounts(k, k)
    BY DEF Same, SameMounts
  <2>11. h2.nfd = h.nfd
    BY <2>4 DEF SlotChanges
  <2>12. QED
    BY <1>1, <1>2, <1>4, <2>1, <2>3, <2>4, <2>9, <2>10, <2>11
<1>8. CASE ~ fd < h.nfd
  <2>1. t' = CClose(k, <<c>>) /\ g' = g
    BY <1>1, <1>8 DEF NewFd
  <2>2. PICK k2 : k2 = CClose(k, <<c>>)
    OBVIOUS
  <2>3. Bal(k2, e, me) /\ Same(k, k2, e) /\ SameMounts(k, k2)
    <3>1. c \in OrNone(Chans) /\ Bal(k, Plus(e, <<c>>), me)
      BY <1>1 DEF OrNone
    <3>2. QED
      BY <1>5, <2>2, <3>1, CloseOneSame
  <2>4. g.nfd <= g.nfd
    BY <1>2
  <2>5. QED
    BY <1>1, <2>1, <2>2, <2>3, <2>4
<1>9. QED
  BY <1>7, <1>8

-----------------------------------------------------------------------------
(* Seventeenth part: the calls on descriptors.                             *)

(* a process that is in no name holds the channel it works on only *)
LEMMA NoNameHolds ==
  ASSUME NEW r, NoName(r), NEW x, SOK(x), WOK(r), NEW e \in [Chans -> Nat],
         NEW me \in [Mheads -> Nat]
  PROVE  Plus(e, Hold(r, x)) = Plus(e, <<ChanHeld(r, x)>>) /\ MPlus(me, MHold(r)) = me
<1>1. /\ r.c = None /\ r.start = None /\ r.nc = None /\ r.path = <<>>
      /\ r.mh = None /\ r.nmh = None /\ r.got = <<>>
  BY DEF NoName
<1>2. PICK a : a = Plus(e, <<ChanHeld(r, x)>>)
  OBVIOUS
<1>3. a \in [Chans -> Nat]
  BY <1>2, PlusOne
<1>4. Plus(e, Hold(r, x)) = Adds(Plus(a, r.got), r.c, r.start, r.nc, r.path)
  BY <1>2, PlusHold
<1>5. Plus(a, <<>>) = a
  BY <1>3, PlusEmpty
<1>6. Adds(a, None, None, None, <<>>) = a
  BY <1>3, AddsNone
<1>7. MPlus(me, MHold(r)) = MAdds(me, r.mh, r.nmh) /\ MAdds(me, None, None) = me
  BY MPlusHold, MAddsIs
<1>8. QED
  BY <1>1, <1>2, <1>4, <1>5, <1>6, <1>7

(* what it holds before *)
LEMMA FdStart ==
  ASSUME NEW k, NEW h, NEW ww, NEW ss, Inv(k, h, ww, ss), NEW p \in Procs,
         ww[p].pc \notin NamePC, NEW e, e = Counts(h.fd, Rest(ww, ss, p))
  PROVE  /\ WOK(ww[p]) /\ SOK(ss[p]) /\ Control(k, h.nfd, ww[p], ss[p]) /\ GOK(h)
         /\ Family(Rest(ww, ss, p), Procs \ {p}, OrNone(Chans))
         /\ e \in [Chans -> Nat] /\ e[Slash] >= 1 /\ Covers(e, ww, ss, p)
         /\ MBase(ww, p) \in [Mheads -> Nat]
         /\ Bal(k, Plus(e, <<ChanHeld(ww[p], ss[p])>>), MBase(ww, p))
<1>1. /\ Typed(ww, ss) /\ GOK(h) /\ WOK(ww[p]) /\ SOK(ss[p])
      /\ Control(k, h.nfd, ww[p], ss[p])
  BY DEF Inv, Typed, Proc
<1>2. NoName(ww[p])
  BY <1>1 DEF Control
<1>3. /\ e \in [Chans -> Nat] /\ e[Slash] >= 1 /\ MBase(ww, p) \in [Mheads -> Nat]
      /\ \A q \in Procs \ {p} : \A c \in Chans : Times(c, Hold(ww[q], ss[q])) >= 1 => e[c] >= 1
  BY <1>1, RestType DEF MBase
<1>4. Covers(e, ww, ss, p)
  BY <1>3 DEF Covers
<1>5. /\ Counts(h.fd, Holds(ww, ss, Procs)) = Plus(e, Hold(ww[p], ss[p]))
      /\ MCounts(MHolds(ww, Procs)) = MPlus(MBase(ww, p), MHold(ww[p]))
  BY <1>1, CallsSplit DEF MBase
<1>6. /\ Plus(e, Hold(ww[p], ss[p])) = Plus(e, <<ChanHeld(ww[p], ss[p])>>)
      /\ MPlus(MBase(ww, p), MHold(ww[p])) = MBase(ww, p)
  BY <1>1, <1>2, <1>3, NoNameHolds
<1>7. Bal(k, Plus(e, <<ChanHeld(ww[p], ss[p])>>), MBase(ww, p))
  BY <1>5, <1>6 DEF Inv
<1>8. Family(Rest(ww, ss, p), Procs \ {p}, OrNone(Chans))
  BY <1>1, HoldsFamily DEF Rest
<1>9. QED
  BY <1>1, <1>3, <1>4, <1>7, <1>8

(* where it is, when it is in no name *)
FdControl(n, r, x) ==
  /\ r.pc \notin NamePC /\ NoName(r) /\ WOK(r) /\ SOK(x)
  /\ r.pc = "idle" => x.chan = None
  /\ r.pc \in FdPC => x.chan \in Chans /\ x.load # <<>>
  /\ r.pc = "fdclose" => /\ x.load # <<>> /\ Head(x.load).call = "close"
                         /\ Head(x.load).fd \in 0..n - 1

(* the invariant, when p is in no name after the step *)
LEMMA FdEnd ==
  ASSUME NEW k, NEW h, NEW ww, NEW ss, Inv(k, h, ww, ss), NEW p \in Procs,
         NEW k2, NEW h2, NEW w2, NEW s2, Alike(ww, ss, w2, s2, p),
         GOK(h2), h.nfd <= h2.nfd, NEW e, Covers(e, ww, ss, p), SameUmh(k, k2, e),
         Crossings(k2, ww, p), Mounted(k2), FdControl(h2.nfd, w2[p], s2[p]),
         Bal(k2, Plus(Counts(h2.fd, Rest(ww, ss, p)), <<ChanHeld(w2[p], s2[p])>>), MBase(ww, p))
  PROVE  Inv(k2, h2, w2, s2)
<1>1. PICK r, x : r = w2[p] /\ x = s2[p]
  OBVIOUS
<1>2. r.pc \notin NamePC /\ NoName(r) /\ WOK(r) /\ SOK(x)
  BY <1>1 DEF FdControl
<1>3. Control(k2, h2.nfd, r, x)
  BY <1>1 DEF FdControl, Control
<1>4. Plain(k2, NotOpen(r))
  <2>1. /\ r.c = None /\ r.start = None /\ r.nc = None /\ r.path = <<>> /\ r.got = <<>>
    BY <1>2 DEF NoName
  <2>2. PlainOne(k2, None) /\ Plain(k2, <<>>)
    BY DEF PlainOne, Plain
  <2>3. QED
    BY <1>2, <2>1, <2>2, PlainIs
<1>5. Proc(k2, h2.nfd, w2[p], s2[p])
  BY <1>1, <1>2, <1>3, <1>4 DEF Proc
<1>6. Typed(ww, ss)
  BY DEF Inv, Typed, Proc
<1>7. PICK a : a = Counts(h2.fd, Rest(ww, ss, p))
  OBVIOUS
<1>8. a \in [Chans -> Nat] /\ MBase(ww, p) \in [Mheads -> Nat]
  BY <1>6, <1>7, RestType DEF MBase
<1>9. Plus(a, Hold(r, x)) = Plus(a, <<ChanHeld(r, x)>>) /\ MPlus(MBase(ww, p), MHold(r)) = MBase(ww, p)
  BY <1>2, <1>8, NoNameHolds
<1>10. Bal(k2, Plus(Counts(h2.fd, Rest(ww, ss, p)), Hold(w2[p], s2[p])),
           MPlus(MCounts(MRest(ww, p)), MHold(w2[p])))
  BY <1>1, <1>7, <1>9 DEF MBase
<1>11. QED
  BY <1>5, <1>10, StepKeeps

-----------------------------------------------------------------------------
(* no offset goes back, unless the channel is among those moved *)
Later(k, k2, e) ==
  \A c \in Chans : e[c] >= 1 /\ c \notin k2.moved =>
    c \notin k.moved /\ k.offset[c] <= k2.offset[c]

(* what leaves the offsets alone is Later *)
LEMMA SameLater ==
  ASSUME NEW k, TabsOK(k), NEW k2, NEW e, Same(k, k2, e)
  PROVE  Later(k, k2, e)
<1>1. \A c \in Chans : k.offset[c] <= k.offset[c]
  BY DEF TabsOK
<1>2. QED
  BY <1>1 DEF Same, Later

(* the write that p begins takes what is after the offset *)
Takes(k, k2, r, x) ==
  \A c \in Chans : Under(k2, r, x, c) =>
    c \notin k.moved /\ k.offset[c] <= x.off /\ x.off + x.n <= k2.offset[c]

(* the writes stay apart when no offset goes back, and p takes what is free *)
LEMMA WritesLater ==
  ASSUME NEW k, NEW h, NEW ww, NEW ss, Inv(k, h, ww, ss), WritesOK(k, ww, ss), NEW p \in Procs,
         NEW k2, TabsOK(k2), NEW w2, NEW s2, Alike(ww, ss, w2, s2, p), SOK(s2[p]),
         NEW e, Covers(e, ww, ss, p), Later(k, k2, e), Takes(k, k2, w2[p], s2[p])
  PROVE  WritesOK(k2, w2, s2)
<1>1. TabsOK(k)
  BY DEF Inv, Bal
<1>2. ASSUME NEW q \in Procs, q # p, NEW c \in Chans, Under(k2, w2[q], s2[q], c)
      PROVE  /\ Under(k, ww[q], ss[q], c) /\ s2[q] = ss[q] /\ k.offset[c] <= k2.offset[c]
             /\ s2[q].off + s2[q].n <= k.offset[c]
             /\ s2[q].off \in Int /\ s2[q].n \in Nat
  <2>1. w2[q].pc = "devwrite" /\ s2[q].chan = c /\ c \notin k2.moved
    BY <1>2 DEF Under
  <2>2. s2[q] = ss[q] /\ w2[q].pc = ww[q].pc
    BY <1>2 DEF Alike, WFields
  <2>3. WOK(ww[q]) /\ SOK(ss[q])
    BY DEF Inv, Proc
  <2>4. Times(c, Hold(ww[q], ss[q])) >= 1
    <3>1. ss[q].chan = c /\ ww[q].pc # "fdclose"
      BY <2>1, <2>2
    <3>2. QED
      BY <2>3, <3>1, ChanCounts
  <2>5. e[c] >= 1
    BY <1>2, <2>4 DEF Covers
  <2>6. c \notin k.moved /\ k.offset[c] <= k2.offset[c]
    BY <2>1, <2>5 DEF Later
  <2>7. Under(k, ww[q], ss[q], c)
    BY <2>1, <2>2, <2>6 DEF Under
  <2>8. ss[q].off + ss[q].n <= k.offset[c]
    BY <2>7 DEF WritesOK
  <2>9. ss[q].off \in Int /\ ss[q].n \in Nat
    BY <2>3 DEF SOK
  <2>10. QED
    BY <2>2, <2>6, <2>7, <2>8, <2>9
<1>3. ASSUME NEW c \in Chans, Under(k2, w2[p], s2[p], c)
      PROVE  /\ k.offset[c] <= s2[p].off /\ s2[p].off + s2[p].n <= k2.offset[c]
             /\ s2[p].off \in Int /\ s2[p].n \in Nat
  BY <1>3 DEF Takes, SOK
<1>4. \A c \in Chans : k.offset[c] \in Int /\ k2.offset[c] \in Int
  BY <1>1 DEF TabsOK
<1>5. ASSUME NEW q1 \in Procs, NEW q2 \in Procs, NEW c \in Chans, q1 # q2,
             Under(k2, w2[q1], s2[q1], c), Under(k2, w2[q2], s2[q2], c)
      PROVE  s2[q1].off + s2[q1].n <= s2[q2].off \/ s2[q2].off + s2[q2].n <= s2[q1].off
  <2>1. CASE q1 = p
    <3>1. k.offset[c] <= s2[q1].off /\ s2[q1].off \in Int
      BY <1>3, <1>5, <2>1
    <3>2. s2[q2].off + s2[q2].n <= k.offset[c] /\ s2[q2].off \in Int /\ s2[q2].n \in Nat
      BY <1>2, <1>5, <2>1
    <3>3. QED
      BY <1>4, <3>1, <3>2
  <2>2. CASE q2 = p
    <3>1. k.offset[c] <= s2[q2].off /\ s2[q2].off \in Int
      BY <1>3, <1>5, <2>2
    <3>2. s2[q1].off + s2[q1].n <= k.offset[c] /\ s2[q1].off \in Int /\ s2[q1].n \in Nat
      BY <1>2, <1>5, <2>2
    <3>3. QED
      BY <1>4, <3>1, <3>2
  <2>3. CASE q1 # p /\ q2 # p
    <3>1. /\ Under(k, ww[q1], ss[q1], c) /\ s2[q1] = ss[q1]
          /\ Under(k, ww[q2], ss[q2], c) /\ s2[q2] = ss[q2]
      BY <1>2, <1>5, <2>3
    <3>2. ss[q1].off + ss[q1].n <= ss[q2].off \/ ss[q2].off + ss[q2].n <= ss[q1].off
      BY <1>5, <3>1 DEF WritesOK
    <3>3. QED
      BY <3>1, <3>2
  <2>4. QED
    BY <2>1, <2>2, <2>3
<1>6. ASSUME NEW q \in Procs, NEW c \in Chans, Under(k2, w2[q], s2[q], c)
      PROVE  s2[q].off + s2[q].n <= k2.offset[c]
  <2>1. CASE q = p
    BY <1>3, <1>6, <2>1
  <2>2. CASE q # p
    <3>1. /\ k.offset[c] <= k2.offset[c] /\ s2[q].off + s2[q].n <= k.offset[c]
          /\ s2[q].off \in Int /\ s2[q].n \in Nat
      BY <1>2, <1>6, <2>2
    <3>2. QED
      BY <1>4, <3>1
  <2>3. QED
    BY <2>1, <2>2
<1>7. QED
  BY <1>5, <1>6 DEF WritesOK

-----------------------------------------------------------------------------
(* the offset of c becomes o, and M is moved *)
Moves(k, c, o, M) == [k EXCEPT !.offset[c] = o, !.moved = M]

(* it leaves all that is counted alone *)
LEMMA MovesKeeps ==
  ASSUME NEW k, NEW e, NEW me, Bal(k, e, me), NEW c \in Chans, NEW o \in Int, NEW M,
         M \subseteq Chans
  PROVE  LET k2 == Moves(k, c, o, M) IN
         /\ Bal(k2, e, me) /\ SameMounts(k, k2) /\ k2.umh = k.umh /\ k2.moved = M
         /\ k2.offset[c] = o /\ \A d \in Chans \ {c} : k2.offset[d] = k.offset[d]
<1>1. PICK k2 : k2 = Moves(k, c, o, M)
  OBVIOUS
<1>2. TabsOK(k) /\ k.stale = FALSE
  BY DEF Bal
<1>3. /\ DOMAIN k2 = TabFields /\ k2 = [x \in TabFields |-> k2[x]]
      /\ k2.offset = [k.offset EXCEPT ![c] = o] /\ k2.moved = M
      /\ \A x \in TabFields \ {"offset", "moved"} : k2[x] = k[x]
  <2>1. DOMAIN k = TabFields /\ k = [x \in TabFields |-> k[x]]
    BY <1>2 DEF TabsOK
  <2>2. DOMAIN k2 = TabFields /\ k2.offset = [k.offset EXCEPT ![c] = o] /\ k2.moved = M
    BY <1>1, <2>1 DEF Moves, TabFields
  <2>3. \A x \in TabFields \ {"offset", "moved"} : k2[x] = k[x]
    BY <1>1, <2>1 DEF Moves
  <2>4. k2 = [x \in TabFields |-> k2[x]]
    BY <1>1, <2>1 DEF Moves
  <2>5. QED
    BY <2>2, <2>3, <2>4
<1>4. /\ k2.ref = k.ref /\ k2.file = k.file /\ k2.path = k.path /\ k2.umh = k.umh
      /\ k2.free = k.free /\ k2.mref = k.mref /\ k2.from = k.from /\ k2.mount = k.mount
      /\ k2.hashed = k.hashed /\ k2.stale = k.stale
  BY <1>3 DEF TabFields
<1>5. /\ k2.offset \in [Chans -> Int] /\ k2.offset[c] = o
      /\ \A d \in Chans \ {c} : k2.offset[d] = k.offset[d]
  BY <1>2, <1>3, ZenonT(60) DEF TabsOK
<1>6. TabsOK(k2)
  BY <1>2, <1>3, <1>4, <1>5 DEF TabsOK
<1>7. /\ \A d : InTables(k2, d) = InTables(k, d)
      /\ \A m : MInTables(k2, m) = MInTables(k, m)
  BY <1>4 DEF InTables, MInTables
<1>8. Counted(k2, e, me) /\ Kept(k2, e)
  BY <1>4, <1>7 DEF Bal, Counted, Kept
<1>9. Bal(k2, e, me)
  BY <1>2, <1>4, <1>6, <1>8 DEF Bal
<1>10. SameMounts(k, k2)
  BY <1>4 DEF SameMounts
<1>11. QED
  BY <1>1, <1>3, <1>4, <1>5, <1>9, <1>10

(* only the offset *)
LEMMA MovesOnly ==
  ASSUME NEW k, TabsOK(k), NEW c \in Chans, NEW o
  PROVE  [k EXCEPT !.offset[c] = o] = Moves(k, c, o, k.moved)
<1>1. DOMAIN k = TabFields /\ k = [x \in TabFields |-> k[x]]
  BY DEF TabsOK
<1>2. QED
  BY <1>1 DEF Moves, TabFields

(* and then a channel is closed *)
LEMMA LaterClose ==
  ASSUME NEW k, NEW k1, NEW k2, NEW e, Later(k, k1, e), Same(k1, k2, e)
  PROVE  Later(k, k2, e)
BY DEF Later, Same

-----------------------------------------------------------------------------
(* a process between its calls *)
LEMMA RestingIs ==
  /\ WOK(Resting) /\ NoName(Resting) /\ Resting.pc = "idle"
<1>1. <<>> \in Seq(STRING)
  BY Zenon, EmptySeq
<1>2. DOMAIN Resting = WFields
  BY DEF Resting, WFields
<1>3. QED
  BY <1>1, <1>2 DEF Resting, WOK, NoName, OrNone

(* the call of p is over *)
Ends(p) ==
  /\ w'[p] = Resting /\ s'[p] = CallsOf(Tail(s[p].load))
  /\ Alike(w, s, w', s', p)

(* Returns ends it *)
LEMMA ReturnsEnds ==
  ASSUME NEW p \in Procs, DOMAIN w = Procs, DOMAIN s = Procs, Returns(p)
  PROVE  Ends(p)
BY DEF Returns, Ends, Alike

(* the calls that remain are of their type *)
LEMMA CallsOfIs ==
  ASSUME NEW x, SOK(x), x.load # <<>>
  PROVE  SOK(CallsOf(Tail(x.load))) /\ CallsOf(Tail(x.load)).chan = None
<1>1. Tail(x.load) \in Seq(Calls)
  BY DEF SOK
<1>2. QED
  BY <1>1 DEF SOK, CallsOf, OrNone

(* the invariant, when the call of p is over *)
LEMMA EndKeeps ==
  ASSUME NEW p \in Procs, Inv(t, g, w, s), WritesOK(t, w, s), s[p].load # <<>>, Ends(p),
         GOK(g'), g.nfd <= g'.nfd, NEW e, Covers(e, w, s, p), SameUmh(t, t', e),
         Later(t, t', e), Crossings(t', w, p), Mounted(t'),
         Bal(t', Counts(g'.fd, Rest(w, s, p)), MBase(w, p))
  PROVE  Inv(t', g', w', s') /\ WritesOK(t', w', s')
<1>1. PICK k, h, ww, ss, k2, h2, w2, s2 :
         /\ k = t /\ h = g /\ ww = w /\ ss = s /\ k2 = t' /\ h2 = g' /\ w2 = w' /\ s2 = s'
  OBVIOUS
<1>2. w2[p] = Resting /\ s2[p] = CallsOf(Tail(ss[p].load)) /\ Alike(ww, ss, w2, s2, p)
  BY <1>1 DEF Ends
<1>3. SOK(ss[p]) /\ Typed(ww, ss)
  BY <1>1 DEF Inv, Typed, Proc
<1>4. SOK(s2[p]) /\ s2[p].chan = None
  BY <1>1, <1>2, <1>3, CallsOfIs
<1>5. WOK(w2[p]) /\ NoName(w2[p]) /\ w2[p].pc = "idle"
  BY <1>2, RestingIs
<1>6. FdControl(h2.nfd, w2[p], s2[p])
  BY <1>4, <1>5 DEF FdControl, NamePC, FdPC
<1>7. ChanHeld(w2[p], s2[p]) = None
  BY <1>4 DEF ChanHeld
<1>8. PICK a : a = Counts(h2.fd, Rest(ww, ss, p))
  OBVIOUS
<1>9. Plus(a, <<None>>) = a
  <2>1. a \in [Chans -> Nat]
    BY <1>1, <1>3, <1>8, RestType
  <2>2. QED
    BY <2>1, PlusNone
<1>10. Bal(k2, Plus(Counts(h2.fd, Rest(ww, ss, p)), <<ChanHeld(w2[p], s2[p])>>), MBase(ww, p))
  BY <1>1, <1>7, <1>8, <1>9
<1>11. /\ Inv(k, h, ww, ss) /\ WritesOK(k, ww, ss) /\ GOK(h2) /\ h.nfd <= h2.nfd
       /\ Covers(e, ww, ss, p) /\ SameUmh(k, k2, e) /\ Later(k, k2, e)
       /\ Crossings(k2, ww, p) /\ Mounted(k2)
  BY <1>1
<1>12. Inv(k2, h2, w2, s2)
  BY <1>2, <1>6, <1>10, <1>11, FdEnd
<1>13. Takes(k, k2, w2[p], s2[p])
  BY <1>5 DEF Takes, Under
<1>14. TabsOK(k2)
  BY <1>12 DEF Inv, Bal
<1>15. WritesOK(k2, w2, s2)
  BY <1>2, <1>4, <1>11, <1>13, <1>14, WritesLater
<1>16. QED
  BY <1>1, <1>12, <1>15

(* and when it goes on, with the same descriptors *)
LEMMA OnKeeps ==
  ASSUME NEW p \in Procs, Inv(t, g, w, s), WritesOK(t, w, s), g' = g,
         Alike(w, s, w', s', p), FdControl(g.nfd, w'[p], s'[p]), NEW e, Covers(e, w, s, p),
         e = Counts(g.fd, Rest(w, s, p)), SameUmh(t, t', e), Later(t, t', e),
         SameMounts(t, t'), Takes(t, t', w'[p], s'[p]),
         Bal(t', Plus(e, <<ChanHeld(w'[p], s'[p])>>), MBase(w, p))
  PROVE  Inv(t', g', w', s') /\ WritesOK(t', w', s')
<1>1. PICK k, h, ww, ss, k2, w2, s2 :
         /\ k = t /\ h = g /\ ww = w /\ ss = s /\ k2 = t' /\ w2 = w' /\ s2 = s'
  OBVIOUS
<1>2. /\ Inv(k, h, ww, ss) /\ WritesOK(k, ww, ss) /\ Alike(ww, ss, w2, s2, p)
      /\ FdControl(h.nfd, w2[p], s2[p]) /\ Covers(e, ww, ss, p) /\ SameUmh(k, k2, e)
      /\ Later(k, k2, e) /\ SameMounts(k, k2) /\ Takes(k, k2, w2[p], s2[p])
      /\ Bal(k2, Plus(Counts(h.fd, Rest(ww, ss, p)), <<ChanHeld(w2[p], s2[p])>>), MBase(ww, p))
  BY <1>1
<1>3. GOK(h) /\ h.nfd <= h.nfd
  BY <1>2 DEF Inv, GOK
<1>4. Crossings(k2, ww, p)
  BY <1>2, CrossingsKept DEF SameMounts
<1>5. Mounted(k2)
  BY <1>2 DEF Inv, Mounted, SameMounts
<1>6. Inv(k2, h, w2, s2)
  BY <1>2, <1>3, <1>4, <1>5, FdEnd
<1>7. TabsOK(k2) /\ SOK(s2[p])
  BY <1>6 DEF Inv, Bal, Proc
<1>8. WritesOK(k2, w2, s2)
  BY <1>2, <1>7, WritesLater
<1>9. QED
  BY <1>1, <1>6, <1>8

(* the program counter changes only *)
LEMMA DoesPc ==
  ASSUME NEW p \in Procs, DOMAIN w = Procs, WOK(w[p]), NoName(w[p]), NEW pc,
         Does(p, [pc |-> pc])
  PROVE  WOK(w'[p]) /\ NoName(w'[p]) /\ w'[p].pc = pc
<1>1. PICK r, r2 : r = w[p] /\ r2 = w'[p]
  OBVIOUS
<1>2. DOMAIN r = WFields
  BY <1>1 DEF WOK
<1>3. /\ DOMAIN r2 = WFields /\ r2.pc = pc
      /\ r2.c = r.c /\ r2.start = r.start /\ r2.nc = r.nc /\ r2.path = r.path /\ r2.got = r.got
      /\ r2.mh = r.mh /\ r2.nmh = r.nmh /\ r2.rest = r.rest
  BY <1>1, <1>2 DEF Does, WFields
<1>4. WOK(r2) /\ NoName(r2)
  BY <1>1, <1>3 DEF WOK, NoName
<1>5. QED
  BY <1>1, <1>3, <1>4

(* the call gets a channel, or a part of the file *)
LEMMA HasChan ==
  ASSUME NEW p \in Procs, DOMAIN s = Procs, SOK(s[p]), NEW c \in Chans, Has(p, [chan |-> c])
  PROVE  /\ SOK(s'[p]) /\ s'[p].chan = c /\ s'[p].load = s[p].load
         /\ DOMAIN s' = Procs /\ \A q \in Procs \ {p} : s'[q] = s[q]
BY DEF Has, SOK, OrNone

(* and so it gets a part of the file *)
LEMMA HasPart ==
  ASSUME NEW p \in Procs, DOMAIN s = Procs, SOK(s[p]), NEW i \in Int, NEW n \in Nat,
         Has(p, [off |-> i, n |-> n])
  PROVE  /\ SOK(s'[p]) /\ s'[p].chan = s[p].chan /\ s'[p].load = s[p].load
         /\ s'[p].off = i /\ s'[p].n = n
         /\ DOMAIN s' = Procs /\ \A q \in Procs \ {p} : s'[q] = s[q]
BY DEF Has, SOK

-----------------------------------------------------------------------------
(* Eighteenth part: the calls on descriptors, one by one.                  *)

(* the channel of a descriptor counts *)
LEMMA ChanOfCounts ==
  ASSUME GOK(g), NEW P, NEW R, Family(R, P, OrNone(Chans)), NEW fd, ChanOf(fd) # None
  PROVE  /\ fd \in 0..g.nfd - 1 /\ ChanOf(fd) = g.fd[fd] /\ ChanOf(fd) \in Chans
         /\ Counts(g.fd, R)[ChanOf(fd)] >= 1
<1>1. fd \in 0..g.nfd - 1 /\ ChanOf(fd) = g.fd[fd]
  BY DEF ChanOf
<1>2. g.fd[fd] \in Chans /\ DOMAIN g.fd = 0..g.nfd - 1
  BY <1>1 DEF GOK, OrNone
<1>3. PICK D, F, i, c : D = 0..g.nfd - 1 /\ F = FdSeqs(g.fd) /\ i = fd /\ c = g.fd[fd]
  OBVIOUS
<1>4. Family(F, D, OrNone(Chans)) /\ i \in D /\ F[i] = <<c>>
  BY <1>1, <1>2, <1>3, FdFamily DEF FdSeqs
<1>5. Uses(F, c) >= Times(c, F[i])
  BY <1>4, UsesSome
<1>6. Times(c, F[i]) = 1
  BY <1>4, TimesOne DEF One
<1>7. Uses(F, c) >= 1
  BY <1>5, <1>6
<1>8. Counts(g.fd, R)[c] >= 1
  BY <1>2, <1>3, <1>7, CountsType
<1>9. QED
  BY <1>1, <1>2, <1>3, <1>8

(* what every call on descriptors starts from *)
LEMMA FdBefore ==
  ASSUME NEW p \in Procs, Inv(t, g, w, s), w[p].pc \notin NamePC, NEW e, NEW me,
         e = Counts(g.fd, Rest(w, s, p)), me = MBase(w, p)
  PROVE  /\ DOMAIN w = Procs /\ DOMAIN s = Procs /\ GOK(g) /\ WOK(w[p]) /\ SOK(s[p])
         /\ NoName(w[p]) /\ Control(t, g.nfd, w[p], s[p])
         /\ Family(Rest(w, s, p), Procs \ {p}, OrNone(Chans))
         /\ e \in [Chans -> Nat] /\ e[Slash] >= 1 /\ Covers(e, w, s, p)
         /\ me \in [Mheads -> Nat]
         /\ w[p].pc \in {"idle", "fdclose"} => Bal(t, e, me)
         /\ w[p].pc \in FdPC => s[p].chan \in Chans /\ Bal(t, Plus(e, <<s[p].chan>>), me)
<1>1. DOMAIN w = Procs /\ DOMAIN s = Procs
  BY DEF Inv
<1>2. /\ WOK(w[p]) /\ SOK(s[p]) /\ Control(t, g.nfd, w[p], s[p]) /\ GOK(g)
      /\ Family(Rest(w, s, p), Procs \ {p}, OrNone(Chans))
      /\ e \in [Chans -> Nat] /\ e[Slash] >= 1 /\ Covers(e, w, s, p)
      /\ me \in [Mheads -> Nat]
      /\ Bal(t, Plus(e, <<ChanHeld(w[p], s[p])>>), me)
  BY FdStart
<1>3. NoName(w[p])
  BY <1>2 DEF Control
<1>4. ASSUME w[p].pc \in {"idle", "fdclose"} PROVE Bal(t, e, me)
  <2>1. ChanHeld(w[p], s[p]) = None
    BY <1>2, <1>4 DEF Control, ChanHeld
  <2>2. Plus(e, <<None>>) = e
    BY <1>2, PlusNone
  <2>3. QED
    BY <1>2, <2>1, <2>2
<1>5. ASSUME w[p].pc \in FdPC PROVE s[p].chan \in Chans /\ Bal(t, Plus(e, <<s[p].chan>>), me)
  <2>1. ChanHeld(w[p], s[p]) = s[p].chan
    BY <1>5 DEF ChanHeld, FdPC
  <2>2. s[p].chan \in Chans
    BY <1>2, <1>5 DEF Control
  <2>3. QED
    BY <1>2, <2>1, <2>2
<1>6. QED
  BY <1>1, <1>2, <1>3, <1>4, <1>5

(* a call ends, with the tables as they are, or with its channel closed *)
LEMMA EndSame ==
  ASSUME NEW p \in Procs, Inv(t, g, w, s), WritesOK(t, w, s), s[p].load # <<>>, Returns(p),
         GOK(g'), g.nfd <= g'.nfd, NEW e, Covers(e, w, s, p), Same(t, t', e),
         SameMounts(t, t'), e = Counts(g'.fd, Rest(w, s, p)), Bal(t', e, MBase(w, p))
  PROVE  Inv(t', g', w', s') /\ WritesOK(t', w', s')
<1>1. DOMAIN w = Procs /\ DOMAIN s = Procs /\ TabsOK(t)
  BY DEF Inv, Bal
<1>2. Ends(p)
  BY <1>1, ReturnsEnds
<1>3. SameUmh(t, t', e)
  BY DEF SameUmh, Same
<1>4. Later(t, t', e)
  BY <1>1, SameLater
<1>5. Crossings(t', w, p)
  <2>1. PICK k, h, ww, ss, k2 : k = t /\ h = g /\ ww = w /\ ss = s /\ k2 = t'
    OBVIOUS
  <2>2. Inv(k, h, ww, ss) /\ k.hashed \subseteq k2.hashed
    BY <2>1 DEF SameMounts
  <2>3. QED
    BY <2>1, <2>2, CrossingsKept
<1>6. Mounted(t')
  BY DEF Inv, Mounted, SameMounts
<1>7. QED
  BY <1>2, <1>3, <1>4, <1>5, <1>6, EndKeeps

(* nothing changes but the call *)
LEMMA EndNothing ==
  ASSUME NEW p \in Procs, Inv(t, g, w, s), WritesOK(t, w, s), s[p].load # <<>>, Returns(p),
         w[p].pc = "idle", t' = t, g' = g
  PROVE  Inv(t', g', w', s') /\ WritesOK(t', w', s')
<1>1. PICK e, me : e = Counts(g.fd, Rest(w, s, p)) /\ me = MBase(w, p)
  OBVIOUS
<1>2. GOK(g) /\ Covers(e, w, s, p) /\ Bal(t, e, me)
  BY <1>1, FdBefore DEF NamePC
<1>3. g.nfd <= g'.nfd
  BY <1>2 DEF GOK
<1>4. Same(t, t', e) /\ SameMounts(t, t')
  BY DEF Same, SameMounts
<1>5. GOK(g') /\ e = Counts(g'.fd, Rest(w, s, p)) /\ Bal(t', e, MBase(w, p))
  BY <1>1, <1>2
<1>6. QED
  BY <1>2, <1>3, <1>4, <1>5, EndSame

(* and its channel is closed *)
LEMMA EndCloses ==
  ASSUME NEW p \in Procs, Inv(t, g, w, s), WritesOK(t, w, s), s[p].load # <<>>, Returns(p),
         NEW e, e = Counts(g.fd, Rest(w, s, p)), Covers(e, w, s, p),
         NEW k, NEW c \in Chans, Bal(k, Plus(e, <<c>>), MBase(w, p)),
         Later(t, k, e), k.umh = t.umh, SameMounts(t, k), t' = CClose(k, <<c>>), g' = g
  PROVE  Inv(t', g', w', s') /\ WritesOK(t', w', s')
<1>1. DOMAIN w = Procs /\ DOMAIN s = Procs /\ GOK(g) /\ Typed(w, s)
  BY DEF Inv, Typed, Proc
<1>2. e \in [Chans -> Nat] /\ e[Slash] >= 1
  BY <1>1, RestType
<1>3. Bal(t', e, MBase(w, p)) /\ Same(k, t', e) /\ SameMounts(k, t')
  <2>1. PICK k2 : k2 = CClose(k, <<c>>)
    OBVIOUS
  <2>2. c \in OrNone(Chans)
    BY DEF OrNone
  <2>3. Bal(k2, e, MBase(w, p)) /\ Same(k, k2, e) /\ SameMounts(k, k2)
    BY <1>2, <2>1, <2>2, CloseOneSame
  <2>4. QED
    BY <2>1, <2>3
<1>4. Later(t, t', e)
  BY <1>3, LaterClose
<1>5. SameUmh(t, t', e)
  BY <1>3 DEF Same, SameUmh
<1>6. SameMounts(t, t')
  BY <1>3, SameOn
<1>7. Ends(p)
  BY <1>1, ReturnsEnds
<1>8. Crossings(t', w, p)
  <2>1. PICK k1, h, ww, ss, k2 : k1 = t /\ h = g /\ ww = w /\ ss = s /\ k2 = t'
    OBVIOUS
  <2>2. Inv(k1, h, ww, ss) /\ k1.hashed \subseteq k2.hashed
    BY <1>6, <2>1 DEF SameMounts
  <2>3. QED
    BY <2>1, <2>2, CrossingsKept
<1>9. Mounted(t')
  BY <1>6 DEF Inv, Mounted, SameMounts
<1>10. GOK(g') /\ g.nfd <= g'.nfd
  BY <1>1 DEF GOK
<1>11. Bal(t', Counts(g'.fd, Rest(w, s, p)), MBase(w, p))
  BY <1>3
<1>12. QED
  BY <1>4, <1>5, <1>7, <1>8, <1>9, <1>10, <1>11, EndKeeps

(* close: the descriptor is looked at *)
LEMMA SysCloseKeeps ==
  ASSUME NEW p \in Procs, Inv(t, g, w, s), WritesOK(t, w, s), SysClose(p)
  PROVE  Inv(t', g', w', s') /\ WritesOK(t', w', s')
<1>1. /\ w[p].pc = "idle" /\ s[p].load # <<>> /\ Call(p).call = "close"
      /\ t' = t /\ g' = g
  BY DEF SysClose, In, Is
<1>2. PICK e, me : e = Counts(g.fd, Rest(w, s, p)) /\ me = MBase(w, p)
  OBVIOUS
<1>3. /\ DOMAIN w = Procs /\ DOMAIN s = Procs /\ GOK(g) /\ WOK(w[p]) /\ SOK(s[p])
      /\ NoName(w[p]) /\ Family(Rest(w, s, p), Procs \ {p}, OrNone(Chans))
      /\ Covers(e, w, s, p) /\ e \in [Chans -> Nat] /\ Bal(t, e, me)
  BY <1>1, <1>2, FdBefore DEF NamePC
<1>4. CASE ChanOf(Call(p).fd) = None
  <2>1. Returns(p)
    BY <1>4 DEF SysClose
  <2>2. QED
    BY <1>1, <2>1, EndNothing
<1>5. CASE ChanOf(Call(p).fd) # None
  <2>1. PICK c, fd : fd = Call(p).fd /\ c = ChanOf(fd)
    OBVIOUS
  <2>2. fd \in 0..g.nfd - 1 /\ c \in Chans
    BY <1>3, <1>5, <2>1, ChanOfCounts
  <2>3. Does(p, [pc |-> "fdclose"]) /\ Has(p, [chan |-> c])
    BY <1>5, <2>1 DEF SysClose
  <2>4. WOK(w'[p]) /\ NoName(w'[p]) /\ w'[p].pc = "fdclose"
    BY <1>3, <2>3, DoesPc
  <2>5. /\ SOK(s'[p]) /\ s'[p].chan = c /\ s'[p].load = s[p].load
        /\ DOMAIN s' = Procs /\ \A q \in Procs \ {p} : s'[q] = s[q]
    BY <1>3, <2>2, <2>3, HasChan
  <2>6. Alike(w, s, w', s', p)
    BY <1>3, <2>3, <2>5, DoesAlike
  <2>7. FdControl(g.nfd, w'[p], s'[p])
    BY <1>1, <2>1, <2>2, <2>4, <2>5 DEF FdControl, NamePC, FdPC, Call
  <2>8. ChanHeld(w'[p], s'[p]) = None
    BY <2>4 DEF ChanHeld
  <2>9. Plus(e, <<None>>) = e
    BY <1>3, PlusNone
  <2>10. Bal(t', Plus(e, <<ChanHeld(w'[p], s'[p])>>), MBase(w, p))
    BY <1>1, <1>2, <1>3, <2>8, <2>9
  <2>11. Same(t, t', e) /\ SameMounts(t, t') /\ SameUmh(t, t', e)
    BY <1>1 DEF Same, SameMounts, SameUmh
  <2>12. Later(t, t', e)
    BY <1>3, <2>11, SameLater DEF Bal
  <2>13. Takes(t, t', w'[p], s'[p])
    BY <2>4 DEF Takes, Under
  <2>14. QED
    BY <1>1, <1>2, <1>3, <2>6, <2>7, <2>10, <2>11, <2>12, <2>13, OnKeeps
<1>6. QED
  BY <1>4, <1>5

(* fdclose: the channel that is there goes, if there is one *)
LEMMA FdCloseKeeps ==
  ASSUME NEW p \in Procs, Inv(t, g, w, s), WritesOK(t, w, s), FdClose(p)
  PROVE  Inv(t', g', w', s') /\ WritesOK(t', w', s')
<1>1. w[p].pc = "fdclose" /\ s[p].load # <<>> /\ Returns(p)
  BY DEF FdClose, In, Is
<1>2. PICK e, me, R : /\ R = Rest(w, s, p) /\ e = Counts(g.fd, R) /\ me = MBase(w, p)
  OBVIOUS
<1>3. /\ DOMAIN w = Procs /\ DOMAIN s = Procs /\ GOK(g) /\ Control(t, g.nfd, w[p], s[p])
      /\ Family(R, Procs \ {p}, OrNone(Chans))
      /\ Covers(e, w, s, p) /\ e \in [Chans -> Nat] /\ Bal(t, e, me)
  BY <1>1, <1>2, FdBefore DEF NamePC
<1>4. PICK fd : fd = Call(p).fd
  OBVIOUS
<1>5. fd \in 0..g.nfd - 1
  BY <1>1, <1>3, <1>4 DEF Control, Call
<1>6. CASE Closed(p) = None
  <2>1. t' = t /\ g' = g
    BY <1>6 DEF FdClose
  <2>2. g.nfd <= g'.nfd
    BY <1>3, <2>1 DEF GOK
  <2>3. Same(t, t', e) /\ SameMounts(t, t')
    BY <2>1 DEF Same, SameMounts
  <2>4. GOK(g') /\ e = Counts(g'.fd, Rest(w, s, p)) /\ Bal(t', e, MBase(w, p))
    BY <1>2, <1>3, <2>1
  <2>5. QED
    BY <1>1, <1>3, <2>2, <2>3, <2>4, EndSame
<1>7. CASE Closed(p) # None
  <2>1. PICK c, h2 : c = g.fd[fd] /\ h2 = DropFd(fd)
    OBVIOUS
  <2>2. g' = h2 /\ t' = CClose(t, <<c>>) /\ c # None
    BY <1>4, <1>7, <2>1 DEF FdClose, Closed
  <2>3. c \in OrNone(Chans)
    BY <1>3, <1>5, <2>1 DEF GOK
  <2>4. GOK(h2) /\ SlotChanges(g, h2, fd) /\ h2.fd[fd] = None
    BY <1>3, <1>5, <2>1, DropFdIs
  <2>5. PICK e2 : e2 = Counts(h2.fd, R)
    OBVIOUS
  <2>6. Plus(Counts(g.fd, R), <<h2.fd[fd]>>) = Plus(Counts(h2.fd, R), <<g.fd[fd]>>)
    BY <1>3, <1>5, <2>4, CountsPut
  <2>7. Plus(e, <<None>>) = e
    BY <1>3, PlusNone
  <2>8. e = Plus(e2, <<c>>)
    BY <1>2, <2>1, <2>4, <2>5, <2>6, <2>7
  <2>9. Typed(w, s)
    BY DEF Inv, Typed, Proc
  <2>10. e2 \in [Chans -> Nat] /\ e2[Slash] >= 1 /\ Covers(e2, w, s, p)
    BY <1>2, <2>4, <2>5, <2>9, RestType DEF Covers
  <2>11. PICK k2 : k2 = CClose(t, <<c>>)
    OBVIOUS
  <2>12. Bal(k2, e2, me) /\ Same(t, k2, e2) /\ SameMounts(t, k2)
    <3>1. Bal(t, Plus(e2, <<c>>), me)
      BY <1>3, <2>8
    <3>2. QED
      BY <2>3, <2>10, <2>11, <3>1, CloseOneSame
  <2>13. g.nfd <= g'.nfd /\ GOK(g')
    BY <1>3, <2>2, <2>4 DEF SlotChanges, GOK
  <2>14. /\ e2 = Counts(g'.fd, Rest(w, s, p)) /\ Bal(t', e2, MBase(w, p))
         /\ Same(t, t', e2) /\ SameMounts(t, t')
    BY <1>2, <2>2, <2>5, <2>11, <2>12
  <2>15. QED
    BY <1>1, <2>10, <2>13, <2>14, EndSame
<1>8. QED
  BY <1>6, <1>7

(* a call counts the channel of its descriptor *)
LEMMA TakesChan ==
  ASSUME NEW p \in Procs, Inv(t, g, w, s), WritesOK(t, w, s), w[p].pc = "idle",
         s[p].load # <<>>, NEW fd, ChanOf(fd) # None, NEW pc \in {"dup", "read", "write"},
         t' = Incref(t, ChanOf(fd)), Does(p, [pc |-> pc]), Has(p, [chan |-> ChanOf(fd)]), g' = g
  PROVE  Inv(t', g', w', s') /\ WritesOK(t', w', s')
<1>1. PICK e, me, R, c : /\ R = Rest(w, s, p) /\ e = Counts(g.fd, R) /\ me = MBase(w, p)
                         /\ c = ChanOf(fd)
  OBVIOUS
<1>2. /\ DOMAIN w = Procs /\ DOMAIN s = Procs /\ GOK(g) /\ WOK(w[p]) /\ SOK(s[p])
      /\ NoName(w[p]) /\ Family(R, Procs \ {p}, OrNone(Chans))
      /\ Covers(e, w, s, p) /\ e \in [Chans -> Nat] /\ Bal(t, e, me)
  BY <1>1, FdBefore DEF NamePC
<1>3. c \in Chans /\ e[c] >= 1
  BY <1>1, <1>2, ChanOfCounts
<1>4. c \notin t.free
  BY <1>2, <1>3, InUse
<1>5. PICK k2 : k2 = Incref(t, c)
  OBVIOUS
<1>6. Bal(k2, Plus(e, <<c>>), me) /\ But("ref", t, k2)
  BY <1>2, <1>3, <1>4, <1>5, IncrefKeeps DEF But
<1>7. Same(t, k2, e) /\ SameMounts(t, k2)
  BY <1>6, ButRefSame
<1>8. t' = k2 /\ Has(p, [chan |-> c])
  BY <1>1, <1>5
<1>9. WOK(w'[p]) /\ NoName(w'[p]) /\ w'[p].pc = pc
  BY <1>2, DoesPc
<1>10. /\ SOK(s'[p]) /\ s'[p].chan = c /\ s'[p].load = s[p].load
       /\ DOMAIN s' = Procs /\ \A q \in Procs \ {p} : s'[q] = s[q]
  BY <1>2, <1>3, <1>8, HasChan
<1>11. Alike(w, s, w', s', p)
  BY <1>2, <1>10, DoesAlike
<1>12. FdControl(g.nfd, w'[p], s'[p])
  BY <1>3, <1>9, <1>10 DEF FdControl, NamePC, FdPC
<1>13. ChanHeld(w'[p], s'[p]) = c
  BY <1>9, <1>10 DEF ChanHeld
<1>14. Bal(t', Plus(e, <<ChanHeld(w'[p], s'[p])>>), MBase(w, p))
  BY <1>1, <1>6, <1>8, <1>13
<1>15. Same(t, t', e) /\ SameMounts(t, t') /\ SameUmh(t, t', e)
  BY <1>7, <1>8 DEF Same, SameUmh
<1>16. Later(t, t', e)
  BY <1>2, <1>15, SameLater DEF Bal
<1>17. Takes(t, t', w'[p], s'[p])
  BY <1>9 DEF Takes, Under
<1>18. e = Counts(g.fd, Rest(w, s, p))
  BY <1>1
<1>19. QED
  BY <1>2, <1>11, <1>12, <1>14, <1>15, <1>16, <1>17, <1>18, OnKeeps

(* dup, read and write begin *)
LEMMA SysDupKeeps ==
  ASSUME NEW p \in Procs, Inv(t, g, w, s), WritesOK(t, w, s), SysDup(p)
  PROVE  Inv(t', g', w', s') /\ WritesOK(t', w', s')
<1>1. PICK fd : fd = Call(p).fd
  OBVIOUS
<1>2. w[p].pc = "idle" /\ s[p].load # <<>> /\ g' = g
  BY DEF SysDup, In, Is
<1>3. CASE ChanOf(fd) = None
  <2>1. Returns(p) /\ t' = t
    BY <1>1, <1>3 DEF SysDup
  <2>2. QED
    BY <1>2, <2>1, EndNothing
<1>4. CASE ChanOf(fd) # None
  <2>1. /\ t' = Incref(t, ChanOf(fd)) /\ Does(p, [pc |-> "dup"])
        /\ Has(p, [chan |-> ChanOf(fd)])
    BY <1>1, <1>4 DEF SysDup
  <2>2. QED
    BY <1>2, <1>4, <2>1, TakesChan
<1>5. QED
  BY <1>3, <1>4

(* read and write begin in the same way *)
LEMMA SysIoKeeps ==
  ASSUME NEW p \in Procs, Inv(t, g, w, s), WritesOK(t, w, s), SysIo(p)
  PROVE  Inv(t', g', w', s') /\ WritesOK(t', w', s')
<1>1. PICK fd, pc : fd = Call(p).fd /\ pc = Call(p).call
  OBVIOUS
<1>2. /\ w[p].pc = "idle" /\ s[p].load # <<>> /\ g' = g /\ pc \in {"dup", "read", "write"}
  BY <1>1 DEF SysIo, Is
<1>3. CASE ChanOf(fd) = None
  <2>1. Returns(p) /\ t' = t
    BY <1>1, <1>3 DEF SysIo
  <2>2. QED
    BY <1>2, <2>1, EndNothing
<1>4. CASE ChanOf(fd) # None
  <2>1. /\ t' = Incref(t, ChanOf(fd)) /\ Does(p, [pc |-> pc]) /\ Has(p, [chan |-> ChanOf(fd)])
    BY <1>1, <1>4 DEF SysIo
  <2>2. QED
    BY <1>2, <1>4, <2>1, TakesChan
<1>5. QED
  BY <1>3, <1>4

(* the call is over, and the descriptors are others *)
LEMMA EndOver ==
  ASSUME NEW p \in Procs, Inv(t, g, w, s), WritesOK(t, w, s), s[p].load # <<>>, Returns(p),
         GOK(g'), g.nfd <= g'.nfd, NEW e, Covers(e, w, s, p), Same(t, t', e),
         SameMounts(t, t'), Bal(t', Counts(g'.fd, Rest(w, s, p)), MBase(w, p))
  PROVE  Inv(t', g', w', s') /\ WritesOK(t', w', s')
<1>1. DOMAIN w = Procs /\ DOMAIN s = Procs /\ TabsOK(t)
  BY DEF Inv, Bal
<1>2. Ends(p)
  BY <1>1, ReturnsEnds
<1>3. SameUmh(t, t', e)
  BY DEF SameUmh, Same
<1>4. Later(t, t', e)
  BY <1>1, SameLater
<1>5. Crossings(t', w, p)
  <2>1. PICK k, h, ww, ss, k2 : k = t /\ h = g /\ ww = w /\ ss = s /\ k2 = t'
    OBVIOUS
  <2>2. Inv(k, h, ww, ss) /\ k.hashed \subseteq k2.hashed
    BY <2>1 DEF SameMounts
  <2>3. QED
    BY <2>1, <2>2, CrossingsKept
<1>6. Mounted(t')
  BY DEF Inv, Mounted, SameMounts
<1>7. QED
  BY <1>2, <1>3, <1>4, <1>5, <1>6, EndKeeps

(* the call that p is in is one of the calls *)
LEMMA CallOf ==
  ASSUME NEW x, SOK(x), x.load # <<>>
  PROVE  Head(x.load) \in Calls
BY DEF SOK

(* dup ends: any slot, or the slot that is asked for, which may be new *)
LEMMA SysDupEndKeeps ==
  ASSUME NEW p \in Procs, Inv(t, g, w, s), WritesOK(t, w, s), SysDupEnd(p)
  PROVE  Inv(t', g', w', s') /\ WritesOK(t', w', s')
<1>1. PICK to, h, c : to = Call(p).to /\ h = GrowFd(g, to) /\ c = s[p].chan
  OBVIOUS
<1>2. w[p].pc = "dup" /\ s[p].load # <<>> /\ Returns(p) /\ Call(p).call = "dup"
  BY DEF SysDupEnd, In, Is
<1>3. PICK e, me, R : /\ R = Rest(w, s, p) /\ e = Counts(g.fd, R) /\ me = MBase(w, p)
  OBVIOUS
<1>4. /\ GOK(g) /\ SOK(s[p]) /\ Family(R, Procs \ {p}, OrNone(Chans))
      /\ Covers(e, w, s, p) /\ e \in [Chans -> Nat] /\ e[Slash] >= 1
      /\ c \in Chans /\ Bal(t, Plus(e, <<c>>), me)
  BY <1>1, <1>2, <1>3, FdBefore DEF NamePC, FdPC
<1>5. to \in Int
  <2>1. Head(s[p].load) \in Calls
    BY <1>2, <1>4, CallOf
  <2>2. QED
    BY <1>1, <1>2, <2>1, CallTypes DEF Call
<1>6. /\ GOK(h) /\ g.nfd <= h.nfd /\ Counts(h.fd, R) = e
  <2>1. /\ GOK(h) /\ g.nfd <= h.nfd /\ Counts(h.fd, R) = Counts(g.fd, R)
        /\ \A j \in 0..g.nfd - 1 : h.fd[j] = g.fd[j]
        /\ \A j \in g.nfd..h.nfd - 1 : h.fd[j] = None
    <3>1. GOK(g) /\ to \in Int /\ h = GrowFd(g, to)
      BY <1>1, <1>4, <1>5
    <3>2. QED
      BY <3>1, GrowFdKeeps
  <2>2. QED
    BY <1>3, <2>1
<1>7. c \in OrNone(Chans)
  BY <1>4 DEF OrNone
<1>8. CASE to = -1
  <2>1. NewFd(t, c)
    BY <1>1, <1>8 DEF SysDupEnd
  <2>2. Bal(t, Plus(Counts(g.fd, R), <<c>>), me)
    BY <1>3, <1>4
  <2>3. /\ GOK(g') /\ g.nfd <= g'.nfd /\ Bal(t', Counts(g'.fd, R), me)
        /\ Same(t, t', Counts(g.fd, R)) /\ SameMounts(t, t')
    BY <1>4, <2>1, <2>2, NewFdKeeps
  <2>4. Same(t, t', e) /\ Bal(t', Counts(g'.fd, Rest(w, s, p)), MBase(w, p))
    BY <1>3, <2>3
  <2>5. QED
    BY <1>2, <1>4, <2>3, <2>4, EndOver
<1>9. CASE to # -1 /\ to \notin 0..h.nfd - 1
  <2>1. t' = CClose(t, <<c>>) /\ g' = h
    BY <1>1, <1>9 DEF SysDupEnd
  <2>2. PICK k2 : k2 = CClose(t, <<c>>)
    OBVIOUS
  <2>3. Bal(k2, e, me) /\ Same(t, k2, e) /\ SameMounts(t, k2)
    BY <1>4, <1>7, <2>2, CloseOneSame
  <2>4. GOK(g') /\ g.nfd <= g'.nfd
    BY <1>6, <2>1
  <2>5. /\ Bal(t', Counts(g'.fd, Rest(w, s, p)), MBase(w, p))
        /\ Same(t, t', e) /\ SameMounts(t, t')
    BY <1>3, <1>6, <2>1, <2>2, <2>3
  <2>6. QED
    BY <1>2, <1>4, <2>4, <2>5, EndOver
<1>10. CASE to # -1 /\ to \in 0..h.nfd - 1
  <2>1. PICK d, h2 : d = h.fd[to] /\ h2 = PutFd(h, to, c)
    OBVIOUS
  <2>2. t' = CClose(t, <<d>>) /\ g' = h2
    BY <1>1, <1>10, <2>1 DEF SysDupEnd
  <2>3. GOK(h2) /\ SlotChanges(h, h2, to) /\ h2.fd[to] = c
    BY <1>6, <1>7, <1>10, <2>1, PutFdIs
  <2>4. PICK e2 : e2 = Counts(h2.fd, R)
    OBVIOUS
  <2>5. Plus(Counts(h.fd, R), <<h2.fd[to]>>) = Plus(Counts(h2.fd, R), <<h.fd[to]>>)
    BY <1>4, <1>6, <1>10, <2>3, CountsPut
  <2>6. Plus(e, <<c>>) = Plus(e2, <<d>>)
    BY <1>6, <2>1, <2>3, <2>4, <2>5
  <2>7. Typed(w, s)
    BY DEF Inv, Typed, Proc
  <2>8. e2 \in [Chans -> Nat] /\ e2[Slash] >= 1 /\ Covers(e2, w, s, p)
    BY <1>3, <2>3, <2>4, <2>7, RestType DEF Covers
  <2>9. d \in OrNone(Chans)
    BY <1>6, <1>10, <2>1 DEF GOK
  <2>10. PICK k2 : k2 = CClose(t, <<d>>)
    OBVIOUS
  <2>11. Bal(k2, e2, me) /\ Same(t, k2, e2) /\ SameMounts(t, k2)
    <3>1. Bal(t, Plus(e2, <<d>>), me)
      BY <1>4, <2>6
    <3>2. QED
      BY <2>8, <2>9, <2>10, <3>1, CloseOneSame
  <2>12. GOK(g') /\ g.nfd <= g'.nfd
    BY <1>6, <2>2, <2>3 DEF SlotChanges
  <2>13. /\ Bal(t', Counts(g'.fd, Rest(w, s, p)), MBase(w, p))
         /\ Same(t, t', e2) /\ SameMounts(t, t')
    BY <1>3, <2>2, <2>4, <2>10, <2>11
  <2>14. QED
    BY <1>2, <2>8, <2>12, <2>13, EndOver
<1>11. QED
  BY <1>8, <1>9, <1>10

(* an offset that goes on, or is said to have gone back *)
LEMMA MovesLater ==
  ASSUME NEW k, TabsOK(k), NEW c \in Chans, NEW o \in Int, NEW M, k.moved \subseteq M,
         c \in M \/ k.offset[c] <= o, NEW k2, k2.moved = M, k2.offset[c] = o,
         \A d \in Chans \ {c} : k2.offset[d] = k.offset[d], NEW e
  PROVE  Later(k, k2, e)
<1>1. k.offset \in [Chans -> Int]
  BY DEF TabsOK
<1>2. \A d \in Chans : k.offset[d] \in Int
  BY <1>1
<1>3. ASSUME NEW d \in Chans, d \notin k2.moved
      PROVE  d \notin k.moved /\ k.offset[d] <= k2.offset[d]
  <2>1. CASE d = c
    BY <1>3, <2>1
  <2>2. CASE d # c
    <3>1. k2.offset[d] = k.offset[d] /\ k.offset[d] \in Int
      BY <1>2, <2>2
    <3>2. QED
      BY <1>3, <3>1
  <2>3. QED
    BY <2>1, <2>2
<1>4. QED
  BY <1>3 DEF Later

(* a write begins: of a directory it ends, else it takes its part *)
LEMMA WriteStartKeeps ==
  ASSUME NEW p \in Procs, Inv(t, g, w, s), WritesOK(t, w, s), WriteStart(p)
  PROVE  Inv(t', g', w', s') /\ WritesOK(t', w', s')
<1>1. w[p].pc = "write" /\ s[p].load # <<>> /\ g' = g
  BY DEF WriteStart, In, Is
<1>2. PICK e, me, c : e = Counts(g.fd, Rest(w, s, p)) /\ me = MBase(w, p) /\ c = s[p].chan
  OBVIOUS
<1>3. /\ DOMAIN w = Procs /\ DOMAIN s = Procs /\ WOK(w[p]) /\ SOK(s[p]) /\ NoName(w[p])
      /\ Covers(e, w, s, p) /\ e \in [Chans -> Nat]
      /\ c \in Chans /\ Bal(t, Plus(e, <<c>>), me)
  BY <1>1, <1>2, FdBefore DEF NamePC, FdPC
<1>4. TabsOK(t)
  BY <1>3 DEF Bal
<1>5. CASE t.file[c] \in Dirs
  <2>1. t' = CClose(t, <<c>>) /\ Returns(p)
    BY <1>2, <1>5 DEF WriteStart
  <2>2. Same(t, t, e) /\ SameMounts(t, t)
    BY DEF Same, SameMounts
  <2>3. Later(t, t, e)
    BY <1>4, <2>2, SameLater
  <2>4. QED
    BY <1>1, <1>2, <1>3, <2>1, <2>2, <2>3, EndCloses
<1>6. CASE t.file[c] \notin Dirs
  <2>1. PICK o, n : o = t.offset[c] + WriteSize /\ n = WriteSize
    OBVIOUS
  <2>2. t.offset[c] \in Int /\ o \in Int /\ n \in Nat /\ t.offset[c] <= o /\ o = t.offset[c] + n
    BY <1>3, <1>4, <2>1, TableIs DEF TabsOK
  <2>3. /\ t' = [t EXCEPT !.offset[c] = o]
        /\ Has(p, [off |-> t.offset[c], n |-> n]) /\ Does(p, [pc |-> "devwrite"])
    BY <1>2, <1>6, <2>1 DEF WriteStart, Reserve
  <2>4. t' = Moves(t, c, o, t.moved)
    BY <1>3, <1>4, <2>3, MovesOnly
  <2>5. PICK k2 : k2 = Moves(t, c, o, t.moved)
    OBVIOUS
  <2>6. /\ Bal(k2, Plus(e, <<c>>), me) /\ SameMounts(t, k2) /\ k2.umh = t.umh
        /\ k2.moved = t.moved /\ k2.offset[c] = o
        /\ \A d \in Chans \ {c} : k2.offset[d] = t.offset[d]
    <3>1. t.moved \subseteq Chans
      BY <1>4 DEF TabsOK
    <3>2. QED
      BY <1>3, <2>2, <2>5, <3>1, MovesKeeps
  <2>7. WOK(w'[p]) /\ NoName(w'[p]) /\ w'[p].pc = "devwrite"
    BY <1>3, <2>3, DoesPc
  <2>8. /\ SOK(s'[p]) /\ s'[p].chan = s[p].chan /\ s'[p].load = s[p].load
        /\ s'[p].off = t.offset[c] /\ s'[p].n = n
        /\ DOMAIN s' = Procs /\ \A q \in Procs \ {p} : s'[q] = s[q]
    BY <1>3, <2>2, <2>3, HasPart
  <2>9. Alike(w, s, w', s', p)
    BY <1>3, <2>3, <2>8, DoesAlike
  <2>10. FdControl(g.nfd, w'[p], s'[p])
    BY <1>1, <1>2, <1>3, <2>7, <2>8 DEF FdControl, NamePC, FdPC
  <2>11. ChanHeld(w'[p], s'[p]) = c
    BY <1>2, <2>7, <2>8 DEF ChanHeld
  <2>12. Bal(t', Plus(e, <<ChanHeld(w'[p], s'[p])>>), MBase(w, p))
    BY <1>2, <2>4, <2>5, <2>6, <2>11
  <2>13. SameUmh(t, t', e) /\ SameMounts(t, t')
    BY <2>4, <2>5, <2>6 DEF SameUmh
  <2>14. Later(t, t', e)
    <3>1. Later(t, k2, e)
      <4>1. t.moved \subseteq t.moved
        OBVIOUS
      <4>2. QED
        BY <1>3, <1>4, <2>2, <2>6, <4>1, MovesLater
    <3>2. QED
      BY <2>4, <2>5, <3>1
  <2>15. Takes(t, t', w'[p], s'[p])
    <3>1. PICK k1 : k1 = t'
      OBVIOUS
    <3>2. k1.moved = t.moved /\ k1.offset[c] = o
      BY <2>4, <2>5, <2>6, <3>1
    <3>3. t.offset[c] <= t.offset[c] /\ t.offset[c] + n <= o
      BY <2>2
    <3>4. Takes(t, k1, w'[p], s'[p])
      BY <1>2, <2>8, <3>2, <3>3 DEF Takes, Under
    <3>5. QED
      BY <3>1, <3>4
  <2>16. QED
    BY <1>1, <1>2, <1>3, <2>9, <2>10, <2>12, <2>13, <2>14, <2>15, OnKeeps
<1>7. QED
  BY <1>5, <1>6

(* an offset is moved, and the call ends *)
LEMMA MovedCloses ==
  ASSUME NEW p \in Procs, Inv(t, g, w, s), WritesOK(t, w, s), s[p].load # <<>>, Returns(p),
         w[p].pc \in FdPC, g' = g, NEW c, c = s[p].chan, NEW o \in Int, NEW M,
         t.moved \subseteq M, M \subseteq t.moved \cup {c}, c \in M \/ t.offset[c] <= o,
         t' = CClose(Moves(t, c, o, M), <<c>>)
  PROVE  Inv(t', g', w', s') /\ WritesOK(t', w', s')
<1>1. PICK e, me : e = Counts(g.fd, Rest(w, s, p)) /\ me = MBase(w, p)
  OBVIOUS
<1>2. /\ Covers(e, w, s, p) /\ c \in Chans /\ Bal(t, Plus(e, <<c>>), me)
  BY <1>1, FdBefore DEF NamePC, FdPC
<1>3. TabsOK(t) /\ M \subseteq Chans
  BY <1>2 DEF Bal, TabsOK
<1>4. PICK k : k = Moves(t, c, o, M)
  OBVIOUS
<1>5. /\ Bal(k, Plus(e, <<c>>), me) /\ SameMounts(t, k) /\ k.umh = t.umh /\ k.moved = M
      /\ k.offset[c] = o /\ \A d \in Chans \ {c} : k.offset[d] = t.offset[d]
  BY <1>2, <1>3, <1>4, MovesKeeps
<1>6. Later(t, k, e)
  BY <1>2, <1>3, <1>5, MovesLater
<1>7. t' = CClose(k, <<c>>) /\ Bal(k, Plus(e, <<c>>), MBase(w, p))
  BY <1>1, <1>4, <1>5
<1>8. QED
  BY <1>1, <1>2, <1>5, <1>6, <1>7, EndCloses

(* a write ends, and gives back what it did not write *)
LEMMA WriteEndKeeps ==
  ASSUME NEW p \in Procs, Inv(t, g, w, s), WritesOK(t, w, s), WriteEnd(p)
  PROVE  Inv(t', g', w', s') /\ WritesOK(t', w', s')
<1>1. w[p].pc = "devwrite" /\ s[p].load # <<>> /\ Returns(p) /\ g' = g
  BY DEF WriteEnd, In, Is
<1>2. PICK c : c = s[p].chan
  OBVIOUS
<1>3. c \in Chans /\ TabsOK(t) /\ SOK(s[p])
  <2>1. SOK(s[p]) /\ Control(t, g.nfd, w[p], s[p]) /\ TabsOK(t)
    BY DEF Inv, Proc, Bal
  <2>2. QED
    BY <1>1, <1>2, <2>1 DEF Control, FdPC
<1>4. PICK back \in 0..s[p].n :
        t' = CClose([t EXCEPT !.offset[c] = @ - back,
                              !.moved = IF back > 0 THEN @ \cup {c} ELSE @], <<c>>)
  BY <1>2 DEF WriteEnd
<1>5. PICK o, M : o = t.offset[c] - back /\ M = IF back > 0 THEN t.moved \cup {c} ELSE t.moved
  OBVIOUS
<1>6. /\ o \in Int /\ t.moved \subseteq M /\ M \subseteq t.moved \cup {c}
      /\ c \in M \/ t.offset[c] <= o
  <2>1. back \in Nat /\ t.offset[c] \in Int
    BY <1>3 DEF SOK, TabsOK
  <2>2. CASE back > 0
    BY <1>5, <2>1, <2>2
  <2>3. CASE back = 0
    BY <1>5, <2>1, <2>3
  <2>4. QED
    BY <2>1, <2>2, <2>3
<1>7. t' = CClose(Moves(t, c, o, M), <<c>>)
  BY <1>4, <1>5 DEF Moves
<1>8. QED
  BY <1>1, <1>2, <1>6, <1>7, MovedCloses DEF FdPC

(* a read takes the offset, or fails *)
LEMMA ReadStartKeeps ==
  ASSUME NEW p \in Procs, Inv(t, g, w, s), WritesOK(t, w, s), ReadStart(p)
  PROVE  Inv(t', g', w', s') /\ WritesOK(t', w', s')
<1>1. w[p].pc = "read" /\ s[p].load # <<>> /\ g' = g
  BY DEF ReadStart, In, Is
<1>2. PICK e, me, c : e = Counts(g.fd, Rest(w, s, p)) /\ me = MBase(w, p) /\ c = s[p].chan
  OBVIOUS
<1>3. /\ DOMAIN w = Procs /\ DOMAIN s = Procs /\ WOK(w[p]) /\ SOK(s[p]) /\ NoName(w[p])
      /\ Covers(e, w, s, p) /\ e \in [Chans -> Nat]
      /\ c \in Chans /\ Bal(t, Plus(e, <<c>>), me)
  BY <1>1, <1>2, FdBefore DEF NamePC, FdPC
<1>4. TabsOK(t)
  BY <1>3 DEF Bal
<1>5. Same(t, t, e) /\ SameMounts(t, t)
  BY DEF Same, SameMounts
<1>6. Later(t, t, e)
  BY <1>4, <1>5, SameLater
<1>7. CASE t.offset[c] < 0
  <2>1. t' = CClose(t, <<c>>) /\ Returns(p)
    BY <1>2, <1>7 DEF ReadStart
  <2>2. QED
    BY <1>1, <1>2, <1>3, <1>5, <1>6, <2>1, EndCloses
<1>8. CASE ~ t.offset[c] < 0
  <2>1. PICK pc : pc = IF t.offset[c] = 0 THEN "rewind" ELSE "devread"
    OBVIOUS
  <2>2. pc \in {"rewind", "devread"}
    BY <2>1
  <2>3. Does(p, [pc |-> pc]) /\ t' = t /\ s' = s
    BY <1>2, <1>8, <2>1 DEF ReadStart
  <2>4. WOK(w'[p]) /\ NoName(w'[p]) /\ w'[p].pc = pc
    BY <1>3, <2>3, DoesPc
  <2>5. Alike(w, s, w', s', p)
    BY <1>3, <2>3, DoesAlike
  <2>6. FdControl(g.nfd, w'[p], s'[p])
    BY <1>1, <1>2, <1>3, <2>2, <2>3, <2>4 DEF FdControl, NamePC, FdPC
  <2>7. ChanHeld(w'[p], s'[p]) = c
    BY <1>2, <2>2, <2>3, <2>4 DEF ChanHeld
  <2>8. Bal(t', Plus(e, <<ChanHeld(w'[p], s'[p])>>), MBase(w, p))
    BY <1>2, <1>3, <2>3, <2>7
  <2>9. Takes(t, t', w'[p], s'[p])
    BY <2>2, <2>4 DEF Takes, Under
  <2>10. SameUmh(t, t', e) /\ Later(t, t', e) /\ SameMounts(t, t')
    BY <1>5, <1>6, <2>3 DEF SameUmh
  <2>11. QED
    BY <1>1, <1>2, <1>3, <2>5, <2>6, <2>8, <2>9, <2>10, OnKeeps
<1>9. QED
  BY <1>7, <1>8

(* a read from the start sets the offset *)
LEMMA ReadRewindKeeps ==
  ASSUME NEW p \in Procs, Inv(t, g, w, s), WritesOK(t, w, s), ReadRewind(p)
  PROVE  Inv(t', g', w', s') /\ WritesOK(t', w', s')
<1>1. /\ w[p].pc = "rewind" /\ s[p].load # <<>> /\ g' = g /\ s' = s
      /\ Does(p, [pc |-> "devread"])
  BY DEF ReadRewind, In, Is
<1>2. PICK e, me, c : e = Counts(g.fd, Rest(w, s, p)) /\ me = MBase(w, p) /\ c = s[p].chan
  OBVIOUS
<1>3. /\ DOMAIN w = Procs /\ DOMAIN s = Procs /\ WOK(w[p]) /\ SOK(s[p]) /\ NoName(w[p])
      /\ Covers(e, w, s, p) /\ e \in [Chans -> Nat]
      /\ c \in Chans /\ Bal(t, Plus(e, <<c>>), me)
  BY <1>1, <1>2, FdBefore DEF NamePC, FdPC
<1>4. TabsOK(t)
  BY <1>3 DEF Bal
<1>5. PICK M : M = IF t.offset[c] # 0 THEN t.moved \cup {c} ELSE t.moved
  OBVIOUS
<1>6. PICK z, k2 : z \in Int /\ z = 0 /\ k2 = Moves(t, c, z, M)
  OBVIOUS
<1>7. t' = k2
  <2>1. t' = [t EXCEPT !.offset[c] = 0, !.moved = IF t.offset[c] # 0 THEN @ \cup {c} ELSE @]
    BY <1>2 DEF ReadRewind
  <2>2. QED
    BY <1>5, <1>6, <2>1 DEF Moves
<1>8. /\ M \subseteq Chans /\ t.moved \subseteq M /\ (c \in M \/ t.offset[c] <= z)
  <2>1. t.moved \subseteq Chans
    BY <1>4 DEF TabsOK
  <2>2. CASE t.offset[c] # 0
    BY <1>3, <1>5, <2>1, <2>2
  <2>3. CASE t.offset[c] = 0
    BY <1>5, <1>6, <2>1, <2>3
  <2>4. QED
    BY <2>2, <2>3
<1>9. /\ Bal(k2, Plus(e, <<c>>), me) /\ SameMounts(t, k2) /\ k2.umh = t.umh /\ k2.moved = M
      /\ k2.offset[c] = z /\ \A d \in Chans \ {c} : k2.offset[d] = t.offset[d]
  BY <1>3, <1>6, <1>8, MovesKeeps
<1>10. Later(t, k2, e)
  <2>1. /\ TabsOK(t) /\ c \in Chans /\ z \in Int /\ t.moved \subseteq M
        /\ (c \in M \/ t.offset[c] <= z) /\ k2.moved = M /\ k2.offset[c] = z
        /\ \A d \in Chans \ {c} : k2.offset[d] = t.offset[d]
    BY <1>3, <1>4, <1>6, <1>8, <1>9
  <2>2. QED
    BY <2>1, MovesLater
<1>11. WOK(w'[p]) /\ NoName(w'[p]) /\ w'[p].pc = "devread"
  BY <1>1, <1>3, DoesPc
<1>12. Alike(w, s, w', s', p)
  BY <1>1, <1>3, DoesAlike
<1>13. FdControl(g.nfd, w'[p], s'[p])
  BY <1>1, <1>2, <1>3, <1>11 DEF FdControl, NamePC, FdPC
<1>14. ChanHeld(w'[p], s'[p]) = c
  BY <1>1, <1>2, <1>11 DEF ChanHeld
<1>15. Bal(t', Plus(e, <<ChanHeld(w'[p], s'[p])>>), MBase(w, p))
  BY <1>2, <1>7, <1>9, <1>14
<1>16. Takes(t, t', w'[p], s'[p])
  BY <1>11 DEF Takes, Under
<1>17. SameUmh(t, t', e) /\ Later(t, t', e) /\ SameMounts(t, t')
  BY <1>7, <1>9, <1>10 DEF SameUmh
<1>18. QED
  BY <1>1, <1>2, <1>3, <1>12, <1>13, <1>15, <1>16, <1>17, OnKeeps

(* a read ends *)
LEMMA ReadEndKeeps ==
  ASSUME NEW p \in Procs, Inv(t, g, w, s), WritesOK(t, w, s), ReadEnd(p)
  PROVE  Inv(t', g', w', s') /\ WritesOK(t', w', s')
<1>1. w[p].pc = "devread" /\ s[p].load # <<>> /\ Returns(p) /\ g' = g
  BY DEF ReadEnd, In, Is
<1>2. PICK c : c = s[p].chan
  OBVIOUS
<1>3. c \in Chans /\ TabsOK(t)
  <2>1. Control(t, g.nfd, w[p], s[p]) /\ TabsOK(t)
    BY DEF Inv, Proc, Bal
  <2>2. QED
    BY <1>1, <1>2, <2>1 DEF Control, FdPC
<1>4. PICK m \in 0..1 : t' = CClose([t EXCEPT !.offset[c] = @ + m], <<c>>)
  BY <1>2 DEF ReadEnd
<1>5. PICK o : o = t.offset[c] + m
  OBVIOUS
<1>6. /\ o \in Int /\ t.offset[c] <= o /\ t.moved \subseteq t.moved
      /\ t.moved \subseteq t.moved \cup {c}
  BY <1>3, <1>5 DEF TabsOK
<1>7. [t EXCEPT !.offset[c] = @ + m] = [t EXCEPT !.offset[c] = o]
  BY <1>5
<1>8. t' = CClose(Moves(t, c, o, t.moved), <<c>>)
  BY <1>3, <1>4, <1>7, MovesOnly
<1>9. QED
  BY <1>1, <1>2, <1>6, <1>8, MovedCloses DEF FdPC

-----------------------------------------------------------------------------
(* Nineteenth part: the calls on names, where they begin.                  *)

(* open looks its name up *)
LEMMA SysOpenKeeps ==
  ASSUME NEW p \in Procs, Inv(t, g, w, s), WritesOK(t, w, s), SysOpen(p)
  PROVE  Inv(t', g', w', s') /\ WritesOK(t', w', s')
<1>1. /\ w[p].pc = "idle" /\ s[p].load # <<>> /\ Head(s[p].load).call = "open"
      /\ s' = s /\ g' = g
  BY DEF SysOpen, In, Is, Call
<1>2. PICK name, got, mode : name = Call(p).name /\ got = <<>> /\ mode = "Aopen"
  OBVIOUS
<1>3. Namec(p, got, name, mode)
  BY <1>2 DEF SysOpen
<1>4. name \in FileNames
  <2>1. SOK(s[p])
    BY DEF Inv, Proc
  <2>2. Head(s[p].load) \in Calls
    BY <1>1, <2>1, CallOf
  <2>3. QED
    BY <1>1, <1>2, <2>2, CallTypes DEF Call
<1>5. CallIs([mode |-> mode, got |-> got], s[p])
  BY <1>1, <1>2 DEF CallIs
<1>6. Starts(w[p], got)
  BY <1>1, <1>2 DEF Starts
<1>7. QED
  BY <1>1, <1>3, <1>4, <1>5, <1>6, NamecStarts

(* bind looks up what is mounted, a device *)
LEMMA SysBindKeeps ==
  ASSUME NEW p \in Procs, Inv(t, g, w, s), WritesOK(t, w, s), SysBind(p)
  PROVE  Inv(t', g', w', s') /\ WritesOK(t', w', s')
<1>1. /\ w[p].pc = "idle" /\ s[p].load # <<>> /\ Head(s[p].load).call = "bind"
      /\ s' = s /\ g' = g
  BY DEF SysBind, In, Is, Call
<1>2. PICK name, got, mode : name = <<Call(p).from>> /\ got = <<>> /\ mode = "Abind"
  OBVIOUS
<1>3. Namec(p, got, name, mode)
  BY <1>2 DEF SysBind
<1>4. name \in FileNames
  <2>1. SOK(s[p])
    BY DEF Inv, Proc
  <2>2. Head(s[p].load) \in Calls
    BY <1>1, <2>1, CallOf
  <2>3. Call(p).from \in STRING
    BY <1>1, <2>2, CallTypes DEF Call
  <2>4. QED
    BY <1>2, <2>3, OneName
<1>5. CallIs([mode |-> mode, got |-> got], s[p])
  BY <1>1, <1>2 DEF CallIs
<1>6. Starts(w[p], got)
  BY <1>1, <1>2 DEF Starts
<1>7. QED
  BY <1>1, <1>3, <1>4, <1>5, <1>6, NamecStarts

(* unmount looks up the place *)
LEMMA SysUnmountKeeps ==
  ASSUME NEW p \in Procs, Inv(t, g, w, s), WritesOK(t, w, s), SysUnmount(p)
  PROVE  Inv(t', g', w', s') /\ WritesOK(t', w', s')
<1>1. /\ w[p].pc = "idle" /\ s[p].load # <<>> /\ Head(s[p].load).call = "unmount"
      /\ s' = s /\ g' = g
  BY DEF SysUnmount, In, Is, Call
<1>2. PICK name, got, mode : name = Call(p).name /\ got = <<>> /\ mode = "Amount"
  OBVIOUS
<1>3. Namec(p, got, name, mode)
  BY <1>2 DEF SysUnmount
<1>4. name \in FileNames
  <2>1. SOK(s[p])
    BY DEF Inv, Proc
  <2>2. Head(s[p].load) \in Calls
    BY <1>1, <2>1, CallOf
  <2>3. QED
    BY <1>1, <1>2, <2>2, CallTypes DEF Call
<1>5. CallIs([mode |-> mode, got |-> got], s[p])
  BY <1>1, <1>2 DEF CallIs
<1>6. Starts(w[p], got)
  BY <1>1, <1>2 DEF Starts
<1>7. QED
  BY <1>1, <1>3, <1>4, <1>5, <1>6, NamecStarts

(* and both their second name *)
LEMMA SecondNameKeeps ==
  ASSUME NEW p \in Procs, Inv(t, g, w, s), WritesOK(t, w, s), SecondName(p)
  PROVE  Inv(t', g', w', s') /\ WritesOK(t', w', s')
<1>1. w[p].pc = "back" /\ w[p].got = <<>> /\ s[p].load # <<>> /\ s' = s /\ g' = g
  BY DEF SecondName, Is
<1>2. SOK(s[p]) /\ CallIs(w[p], s[p])
  <2>1. SOK(s[p]) /\ Control(t, g.nfd, w[p], s[p])
    BY DEF Inv, Proc
  <2>2. QED
    BY <1>1, <2>1 DEF Control, NamePC
<1>3. Head(s[p].load) \in Calls
  BY <1>1, <1>2, CallOf
<1>4. PICK got : got = <<w[p].c>>
  OBVIOUS
<1>5. got # <<>> /\ Len(got) = 1
  BY <1>4
<1>6. CASE Call(p).call = "bind"
  <2>1. PICK name, mode : name = Call(p).name /\ mode = "Amount"
    OBVIOUS
  <2>2. Namec(p, got, name, mode)
    BY <1>4, <1>6, <2>1 DEF SecondName
  <2>3. name \in FileNames
    BY <1>3, <1>6, <2>1, CallTypes DEF Call
  <2>4. CallIs([mode |-> mode, got |-> got], s[p])
    <3>1. PICK r, x, call : /\ r = [mode |-> mode, got |-> got] /\ x = s[p]
                            /\ call = Head(s[p].load).call
      OBVIOUS
    <3>2. r.mode = "Amount" /\ r.got # <<>> /\ Len(r.got) <= 1
      <4>1. r.mode = mode /\ r.got = got
        BY <3>1
      <4>2. Len(r.got) = 1 /\ r.got # <<>>
        BY <1>5, <4>1
      <4>3. QED
        BY <2>1, <4>1, <4>2
    <3>3. x.load # <<>> /\ Head(x.load).call = "bind"
      BY <1>1, <1>6, <3>1 DEF Call
    <3>4. CallIs(r, x)
      BY <3>2, <3>3 DEF CallIs
    <3>5. QED
      BY <3>1, <3>4
  <2>5. Starts(w[p], got)
    BY <1>1, <1>2, <1>4, <1>6 DEF Starts, CallIs, Call
  <2>6. QED
    BY <1>1, <2>2, <2>3, <2>4, <2>5, NamecStarts
<1>7. CASE Call(p).call = "unmount" /\ Call(p).from # None
  <2>1. PICK name, mode : name = <<Call(p).from>> /\ mode = "Aopen"
    OBVIOUS
  <2>2. Namec(p, got, name, mode)
    BY <1>4, <1>7, <2>1 DEF SecondName
  <2>3. name \in FileNames
    <3>1. Call(p).from \in STRING
      BY <1>3, <1>7, CallTypes DEF Call
    <3>2. QED
      BY <2>1, <3>1, OneName
  <2>4. CallIs([mode |-> mode, got |-> got], s[p])
    <3>1. PICK r, x, call : /\ r = [mode |-> mode, got |-> got] /\ x = s[p]
                            /\ call = Head(s[p].load).call
      OBVIOUS
    <3>2. r.mode = "Aopen" /\ r.got # <<>> /\ Len(r.got) <= 1
      <4>1. r.mode = mode /\ r.got = got
        BY <3>1
      <4>2. Len(r.got) = 1 /\ r.got # <<>>
        BY <1>5, <4>1
      <4>3. QED
        BY <2>1, <4>1, <4>2
    <3>3. x.load # <<>> /\ Head(x.load).call = "unmount"
      BY <1>1, <1>7, <3>1 DEF Call
    <3>4. CallIs(r, x)
      BY <3>2, <3>3 DEF CallIs
    <3>5. QED
      BY <3>1, <3>4
  <2>5. Starts(w[p], got)
    BY <1>1, <1>2, <1>4, <1>7 DEF Starts, CallIs, Call
  <2>6. QED
    BY <1>1, <2>2, <2>3, <2>4, <2>5, NamecStarts
<1>8. QED
  BY <1>6, <1>7 DEF SecondName

-----------------------------------------------------------------------------
(* Twentieth part: the calls on names, where they end.                     *)

(* sequences of channels may have None in them *)
LEMMA SeqOrNone ==
  ASSUME NEW q \in Seq(Chans)
  PROVE  q \in Seq(OrNone(Chans))
<1>1. Chans \subseteq OrNone(Chans)
  BY DEF OrNone
<1>2. QED
  BY <1>1, SeqMonotonic

(* what a call has, when its namec is over *)
LEMMA NamecOver ==
  ASSUME NEW p \in Procs, Inv(t, g, w, s), w[p].pc \in {"back", "failed"}, NEW a, NEW me,
         a = Counts(g.fd, Rest(w, s, p)), me = MBase(w, p)
  PROVE  /\ DOMAIN w = Procs /\ DOMAIN s = Procs /\ GOK(g) /\ SOK(s[p]) /\ CallIs(w[p], s[p])
         /\ Family(Rest(w, s, p), Procs \ {p}, OrNone(Chans)) /\ Covers(a, w, s, p)
         /\ a \in [Chans -> Nat] /\ a[Slash] >= 1 /\ me \in [Mheads -> Nat]
         /\ w[p].got \in Seq(Chans) /\ Plain(t, w[p].got)
         /\ w[p].pc = "back" => /\ w[p].c \in Chans
                                /\ Bal(t, Plus(Plus(a, w[p].got), <<w[p].c>>), me)
                                /\ w[p].mode # "Aopen" => PlainOne(t, w[p].c)
         /\ w[p].pc = "failed" => Bal(t, Plus(a, w[p].got), me)
<1>1. PICK r, x, b, got, c : /\ r = w[p] /\ x = s[p] /\ b = Base(g, w, s, p)
                             /\ got = w[p].got /\ c = w[p].c
  OBVIOUS
<1>2. /\ WOK(r) /\ SOK(x) /\ Control(t, g.nfd, r, x) /\ Plain(t, NotOpen(r))
      /\ Typed(w, s) /\ GOK(g) /\ DOMAIN w = Procs /\ DOMAIN s = Procs
  BY <1>1 DEF Inv, Proc, Typed
<1>3. /\ b \in [Chans -> Nat] /\ b[Slash] >= 1 /\ me \in [Mheads -> Nat]
      /\ Bal(t, Adds(b, r.c, r.start, r.nc, r.path), MAdds(me, r.mh, r.nmh))
  BY <1>1, NameStart
<1>4. Naming(t, r) /\ CallIs(r, x) /\ x.chan = None
  BY <1>1, <1>2 DEF Control, NamePC
<1>5. /\ r.start = None /\ r.nc = None /\ r.path = <<>> /\ r.mh = None /\ r.nmh = None
      /\ r.pc = "back" => r.c \in Chans
      /\ r.pc = "failed" => r.c = None
  BY <1>1, <1>4 DEF Naming
<1>6. /\ a \in [Chans -> Nat] /\ a[Slash] >= 1
      /\ \A q \in Procs \ {p} : \A d \in Chans : Times(d, Hold(w[q], s[q])) >= 1 => a[d] >= 1
  BY <1>2, RestType
<1>7. Covers(a, w, s, p)
  BY <1>6 DEF Covers
<1>8. Plus(a, <<None>>) = a /\ ChanHeld(r, x) = None
  BY <1>4, <1>6, PlusNone DEF ChanHeld
<1>9. b = Plus(a, got)
  BY <1>1, <1>8 DEF Base
<1>10. MAdds(me, r.mh, r.nmh) = me
  BY <1>3, <1>5, MAddsIs
<1>11. Family(Rest(w, s, p), Procs \ {p}, OrNone(Chans))
  BY <1>2, HoldsFamily DEF Rest
<1>12. got \in Seq(Chans) /\ Plain(t, got) /\ (r.pc = "back" /\ r.mode # "Aopen" => PlainOne(t, c))
  BY <1>1, <1>2, PlainIs DEF WOK
<1>13. Adds(b, None, None, None, <<>>) = b
  BY <1>3, AddsNone
<1>14. ASSUME r.pc = "back" PROVE c \in Chans /\ Bal(t, Plus(Plus(a, got), <<c>>), me)
  <2>1. PICK none, q : none = None /\ q = <<>>
    OBVIOUS
  <2>2. q \in Seq(OrNone(Chans))
    BY <2>1
  <2>3. Adds(b, c, none, none, q) = Plus(Adds(b, None, none, none, q), <<c>>)
    BY <1>3, <2>2, AddsC
  <2>4. Adds(b, r.c, r.start, r.nc, r.path) = Plus(b, <<c>>)
    BY <1>1, <1>5, <1>13, <2>1, <2>3
  <2>5. QED
    BY <1>1, <1>3, <1>5, <1>9, <1>10, <1>14, <2>4
<1>15. ASSUME r.pc = "failed" PROVE Bal(t, Plus(a, got), me)
  BY <1>3, <1>5, <1>9, <1>10, <1>13, <1>15
<1>16. QED
  BY <1>1, <1>2, <1>3, <1>4, <1>6, <1>7, <1>11, <1>12, <1>14, <1>15

(* open: the channel gets a descriptor *)
LEMMA SysOpenEndKeeps ==
  ASSUME NEW p \in Procs, Inv(t, g, w, s), WritesOK(t, w, s), SysOpenEnd(p)
  PROVE  Inv(t', g', w', s') /\ WritesOK(t', w', s')
<1>1. PICK a, me, R, c : /\ R = Rest(w, s, p) /\ a = Counts(g.fd, R) /\ me = MBase(w, p)
                         /\ c = w[p].c
  OBVIOUS
<1>2. /\ w[p].pc = "back" /\ s[p].load # <<>> /\ Head(s[p].load).call = "open"
      /\ NewFd(t, c) /\ Returns(p)
  BY <1>1 DEF SysOpenEnd, In, Is, Call
<1>3. /\ GOK(g) /\ CallIs(w[p], s[p]) /\ Family(R, Procs \ {p}, OrNone(Chans))
      /\ Covers(a, w, s, p) /\ a \in [Chans -> Nat]
      /\ c \in Chans /\ Bal(t, Plus(Plus(a, w[p].got), <<c>>), me)
  BY <1>1, <1>2, NamecOver
<1>4. w[p].got = <<>>
  BY <1>2, <1>3 DEF CallIs
<1>5. Plus(a, <<>>) = a
  BY <1>3, PlusEmpty
<1>6. Bal(t, Plus(Counts(g.fd, R), <<c>>), me)
  BY <1>1, <1>3, <1>4, <1>5
<1>7. /\ GOK(g') /\ g.nfd <= g'.nfd /\ Bal(t', Counts(g'.fd, R), me)
      /\ Same(t, t', Counts(g.fd, R)) /\ SameMounts(t, t')
  BY <1>2, <1>3, <1>6, NewFdKeeps
<1>8. Same(t, t', a) /\ Bal(t', Counts(g'.fd, Rest(w, s, p)), MBase(w, p))
  BY <1>1, <1>7
<1>9. QED
  BY <1>2, <1>3, <1>7, <1>8, EndOver

(* a namec that failed: the channel of the first name is closed *)
LEMMA NamecFailedKeeps ==
  ASSUME NEW p \in Procs, Inv(t, g, w, s), WritesOK(t, w, s), NamecFailed(p)
  PROVE  Inv(t', g', w', s') /\ WritesOK(t', w', s')
<1>1. PICK a, me, got : /\ a = Counts(g.fd, Rest(w, s, p)) /\ me = MBase(w, p)
                        /\ got = w[p].got
  OBVIOUS
<1>2. /\ w[p].pc = "failed" /\ s[p].load # <<>> /\ t' = CClose(t, got) /\ Returns(p) /\ g' = g
  BY <1>1 DEF NamecFailed, Is
<1>3. /\ GOK(g) /\ Covers(a, w, s, p) /\ a \in [Chans -> Nat] /\ a[Slash] >= 1
      /\ got \in Seq(Chans) /\ Bal(t, Plus(a, got), me)
  BY <1>1, <1>2, NamecOver
<1>4. got \in Seq(OrNone(Chans))
  BY <1>3, SeqOrNone
<1>5. PICK k2 : k2 = CClose(t, got)
  OBVIOUS
<1>6. Bal(k2, a, me) /\ Same(t, k2, a) /\ SameMounts(t, k2)
  BY <1>3, <1>4, <1>5, CloseSame
<1>7. GOK(g') /\ g.nfd <= g'.nfd
  BY <1>2, <1>3 DEF GOK
<1>8. /\ Bal(t', Counts(g'.fd, Rest(w, s, p)), MBase(w, p))
      /\ Same(t, t', a) /\ SameMounts(t, t')
  BY <1>1, <1>2, <1>5, <1>6
<1>9. QED
  BY <1>2, <1>3, <1>7, <1>8, EndOver

(* so does a call that changed the mount table *)
LEMMA DoneEnds ==
  ASSUME NEW p \in Procs, DOMAIN w = Procs, DOMAIN s = Procs, \A q \in Procs : WOK(w[q]),
         Done(p)
  PROVE  Ends(p)
<1>1. w' = [q \in Procs |-> IF q = p THEN Resting ELSE [w[q] EXCEPT !.calm = FALSE]]
  BY DEF Done, Disturb
<1>2. s' = [s EXCEPT ![p] = CallsOf(Tail(s[p].load))]
  BY DEF Done
<1>3. w'[p] = Resting /\ DOMAIN w' = Procs
  BY <1>1
<1>4. ASSUME NEW q \in Procs \ {p}
      PROVE  DOMAIN w'[q] = DOMAIN w[q] /\ \A x \in WFields \ {"calm"} : w'[q][x] = w[q][x]
  <2>1. w'[q] = [w[q] EXCEPT !.calm = FALSE]
    BY <1>1
  <2>2. PICK r, r2 : r = w[q] /\ r2 = [r EXCEPT !.calm = FALSE]
    OBVIOUS
  <2>3. DOMAIN r = WFields
    BY <2>2 DEF WOK
  <2>4. DOMAIN r2 = DOMAIN r /\ \A x \in WFields \ {"calm"} : r2[x] = r[x]
    BY <2>2, <2>3
  <2>5. QED
    BY <2>1, <2>2, <2>4
<1>5. /\ s'[p] = CallsOf(Tail(s[p].load)) /\ DOMAIN s' = Procs
      /\ \A q \in Procs \ {p} : s'[q] = s[q]
  BY <1>2
<1>6. QED
  BY <1>3, <1>4, <1>5 DEF Ends, Alike

(* what a name made, in the counts *)
LEMMA TwoCounts ==
  ASSUME NEW a \in [Chans -> Nat], a[Slash] >= 1, NEW got \in Seq(Chans), NEW c \in Chans,
         NEW e, e = Plus(Plus(a, got), <<c>>)
  PROVE  /\ e \in [Chans -> Nat] /\ e[Slash] >= 1 /\ e = Plus(a, got \o <<c>>)
         /\ e = Plus(a, <<c>> \o got) /\ e[c] >= 1
         /\ \A d \in Chans : Times(d, got) >= 1 => e[d] >= 1
         /\ \A k, k2 : Same(k, k2, e) => Same(k, k2, a)
<1>1. <<c>> \in Seq(Chans)
  BY OneSeq
<1>2. PICK b : b = Plus(a, got)
  OBVIOUS
<1>3. b \in [Chans -> Nat] /\ b[Slash] >= 1 /\ \A d \in Chans : b[d] = a[d] + Times(d, got)
  BY <1>2, PlusType, SlashPlus
<1>4. e \in [Chans -> Nat] /\ e[Slash] >= 1 /\ \A d \in Chans : e[d] = b[d] + One(d, c)
  BY <1>1, <1>2, <1>3, PlusOne, SlashPlus
<1>5. e = Plus(a, got \o <<c>>) /\ e = Plus(a, <<c>> \o got)
  <2>1. PICK z : z = <<c>>
    OBVIOUS
  <2>2. z \in Seq(Chans)
    BY <1>1, <2>1
  <2>3. Plus(Plus(a, got), z) = Plus(a, got \o z) /\ Plus(Plus(a, got), z) = Plus(a, z \o got)
    BY <2>2, PlusPlus, ZenonT(60)
  <2>4. QED
    BY <2>1, <2>3
<1>6. e[c] >= 1
  <2>1. One(c, c) = 1 /\ b[c] \in Nat
    BY <1>3 DEF One
  <2>2. QED
    BY <1>4, <2>1, SMTT(40)
<1>7. \A d \in Chans : One(d, c) \in Nat /\ Times(d, got) \in Nat /\ a[d] \in Nat /\ b[d] \in Nat
  BY <1>3, AtIs DEF One
<1>8. ASSUME NEW d \in Chans
      PROVE  (Times(d, got) >= 1 => e[d] >= 1) /\ (a[d] >= 1 => e[d] >= 1)
  <2>1. PICK i \in Nat, j \in Nat, l \in Nat : i = a[d] /\ j = Times(d, got) /\ l = One(d, c)
    BY <1>7
  <2>2. e[d] = i + j + l
    BY <1>3, <1>4, <2>1
  <2>3. QED
    BY <2>1, <2>2
<1>9. \A d \in Chans : a[d] >= 1 => e[d] >= 1
  BY <1>8
<1>10. \A k, k2 : Same(k, k2, e) => Same(k, k2, a)
  BY <1>9 DEF Same
<1>11. QED
  BY <1>4, <1>5, <1>6, <1>8, <1>10

(* the mount table changed, from t to k, and the names are closed *)
LEMMA MountCloses ==
  ASSUME NEW p \in Procs, Inv(t, g, w, s), WritesOK(t, w, s), s[p].load # <<>>, Done(p), g' = g,
         NEW a, a = Counts(g.fd, Rest(w, s, p)), Covers(a, w, s, p), a \in [Chans -> Nat],
         a[Slash] >= 1, NEW q \in Seq(OrNone(Chans)), NEW k, Bal(k, Plus(a, q), MBase(w, p)),
         Mounted(k), Same(t, k, a), Crossings(k, w, p), t' = CClose(k, q)
  PROVE  Inv(t', g', w', s') /\ WritesOK(t', w', s')
<1>1. /\ DOMAIN w = Procs /\ DOMAIN s = Procs /\ TabsOK(t) /\ GOK(g)
      /\ \A r \in Procs : WOK(w[r])
  BY DEF Inv, Bal, Proc
<1>2. Ends(p)
  BY <1>1, DoneEnds
<1>3. PICK me, k2 : me = MBase(w, p) /\ k2 = CClose(k, q)
  OBVIOUS
<1>4. Bal(k2, a, me) /\ Same(k, k2, a) /\ SameMounts(k, k2)
  <2>1. Bal(k, Plus(a, q), me)
    BY <1>3
  <2>2. QED
    BY <1>3, <2>1, CloseSame
<1>5. Same(t, t', a)
  BY <1>3, <1>4, SameOn
<1>6. SameUmh(t, t', a)
  BY <1>5 DEF SameUmh, Same
<1>7. Later(t, t', a)
  BY <1>1, <1>5, SameLater
<1>8. Mounted(t')
  <2>1. Mounted(k2)
    BY <1>4 DEF Mounted, SameMounts
  <2>2. QED
    BY <1>3, <2>1
<1>9. Crossings(t', w, p)
  <2>1. Crossings(k2, w, p)
    BY <1>4 DEF Crossings, SameMounts
  <2>2. QED
    BY <1>3, <2>1
<1>10. GOK(g') /\ g.nfd <= g'.nfd
  BY <1>1 DEF GOK
<1>11. Bal(t', Counts(g'.fd, Rest(w, s, p)), MBase(w, p))
  BY <1>3, <1>4
<1>12. QED
  BY <1>2, <1>6, <1>7, <1>8, <1>9, <1>10, <1>11, EndKeeps

(* bind *)
LEMMA SysBindEndKeeps ==
  ASSUME NEW p \in Procs, Inv(t, g, w, s), WritesOK(t, w, s), SysBindEnd(p)
  PROVE  Inv(t', g', w', s') /\ WritesOK(t', w', s')
<1>1. PICK a, me, got, old, new, order :
         /\ a = Counts(g.fd, Rest(w, s, p)) /\ me = MBase(w, p)
         /\ got = w[p].got /\ old = w[p].c /\ new = w[p].got[1] /\ order = Call(p).order
  OBVIOUS
<1>2. /\ w[p].pc = "back" /\ s[p].load # <<>> /\ Call(p).call = "bind" /\ got # <<>>
      /\ (\E m \in Mheads : t.mref[m] = 0) /\ Done(p) /\ g' = g
  BY <1>1 DEF SysBindEnd, In, Is
<1>3. /\ SOK(s[p]) /\ CallIs(w[p], s[p]) /\ Covers(a, w, s, p)
      /\ a \in [Chans -> Nat] /\ a[Slash] >= 1
      /\ got \in Seq(Chans) /\ Plain(t, got)
      /\ old \in Chans /\ Bal(t, Plus(Plus(a, got), <<old>>), me)
      /\ (w[p].mode # "Aopen" => PlainOne(t, old))
  BY <1>1, <1>2, NamecOver
<1>4. got = <<new>> /\ new \in Chans
  <2>1. Len(got) <= 1
    BY <1>1, <1>3 DEF CallIs
  <2>2. Len(got) \in Nat /\ Len(got) # 0
    BY <1>2, <1>3, EmptySeq, LenProperties
  <2>3. Len(got) = 1 /\ got[1] = new
    <3>1. PICK n \in Nat : n = Len(got)
      BY <2>2
    <3>2. n <= 1 /\ n # 0
      BY <2>1, <2>2, <3>1
    <3>3. n = 1
      BY <3>2
    <3>4. QED
      BY <1>1, <3>1, <3>3
  <2>4. QED
    BY <1>3, <2>3
<1>5. t.umh[old] = None /\ t.umh[new] = None
  <2>1. PlainOne(t, old)
    BY <1>1, <1>2, <1>3 DEF CallIs, Call
  <2>2. \A c \in Chans : c # None
    BY ChansAre
  <2>3. t.umh[old] = None
    BY <1>3, <2>1, <2>2 DEF PlainOne
  <2>4. t.umh[new] = None
    BY <1>3, <1>4, <2>2 DEF Plain
  <2>5. QED
    BY <2>3, <2>4
<1>6. order \in {"repl", "before", "after"}
  <2>1. Head(s[p].load) \in Calls
    BY <1>2, <1>3, CallOf
  <2>2. QED
    BY <1>1, <1>2, <2>1, CallTypes DEF Call
<1>7. PICK e : e = Plus(Plus(a, got), <<old>>)
  OBVIOUS
<1>8. /\ e = Plus(a, <<old>> \o got) /\ e[old] >= 1
      /\ \A d \in Chans : Times(d, got) >= 1 => e[d] >= 1
      /\ \A k, k2 : Same(k, k2, e) => Same(k, k2, a)
  BY <1>3, <1>7, TwoCounts
<1>9. e[new] >= 1
  <2>1. Times(new, got) = 1
    BY <1>4, TimesOne DEF One
  <2>2. QED
    <3>1. Times(new, got) >= 1 => e[new] >= 1
      BY <1>4, <1>8
    <3>2. Times(new, got) >= 1
      BY <2>1
    <3>3. QED
      BY <3>1, <3>2
<1>10. PICK q : q = <<old, new>>
  OBVIOUS
<1>11. e = Plus(a, q) /\ q \in Seq(OrNone(Chans))
  <2>1. q = <<old>> \o got
    <3>1. <<old, new>> = <<old>> \o <<new>>
      <4>1. <<old>> \in Seq(Chans)
        BY <1>3, OneSeq
      <4>2. Append(<<old>>, new) = <<old>> \o <<new>>
        BY <1>4, <4>1, AppendIsConcat
      <4>3. PICK A, B : A = Append(<<old>>, new) /\ B = <<old, new>>
        OBVIOUS
      <4>4. Len(A) = 2 /\ A[1] = old /\ A[2] = new /\ A \in Seq(Chans)
        BY <1>3, <1>4, <4>1, <4>3, AppendProperties
      <4>5. Len(B) = 2 /\ B[1] = old /\ B[2] = new /\ B \in Seq(Chans)
        BY <1>3, <1>4, <4>3
      <4>6. A = B
        BY <4>4, <4>5
      <4>7. QED
        BY <4>2, <4>3, <4>6
    <3>2. QED
      BY <1>4, <1>10, <3>1
  <2>2. q \in Seq(Chans)
    BY <1>3, <1>4, <1>10
  <2>3. QED
    BY <1>8, <2>1, <2>2, SeqOrNone
<1>12. PICK fits, k : /\ k = IF fits = TRUE THEN CMount(t, new, old, order) ELSE t
                      /\ t' = CClose(k, q)
  <2>1. PICK f : f = IF /\ t.file[old] \in Dirs <=> t.file[new] \in Dirs
                        /\ t.file[old] \in Dirs \/ Call(p).order = "repl"
                     THEN TRUE ELSE FALSE
    OBVIOUS
  <2>2. t' = CClose(IF f = TRUE THEN CMount(t, new, old, order) ELSE t, <<old, new>>)
    BY <1>1, <2>1 DEF SysBindEnd
  <2>3. QED
    BY <1>10, <2>2
<1>13. Mounted(t)
  BY DEF Inv
<1>14. Bal(k, e, me) /\ Mounted(k) /\ Same(t, k, e) /\ t.hashed \subseteq k.hashed
  <2>1. CASE fits = TRUE
    <3>1. PICK u : u = CMount(t, new, old, order)
      OBVIOUS
    <3>2. Bal(t, e, me)
      BY <1>3, <1>7
    <3>3. Bal(u, e, me) /\ Mounted(u) /\ Same(t, u, e) /\ t.hashed \subseteq u.hashed
      BY <1>2, <1>3, <1>4, <1>5, <1>6, <1>8, <1>9, <1>13, <3>1, <3>2, CMountKeeps
    <3>4. QED
      BY <1>12, <2>1, <3>1, <3>3
  <2>2. CASE fits # TRUE
    BY <1>3, <1>7, <1>12, <1>13, <2>2 DEF Same
  <2>3. QED
    BY <2>1, <2>2
<1>15. Same(t, k, a)
  BY <1>8, <1>14
<1>16. Crossings(k, w, p)
  <2>1. PICK k1, h, ww, ss : k1 = t /\ h = g /\ ww = w /\ ss = s
    OBVIOUS
  <2>2. Inv(k1, h, ww, ss) /\ k1.hashed \subseteq k.hashed
    BY <1>14, <2>1
  <2>3. QED
    BY <2>1, <2>2, CrossingsKept
<1>17. Bal(k, Plus(a, q), MBase(w, p))
  BY <1>1, <1>11, <1>14
<1>18. QED
  BY <1>1, <1>2, <1>3, <1>11, <1>12, <1>14, <1>15, <1>16, <1>17, MountCloses

(* unmount: none of the others crosses to the Mhead that leaves the table *)
LEMMA SysUnmountEndKeeps ==
  ASSUME NEW p \in Procs, Inv(t, g, w, s), WritesOK(t, w, s), SysUnmountEnd(p), ~ uncrossed'
  PROVE  Inv(t', g', w', s') /\ WritesOK(t', w', s')
<1>1. PICK a, me, got, c, q, f, old :
         /\ a = Counts(g.fd, Rest(w, s, p)) /\ me = MBase(w, p)
         /\ got = w[p].got /\ c = w[p].c /\ q = w[p].got \o <<w[p].c>>
         /\ f = (IF w[p].got = <<>> THEN None ELSE t.file[w[p].c])
         /\ old = (IF w[p].got = <<>> THEN w[p].c ELSE w[p].got[1])
  OBVIOUS
<1>2. w[p].pc = "back" /\ s[p].load # <<>> /\ Done(p) /\ g' = g
  BY DEF SysUnmountEnd, In, Is
<1>3. /\ Covers(a, w, s, p) /\ a \in [Chans -> Nat] /\ a[Slash] >= 1
      /\ got \in Seq(Chans) /\ c \in Chans /\ Bal(t, Plus(Plus(a, got), <<c>>), me)
  BY <1>1, <1>2, NamecOver
<1>4. PICK e : e = Plus(Plus(a, got), <<c>>)
  OBVIOUS
<1>5. e = Plus(a, q) /\ \A k, k2 : Same(k, k2, e) => Same(k, k2, a)
  BY <1>1, <1>3, <1>4, TwoCounts
<1>6. q \in Seq(OrNone(Chans))
  <2>1. <<c>> \in Seq(Chans)
    BY <1>3, OneSeq
  <2>2. q \in Seq(Chans)
    BY <1>1, <1>3, <2>1, ConcatProperties
  <2>3. QED
    BY <2>2, SeqOrNone
<1>7. Mounted(t)
  BY DEF Inv
<1>8. PICK at : at = {m \in MountedOn(t, t.file[old]) : f = None \/ MountsOf(t, m, f) # {}}
  OBVIOUS
<1>9. /\ at = {} => t' = CClose(t, q)
      /\ at # {} => \E m \in at :
           /\ t' = CClose(CUnmount(t, m, f), q)
           /\ uncrossed' = (uncrossed \/ (m \notin CUnmount(t, m, f).hashed /\ Crossing(m)))
  BY <1>1, <1>8 DEF SysUnmountEnd
<1>10. CASE at = {}
  <2>1. Same(t, t, a)
    BY DEF Same
  <2>2. Crossings(t, w, p)
    BY CrossingsKept
  <2>3. Bal(t, Plus(a, q), MBase(w, p)) /\ t' = CClose(t, q)
    BY <1>1, <1>3, <1>4, <1>5, <1>9, <1>10
  <2>4. QED
    BY <1>1, <1>2, <1>3, <1>6, <1>7, <2>1, <2>2, <2>3, MountCloses
<1>11. CASE at # {}
  <2>1. PICK m \in at :
          /\ t' = CClose(CUnmount(t, m, f), q)
          /\ uncrossed' = (uncrossed \/ (m \notin CUnmount(t, m, f).hashed /\ Crossing(m)))
    BY <1>9, <1>11
  <2>2. m \in t.hashed /\ (f = None \/ MountsOf(t, m, f) # {})
    <3>1. m \in MountedOn(t, t.file[old])
      BY <1>8
    <3>2. QED
      BY <1>8, <3>1, MountedOnIs
  <2>3. PICK k : k = CUnmount(t, m, f)
    OBVIOUS
  <2>4. m \in k.hashed \/ ~ Crossing(m)
    BY <2>1, <2>3
  <2>5. Bal(t, e, me)
    BY <1>3, <1>4
  <2>6. /\ Bal(k, e, me) /\ Mounted(k) /\ Same(t, k, e)
        /\ k.hashed = t.hashed \/ k.hashed = t.hashed \ {m}
    BY <1>7, <2>2, <2>3, <2>5, CUnmountKeeps
  <2>7. Crossings(k, w, p)
    <3>1. Crossings(t, w, p)
      BY CrossingsKept
    <3>2. CASE k.hashed = t.hashed
      BY <3>1, <3>2 DEF Crossings
    <3>3. CASE k.hashed = t.hashed \ {m} /\ m \notin k.hashed
      <4>1. ~ Crossing(m)
        BY <2>4, <3>3, SMTT(40)
      <4>2. \A r \in Procs : /\ w[r].pc = "cross" => w[r].mh # m
                             /\ w[r].pc = "elem" => w[r].nmh # m
        BY <4>1, SMTT(40) DEF Crossing
      <4>3. QED
        BY <3>1, <3>3, <4>2 DEF Crossings
    <3>4. QED
      BY <2>2, <2>6, <3>2, <3>3
  <2>8. Same(t, k, a) /\ Bal(k, Plus(a, q), MBase(w, p)) /\ t' = CClose(k, q)
    BY <1>1, <1>5, <2>1, <2>3, <2>6
  <2>9. QED
    BY <1>1, <1>2, <1>3, <1>6, <2>6, <2>7, <2>8, MountCloses
<1>12. QED
  BY <1>10, <1>11

-----------------------------------------------------------------------------
(* Twenty-first part: the initial states.                                  *)

(* the tables at first: the slash is there, with its path *)
LEMMA FirstTables ==
  ASSUME NamesInit
  PROVE  /\ TabsOK(t) /\ t.stale = FALSE
         /\ t.ref = [c \in Chans |-> IF c = Slash THEN 1 ELSE 0]
         /\ t.path = [c \in Chans |-> IF c = Slash THEN <<None>> ELSE <<>>]
         /\ t.umh = [c \in Chans |-> None] /\ t.free = Chans \ {Slash}
         /\ t.mref = [m \in Mheads |-> 0] /\ t.mount = [m \in Mheads |-> <<>>]
         /\ t.hashed = {}
<1>1. Least(Chans) = Slash /\ Slash \in Chans
  <2>1. Chans \in SUBSET Nat /\ Chans # {} /\ 0 \in Chans
    BY ChansAre
  <2>2. Least(Chans) \in Nat /\ Least(Chans) <= 0
    BY <2>1, LeastIs
  <2>3. QED
    BY <2>1, <2>2 DEF Slash
<1>2. PICK f : f = <<"/">>
  OBVIOUS
<1>3. PICK k : k = [ref   |-> [c \in Chans |-> IF c = Slash THEN 1 ELSE 0],
                    file  |-> [c \in Chans |-> IF c = Slash THEN f ELSE None],
                    offset |-> [c \in Chans |-> 0],
                    path  |-> [c \in Chans |-> IF c = Slash THEN <<None>> ELSE <<>>],
                    umh   |-> [c \in Chans |-> None],
                    free  |-> Chans \ {Slash},
                    mref  |-> [m \in Mheads |-> 0],
                    from  |-> [m \in Mheads |-> None],
                    mount |-> [m \in Mheads |-> <<>>],
                    hashed |-> {},
                    stale |-> FALSE,
                    moved |-> {}]
  OBVIOUS
<1>4. t = k
  <2>1. t = LET n == NewChan(Tables, f) IN [n.tabs EXCEPT !.path[n.chan] = <<None>>]
    BY <1>2 DEF NamesInit
  <2>2. PICK T : T = Tables
    OBVIOUS
  <2>3. T.free = Chans
    BY <2>2 DEF Tables
  <2>4. PICK N : N = [T EXCEPT !.ref[Slash] = 1, !.free = @ \ {Slash}, !.file[Slash] = f,
                               !.path[Slash] = <<>>, !.umh[Slash] = None,
                               !.offset[Slash] = 0, !.moved = @ \ {Slash}]
    OBVIOUS
  <2>5. NewChan(T, f) = [chan |-> Slash, tabs |-> N]
    BY <1>1, <2>3, <2>4 DEF NewChan
  <2>6. t = [N EXCEPT !.path[Slash] = <<None>>]
    BY <2>1, <2>2, <2>5
  <2>7. PICK A1, A2, A3, A4, A5 :
          /\ A1 = [[c \in Chans |-> 0] EXCEPT ![Slash] = 1]
          /\ A2 = [[c \in Chans |-> None] EXCEPT ![Slash] = f]
          /\ A3 = [[c \in Chans |-> 0] EXCEPT ![Slash] = 0]
          /\ A4 = [[c \in Chans |-> <<>>] EXCEPT ![Slash] = <<>>]
          /\ A5 = [[c \in Chans |-> None] EXCEPT ![Slash] = None]
    OBVIOUS
  <2>8. N = [ref |-> A1, file |-> A2, offset |-> A3, path |-> A4, umh |-> A5,
             free |-> Chans \ {Slash}, mref  |-> [m \in Mheads |-> 0],
             from  |-> [m \in Mheads |-> None], mount |-> [m \in Mheads |-> <<>>],
             hashed |-> {}, stale |-> FALSE, moved |-> {} \ {Slash}]
    BY <2>2, <2>4, <2>7, ZenonT(60) DEF Tables
  <2>9. PICK A6 : A6 = [A4 EXCEPT ![Slash] = <<None>>]
    OBVIOUS
  <2>10. t = [ref |-> A1, file |-> A2, offset |-> A3, path |-> A6, umh |-> A5,
              free |-> Chans \ {Slash}, mref  |-> [m \in Mheads |-> 0],
              from  |-> [m \in Mheads |-> None], mount |-> [m \in Mheads |-> <<>>],
              hashed |-> {}, stale |-> FALSE, moved |-> {} \ {Slash}]
    BY <2>6, <2>8, <2>9
  <2>11. A1 = [c \in Chans |-> IF c = Slash THEN 1 ELSE 0]
    BY <2>7
  <2>12. A2 = [c \in Chans |-> IF c = Slash THEN f ELSE None]
    BY <2>7
  <2>13. A3 = [c \in Chans |-> 0]
    BY <2>7
  <2>14. A6 = [c \in Chans |-> IF c = Slash THEN <<None>> ELSE <<>>]
    BY <2>7, <2>9
  <2>15. A5 = [c \in Chans |-> None]
    BY <2>7
  <2>16. {} \ {Slash} = {}
    OBVIOUS
  <2>17. QED
    BY <1>3, <2>10, <2>11, <2>12, <2>13, <2>14, <2>15, <2>16
<1>5. DOMAIN k = TabFields /\ k = [x \in TabFields |-> k[x]]
  BY <1>3 DEF TabFields
<1>6. /\ k.ref = [c \in Chans |-> IF c = Slash THEN 1 ELSE 0]
      /\ k.file = [c \in Chans |-> IF c = Slash THEN f ELSE None]
      /\ k.offset = [c \in Chans |-> 0]
      /\ k.path = [c \in Chans |-> IF c = Slash THEN <<None>> ELSE <<>>]
      /\ k.umh = [c \in Chans |-> None] /\ k.free = Chans \ {Slash}
      /\ k.mref = [m \in Mheads |-> 0] /\ k.from = [m \in Mheads |-> None]
      /\ k.mount = [m \in Mheads |-> <<>>] /\ k.hashed = {} /\ k.stale = FALSE
      /\ k.moved = {}
  BY <1>3
<1>7. k.path \in [Chans -> Seq(OrNone(Chans))]
  <2>1. <<>> \in Seq(OrNone(Chans)) /\ <<None>> \in Seq(OrNone(Chans))
    BY EmptySeq, OneSeq DEF OrNone
  <2>2. QED
    BY <1>6, <2>1
<1>8. k.mount \in [Mheads -> Seq(Chans)]
  BY <1>6, EmptySeq
<1>9. TabsOK(k)
  <2>1. k.ref \in [Chans -> Int] /\ k.offset \in [Chans -> Int] /\ k.mref \in [Mheads -> Int]
    BY <1>6
  <2>2. k.file = [c \in Chans |-> k.file[c]]
    BY <1>6
  <2>3. k.umh \in [Chans -> OrNone(Mheads)] /\ k.from \in [Mheads -> OrNone(Chans)]
    BY <1>6 DEF OrNone
  <2>4. k.free \subseteq Chans /\ k.hashed \subseteq Mheads /\ k.moved \subseteq Chans
    BY <1>6
  <2>5. QED
    BY <1>5, <1>7, <1>8, <2>1, <2>2, <2>3, <2>4 DEF TabsOK
<1>10. QED
  BY <1>4, <1>6, <1>9

(* nobody holds anything then *)
LEMMA FirstCounts ==
  ASSUME NEW h, GOK(h), \A i \in 0..h.nfd - 1 : h.fd[i] = None, NEW ww, NEW ss, DOMAIN ww = Procs,
         DOMAIN ss = Procs, Typed(ww, ss), \A p \in Procs : NoName(ww[p]) /\ ss[p].chan = None
  PROVE  /\ Counts(h.fd, Holds(ww, ss, Procs)) = [c \in Chans |-> IF c = Slash THEN 1 ELSE 0]
         /\ MCounts(MHolds(ww, Procs)) = [m \in Mheads |-> 0]
<1>1. PICK D, F, R, M : /\ D = 0..h.nfd - 1 /\ F = FdSeqs(h.fd)
                        /\ R = Holds(ww, ss, Procs) /\ M = MHolds(ww, Procs)
  OBVIOUS
<1>2. /\ Family(F, D, OrNone(Chans)) /\ Family(R, Procs, OrNone(Chans))
      /\ Family(M, Procs, OrNone(Mheads))
  <2>1. Procs \in SUBSET Procs
    OBVIOUS
  <2>2. QED
    BY <1>1, <2>1, FdFamily, HoldsFamily
<1>3. ASSUME NEW c \in Chans PROVE Uses(F, c) = 0
  <2>1. DOMAIN h.fd = D
    BY <1>1 DEF GOK
  <2>2. \A i \in D : F[i] = <<None>>
    BY <1>1, <2>1 DEF FdSeqs
  <2>3. Times(c, <<None>>) = 0
    BY ChansAre, TimesOne DEF One
  <2>4. QED
    BY <1>2, <2>2, <2>3, UsesNone
<1>4. ASSUME NEW c \in Chans PROVE Uses(R, c) = 0
  <2>1. ASSUME NEW p \in Procs PROVE Times(c, R[p]) = 0
    <3>1. PICK r, x : r = ww[p] /\ x = ss[p]
      OBVIOUS
    <3>2. WOK(r) /\ SOK(x) /\ NoName(r) /\ x.chan = None
      BY <3>1 DEF Typed
    <3>3. R[p] = Hold(r, x)
      BY <1>1, <3>1 DEF Holds
    <3>4. ChanHeld(r, x) = None
      BY <3>2 DEF ChanHeld
    <3>5. One(c, None) = 0 /\ Times(c, <<>>) = 0
      BY ChansAre, TimesEmpty DEF One
    <3>6. Times(c, Hold(r, x)) = One(c, r.c) + One(c, r.start) + One(c, r.nc)
                                   + Times(c, r.path) + Times(c, r.got)
                                   + One(c, ChanHeld(r, x))
      BY <3>2, HoldIs
    <3>7. QED
      BY <3>2, <3>3, <3>4, <3>5, <3>6 DEF NoName
  <2>2. QED
    BY <1>2, <2>1, UsesNone
<1>5. ASSUME NEW m \in Mheads PROVE Uses(M, m) = 0
  <2>1. ASSUME NEW p \in Procs PROVE Times(m, M[p]) = 0
    <3>1. ww[p].mh = None /\ ww[p].nmh = None
      BY DEF NoName
    <3>2. M[p] = <<None, None>>
      BY <1>1, <3>1 DEF MHolds, MHold
    <3>3. At(m, M[p]) = {}
      BY <3>2, ChansAre DEF At
    <3>4. QED
      BY <3>3, FS_EmptySet DEF Times
  <2>2. QED
    BY <1>2, <2>1, UsesNone
<1>6. Counts(h.fd, R) = [c \in Chans |-> IF c = Slash THEN 1 ELSE 0]
  BY <1>1, <1>3, <1>4 DEF Counts
<1>7. MCounts(M) = [m \in Mheads |-> 0]
  BY <1>5 DEF MCounts
<1>8. QED
  BY <1>1, <1>6, <1>7

(* the tables count that *)
LEMMA FirstBal ==
  ASSUME NamesInit, NEW e, e = [c \in Chans |-> IF c = Slash THEN 1 ELSE 0],
         NEW me, me = [m \in Mheads |-> 0]
  PROVE  Bal(t, e, me)
<1>1. PICK k : k = t
  OBVIOUS
<1>2. /\ TabsOK(k) /\ k.stale = FALSE
      /\ k.ref = [c \in Chans |-> IF c = Slash THEN 1 ELSE 0]
      /\ k.path = [c \in Chans |-> IF c = Slash THEN <<None>> ELSE <<>>]
      /\ k.umh = [c \in Chans |-> None] /\ k.free = Chans \ {Slash}
      /\ k.mref = [m \in Mheads |-> 0] /\ k.mount = [m \in Mheads |-> <<>>]
      /\ k.hashed = {}
  BY <1>1, FirstTables
<1>3. /\ Family(Froms(k), k.hashed, OrNone(Chans)) /\ Family(k.mount, Mheads, Chans)
      /\ Family(k.path, Chans, OrNone(Chans)) /\ Family(Umhs(k), Chans, OrNone(Mheads))
  BY <1>2, Families
<1>4. Slash \in Chans
  BY ChansAre DEF Slash
<1>5. ASSUME NEW c \in Chans PROVE InTables(k, c) = 0
  <2>1. Uses(Froms(k), c) = 0
    BY <1>2, <1>3, UsesNone
  <2>2. Times(c, <<None>>) = 0 /\ Times(c, <<>>) = 0
    BY ChansAre, TimesOne, TimesEmpty DEF One
  <2>3. Uses(k.mount, c) = 0
    <3>1. \A m \in Mheads : Times(c, k.mount[m]) = 0
      BY <1>2, <2>2
    <3>2. QED
      BY <1>3, <3>1, UsesNone
  <2>4. Uses(k.path, c) = 0
    <3>1. \A d \in Chans : Times(c, k.path[d]) = 0
      BY <1>2, <2>2
    <3>2. QED
      BY <1>3, <3>1, UsesNone
  <2>5. InTables(k, c) = Uses(Froms(k), c) + Uses(k.mount, c) + Uses(k.path, c)
    BY <1>2, InTablesType
  <2>6. QED
    BY <2>1, <2>3, <2>4, <2>5
<1>6. ASSUME NEW m \in Mheads PROVE MInTables(k, m) = 0
  <2>1. Times(m, <<None>>) = 0
    BY ChansAre, TimesOne DEF One
  <2>2. \A c \in Chans : Umhs(k)[c] = <<None>>
    BY <1>2 DEF Umhs
  <2>3. \A c \in Chans : Times(m, Umhs(k)[c]) = 0
    BY <2>1, <2>2
  <2>4. Uses(Umhs(k), m) = 0
    BY <1>3, <2>3, UsesNone
  <2>5. MInTables(k, m) = (IF m \in k.hashed THEN 1 ELSE 0) + Uses(Umhs(k), m)
    BY <1>2, InTablesType
  <2>6. QED
    BY <1>2, <2>4, <2>5
<1>7. e \in [Chans -> Nat] /\ me \in [Mheads -> Nat] /\ e[Slash] = 1
  BY <1>4
<1>8. Counted(k, e, me)
  <2>1. \A c \in Chans : k.ref[c] = e[c] + InTables(k, c)
    BY <1>2, <1>5
  <2>2. \A m \in Mheads : k.mref[m] = me[m] + MInTables(k, m)
    BY <1>2, <1>6
  <2>3. \A c \in Chans : c \in k.free <=> k.ref[c] = 0
    BY <1>2
  <2>4. \A c \in k.free : k.path[c] = <<>> /\ k.umh[c] = None
    BY <1>2
  <2>5. QED
    BY <2>1, <2>2, <2>3, <2>4 DEF Counted
<1>9. Kept(k, e)
  BY <1>2, <1>4, <1>7 DEF Kept
<1>10. QED
  BY <1>1, <1>2, <1>7, <1>8, <1>9 DEF Bal

(* the invariant holds at first *)
LEMMA InitInv ==
  ASSUME Init
  PROVE  IInv
<1>1. PICK l \in Loads : s = [p \in Procs |-> CallsOf(l[p])]
  BY DEF Init
<1>2. \A p \in Procs : l[p] \in Seq(Calls)
  BY CallsAre
<1>3. NamesInit /\ w = [p \in Procs |-> Resting]
  BY DEF Init, NamesInit
<1>4. GOK(g) /\ \A i \in 0..g.nfd - 1 : g.fd[i] = None
  <2>1. PICK d \in Nat : d = DELTAFD
    BY TableIs
  <2>2. PICK f : f = [i \in 0..d - 1 |-> None]
    OBVIOUS
  <2>3. g = [fd |-> f, nfd |-> d, maxfd |-> 0]
    BY <2>1, <2>2 DEF Init
  <2>4. f \in [0..d - 1 -> OrNone(Chans)] /\ \A i \in 0..d - 1 : f[i] = None
    BY <2>2 DEF OrNone
  <2>5. g.fd = f /\ g.nfd = d /\ g = [fd |-> g.fd, nfd |-> g.nfd, maxfd |-> g.maxfd]
    BY <2>3
  <2>6. QED
    BY <2>4, <2>5 DEF GOK
<1>5. ASSUME NEW p \in Procs
      PROVE  /\ w[p] = Resting /\ WOK(w[p]) /\ NoName(w[p]) /\ w[p].pc = "idle"
             /\ SOK(s[p]) /\ s[p].chan = None
  <2>1. w[p] = Resting /\ s[p] = CallsOf(l[p])
    BY <1>1, <1>3
  <2>2. SOK(CallsOf(l[p])) /\ CallsOf(l[p]).chan = None
    BY <1>2 DEF SOK, CallsOf, OrNone
  <2>3. QED
    BY <2>1, <2>2, RestingIs
<1>6. DOMAIN w = Procs /\ DOMAIN s = Procs /\ Typed(w, s)
  BY <1>1, <1>3, <1>5 DEF Typed
<1>7. ASSUME NEW p \in Procs PROVE Proc(t, g.nfd, w[p], s[p])
  <2>1. Control(t, g.nfd, w[p], s[p])
    BY <1>5 DEF Control, NamePC, FdPC
  <2>2. PlainOne(t, None) /\ Plain(t, <<>>)
    BY DEF PlainOne, Plain
  <2>3. Plain(t, NotOpen(w[p]))
    BY <1>5, <2>2, PlainIs DEF NoName
  <2>4. QED
    BY <1>5, <2>1, <2>3 DEF Proc
<1>8. PICK e, me : e = Counts(g.fd, Holds(w, s, Procs)) /\ me = MCounts(MHolds(w, Procs))
  OBVIOUS
<1>9. e = [c \in Chans |-> IF c = Slash THEN 1 ELSE 0] /\ me = [m \in Mheads |-> 0]
  BY <1>4, <1>5, <1>6, <1>8, FirstCounts
<1>10. Bal(t, e, me)
  BY <1>3, <1>9, FirstBal
<1>11. Mounted(t)
  <2>1. t.hashed = {}
    BY <1>3, FirstTables
  <2>2. QED
    BY <2>1 DEF Mounted
<1>12. Inv(t, g, w, s)
  BY <1>4, <1>6, <1>7, <1>8, <1>10, <1>11 DEF Inv
<1>13. WritesOK(t, w, s)
  BY <1>5 DEF WritesOK, Under
<1>14. QED
  BY <1>12, <1>13 DEF IInv

-----------------------------------------------------------------------------
(* Twenty-second part: the theorems.                                       *)

(* each call keeps what is counted, and the writes apart *)
LEMMA CallKeeps ==
  ASSUME NEW p \in Procs, Inv(t, g, w, s), WritesOK(t, w, s), ~ uncrossed',
         \/ NamecStep(p) /\ UNCHANGED <<g, s, uncrossed>>
         \/ SysOpen(p) \/ SysOpenEnd(p) \/ SysClose(p) \/ FdClose(p) \/ SysDup(p)
         \/ SysDupEnd(p) \/ SysIo(p) \/ WriteStart(p) \/ WriteEnd(p) \/ ReadStart(p)
         \/ ReadRewind(p) \/ ReadEnd(p) \/ SysBind(p) \/ SysUnmount(p) \/ SecondName(p)
         \/ SysBindEnd(p) \/ SysUnmountEnd(p) \/ NamecFailed(p)
  PROVE  Inv(t', g', w', s') /\ WritesOK(t', w', s')
<1>1. CASE NamecStep(p) /\ UNCHANGED <<g, s, uncrossed>>
  BY <1>1, NamecKeeps
<1>2. CASE SysOpen(p)
  BY <1>2, SysOpenKeeps
<1>3. CASE SysOpenEnd(p)
  BY <1>3, SysOpenEndKeeps
<1>4. CASE SysClose(p)
  BY <1>4, SysCloseKeeps
<1>5. CASE FdClose(p)
  BY <1>5, FdCloseKeeps
<1>6. CASE SysDup(p)
  BY <1>6, SysDupKeeps
<1>7. CASE SysDupEnd(p)
  BY <1>7, SysDupEndKeeps
<1>8. CASE SysIo(p)
  BY <1>8, SysIoKeeps
<1>9. CASE WriteStart(p)
  BY <1>9, WriteStartKeeps
<1>10. CASE WriteEnd(p)
  BY <1>10, WriteEndKeeps
<1>11. CASE ReadStart(p)
  BY <1>11, ReadStartKeeps
<1>12. CASE ReadRewind(p)
  BY <1>12, ReadRewindKeeps
<1>13. CASE ReadEnd(p)
  BY <1>13, ReadEndKeeps
<1>14. CASE SysBind(p)
  BY <1>14, SysBindKeeps
<1>15. CASE SysUnmount(p)
  BY <1>15, SysUnmountKeeps
<1>16. CASE SecondName(p)
  BY <1>16, SecondNameKeeps
<1>17. CASE SysBindEnd(p)
  BY <1>17, SysBindEndKeeps
<1>18. CASE SysUnmountEnd(p)
  BY <1>18, SysUnmountEndKeeps
<1>19. CASE NamecFailed(p)
  BY <1>19, NamecFailedKeeps, SMTT(40)
<1>20. QED
  BY <1>1, <1>2, <1>3, <1>4, <1>5, <1>6, <1>7, <1>8, <1>9, <1>10, <1>11, <1>12, <1>13,
     <1>14,
     <1>15, <1>16, <1>17, <1>18, <1>19

(* once a place left the table under a path that crossed to it, it did *)
LEMMA Uncrossed ==
  ASSUME Next, uncrossed
  PROVE  uncrossed'
BY ZenonT(60) DEF Next, SysOpen, SysOpenEnd, SysClose, FdClose, SysDup, SysDupEnd,
   SysIo, WriteStart,
       WriteEnd, ReadStart, ReadRewind, ReadEnd, SysBind, SysUnmount, SecondName, SysBindEnd,
       SysUnmountEnd, NamecFailed, Terminated, vars

(* every step keeps the invariant *)
LEMMA NextKeeps ==
  ASSUME IInv, [Next]_vars
  PROVE  IInv'
<1>1. CASE UNCHANGED vars
  BY <1>1 DEF vars, IInv, Inv, WritesOK, Mounted, Under
<1>2. CASE Next /\ uncrossed'
  BY <1>2 DEF IInv
<1>3. CASE Next /\ ~ uncrossed'
  <2>1. Inv(t, g, w, s) /\ WritesOK(t, w, s)
    BY <1>3, Uncrossed DEF IInv
  <2>2. CASE Terminated
    BY <1>1, <2>2 DEF Terminated
  <2>3. ASSUME NEW p \in Procs,
               \/ NamecStep(p) /\ UNCHANGED <<g, s, uncrossed>>
               \/ SysOpen(p) \/ SysOpenEnd(p) \/ SysClose(p) \/ FdClose(p) \/ SysDup(p)
               \/ SysDupEnd(p) \/ SysIo(p) \/ WriteStart(p) \/ WriteEnd(p) \/ ReadStart(p)
               \/ ReadRewind(p) \/ ReadEnd(p) \/ SysBind(p) \/ SysUnmount(p) \/ SecondName(p)
               \/ SysBindEnd(p) \/ SysUnmountEnd(p) \/ NamecFailed(p)
        PROVE  Inv(t', g', w', s') /\ WritesOK(t', w', s')
    BY <1>3, <2>1, <2>3, CallKeeps
  <2>4. CASE ~ Terminated
    BY <1>3, <2>3, <2>4 DEF Next, IInv
  <2>5. QED
    BY <2>2, <2>4
<1>4. QED
  BY <1>1, <1>2, <1>3

(* The invariant: unless a place left the table while a path crossed to    *)
(* it, each channel and each Mhead is counted by all that keep it, each    *)
(* process holds what its point in the calls needs, and writes are apart   *)
(* and below the offset (kern/chan.c, kern/sysfile.c).                     *)
THEOREM Invariance == Spec => []IInv
<1>1. Init => IInv
  BY InitInv
<1>2. IInv /\ [Next]_vars => IInv'
  BY NextKeeps
<1>3. QED
  BY <1>1, <1>2, PTL DEF Spec

(* what calls hold is what they count *)
LEMMA InCallsIs ==
  ASSUME Inv(t, g, w, s)
  PROVE  /\ \A c \in Chans : InCalls(c) = Counts(g.fd, Holds(w, s, Procs))[c]
         /\ \A m \in Mheads : MInCalls(m) = MCounts(MHolds(w, Procs))[m]
<1>1. \A p : Held(p) = Hold(w[p], s[p])
  BY DEF Held, Hold
<1>2. PICK H : H = [p \in Procs |-> Held(p)]
  OBVIOUS
<1>3. H = Holds(w, s, Procs)
  BY <1>1, <1>2 DEF Holds
<1>4. ASSUME NEW c \in Chans PROVE InCalls(c) = Counts(g.fd, Holds(w, s, Procs))[c]
  <2>1. InCalls(c) = (IF c = Slash THEN 1 ELSE 0) + Uses(FdSeqs(g.fd), c) + Uses(H, c)
    BY <1>2 DEF InCalls, FdSeqs
  <2>2. QED
    BY <1>3, <2>1 DEF Counts
<1>5. ASSUME NEW m \in Mheads PROVE MInCalls(m) = MCounts(MHolds(w, Procs))[m]
  BY DEF MInCalls, MCounts, MHolds, MHold
<1>6. QED
  BY <1>4, <1>5

(* ChansAreCounted: no channel and no Mhead is freed that is in use, and   *)
(* none is lost (incref, cclose, putmhead), for any processes, calls,      *)
(* files and mounts.                                                       *)
THEOREM Counting == Spec => []ChansAreCounted
<1>1. IInv => ChansAreCounted
  <2>1. SUFFICES ASSUME Inv(t, g, w, s) PROVE ChansAreCounted
    BY DEF IInv, ChansAreCounted
  <2>2. PICK e, me : e = Counts(g.fd, Holds(w, s, Procs)) /\ me = MCounts(MHolds(w, Procs))
    OBVIOUS
  <2>3. Bal(t, e, me)
    BY <2>1, <2>2 DEF Inv
  <2>4. ~ t.stale
    BY <2>3 DEF Bal
  <2>5. ASSUME NEW c \in Chans PROVE t.ref[c] = InTables(t, c) + InCalls(c)
    <3>1. InCalls(c) = e[c]
      BY <2>1, <2>2, InCallsIs
    <3>2. t.ref[c] = e[c] + InTables(t, c) /\ e[c] \in Nat /\ InTables(t, c) \in Nat
      BY <2>3, InTablesType DEF Bal, Counted
    <3>3. QED
      BY <3>1, <3>2
  <2>6. ASSUME NEW m \in Mheads PROVE t.mref[m] = MInTables(t, m) + MInCalls(m)
    <3>1. MInCalls(m) = me[m]
      BY <2>1, <2>2, InCallsIs
    <3>2. t.mref[m] = me[m] + MInTables(t, m) /\ me[m] \in Nat /\ MInTables(t, m) \in Nat
      BY <2>3, InTablesType DEF Bal, Counted
    <3>3. QED
      BY <3>1, <3>2
  <2>7. QED
    BY <2>4, <2>5, <2>6 DEF ChansAreCounted
<1>2. QED
  BY <1>1, Invariance, PTL

(* WritesApart: two writes through one offset go to parts of the file that *)
(* do not overlap (kwrite), while nothing set the offset back, and unless  *)
(* a channel may be gone already, as in ChansAreCounted.                   *)
THEOREM Writing == Spec => [](uncrossed \/ WritesApart)
<1>1. IInv => uncrossed \/ WritesApart
  <2>1. SUFFICES ASSUME Inv(t, g, w, s), WritesOK(t, w, s) PROVE WritesApart
    BY DEF IInv
  <2>2. SUFFICES ASSUME NEW p \in Procs, NEW q \in Procs, p # q, w[p].pc = "devwrite",
                        w[q].pc = "devwrite", s[p].chan = s[q].chan, s[p].chan \notin t.moved
                 PROVE  s[p].off + s[p].n <= s[q].off \/ s[q].off + s[q].n <= s[p].off
    BY DEF WritesApart
  <2>3. PICK c : c = s[p].chan
    OBVIOUS
  <2>4. c \in Chans
    <3>1. Control(t, g.nfd, w[p], s[p])
      BY <2>1 DEF Inv, Proc
    <3>2. QED
      BY <2>2, <2>3, <3>1 DEF Control, FdPC
  <2>5. Under(t, w[p], s[p], c) /\ Under(t, w[q], s[q], c)
    BY <2>2, <2>3 DEF Under
  <2>6. QED
    BY <2>1, <2>2, <2>4, <2>5 DEF WritesOK
<1>2. QED
  BY <1>1, Invariance, PTL
=============================================================================
