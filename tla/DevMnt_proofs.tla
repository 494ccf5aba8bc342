--------------------------- MODULE DevMnt_proofs ---------------------------
(***************************************************************************)
(* The mount driver for any number of processes, tags, calls and           *)
(* interrupts, and a server that may go away: a Mntrpc is one process's,   *)
(* one process reads at a time, and no sleeper is forgotten.               *)
(***************************************************************************)
EXTENDS DevMnt, TLAPS

(* the processes that have a call under way, and tags that are in use      *)
Calling(p) == pc[p] # "idle"
Live(t) == id[t] # 0

(* a tag is in use, kept free, or not allocated                            *)
FreeList ==
  /\ \A t \in Tags : Live(t) <=> t \in used /\ \A i \in DOMAIN rpcfree : rpcfree[i] # t
  /\ \A i \in DOMAIN rpcfree : rpcfree[i] \in used
  /\ \A i, j \in DOMAIN rpcfree : rpcfree[i] = rpcfree[j] => i = j

(* A Mntrpc is some process's r, or flushed by one other, and not both.    *)
Owners ==
  /\ \A p \in Procs : Calling(p) => cur[p] \in Tags /\ Live(cur[p])
  /\ \A p, q \in Procs : Calling(p) /\ Calling(q) /\ cur[p] = cur[q] => p = q
  /\ \A t \in Tags : flushed[t] # None =>
       /\ Live(t) /\ Live(flushed[t])
       /\ \A u \in Tags : flushed[u] = flushed[t] => u = t
       /\ \A p \in Procs : Calling(p) => cur[p] # flushed[t]

(* Who waits for a reply, has sent its request or is about to, and has not *)
(* been answered, is in the queue.                                         *)
Queued ==
  \A p \in Procs : pc[p] \in {"send", "gate", "sleep", "asleep", "awake"} /\ ~ done[cur[p]]
    => InQueue(cur[p])

Gates == OneReader /\ Queued /\ SleepersAreAttended

Inv == TypeOK /\ FreeList /\ Owners /\ Gates

-----------------------------------------------------------------------------
(* sequences *)
LEMMA RemoveAtElements ==
  ASSUME NEW S, NEW s \in Seq(S), NEW i \in DOMAIN s
  PROVE  /\ RemoveAt(s, i) \in Seq(S)
         /\ \A j \in DOMAIN s : j # i => \E k \in DOMAIN RemoveAt(s, i) : RemoveAt(s, i)[k] = s[j]
<1> DEFINE a == SubSeq(s, 1, i - 1)
           b == SubSeq(s, i + 1, Len(s))
<1>0. DOMAIN s = 1 .. Len(s)
  OBVIOUS
<1>1. i \in 1 .. Len(s) /\ Len(s) \in Nat
  OBVIOUS
<1>2. a \in Seq(S) /\ Len(a) = i - 1 /\ \A j \in 1 .. i - 1 : a[j] = s[j]
  BY <1>1
<1>3. b \in Seq(S) /\ Len(b) = Len(s) - i /\ \A j \in 1 .. Len(s) - i : b[j] = s[j + i]
  BY <1>1
<1> HIDE DEF a, b
<1>4. /\ a \o b \in Seq(S) /\ Len(a \o b) = Len(s) - 1
      /\ \A j \in 1 .. Len(s) - 1 : (a \o b)[j] = IF j <= i - 1 THEN a[j] ELSE b[j - (i - 1)]
  BY <1>1, <1>2, <1>3
<1>5. ASSUME NEW j \in DOMAIN s, j # i
      PROVE  \E k \in DOMAIN (a \o b) : (a \o b)[k] = s[j]
  <2>0. DOMAIN (a \o b) = 1 .. Len(s) - 1
    BY <1>4
  <2>1. CASE j < i
    <3>1. j \in 1 .. i - 1 /\ j \in 1 .. Len(s) - 1 /\ j <= i - 1
      BY <1>0, <1>1, <2>1
    <3>2. (a \o b)[j] = s[j]
      BY <1>2, <1>4, <3>1
    <3>3. QED
      BY <2>0, <3>1, <3>2
  <2>2. CASE j > i
    <3>1. /\ j - 1 \in 1 .. Len(s) - 1 /\ ~ (j - 1 <= i - 1)
          /\ j - 1 - (i - 1) \in 1 .. Len(s) - i /\ j - 1 - (i - 1) + i = j
      BY <1>0, <1>1, <2>2
    <3>2. (a \o b)[j - 1] = s[j]
      BY <1>3, <1>4, <3>1
    <3>3. QED
      BY <2>0, <3>1, <3>2
  <2>3. QED
    BY <1>0, <1>1, <1>5, <2>1, <2>2
<1>6. RemoveAt(s, i) = a \o b
  BY DEF RemoveAt, a, b
<1>7. QED
  BY <1>4, <1>5, <1>6

(* mntqrm, and mountmux: only t leaves the queue *)
LEMMA Unlinked ==
  ASSUME TypeOK, NEW t, Unlink(t)
  PROVE  /\ queue' \in Seq(Tags)
         /\ \A u : u # t /\ InQueue(u) => InQueue(u)'
<1>1. CASE UNCHANGED queue
  BY <1>1 DEF TypeOK, InQueue
<1>2. ASSUME NEW i \in DOMAIN queue, queue[i] = t, queue' = RemoveAt(queue, i)
      PROVE  /\ queue' \in Seq(Tags)
             /\ \A u : u # t /\ InQueue(u) => InQueue(u)'
  <2>1. queue \in Seq(Tags)
    BY DEF TypeOK
  <2>2. /\ queue' \in Seq(Tags)
        /\ \A j \in DOMAIN queue : j # i => \E k \in DOMAIN queue' : queue'[k] = queue[j]
    BY <1>2, <2>1, RemoveAtElements
  <2>3. QED
    BY <1>2, <2>2 DEF InQueue
<1>3. QED
  BY <1>1, <1>2 DEF Unlink

-----------------------------------------------------------------------------
(* mntralloc and mntfree *)
MntrpcTypes ==
  /\ used \subseteq Tags /\ rpcfree \in Seq(Tags)
  /\ done \in [Tags -> BOOLEAN] /\ reply \in [Tags -> Nat \cup {None}]
  /\ flushed \in [Tags -> Tags \cup {None}] /\ oldtag \in [Tags -> Tags \cup {None}]
  /\ id \in [Tags -> Nat] /\ ids \in Nat /\ late \subseteq used

(* mntralloc gives out a tag that was not in use *)
LEMMA Allocated ==
  ASSUME TypeOK, FreeList, NEW t \in Tags,
         NEW fl \in Tags \cup {None}, NEW old \in Tags \cup {None}, Mntralloc(t, fl, old)
  PROVE  /\ ~ Live(t) /\ FreeList'
         /\ MntrpcTypes'
         /\ ids' = ids + 1 /\ id' = [id EXCEPT ![t] = ids + 1]
         /\ done' = [done EXCEPT ![t] = FALSE] /\ reply' = [reply EXCEPT ![t] = None]
         /\ flushed' = [flushed EXCEPT ![t] = fl] /\ oldtag' = [oldtag EXCEPT ![t] = old]
         /\ late' = IF link = "down" THEN late \cup {t} ELSE late
<1>1. /\ ids' = ids + 1 /\ id' = [id EXCEPT ![t] = ids + 1]
      /\ done' = [done EXCEPT ![t] = FALSE] /\ reply' = [reply EXCEPT ![t] = None]
      /\ flushed' = [flushed EXCEPT ![t] = fl] /\ oldtag' = [oldtag EXCEPT ![t] = old]
      /\ late' = IF link = "down" THEN late \cup {t} ELSE late
      /\ used' = used \cup {t}
      /\ AllocTag(t)
  BY DEF Mntralloc, SetRpc
<1>2. id'[t] # 0 /\ \A u \in Tags : u # t => id'[u] = id[u]
  BY <1>1 DEF TypeOK
<1>0. /\ done' \in [Tags -> BOOLEAN] /\ reply' \in [Tags -> Nat \cup {None}]
      /\ flushed' \in [Tags -> Tags \cup {None}] /\ oldtag' \in [Tags -> Tags \cup {None}]
      /\ id' \in [Tags -> Nat] /\ ids' \in Nat /\ late' \subseteq used'
  BY <1>1 DEF TypeOK
<1>3. CASE rpcfree # <<>>
  <2>1. /\ t = Head(rpcfree) /\ rpcfree' = Tail(rpcfree)
        /\ rpcfree \in Seq(Tags) /\ rpcfree # <<>>
    BY <1>1, <1>3 DEF Mntralloc, AllocTag, TypeOK
  <2>2. /\ 1 \in DOMAIN rpcfree /\ t = rpcfree[1]
        /\ rpcfree' \in Seq(Tags)
        /\ \A i \in DOMAIN rpcfree' : i + 1 \in DOMAIN rpcfree /\ rpcfree'[i] = rpcfree[i + 1] /\ i \in Nat \ {0}
        /\ \A i \in DOMAIN rpcfree : i # 1 => i - 1 \in DOMAIN rpcfree' /\ rpcfree'[i - 1] = rpcfree[i]
    BY <2>1
  <2>3. ~ Live(t) /\ t \in used
    BY <2>2 DEF FreeList
  <2>4. \A i \in DOMAIN rpcfree' : rpcfree'[i] # t
    BY <2>2 DEF FreeList
  <2>5. \A i, j \in DOMAIN rpcfree' : rpcfree'[i] = rpcfree'[j] => i = j
    <3> TAKE i, j \in DOMAIN rpcfree'
    <3>1. i + 1 \in DOMAIN rpcfree /\ j + 1 \in DOMAIN rpcfree /\ i \in Nat /\ j \in Nat
      BY <2>2
    <3>2. rpcfree'[i] = rpcfree[i + 1] /\ rpcfree'[j] = rpcfree[j + 1]
      BY <2>2
    <3>3. rpcfree'[i] = rpcfree'[j] => i + 1 = j + 1
      BY <3>1, <3>2 DEF FreeList
    <3>4. QED
      BY <3>1, <3>3
  <2>6. \A u \in Tags : u # t =>
          ((\A i \in DOMAIN rpcfree' : rpcfree'[i] # u) <=> \A i \in DOMAIN rpcfree : rpcfree[i] # u)
    BY <2>2
  <2>7. \A i \in DOMAIN rpcfree' : rpcfree'[i] \in used'
    BY <1>1, <2>2 DEF FreeList
  <2>8. \A u \in Tags : Live(u)' <=> u \in used' /\ \A i \in DOMAIN rpcfree' : rpcfree'[i] # u
    BY <1>1, <1>2, <2>3, <2>4, <2>6 DEF FreeList, Live
  <2>9. QED
    BY <1>0, <1>1, <2>2, <2>3, <2>5, <2>7, <2>8 DEF FreeList, TypeOK, MntrpcTypes
<1>4. CASE rpcfree = <<>>
  <2>1. rpcfree' = rpcfree /\ t \notin used
    BY <1>1, <1>4 DEF Mntralloc, AllocTag
  <2>2. \A i \in DOMAIN rpcfree : rpcfree[i] # t
    BY <2>1 DEF FreeList
  <2>3. ~ Live(t)
    BY <2>1 DEF FreeList
  <2>4. QED
    BY <1>0, <1>1, <1>2, <2>1, <2>2, <2>3 DEF FreeList, Live, TypeOK, MntrpcTypes
<1>5. QED
  BY <1>3, <1>4

(* mntfree takes back a tag that was *)
LEMMA Freed ==
  ASSUME TypeOK, FreeList, NEW t \in Tags, Live(t), Mntfree(t)
  PROVE  /\ FreeList'
         /\ MntrpcTypes'
         /\ ids' = ids /\ id' = [id EXCEPT ![t] = 0]
         /\ done' = [done EXCEPT ![t] = FALSE] /\ reply' = [reply EXCEPT ![t] = None]
         /\ flushed' = [flushed EXCEPT ![t] = None] /\ oldtag' = [oldtag EXCEPT ![t] = None]
         /\ late' = late \ {t}
<1>1. /\ ids' = ids /\ id' = [id EXCEPT ![t] = 0]
      /\ done' = [done EXCEPT ![t] = FALSE] /\ reply' = [reply EXCEPT ![t] = None]
      /\ flushed' = [flushed EXCEPT ![t] = None] /\ oldtag' = [oldtag EXCEPT ![t] = None]
      /\ late' = late \ {t}
      /\ \/ used' = used \ {t} /\ rpcfree' = rpcfree
         \/ rpcfree' = <<t>> \o rpcfree /\ used' = used
  BY DEF Mntfree, SetRpc
<1>2. id'[t] = 0 /\ \A u \in Tags : u # t => id'[u] = id[u]
  BY <1>1 DEF TypeOK
<1>3. t \in used /\ \A i \in DOMAIN rpcfree : rpcfree[i] # t
  BY DEF FreeList
<1>0. /\ done' \in [Tags -> BOOLEAN] /\ reply' \in [Tags -> Nat \cup {None}]
      /\ flushed' \in [Tags -> Tags \cup {None}] /\ oldtag' \in [Tags -> Tags \cup {None}]
      /\ id' \in [Tags -> Nat] /\ ids' \in Nat /\ late' \subseteq used'
  BY <1>1 DEF TypeOK
<1>4. CASE used' = used \ {t} /\ rpcfree' = rpcfree
  BY <1>0, <1>1, <1>2, <1>3, <1>4 DEF FreeList, Live, TypeOK, MntrpcTypes
<1>5. CASE rpcfree' = <<t>> \o rpcfree /\ used' = used
  <2>1. rpcfree \in Seq(Tags)
    BY DEF TypeOK
  <2>2. /\ rpcfree' \in Seq(Tags) /\ 1 \in DOMAIN rpcfree' /\ rpcfree'[1] = t
        /\ \A i \in DOMAIN rpcfree' : i \in Nat /\ (i # 1 => i - 1 \in DOMAIN rpcfree /\ rpcfree'[i] = rpcfree[i - 1])
        /\ \A i \in DOMAIN rpcfree : i + 1 \in DOMAIN rpcfree' /\ rpcfree'[i + 1] = rpcfree[i]
    BY <1>5, <2>1
  <2>3. \A i, j \in DOMAIN rpcfree' : rpcfree'[i] = rpcfree'[j] => i = j
    <3> SUFFICES ASSUME NEW i \in DOMAIN rpcfree', NEW j \in DOMAIN rpcfree', rpcfree'[i] = rpcfree'[j]
                 PROVE  i = j
      OBVIOUS
    <3>1. CASE i = 1 \/ j = 1
      BY <1>3, <2>2, <3>1
    <3>2. CASE i # 1 /\ j # 1
      <4>1. i - 1 \in DOMAIN rpcfree /\ j - 1 \in DOMAIN rpcfree /\ rpcfree[i - 1] = rpcfree[j - 1]
        BY <2>2, <3>2
      <4>2. i - 1 = j - 1
        BY <4>1 DEF FreeList
      <4>3. QED
        BY <2>2, <4>2
    <3>3. QED
      BY <3>1, <3>2
  <2>4. \A u \in Tags : u # t =>
          ((\A i \in DOMAIN rpcfree' : rpcfree'[i] # u) <=> \A i \in DOMAIN rpcfree : rpcfree[i] # u)
    BY <2>2
  <2>5. \A i \in DOMAIN rpcfree' : rpcfree'[i] \in used'
    <3> TAKE i \in DOMAIN rpcfree'
    <3>1. CASE i = 1
      BY <1>3, <1>5, <2>2, <3>1
    <3>2. CASE i # 1
      BY <1>5, <2>2, <3>2 DEF FreeList
    <3>3. QED
      BY <3>1, <3>2
  <2>6. \A u \in Tags : Live(u)' <=> u \in used' /\ \A i \in DOMAIN rpcfree' : rpcfree'[i] # u
    BY <1>2, <1>5, <2>2, <2>4 DEF FreeList, Live
  <2>7. QED
    BY <1>0, <1>1, <1>5, <2>2, <2>3, <2>5, <2>6 DEF FreeList, TypeOK, MntrpcTypes
<1>6. QED
  BY <1>1, <1>4, <1>5 DEF MntrpcTypes
-----------------------------------------------------------------------------
(* the processes' moves *)
LEMMA Went ==
  ASSUME TypeOK, NEW p \in Procs, NEW from, NEW to \in PC, Goto(p, from, to)
  PROVE  /\ pc[p] = from /\ pc' \in [Procs -> PC]
         /\ pc'[p] = to /\ \A q \in Procs : q # p => pc'[q] = pc[q]
BY DEF TypeOK, Goto

(* p wakes whoever sleeps on t's Rendez, and goes on *)
LEMMA Woke ==
  ASSUME TypeOK, NEW p \in Procs, NEW t, NEW from, NEW to \in PC, Wakeup(t, p, from, to)
  PROVE  /\ pc[p] = from /\ pc' \in [Procs -> PC]
         /\ pc'[p] = to
         /\ \A q \in Procs : q # p =>
              pc'[q] = IF pc[q] = "asleep" /\ cur[q] = t THEN "awake" ELSE pc[q]
BY DEF TypeOK, Wakeup, PC

(* mntgate wakes one sleeper at most, and p goes on *)
LEMMA Gated ==
  ASSUME TypeOK, NEW p \in Procs, NEW from, NEW to \in PC, Gate(p, from, to)
  PROVE  /\ pc[p] = from /\ pc' \in [Procs -> PC]
         /\ pc'[p] = to
         /\ \A q \in Procs : q # p => pc'[q] = pc[q] \/ (pc[q] = "asleep" /\ pc'[q] = "awake")
         /\ rip' = None
         /\ UNCHANGED <<rpcs, queue, done, reply, cur, msg, net, intrs>>
<1>1. CASE Goto(p, from, to)
  BY <1>1, Went DEF Gate
<1>2. ASSUME NEW t, Wakeup(t, p, from, to)
      PROVE  /\ pc[p] = from /\ pc' \in [Procs -> PC]
             /\ pc'[p] = to
             /\ \A q \in Procs : q # p => pc'[q] = pc[q] \/ (pc[q] = "asleep" /\ pc'[q] = "awake")
  BY <1>2, Woke
<1>3. QED
  BY <1>1, <1>2 DEF Gate

-----------------------------------------------------------------------------
(* types *)
LEMMA TypesKept ==
  ASSUME TypeOK, FreeList, Owners, [Next]_vars
  PROVE  TypeOK'
<1>1. ASSUME NEW p \in Procs, Call(p) PROVE TypeOK'
  <2>1. PICK t \in Tags : Mntralloc(t, None, None) /\ cur' = [cur EXCEPT ![p] = t]
    BY <1>1 DEF Call
  <2>2. pc' \in [Procs -> PC] /\ \A q \in Procs : pc'[q] = "mux" => pc[q] = "mux"
    BY <1>1, Went DEF Call, PC
  <2>3. UNCHANGED <<queue, rip, msg, why, net>>
    BY <1>1 DEF Call
  <2>4. MntrpcTypes'
    BY <2>1, Allocated
  <2>5. QED
    BY <2>1, <2>2, <2>3, <2>4 DEF TypeOK, net, MntrpcTypes
<1>2. ASSUME NEW p \in Procs, ErrorFlush(p) PROVE TypeOK'
  <2>1. PICK t \in Tags, old \in Tags : /\ Mntralloc(t, cur[p], old)
                                        /\ cur' = [cur EXCEPT ![p] = t]
    BY <1>2 DEF ErrorFlush, Owners, Calling, Goto, TypeOK
  <2>2. pc' \in [Procs -> PC] /\ \A q \in Procs : pc'[q] = "mux" => pc[q] = "mux"
    BY <1>2, Went DEF ErrorFlush, PC
  <2>3. UNCHANGED <<queue, rip, msg, net>> /\ why' = [why EXCEPT ![p] = None]
    BY <1>2 DEF ErrorFlush
  <2>4. cur[p] \in Tags
    BY <1>2 DEF ErrorFlush, Owners, Calling, Goto
  <2>5. MntrpcTypes'
    BY <2>1, <2>4, Allocated
  <2>6. QED
    BY <2>1, <2>2, <2>3, <2>5 DEF TypeOK, net, MntrpcTypes
<1>3. ASSUME NEW p \in Procs, FreeNext(p) \/ Return(p) PROVE TypeOK'
  <2>1. cur[p] \in Tags /\ Live(cur[p]) /\ Mntfree(cur[p])
    BY <1>3 DEF FreeNext, Return, Owners, Calling, Goto
  <2>2. pc' \in [Procs -> PC] /\ \A q \in Procs : pc'[q] = "mux" => pc[q] = "mux"
    BY <1>3, Went DEF FreeNext, Return, PC
  <2>3. /\ UNCHANGED <<queue, rip, msg, net>>
        /\ why' \in {why, [why EXCEPT ![p] = None]}
        /\ cur' \in {[cur EXCEPT ![p] = flushed[cur[p]]], [cur EXCEPT ![p] = None]}
    BY <1>3 DEF FreeNext, Return
  <2>4. MntrpcTypes'
    BY <2>1, Freed
  <2>5. flushed[cur[p]] \in Tags \cup {None}
    BY <2>1 DEF TypeOK
  <2>6. QED
    BY <2>1, <2>2, <2>3, <2>4, <2>5 DEF TypeOK, net, MntrpcTypes
<1>4. ASSUME NEW p \in Procs, Enqueue(p) PROVE TypeOK'
  <2>1. pc' \in [Procs -> PC] /\ \A q \in Procs : pc'[q] = "mux" => pc[q] = "mux"
    BY <1>4, Went DEF Enqueue, PC
  <2>2. queue' \in Seq(Tags)
    BY <1>4 DEF Enqueue, TypeOK, Owners, Calling, Goto
  <2>3. QED
    BY <1>4, <2>1, <2>2 DEF Enqueue, TypeOK, rpcs, net
<1>5. ASSUME NEW p \in Procs, cur[p] \in Tags PROVE Request(cur[p]) \in Requests
  BY <1>5 DEF Request, Requests, TypeOK
<1>6. ASSUME NEW p \in Procs, Send(p) \/ SendFails(p) \/ SendInterrupted(p) PROVE TypeOK'
  <2>1. pc' \in [Procs -> PC] /\ \A q \in Procs : pc'[q] = "mux" => pc[q] = "mux"
    BY <1>6, Went DEF Send, SendFails, SendInterrupted, Raise, PC
  <2>2. cur[p] \in Tags
    BY <1>6 DEF Send, SendFails, SendInterrupted, Raise, Owners, Calling, Goto
  <2>3. srv' \subseteq Requests
    BY <1>5, <1>6, <2>2 DEF Send, SendFails, SendInterrupted, TypeOK
  <2>4. /\ UNCHANGED <<rpcs, queue, rip, done, reply, cur, msg, in, link>>
        /\ why' \in {why, [why EXCEPT ![p] = "dead"], [why EXCEPT ![p] = "intr"]}
    BY <1>6 DEF Send, SendFails, SendInterrupted, Raise
  <2>5. QED
    BY <2>1, <2>3, <2>4 DEF TypeOK, rpcs
<1>7. ASSUME NEW p \in Procs,
             GateEnter(p) \/ GateShut(p) \/ Sleep(p) \/ Awake(p) \/ ErrorDead(p) \/ FreeTest(p)
      PROVE  TypeOK'
  <2>1. pc' \in [Procs -> PC] /\ \A q \in Procs : pc'[q] = "mux" => pc[q] = "mux"
    BY <1>7, Went DEF GateEnter, GateShut, Sleep, Awake, ErrorDead, FreeTest, PC
  <2>2. UNCHANGED <<rpcs, queue, done, reply, cur, msg, why, net>> /\ rip' \in {rip, p}
    BY <1>7 DEF GateEnter, GateShut, Sleep, Awake, ErrorDead, FreeTest
  <2>3. QED
    BY <2>1, <2>2 DEF TypeOK, rpcs, net
<1>8. ASSUME NEW p \in Procs, Read(p) PROVE TypeOK'
  <2>1. /\ pc' \in [Procs -> PC]
        /\ \A q \in Procs : pc'[q] = "mux" => q = p \/ pc[q] = "mux"
    BY <1>8, Went DEF Read, PC
  <2>2. in' \in Seq(Requests) /\ Head(in) \in Requests
    BY <1>8 DEF Read, TypeOK
  <2>3. QED
    BY <1>8, <2>1, <2>2 DEF Read, TypeOK, rpcs
<1>9. ASSUME NEW p \in Procs, ReadFails(p) \/ ReadInterrupted(p) PROVE TypeOK'
  <2>1. pc' \in [Procs -> PC] /\ \A q \in Procs : pc'[q] = "mux" => pc[q] = "mux"
    BY <1>9, Went DEF ReadFails, ReadInterrupted, Raise, PC
  <2>2. /\ UNCHANGED <<rpcs, queue, rip, done, reply, cur, msg, net>>
        /\ why' \in {[why EXCEPT ![p] = "dead"], [why EXCEPT ![p] = "intr"]}
    BY <1>9 DEF ReadFails, ReadInterrupted, Raise, net
  <2>3. QED
    BY <2>1, <2>2 DEF TypeOK, rpcs, net
<1>10. ASSUME NEW p \in Procs, Mux(p) PROVE TypeOK'
  <2>1. msg[p] \in Requests
    BY <1>10 DEF Mux, Goto, TypeOK
  <2>2. /\ pc' \in [Procs -> PC] /\ \A q \in Procs : pc'[q] = "mux" => q # p /\ pc[q] = "mux"
    BY <1>10, Went DEF Mux, PC
  <2>3. queue' \in Seq(Tags)
    BY <1>10, Unlinked DEF Mux
  <2>4. msg' \in [Procs -> Requests \cup {None}] /\ \A q \in Procs : q # p => msg'[q] = msg[q]
    BY <1>10, <2>1 DEF Mux, TypeOK
  <2>5. done' \in [Tags -> BOOLEAN] /\ reply' \in [Tags -> Nat \cup {None}]
    BY <1>10, <2>1 DEF Mux, TypeOK, Requests
  <2>6. QED
    BY <1>10, <2>2, <2>3, <2>4, <2>5 DEF Mux, TypeOK, rpcs, net
<1>11. ASSUME NEW p \in Procs, MuxWake(p) PROVE TypeOK'
  <2>1. /\ pc' \in [Procs -> PC] /\ \A q \in Procs : pc'[q] = "mux" => q # p /\ pc[q] = "mux"
    BY <1>11, Woke DEF MuxWake, PC
  <2>2. QED
    BY <1>11, <2>1 DEF MuxWake, TypeOK, rpcs, net
<1>12. ASSUME NEW p \in Procs, GateOut(p) \/ ErrorGate(p) PROVE TypeOK'
  <2>1. PICK from \in PC, to \in {"free", "error"} : Gate(p, from, to) /\ UNCHANGED why
    BY <1>12 DEF GateOut, ErrorGate, PC
  <2>2. /\ pc' \in [Procs -> PC] /\ \A q \in Procs : pc'[q] = "mux" => pc[q] = "mux"
        /\ rip' = None
        /\ UNCHANGED <<rpcs, queue, done, reply, cur, msg, net>>
    BY <2>1, Gated DEF PC
  <2>3. QED
    BY <2>1, <2>2 DEF TypeOK, rpcs, net
<1>13. ASSUME NEW p \in Procs, FreeRemove(p) PROVE TypeOK'
  <2>1. /\ pc' \in [Procs -> PC] /\ \A q \in Procs : pc'[q] = "mux" => pc[q] = "mux"
    BY <1>13, Went DEF FreeRemove, PC
  <2>2. queue' \in Seq(Tags)
    BY <1>13, Unlinked DEF FreeRemove
  <2>3. QED
    BY <1>13, <2>1, <2>2 DEF FreeRemove, TypeOK, rpcs, net
<1>14. ASSUME NEW m \in srv, Answer(m) \/ AnswerFlush(m) PROVE TypeOK'
  <2>0. m \in Requests /\ in \in Seq(Requests)
    BY DEF TypeOK
  <2>1. in' \in Seq(Requests) /\ srv' \subseteq srv
    BY <1>14, <2>0 DEF Answer, AnswerFlush
  <2>2. UNCHANGED <<rpcs, queue, rip, done, reply, pc, cur, msg, why, link>>
    BY <1>14 DEF Answer, AnswerFlush
  <2>3. QED
    BY <2>1, <2>2 DEF TypeOK, rpcs
<1>15. CASE HangUp \/ Down
  <2>1. in' \in {in, <<>>} /\ srv' \in {srv, {}} /\ link' \in {"silent", "down"}
    BY <1>15 DEF HangUp, Down
  <2>2. UNCHANGED <<rpcs, queue, rip, done, reply, pc, cur, msg, why>>
    BY <1>15 DEF HangUp, Down
  <2>0. <<>> \in Seq(Requests) /\ in \in Seq(Requests) /\ srv \subseteq Requests
    BY DEF TypeOK
  <2>3. in' \in Seq(Requests) /\ srv' \subseteq Requests
    BY <2>0, <2>1
  <2>4. QED
    BY <2>1, <2>2, <2>3 DEF TypeOK, rpcs
<1>16. CASE UNCHANGED vars
  BY <1>16 DEF vars, rpcs, net, TypeOK
<1>17. QED
  BY <1>1, <1>2, <1>3, <1>4, <1>6, <1>7, <1>8, <1>9, <1>10, <1>11, <1>12, <1>13, <1>14, <1>15, <1>16
  DEF Next, Step, Serve

-----------------------------------------------------------------------------
(* who has which Mntrpc *)
LEMMA Steady ==
  ASSUME FreeList, Owners, UNCHANGED <<rpcs, cur>>,
         \A p \in Procs : (pc[p] = "idle") <=> (pc'[p] = "idle")
  PROVE  FreeList' /\ Owners'
BY DEF FreeList, Owners, rpcs, Live, Calling

(* p has the Mntrpc t from now on, which flushes the one it had, if any    *)
LEMMA Given ==
  ASSUME TypeOK, FreeList, Owners, NEW p \in Procs, NEW t \in Tags,
         NEW r \in Tags \cup {None}, NEW old \in Tags \cup {None}, Mntralloc(t, r, old),
         Calling(p) => r = cur[p], ~ Calling(p) => r = None,
         cur' = [cur EXCEPT ![p] = t],
         \A q \in Procs : q # p => pc'[q] = pc[q]
  PROVE  FreeList' /\ Owners'
<1>1. /\ ~ Live(t) /\ FreeList' /\ ids' = ids + 1 /\ id' = [id EXCEPT ![t] = ids + 1]
      /\ flushed' = [flushed EXCEPT ![t] = r]
  BY Allocated
<1>2. id'[t] # 0 /\ (\A u \in Tags : u # t => id'[u] = id[u])
      /\ flushed'[t] = r /\ \A u \in Tags : u # t => flushed'[u] = flushed[u]
  BY <1>1 DEF TypeOK
<1>3. cur'[p] = t /\ \A q \in Procs : q # p => cur'[q] = cur[q]
  BY DEF TypeOK
<1>4. \A q \in Procs : Calling(q)' => cur'[q] \in Tags /\ Live(cur[q])'
  BY <1>2, <1>3 DEF Owners, Live, Calling
<1>5. \A q \in Procs : q # p /\ Calling(q) => cur[q] # t
  BY <1>1 DEF Owners
<1>6. \A q, s \in Procs : Calling(q)' /\ Calling(s)' /\ cur'[q] = cur'[s] => q = s
  BY <1>3, <1>5 DEF Owners, Calling
<1>7. ASSUME NEW u \in Tags, flushed'[u] # None
      PROVE  /\ Live(u)' /\ Live(flushed[u])'
             /\ \A v \in Tags : flushed'[v] = flushed'[u] => v = u
             /\ \A q \in Procs : Calling(q)' => cur'[q] # flushed'[u]
  <2>1. CASE u = t
    <3>1. r \in Tags /\ Calling(p) /\ r = cur[p] /\ Live(r) /\ r # t
      BY <1>1, <1>2, <1>7, <2>1 DEF Owners
    <3>2. \A v \in Tags : flushed[v] # r
      BY <3>1, NoneIsNil DEF Owners
    <3>3. \A q \in Procs : q # p /\ Calling(q) => cur[q] # r
      BY <3>1 DEF Owners
    <3>4. QED
      BY <1>2, <1>3, <2>1, <3>1, <3>2, <3>3 DEF Live, Calling
  <2>2. CASE u # t
    <3>1. flushed'[u] = flushed[u] /\ Live(u) /\ Live(flushed[u]) /\ flushed[u] \in Tags
      BY <1>2, <1>7, <2>2 DEF Owners, TypeOK
    <3>2. flushed[u] # t /\ flushed[u] # r
      BY <1>1, <1>7, <3>1 DEF Owners
    <3>3. QED
      BY <1>2, <1>3, <1>7, <2>2, <3>1, <3>2 DEF Owners, Live, Calling
  <2>3. QED
    BY <2>1, <2>2
<1>8. QED
  BY <1>1, <1>4, <1>6, <1>7 DEF Owners

(* p frees its Mntrpc, and goes on with what that flushed, if anything     *)
LEMMA GivenBack ==
  ASSUME TypeOK, FreeList, Owners, NEW p \in Procs, Calling(p), Mntfree(cur[p]),
         cur' = [cur EXCEPT ![p] = flushed[cur[p]]],
         Calling(p)' => flushed[cur[p]] # None,
         \A q \in Procs : q # p => pc'[q] = pc[q]
  PROVE  FreeList' /\ Owners'
<1> DEFINE t == cur[p]
<1>0. t \in Tags /\ Live(t) /\ flushed[t] \in Tags \cup {None} /\ flushed[t] # t
  BY NoneIsNil DEF Owners, TypeOK
<1>1. /\ FreeList' /\ id' = [id EXCEPT ![t] = 0]
      /\ flushed' = [flushed EXCEPT ![t] = None]
  BY <1>0, Freed
<1>2. (\A u \in Tags : u # t => id'[u] = id[u])
      /\ flushed'[t] = None /\ \A u \in Tags : u # t => flushed'[u] = flushed[u]
  BY <1>0, <1>1 DEF TypeOK
<1>3. cur'[p] = flushed[t] /\ \A q \in Procs : q # p => cur'[q] = cur[q]
  BY DEF TypeOK
<1>4. \A q \in Procs : q # p /\ Calling(q) => cur[q] # t /\ cur[q] \in Tags /\ Live(cur[q])
  BY DEF Owners
<1>5. flushed[t] # None => /\ flushed[t] \in Tags /\ Live(flushed[t])
                           /\ \A q \in Procs : Calling(q) => cur[q] # flushed[t]
                           /\ \A u \in Tags : flushed[u] = flushed[t] => u = t
  BY <1>0 DEF Owners
<1>6. \A q \in Procs : Calling(q)' => cur'[q] \in Tags /\ Live(cur[q])'
  BY <1>0, <1>2, <1>3, <1>4, <1>5 DEF Live, Calling
<1>7. \A q, s \in Procs : Calling(q)' /\ Calling(s)' /\ cur'[q] = cur'[s] => q = s
  BY <1>3, <1>5 DEF Owners, Calling
<1>8. ASSUME NEW u \in Tags, flushed'[u] # None
      PROVE  /\ Live(u)' /\ Live(flushed[u])'
             /\ \A v \in Tags : flushed'[v] = flushed'[u] => v = u
             /\ \A q \in Procs : Calling(q)' => cur'[q] # flushed'[u]
  <2>1. u # t /\ flushed'[u] = flushed[u]
    BY <1>2, <1>8
  <2>2. /\ Live(u) /\ Live(flushed[u]) /\ flushed[u] \in Tags /\ flushed[u] # t
        /\ \A v \in Tags : flushed[v] = flushed[u] => v = u
        /\ \A q \in Procs : Calling(q) => cur[q] # flushed[u]
    BY <1>8, <2>1 DEF Owners, TypeOK
  <2>3. flushed[u] # flushed[t]
    BY <1>0, <2>1, <2>2
  <2>4. QED
    BY <1>2, <1>3, <1>8, <2>1, <2>2, <2>3 DEF Live, Calling
<1>9. QED
  BY <1>1, <1>6, <1>7, <1>8 DEF Owners

(* every step leaves each Mntrpc in use with one process *)
LEMMA OwnersKept ==
  ASSUME TypeOK, FreeList, Owners, [Next]_vars
  PROVE  FreeList' /\ Owners'
<1>1. ASSUME NEW p \in Procs, Call(p) PROVE FreeList' /\ Owners'
  <2>1. PICK t \in Tags : Mntralloc(t, None, None) /\ cur' = [cur EXCEPT ![p] = t]
    BY <1>1 DEF Call
  <2>2. ~ Calling(p) /\ \A q \in Procs : q # p => pc'[q] = pc[q]
    BY <1>1, Went DEF Call, PC, Calling
  <2>3. QED
    BY <2>1, <2>2, Given
<1>2. ASSUME NEW p \in Procs, ErrorFlush(p) PROVE FreeList' /\ Owners'
  <2>1. Calling(p) /\ \A q \in Procs : q # p => pc'[q] = pc[q]
    BY <1>2, Went DEF ErrorFlush, PC, Calling
  <2>2. cur[p] \in Tags
    BY <2>1 DEF Owners
  <2>3. PICK t \in Tags, old \in Tags \cup {None} :
          Mntralloc(t, cur[p], old) /\ cur' = [cur EXCEPT ![p] = t]
    BY <1>2, <2>2 DEF ErrorFlush, TypeOK
  <2>4. QED
    BY <2>1, <2>2, <2>3, Given
<1>3. ASSUME NEW p \in Procs, FreeNext(p) \/ Return(p) PROVE FreeList' /\ Owners'
  <2>1. /\ Calling(p) /\ \A q \in Procs : q # p => pc'[q] = pc[q]
        /\ Calling(p)' => FreeNext(p)
    BY <1>3, Went DEF FreeNext, Return, PC, Calling
  <2>2. /\ Mntfree(cur[p]) /\ cur' = [cur EXCEPT ![p] = flushed[cur[p]]]
        /\ FreeNext(p) => flushed[cur[p]] # None
    BY <1>3 DEF FreeNext, Return
  <2>3. QED
    BY <2>1, <2>2, GivenBack
<1>4. ASSUME NEW p \in Procs,
             \/ Enqueue(p) \/ Send(p) \/ SendFails(p) \/ SendInterrupted(p)
             \/ GateEnter(p) \/ GateShut(p) \/ Sleep(p) \/ Awake(p) \/ ErrorDead(p)
             \/ Read(p) \/ ReadFails(p) \/ ReadInterrupted(p) \/ Mux(p)
             \/ FreeTest(p) \/ FreeRemove(p)
      PROVE  FreeList' /\ Owners'
  <2>1. PICK from \in PC \ {"idle"}, to \in PC \ {"idle"} : Goto(p, from, to)
    BY <1>4 DEF Enqueue, Send, SendFails, SendInterrupted, GateEnter, GateShut, Sleep, Awake,
       ErrorDead, Read, ReadFails, ReadInterrupted, Raise, Mux, FreeTest, FreeRemove, PC
  <2>2. UNCHANGED <<rpcs, cur>>
    BY <1>4 DEF Enqueue, Send, SendFails, SendInterrupted, GateEnter, GateShut, Sleep, Awake,
       ErrorDead, Read, ReadFails, ReadInterrupted, Raise, Mux, FreeTest, FreeRemove
  <2>3. \A q \in Procs : (pc[q] = "idle") <=> (pc'[q] = "idle")
    BY <2>1, Went
  <2>4. QED
    BY <2>2, <2>3, Steady
<1>5. ASSUME NEW p \in Procs, MuxWake(p) PROVE FreeList' /\ Owners'
  <2>1. \A q \in Procs : (pc[q] = "idle") <=> (pc'[q] = "idle")
    BY <1>5, Woke DEF MuxWake, PC
  <2>2. QED
    BY <1>5, <2>1, Steady DEF MuxWake
<1>6. ASSUME NEW p \in Procs, GateOut(p) \/ ErrorGate(p) PROVE FreeList' /\ Owners'
  <2>1. PICK from \in PC \ {"idle"}, to \in PC \ {"idle"} : Gate(p, from, to)
    BY <1>6 DEF GateOut, ErrorGate, PC
  <2>2. /\ \A q \in Procs : (pc[q] = "idle") <=> (pc'[q] = "idle")
        /\ UNCHANGED <<rpcs, cur>>
    BY <2>1, Gated
  <2>3. QED
    BY <2>2, Steady
<1>7. CASE Serve \/ HangUp \/ Down \/ UNCHANGED vars
  BY <1>7, Steady DEF Serve, Answer, AnswerFlush, HangUp, Down, vars
<1>8. QED
  BY <1>1, <1>2, <1>3, <1>4, <1>5, <1>6, <1>7 DEF Next, Step
-----------------------------------------------------------------------------
(* the gate *)

(* a step of p that is neither to sleep nor to wake anybody, nor one of    *)
(* those that attend to the gate                                           *)
LEMMA Aside ==
  ASSUME TypeOK, TypeOK', Owners, Gates, NEW p \in Procs, UNCHANGED rip,
         \A q \in Procs : q # p => /\ pc'[q] = pc[q] /\ cur'[q] = cur[q] /\ msg'[q] = msg[q]
                                   /\ Calling(q) => done'[cur[q]] = done[cur[q]]
                                   /\ Calling(q) /\ InQueue(cur[q]) => InQueue(cur[q])',
         pc[p] \notin {"gate", "sleep", "awake", "muxwake"} \/ (rip # None /\ pc[p] # "muxwake"),
         pc'[p] # "asleep",
         pc'[p] \in {"read", "mux", "muxwake", "gateout"} => rip = p,
         pc'[p] \in {"send", "gate", "sleep", "awake"} =>
           \/ InQueue(cur[p])'
           \/ pc[p] \in {"send", "gate", "sleep", "awake"} /\ UNCHANGED <<cur, queue, done>>
  PROVE  Gates'
<1>1. OneReader'
  BY DEF Gates, OneReader
<1>2. Queued'
  <2>1. ASSUME NEW q \in Procs, q # p,
               pc'[q] \in {"send", "gate", "sleep", "asleep", "awake"}, ~ done'[cur'[q]]
        PROVE  InQueue(cur[q])'
    BY <2>1 DEF Gates, Queued, Calling, InQueue
  <2>2. ASSUME pc'[p] \in {"send", "gate", "sleep", "asleep", "awake"}, ~ done'[cur'[p]]
        PROVE  InQueue(cur[p])'
    BY <2>2 DEF Gates, Queued, InQueue
  <2>3. QED
    BY <2>1, <2>2 DEF Queued
<1>3. SleepersAreAttended'
  <2> SUFFICES ASSUME NEW s \in Procs, pc'[s] = "asleep"
               PROVE  /\ rip' # None \/ \E q \in Procs :
                           pc'[q] = "gate" \/ (pc'[q] \in {"sleep", "awake"} /\ ~ done'[cur'[q]])
                      /\ done'[cur'[s]] =>
                           \E q \in Procs : pc'[q] = "muxwake" /\ msg'[q].tag = cur'[s]
    BY DEF SleepersAreAttended
  <2>1. s # p /\ pc[s] = "asleep" /\ cur'[s] = cur[s] /\ done'[cur[s]] = done[cur[s]]
    BY DEF Calling
  <2>2. ASSUME rip = None
        PROVE  \E q \in Procs : pc'[q] = "gate" \/ (pc'[q] \in {"sleep", "awake"} /\ ~ done'[cur'[q]])
    <3>0. SleepersAreAttended
      BY DEF Gates
    <3>1. PICK q \in Procs : pc[q] = "gate" \/ (pc[q] \in {"sleep", "awake"} /\ ~ done[cur[q]])
      BY <2>1, <2>2, <3>0, Zenon DEF SleepersAreAttended
    <3>2. q # p
      BY <2>2, <3>1
    <3>3. QED
      BY <3>1, <3>2 DEF Calling
  <2>3. ASSUME done'[cur'[s]]
        PROVE  \E q \in Procs : pc'[q] = "muxwake" /\ msg'[q].tag = cur'[s]
    <3>1. PICK q \in Procs : pc[q] = "muxwake" /\ msg[q].tag = cur[s]
      BY <2>1, <2>3 DEF Gates, SleepersAreAttended
    <3>2. q # p
      BY <3>1
    <3>3. QED
      BY <2>1, <3>1, <3>2
  <2>4. QED
    BY <2>2, <2>3
<1>4. QED
  BY <1>1, <1>2, <1>3 DEF Gates

(* every step leaves one reader, and every sleeper attended to *)
LEMMA GatesKept ==
  ASSUME TypeOK, TypeOK', FreeList, Owners, Gates, [Next]_vars
  PROVE  Gates'
<1>0. \A p \in Procs : Calling(p) => cur[p] \in Tags /\ Live(cur[p])
  BY DEF Owners
<1>1. ASSUME NEW p \in Procs, Call(p) \/ ErrorFlush(p) PROVE Gates'
  <2>1. PICK t \in Tags, fl \in Tags \cup {None}, old \in Tags \cup {None} :
          Mntralloc(t, fl, old) /\ cur' = [cur EXCEPT ![p] = t]
    BY <1>0, <1>1 DEF Call, ErrorFlush, Goto, Calling, TypeOK
  <2>2. /\ pc[p] \in {"idle", "error"} /\ pc'[p] = "enqueue"
        /\ \A q \in Procs : q # p => pc'[q] = pc[q]
    BY <1>1, Went DEF Call, ErrorFlush, PC
  <2>3. ~ Live(t) /\ done' = [done EXCEPT ![t] = FALSE] /\ UNCHANGED <<queue, rip, msg>>
    BY <1>1, <2>1, Allocated DEF Call, ErrorFlush
  <2>4. \A q \in Procs : q # p /\ Calling(q) => cur[q] # t
    BY <1>0, <2>3
  <2>5. \A q \in Procs : q # p => /\ cur'[q] = cur[q]
                                  /\ Calling(q) => done'[cur[q]] = done[cur[q]]
    BY <1>0, <2>1, <2>3, <2>4 DEF TypeOK
  <2>6. \A q \in Procs : q # p =>
          /\ pc'[q] = pc[q] /\ cur'[q] = cur[q] /\ msg'[q] = msg[q]
          /\ Calling(q) => done'[cur[q]] = done[cur[q]]
          /\ Calling(q) /\ InQueue(cur[q]) => InQueue(cur[q])'
    BY <2>2, <2>3, <2>5 DEF InQueue
  <2>7. /\ UNCHANGED rip
        /\ pc[p] \notin {"gate", "sleep", "awake", "muxwake"} /\ pc'[p] # "asleep"
        /\ pc'[p] \notin {"read", "mux", "muxwake", "gateout"}
        /\ pc'[p] \notin {"send", "gate", "sleep", "awake"}
    BY <2>2, <2>3
  <2>8. QED
    BY <2>6, <2>7, Aside
<1>2. ASSUME NEW p \in Procs, FreeNext(p) \/ Return(p) PROVE Gates'
  <2>1. /\ pc[p] = "freenext" /\ pc'[p] \in {"free", "idle"}
        /\ \A q \in Procs : q # p => pc'[q] = pc[q]
    BY <1>2, Went DEF FreeNext, Return, PC
  <2>2. Calling(p) /\ cur[p] \in Tags /\ Live(cur[p])
    BY <1>0, <2>1 DEF Calling
  <2>3. /\ done' = [done EXCEPT ![cur[p]] = FALSE] /\ UNCHANGED <<queue, rip, msg>>
        /\ \A q \in Procs : q # p => cur'[q] = cur[q]
    BY <1>2, <2>2, Freed DEF FreeNext, Return, TypeOK
  <2>4. \A q \in Procs : q # p /\ Calling(q) => cur[q] # cur[p]
    BY <2>2 DEF Owners
  <2>5. \A q \in Procs : q # p /\ Calling(q) => done'[cur[q]] = done[cur[q]]
    BY <1>0, <2>3, <2>4 DEF TypeOK
  <2>6. QED
    BY <2>1, <2>3, <2>5, Aside DEF InQueue
<1>3. ASSUME NEW p \in Procs, Enqueue(p) PROVE Gates'
  <2>1. /\ pc[p] = "enqueue" /\ pc'[p] = "send"
        /\ \A q \in Procs : q # p => pc'[q] = pc[q]
    BY <1>3, Went DEF Enqueue, PC
  <2>2. queue \in Seq(Tags) /\ cur[p] \in Tags /\ queue' = <<cur[p]>> \o queue
    BY <1>0, <1>3, <2>1 DEF Enqueue, TypeOK, Calling
  <2>3. /\ 1 \in DOMAIN queue' /\ queue'[1] = cur[p]
        /\ \A i \in DOMAIN queue : i + 1 \in DOMAIN queue' /\ queue'[i + 1] = queue[i]
    BY <2>2
  <2>4. UNCHANGED <<cur, rip, msg, done>>
    BY <1>3 DEF Enqueue
  <2>5. InQueue(cur[p])' /\ \A u : InQueue(u) => InQueue(u)'
    BY <2>3, <2>4 DEF InQueue
  <2>6. QED
    BY <2>1, <2>4, <2>5, Aside
<1>4. ASSUME NEW p \in Procs, Send(p) \/ SendFails(p) \/ SendInterrupted(p) PROVE Gates'
  <2>1. /\ pc[p] = "send" /\ pc'[p] \in {"gate", "error"}
        /\ \A q \in Procs : q # p => pc'[q] = pc[q]
    BY <1>4, Went DEF Send, SendFails, SendInterrupted, Raise, PC
  <2>2. UNCHANGED <<cur, rip, msg, done, queue>>
    BY <1>4 DEF Send, SendFails, SendInterrupted, Raise
  <2>3. QED
    BY <2>1, <2>2, Aside DEF InQueue
<1>5. ASSUME NEW p \in Procs, Read(p) PROVE Gates'
  <2>1. /\ pc[p] = "read" /\ pc'[p] = "mux" /\ rip = p
        /\ \A q \in Procs : q # p => pc'[q] = pc[q]
    BY <1>5, Went DEF Read, PC, Gates, OneReader
  <2>2. /\ UNCHANGED <<cur, rip, done, queue>>
        /\ \A q \in Procs : q # p => msg'[q] = msg[q]
    BY <1>5 DEF Read, TypeOK
  <2>3. QED
    BY <2>1, <2>2, Aside DEF InQueue
<1>6. ASSUME NEW p \in Procs, ReadFails(p) \/ ReadInterrupted(p) \/ ErrorDead(p) \/ FreeTest(p)
      PROVE  Gates'
  <2>1. /\ pc[p] \in {"read", "error", "free"} /\ pc'[p] \in {"error", "free", "freerm", "freenext"}
        /\ \A q \in Procs : q # p => pc'[q] = pc[q]
    BY <1>6, Went DEF ReadFails, ReadInterrupted, Raise, ErrorDead, FreeTest, PC
  <2>2. UNCHANGED <<cur, rip, msg, done, queue>>
    BY <1>6 DEF ReadFails, ReadInterrupted, Raise, ErrorDead, FreeTest
  <2>3. QED
    BY <2>1, <2>2, Aside DEF InQueue
<1>7. ASSUME NEW p \in Procs, FreeRemove(p) PROVE Gates'
  <2>1. /\ pc[p] = "freerm" /\ pc'[p] = "freenext"
        /\ \A q \in Procs : q # p => pc'[q] = pc[q]
    BY <1>7, Went DEF FreeRemove, PC
  <2>2. /\ UNCHANGED <<cur, rip, msg>> /\ done' = [done EXCEPT ![cur[p]] = TRUE]
        /\ \A u : u # cur[p] /\ InQueue(u) => InQueue(u)'
    BY <1>7, Unlinked DEF FreeRemove
  <2>3. \A q \in Procs : q # p /\ Calling(q) => cur[q] # cur[p]
    BY <2>1 DEF Owners, Calling
  <2>4. \A q \in Procs : q # p /\ Calling(q) => done'[cur[q]] = done[cur[q]]
    BY <1>0, <2>2, <2>3 DEF TypeOK
  <2>5. QED
    BY <2>1, <2>2, <2>3, <2>4, Aside
<1>8. ASSUME NEW p \in Procs, GateShut(p) PROVE Gates'
  <2>1. /\ pc[p] = "gate" /\ pc'[p] = "sleep"
        /\ \A q \in Procs : q # p => pc'[q] = pc[q]
    BY <1>8, Went DEF GateShut, PC
  <2>2. UNCHANGED <<cur, rip, msg, done, queue>> /\ rip # None
    BY <1>8 DEF GateShut
  <2>3. QED
    BY <2>1, <2>2, Aside DEF InQueue
<1>9. ASSUME NEW p \in Procs, GateEnter(p) PROVE Gates'
  <2>1. /\ pc[p] = "gate" /\ pc'[p] \in {"read", "gateout"}
        /\ \A q \in Procs : q # p => pc'[q] = pc[q]
    BY <1>9, Went DEF GateEnter, PC
  <2>2. UNCHANGED <<cur, msg, done, queue>> /\ rip = None /\ rip' = p /\ p # None
    BY <1>9, NoneIsNil DEF GateEnter
  <2>3. OneReader' /\ Queued'
    BY <2>1, <2>2, NoneIsNil DEF Gates, OneReader, Queued, InQueue
  <2>4. SleepersAreAttended'
    BY <2>1, <2>2 DEF Gates, SleepersAreAttended
  <2>5. QED
    BY <2>3, <2>4 DEF Gates
<1>10. ASSUME NEW p \in Procs, Sleep(p) \/ Awake(p) PROVE Gates'
  <2>1. /\ pc[p] = "sleep" => pc'[p] = IF done[cur[p]] \/ rip = None THEN "awake" ELSE "asleep"
        /\ pc[p] # "sleep" => pc[p] = "awake" /\ pc'[p] = IF done[cur[p]] THEN "free" ELSE "gate"
        /\ \A q \in Procs : q # p => pc'[q] = pc[q]
    BY <1>10, Went DEF Sleep, Awake, PC
  <2>2. UNCHANGED <<cur, rip, msg, done, queue>>
    BY <1>10 DEF Sleep, Awake
  <2>3. OneReader' /\ Queued'
    BY <2>1, <2>2 DEF Gates, OneReader, Queued, InQueue
  <2>4. SleepersAreAttended'
    <3> SUFFICES ASSUME NEW s \in Procs, pc'[s] = "asleep"
                 PROVE  /\ rip' # None \/ \E q \in Procs :
                             pc'[q] = "gate" \/ (pc'[q] \in {"sleep", "awake"} /\ ~ done'[cur'[q]])
                        /\ done'[cur'[s]] =>
                             \E q \in Procs : pc'[q] = "muxwake" /\ msg'[q].tag = cur'[s]
      BY DEF SleepersAreAttended
    <3>1. CASE s = p
      BY <2>1, <2>2, <3>1
    <3>2. CASE s # p
      <4>1. pc[s] = "asleep"
        BY <2>1, <3>2
      <4>2. rip # None \/ \E q \in Procs :
              pc[q] = "gate" \/ (pc[q] \in {"sleep", "awake"} /\ ~ done[cur[q]])
        BY <4>1, Zenon DEF Gates, SleepersAreAttended
      <4>3. rip' # None \/ \E q \in Procs :
              pc'[q] = "gate" \/ (pc'[q] \in {"sleep", "awake"} /\ ~ done'[cur'[q]])
        BY <2>1, <2>2, <4>2
      <4>4. done[cur[s]] => \E q \in Procs : pc[q] = "muxwake" /\ msg[q].tag = cur[s]
        BY <4>1, Zenon DEF Gates, SleepersAreAttended
      <4>5. done'[cur'[s]] => \E q \in Procs : pc'[q] = "muxwake" /\ msg'[q].tag = cur'[s]
        BY <2>1, <2>2, <4>4
      <4>6. QED
        BY <4>3, <4>5
    <3>3. QED
      BY <3>1, <3>2
  <2>5. QED
    BY <2>3, <2>4 DEF Gates
<1>11. ASSUME NEW p \in Procs, Mux(p) PROVE Gates'
  <2> DEFINE t == msg[p].tag
  <2>1. /\ pc[p] = "mux" /\ rip = p /\ rip' = p /\ p # None /\ UNCHANGED cur
        /\ pc'[p] = IF ~ InQueue(t) THEN "read" ELSE IF t = cur[p] THEN "gateout" ELSE "muxwake"
        /\ \A q \in Procs : q # p => pc'[q] = pc[q]
    BY <1>11, Went, NoneIsNil DEF Mux, PC, Gates, OneReader
  <2>2. /\ t \in Tags
        /\ \A u \in Tags : u # t => done'[u] = done[u]
        /\ InQueue(t) => done'[t] /\ (t # cur[p] => msg'[p].tag = t)
        /\ ~ InQueue(t) => UNCHANGED done
        /\ \A q \in Procs : q # p => msg'[q] = msg[q]
    BY <1>11, <2>1 DEF Mux, TypeOK, Requests
  <2>3. \A u : u # t /\ InQueue(u) => InQueue(u)'
    BY <1>11, Unlinked DEF Mux
  <2>4. OneReader'
    BY <2>1 DEF Gates, OneReader
  <2>5. Queued'
    <3> SUFFICES ASSUME NEW q \in Procs, ~ done'[cur'[q]],
                        pc'[q] \in {"send", "gate", "sleep", "asleep", "awake"}
                 PROVE  InQueue(cur[q])'
      BY DEF Queued
    <3>1. q # p /\ pc[q] = pc'[q] /\ cur[q] \in Tags /\ cur'[q] = cur[q]
      BY <1>0, <2>1 DEF Calling
    <3>2. ~ done[cur[q]]
      BY <2>2, <3>1 DEF TypeOK
    <3>3. InQueue(cur[q])
      BY <3>1, <3>2 DEF Gates, Queued
    <3>4. QED
      BY <2>2, <2>3, <3>1, <3>3
  <2>6. SleepersAreAttended'
    <3> SUFFICES ASSUME NEW s \in Procs, pc'[s] = "asleep", done'[cur'[s]]
                 PROVE  \E q \in Procs : pc'[q] = "muxwake" /\ msg'[q].tag = cur'[s]
      BY <2>1 DEF SleepersAreAttended
    <3>1. s # p /\ pc[s] = "asleep" /\ cur[s] \in Tags /\ cur'[s] = cur[s]
      BY <1>0, <2>1 DEF Calling
    <3>2. ~ done[cur[s]]
      BY <2>1, <3>1 DEF Gates, SleepersAreAttended, OneReader
    <3>3. InQueue(t) /\ t = cur[s] /\ t # cur[p]
      BY <2>1, <2>2, <3>1, <3>2 DEF Owners, Calling
    <3>4. QED
      BY <2>1, <2>2, <3>1, <3>3
  <2>7. QED
    BY <2>4, <2>5, <2>6 DEF Gates
<1>12. ASSUME NEW p \in Procs, MuxWake(p) PROVE Gates'
  <2> DEFINE t == msg[p].tag
  <2>1. /\ pc[p] = "muxwake" /\ pc'[p] = "read" /\ rip = p /\ rip' = p /\ p # None
        /\ UNCHANGED <<cur, done, queue>>
        /\ \A q \in Procs : q # p =>
             pc'[q] = IF pc[q] = "asleep" /\ cur[q] = t THEN "awake" ELSE pc[q]
    BY <1>12, Woke, NoneIsNil DEF MuxWake, PC, Gates, OneReader
  <2>2. OneReader' /\ Queued'
    BY <2>1 DEF Gates, OneReader, Queued, InQueue
  <2>3. SleepersAreAttended'
    <3> SUFFICES ASSUME NEW s \in Procs, pc'[s] = "asleep", done'[cur'[s]]
                 PROVE  FALSE
      BY <2>1 DEF SleepersAreAttended
    <3>1. s # p /\ pc[s] = "asleep" /\ cur[s] # t /\ done[cur[s]]
      BY <2>1
    <3>2. \E q \in Procs : pc[q] = "muxwake" /\ msg[q].tag = cur[s]
      BY <3>1, Zenon DEF Gates, SleepersAreAttended
    <3>3. QED
      BY <2>1, <3>1, <3>2 DEF Gates, OneReader
  <2>4. QED
    BY <2>2, <2>3 DEF Gates
<1>13. ASSUME NEW p \in Procs, GateOut(p) \/ ErrorGate(p) PROVE Gates'
  <2>1. PICK from \in {"gateout", "error"}, to \in {"free", "error"} : Gate(p, from, to)
    BY <1>13 DEF GateOut, ErrorGate
  <2>2. /\ pc[p] = from /\ pc'[p] = to
        /\ \A q \in Procs : q # p => pc'[q] = pc[q] \/ (pc[q] = "asleep" /\ pc'[q] = "awake")
        /\ rip' = None
        /\ UNCHANGED <<queue, done, cur, msg>>
    BY <2>1, Gated DEF PC
  <2>3. rip = p
    <3>1. CASE ErrorGate(p)
      BY <3>1 DEF ErrorGate
    <3>2. CASE GateOut(p)
      BY <3>2, Gated DEF GateOut, PC, Gates, OneReader
    <3>3. QED
      BY <1>13, <3>1, <3>2
  <2>4. OneReader'
    BY <2>2, <2>3 DEF Gates, OneReader
  <2>5. Queued'
    BY <2>2 DEF Gates, Queued, InQueue
  <2>6. ASSUME NEW s \in Procs, pc[s] = "asleep"
        PROVE  ~ done[cur[s]] /\ \E i \in DOMAIN queue : queue[i] = cur[s]
    <3>1. ~ done[cur[s]]
      BY <2>2, <2>3, <2>6 DEF Gates, SleepersAreAttended, OneReader
    <3>2. QED
      BY <2>6, <3>1 DEF Gates, Queued, InQueue
  <2>7. ASSUME NEW s \in Procs, pc'[s] = "asleep"
        PROVE  /\ ~ done'[cur'[s]]
               /\ \E q \in Procs : pc'[q] \in {"sleep", "awake"} /\ ~ done'[cur'[q]]
    <3>1. pc[s] = "asleep"
      BY <2>1, <2>2, <2>7
    <3>2. \E i \in DOMAIN queue : /\ ~ done[queue[i]]
                                  /\ \E q \in Procs : pc[q] = "asleep" /\ cur[q] = queue[i]
      BY <2>6, <3>1
    <3>3. PICK i \in DOMAIN queue :
            /\ ~ done[queue[i]] /\ \E q \in Procs : pc[q] = "asleep" /\ cur[q] = queue[i]
            /\ Wakeup(queue[i], p, from, to)
      BY <2>1, <3>2 DEF Gate
    <3>4. PICK q \in Procs : pc[q] = "asleep" /\ cur[q] = queue[i]
      BY <3>3
    <3>5. q # p /\ pc'[q] = "awake"
      BY <2>1, <2>2, <3>3, <3>4, Woke DEF PC
    <3>6. QED
      BY <2>2, <2>6, <3>1, <3>3, <3>4, <3>5
  <2>8. SleepersAreAttended'
    BY <2>7 DEF SleepersAreAttended
  <2>9. QED
    BY <2>4, <2>5, <2>8 DEF Gates
<1>14. CASE Serve \/ HangUp \/ Down \/ UNCHANGED vars
  BY <1>14 DEF Serve, Answer, AnswerFlush, HangUp, Down, vars, Gates, OneReader, Queued, InQueue,
     SleepersAreAttended
<1>15. QED
  BY <1>1, <1>2, <1>3, <1>4, <1>5, <1>6, <1>7, <1>8, <1>9, <1>10, <1>11, <1>12, <1>13, <1>14
  DEF Next, Step
-----------------------------------------------------------------------------
(* nothing is allocated, nobody calls *)
LEMMA Initially == Init => Inv
<1> SUFFICES ASSUME Init PROVE Inv
  OBVIOUS
<1>1. <<>> \in Seq(Tags) /\ <<>> \in Seq(Requests)
  OBVIOUS
<1>2. TypeOK
  BY <1>1 DEF Init, TypeOK, PC
<1>3. FreeList /\ Owners
  BY DEF Init, FreeList, Owners, Live, Calling
<1>4. Gates
  BY DEF Init, Gates, OneReader, Queued, SleepersAreAttended
<1>5. QED
  BY <1>2, <1>3, <1>4 DEF Inv

(* Inv is inductive *)
LEMMA Kept == Inv /\ [Next]_vars => Inv'
BY TypesKept, OwnersKept, GatesKept DEF Inv

(* Inv holds in every reachable state. *)
THEOREM Invariance == Spec => []Inv
BY Initially, Kept, PTL DEF Spec

(* The variables have their types: what is in the queue is a tag, who      *)
(* takes a message apart has one.                                          *)
THEOREM Typed == Spec => []TypeOK
BY Invariance, PTL DEF Inv

(* A Mntrpc that mntralloc has given out is the r of one call, or waits to *)
(* be freed by it, and it is not on mntalloc.rpcfree.                      *)
THEOREM Exclusive == Spec => [](FreeList /\ Owners)
BY Invariance, PTL DEF Inv

(* One process at a time takes messages apart, and it is m->rip.           *)
THEOREM ReadersTakeTurns == Spec => []OneReader
<1>1. Inv => OneReader
  BY DEF Inv, Gates
<1>2. QED
  BY <1>1, Invariance, PTL

(* Whoever sleeps for a reply is answered and about to be woken, or        *)
(* somebody reads, or is about to look at the open gate.                   *)
THEOREM NobodyIsForgotten == Spec => []SleepersAreAttended
<1>1. Inv => SleepersAreAttended
  BY DEF Inv, Gates
<1>2. QED
  BY <1>1, Invariance, PTL

-----------------------------------------------------------------------------
(* Second part: no tag is reused while anything may come for it, and the   *)
(* reply that a call returns with is its own.                              *)

(* The flushes of one request are one chain, the youngest first, and it is *)
(* the r of its process that is the youngest.                              *)
Ids ==
  \A t \in Tags : /\ id[t] <= ids
                  /\ \A u \in Tags : Live(t) /\ id[u] = id[t] => u = t
                  /\ oldtag[t] # None <=> flushed[t] # None

Chains ==
  \A t \in Tags : oldtag[t] # None =>
    /\ Live(oldtag[t]) /\ oldtag[oldtag[t]] = None
    /\ id[flushed[t]] < id[t]
    /\ flushed[t] = oldtag[t] \/ oldtag[flushed[t]] = oldtag[t]
    /\ \A u \in Tags : oldtag[u] = oldtag[t] /\ id[u] < id[t] =>
         oldtag[flushed[t]] = oldtag[t] /\ id[u] <= id[flushed[t]]
    /\ \A p \in Procs : Calling(p) =>
         /\ oldtag[t] # cur[p]
         /\ oldtag[t] = oldtag[cur[p]] => id[t] <= id[cur[p]]

(* Who has been answered while it had the gate is done.                    *)
GateOuts == \A p \in Procs : pc[p] = "gateout" => done[cur[p]]

(* the requests and answers that are at the server, on the way back, or in *)
(* the hands of the reader                                                 *)
OnTheWay(m) ==
  \/ m \in srv
  \/ \E i \in DOMAIN in : in[i] = m
  \/ \E p \in Procs : pc[p] = "mux" /\ msg[p] = m

(* what cannot come after the answer to the flush f: its request, and      *)
(* earlier flushes of it                                                   *)
Older(m, f) == f.old # None /\ (m.tag = f.old \/ (m.old = f.old /\ m.id < f.id))

(* nothing comes for t any more, nor for what t flushes                    *)
Over(t) == \A m \in Requests : OnTheWay(m) => m.tag # t /\ ~ Older(m, Request(t))

(* Each message is what its tag stands for now, and the only one of its    *)
(* tag, and after an answer to a flush nothing comes that is older.        *)
Current == \A m \in Requests : OnTheWay(m) => m.id # 0 /\ m = Request(m.tag)

Ordered ==
  /\ \A i \in DOMAIN in :
       /\ \A j \in DOMAIN in : in[i].tag = in[j].tag => i = j
       /\ \A j \in DOMAIN in : i < j => ~ Older(in[j], in[i])
       /\ \A m \in srv : in[i].tag # m.tag /\ ~ Older(m, in[i])
  /\ \A p \in Procs : pc[p] = "mux" =>
       /\ \A m \in srv : m.tag # msg[p].tag /\ ~ Older(m, msg[p])
       /\ \A i \in DOMAIN in : in[i].tag # msg[p].tag /\ ~ Older(in[i], msg[p])

(* A request that has not been sent is not on the way; one that is done,   *)
(* or given up, is over.                                                   *)
Unsent ==
  \A p \in Procs : pc[p] \in {"enqueue", "send"} =>
    ~ done[cur[p]] /\ \A m \in Requests : OnTheWay(m) => m.tag # cur[p]

Answered ==
  /\ \A t \in Tags : done[t] => Over(t)
  /\ \A p \in Procs : pc[p] \in {"free", "freerm", "freenext"} => Over(cur[p])
  /\ \A p \in Procs : why[p] = "dead" => \A m \in Requests : ~ OnTheWay(m)

Net ==
  /\ link = "up" => \A p \in Procs : why[p] # "dead"
  /\ link # "up" => srv = {}
  /\ link # "down" => Current /\ Ordered /\ Unsent /\ Answered

(* Once the transport is down a request may be given up with its answer on *)
(* the way.  No call that is made since then gets beyond its write.        *)
Committed == {"gate", "sleep", "asleep", "awake", "read", "mux", "muxwake", "gateout"}

Lateness ==
  /\ link # "down" => late = {}
  /\ \A t \in Tags \ late : flushed[t] # None => flushed[t] \notin late
  /\ \A p \in Procs : \/ pc[p] \in Committed
                      \/ pc[p] \in {"free", "freerm", "freenext"} /\ why[p] # "dead"
                      => cur[p] \notin late
  /\ \A t \in Tags \ late : Live(t) =>
       /\ reply[t] \in {None, id[t]}
       /\ \A m \in Requests : OnTheWay(m) /\ m.tag = t => m.id = id[t]

TagInv == Ids /\ Chains /\ GateOuts /\ Net /\ Lateness

-----------------------------------------------------------------------------
(* A step of p may touch the Mntrpcs in T, which are no other process's.   *)
Local(p, T) ==
  /\ \A t \in Tags \ T : /\ id'[t] = id[t] /\ oldtag'[t] = oldtag[t] /\ flushed'[t] = flushed[t]
                         /\ t \in late' <=> t \in late
  /\ \A q \in Procs \ {p} : /\ pc'[q] = pc[q] \/ (pc[q] = "asleep" /\ pc'[q] = "awake")
                            /\ cur'[q] = cur[q] /\ why'[q] = why[q]
                            /\ Calling(q) => cur[q] \in Tags \ T
  /\ link' = link

Quiet(p) ==
  \/ Enqueue(p) \/ Send(p) \/ SendFails(p) \/ SendInterrupted(p)
  \/ GateEnter(p) \/ GateShut(p) \/ Sleep(p) \/ Awake(p)
  \/ Read(p) \/ ReadFails(p) \/ ReadInterrupted(p) \/ Mux(p) \/ MuxWake(p) \/ GateOut(p)
  \/ ErrorGate(p) \/ ErrorDead(p) \/ FreeTest(p) \/ FreeRemove(p)

(* every other step of p touches no Mntrpc's tag, and nobody else's *)
LEMMA QuietIsLocal ==
  ASSUME Inv, NEW p \in Procs, Quiet(p)
  PROVE  Local(p, {}) /\ Calling(p) /\ Calling(p)' /\ UNCHANGED <<rpcs, cur>>
<1>0. TypeOK /\ \A q \in Procs : Calling(q) => cur[q] \in Tags
  BY DEF Inv, Owners
<1>1. ASSUME NEW from \in PC \ {"idle"}, NEW to \in PC \ {"idle"}, Goto(p, from, to)
      PROVE  /\ Calling(p) /\ Calling(p)'
             /\ \A q \in Procs \ {p} : pc'[q] = pc[q] \/ (pc[q] = "asleep" /\ pc'[q] = "awake")
  BY <1>0, <1>1, Went DEF Calling
<1>2. /\ Calling(p) /\ Calling(p)'
      /\ \A q \in Procs \ {p} : pc'[q] = pc[q] \/ (pc[q] = "asleep" /\ pc'[q] = "awake")
  <2>1. CASE MuxWake(p)
    BY <1>0, <2>1, Woke DEF MuxWake, PC, Calling
  <2>2. CASE GateOut(p) \/ ErrorGate(p)
    BY <1>0, <2>2, Gated DEF GateOut, ErrorGate, PC, Calling
  <2>3. CASE ~ (MuxWake(p) \/ GateOut(p) \/ ErrorGate(p))
    <3>1. PICK from \in PC \ {"idle"}, to \in PC \ {"idle"} : Goto(p, from, to)
      BY <2>3 DEF Quiet, Enqueue, Send, SendFails, SendInterrupted, GateEnter, GateShut, Sleep, Awake,
         ErrorDead, Read, ReadFails, ReadInterrupted, Raise, Mux, FreeTest, FreeRemove, PC
    <3>2. QED
      BY <1>1, <3>1
  <2>4. QED
    BY <2>1, <2>2, <2>3
<1>3. UNCHANGED <<rpcs, cur, link>>
  BY DEF Quiet, Enqueue, Send, SendFails, SendInterrupted, GateEnter, GateShut, Sleep, Awake,
     ErrorDead, Read, ReadFails, ReadInterrupted, Raise, Mux, MuxWake, FreeTest, FreeRemove,
     GateOut, ErrorGate, Gate, net
<1>4. \A q \in Procs \ {p} : why'[q] = why[q]
  BY <1>0 DEF Quiet, Enqueue, Send, SendFails, SendInterrupted, GateEnter, GateShut, Sleep, Awake,
     ErrorDead, Read, ReadFails, ReadInterrupted, Raise, Mux, MuxWake, FreeTest, FreeRemove,
     GateOut, ErrorGate, Gate, TypeOK
<1>5. QED
  BY <1>0, <1>2, <1>3, <1>4 DEF Local, rpcs

(* mntralloc: t is nobody's                                                *)
LEMMA GivingIsLocal ==
  ASSUME Inv, NEW p \in Procs, Call(p) \/ ErrorFlush(p)
  PROVE  \E t \in Tags, r \in Tags \cup {None}, old \in Tags \cup {None} :
           /\ Local(p, {t}) /\ ~ Live(t)
           /\ Call(p) => ~ Calling(p) /\ r = None /\ old = None
           /\ ErrorFlush(p) => /\ Calling(p) /\ r = cur[p]
                               /\ old = IF oldtag[r] = None THEN r ELSE oldtag[r]
           /\ pc'[p] = "enqueue" /\ cur'[p] = t
           /\ ids' = ids + 1 /\ id'[t] = ids + 1 /\ flushed'[t] = r /\ oldtag'[t] = old
           /\ done' = [done EXCEPT ![t] = FALSE] /\ reply' = [reply EXCEPT ![t] = None]
           /\ late' = IF link = "down" THEN late \cup {t} ELSE late
           /\ why'[p] \in {None, why[p]}
           /\ UNCHANGED <<srv, in, msg, link>>
<1>0. TypeOK /\ FreeList /\ \A q \in Procs : Calling(q) => cur[q] \in Tags /\ Live(cur[q])
  BY DEF Inv, Owners
<1>1. pc[p] \in {"idle", "error"} /\ pc'[p] = "enqueue" /\ \A q \in Procs : q # p => pc'[q] = pc[q]
  BY <1>0, Went DEF Call, ErrorFlush, PC
<1>2. PICK t \in Tags, r \in Tags \cup {None}, old \in Tags \cup {None} :
        /\ Call(p) => ~ Calling(p) /\ r = None /\ old = None
        /\ ErrorFlush(p) => /\ Calling(p) /\ r = cur[p]
                            /\ old = IF oldtag[r] = None THEN r ELSE oldtag[r]
        /\ Mntralloc(t, r, old) /\ cur' = [cur EXCEPT ![p] = t]
  <2>1. CASE Call(p)
    <3>1. ~ Calling(p) /\ ~ ErrorFlush(p)
      BY <2>1 DEF Call, ErrorFlush, Goto, Calling
    <3>2. QED
      BY <2>1, <3>1 DEF Call
  <2>2. CASE ErrorFlush(p)
    <3>1. Calling(p) /\ ~ Call(p) /\ cur[p] \in Tags
      BY <1>0, <2>2 DEF Call, ErrorFlush, Goto, Calling
    <3>2. (IF oldtag[cur[p]] = None THEN cur[p] ELSE oldtag[cur[p]]) \in Tags \cup {None}
      BY <1>0, <3>1 DEF TypeOK
    <3>3. QED
      BY <2>2, <3>1, <3>2 DEF ErrorFlush
  <2>3. QED
    BY <2>1, <2>2
<1>3. /\ ~ Live(t) /\ ids' = ids + 1 /\ id' = [id EXCEPT ![t] = ids + 1]
      /\ done' = [done EXCEPT ![t] = FALSE] /\ reply' = [reply EXCEPT ![t] = None]
      /\ flushed' = [flushed EXCEPT ![t] = r] /\ oldtag' = [oldtag EXCEPT ![t] = old]
      /\ late' = IF link = "down" THEN late \cup {t} ELSE late
  BY <1>0, <1>2, Allocated
<1>4. /\ UNCHANGED <<srv, in, msg, link>> /\ why'[p] \in {None, why[p]}
      /\ \A q \in Procs \ {p} : why'[q] = why[q]
  BY <1>0 DEF Call, ErrorFlush, net, TypeOK
<1>5. \A q \in Procs : Calling(q) => cur[q] \in Tags \ {t}
  BY <1>0, <1>3
<1>6. id'[t] = ids + 1 /\ flushed'[t] = r /\ oldtag'[t] = old /\ cur'[p] = t
  BY <1>0, <1>2, <1>3 DEF TypeOK
<1>7. Local(p, {t})
  BY <1>0, <1>1, <1>2, <1>3, <1>4, <1>5 DEF Local, TypeOK
<1>8. WITNESS t \in Tags, r \in Tags \cup {None}, old \in Tags \cup {None}
<1>9. QED
  BY <1>1, <1>2, <1>3, <1>4, <1>6, <1>7

(* mntfree *)
LEMMA FreeingIsLocal ==
  ASSUME Inv, NEW p \in Procs, FreeNext(p) \/ Return(p)
  PROVE  /\ Local(p, {cur[p]}) /\ Calling(p) /\ cur[p] \in Tags /\ Live(cur[p])
         /\ pc[p] = "freenext"
         /\ FreeNext(p) => pc'[p] = "free" /\ flushed[cur[p]] # None
         /\ Return(p) => ~ Calling(p)' /\ flushed[cur[p]] = None
         /\ cur'[p] = flushed[cur[p]]
         /\ ids' = ids /\ id'[cur[p]] = 0 /\ flushed'[cur[p]] = None /\ oldtag'[cur[p]] = None
         /\ done' = [done EXCEPT ![cur[p]] = FALSE] /\ reply' = [reply EXCEPT ![cur[p]] = None]
         /\ late' = late \ {cur[p]}
         /\ why'[p] \in {None, why[p]}
         /\ FreeNext(p) => why'[p] = why[p]
         /\ UNCHANGED <<srv, in, msg, link>>
<1> DEFINE t == cur[p]
<1>0. TypeOK /\ FreeList /\ \A q \in Procs : Calling(q) => cur[q] \in Tags /\ Live(cur[q])
  BY DEF Inv, Owners
<1>1. /\ pc[p] = "freenext" /\ \A q \in Procs : q # p => pc'[q] = pc[q]
      /\ FreeNext(p) => pc'[p] = "free"
      /\ Return(p) => pc'[p] = "idle"
  BY <1>0, Went DEF FreeNext, Return, PC
<1>2. Calling(p) /\ t \in Tags /\ Live(t) /\ Mntfree(t)
  BY <1>0, <1>1 DEF FreeNext, Return, Calling
<1>3. /\ ids' = ids /\ id' = [id EXCEPT ![t] = 0]
      /\ done' = [done EXCEPT ![t] = FALSE] /\ reply' = [reply EXCEPT ![t] = None]
      /\ flushed' = [flushed EXCEPT ![t] = None] /\ oldtag' = [oldtag EXCEPT ![t] = None]
      /\ late' = late \ {t}
  BY <1>0, <1>2, Freed
<1>4. /\ UNCHANGED <<srv, in, msg, link>> /\ why'[p] \in {None, why[p]}
      /\ FreeNext(p) => why'[p] = why[p] /\ flushed[t] # None
      /\ Return(p) => flushed[t] = None
      /\ cur' = [cur EXCEPT ![p] = flushed[t]]
      /\ \A q \in Procs \ {p} : why'[q] = why[q]
  BY <1>0 DEF FreeNext, Return, net, TypeOK
<1>5. \A q \in Procs \ {p} : Calling(q) => cur[q] \in Tags \ {t}
  BY <1>0, <1>2 DEF Inv, Owners
<1>6. id'[t] = 0 /\ flushed'[t] = None /\ oldtag'[t] = None /\ cur'[p] = flushed[t]
  BY <1>0, <1>2, <1>3, <1>4 DEF TypeOK
<1>7. Local(p, {t})
  BY <1>0, <1>1, <1>3, <1>4, <1>5 DEF Local, TypeOK
<1>8. QED
  BY <1>1, <1>2, <1>3, <1>4, <1>6, <1>7 DEF Calling
-----------------------------------------------------------------------------
(* chains of flushes *)
LEMMA ChainsKept ==
  ASSUME Inv, Ids, Chains, [Next]_vars
  PROVE  Ids' /\ Chains'
<1>0. /\ TypeOK /\ TypeOK' /\ Owners
      /\ \A q \in Procs : Calling(q) => cur[q] \in Tags /\ Live(cur[q])
  BY Kept DEF Inv, Owners
<1>1. ASSUME UNCHANGED <<rpcs, cur>>, \A q \in Procs : Calling(q)' => Calling(q)
      PROVE  Ids' /\ Chains'
  BY <1>1 DEF Ids, Chains, rpcs, Live
<1>2. ASSUME NEW p \in Procs, Call(p) \/ ErrorFlush(p) PROVE Ids' /\ Chains'
  <2>1. PICK t \in Tags, r \in Tags \cup {None}, old \in Tags \cup {None} :
           /\ Local(p, {t}) /\ ~ Live(t)
           /\ Call(p) => ~ Calling(p) /\ r = None /\ old = None
           /\ ErrorFlush(p) => /\ Calling(p) /\ r = cur[p]
                               /\ old = IF oldtag[r] = None THEN r ELSE oldtag[r]
           /\ pc'[p] = "enqueue" /\ cur'[p] = t
           /\ ids' = ids + 1 /\ id'[t] = ids + 1 /\ flushed'[t] = r /\ oldtag'[t] = old
    BY <1>2, GivingIsLocal
  <2>2. /\ id[t] = 0
        /\ \A u \in Tags : u # t => id'[u] = id[u] /\ oldtag'[u] = oldtag[u] /\ flushed'[u] = flushed[u]
        /\ \A q \in Procs : q # p => cur'[q] = cur[q] /\ (Calling(q)' <=> Calling(q))
        /\ \A q \in Procs : Calling(q) => cur[q] # t
    BY <1>0, <2>1 DEF Local, Calling, Live
  <2>3. /\ id \in [Tags -> Nat] /\ ids \in Nat
        /\ oldtag \in [Tags -> Tags \cup {None}] /\ flushed \in [Tags -> Tags \cup {None}]
    BY <1>0 DEF TypeOK
  <2>4. /\ r # None => /\ Calling(p) /\ r = cur[p] /\ r \in Tags /\ Live(r)
                       /\ old = IF oldtag[r] = None THEN r ELSE oldtag[r]
        /\ r = None => old = None
        /\ old # None <=> r # None
    BY <1>0, <1>2, <2>1, NoneIsNil
  <2>5. Ids'
    BY <2>1, <2>2, <2>3, <2>4 DEF Ids, Live
  <2>6. ASSUME r # None
        PROVE  /\ old \in Tags /\ Live(old) /\ oldtag[old] = None /\ old # t
               /\ id[r] <= ids
               /\ \A u \in Tags : oldtag[u] = old => oldtag[r] = old /\ id[u] <= id[r]
               /\ \A q \in Procs : q # p /\ Calling(q) => old # cur[q] /\ oldtag[cur[q]] # old
    <3>1. CASE oldtag[r] = None
      <4>1. old = r /\ \A u \in Tags : oldtag[u] # r
        BY <2>4, <2>6, <3>1, NoneIsNil DEF Chains
      <4>2. \A q \in Procs : q # p /\ Calling(q) => r # cur[q]
        BY <1>0, <2>4, <2>6 DEF Owners
      <4>3. QED
        BY <1>0, <2>2, <2>3, <2>4, <2>6, <3>1, <4>1, <4>2 DEF Ids, Live
    <3>2. CASE oldtag[r] # None
      <4>1. /\ old = oldtag[r] /\ Live(old) /\ oldtag[old] = None /\ old \in Tags
            /\ \A q \in Procs : Calling(q) =>
                 old # cur[q] /\ (oldtag[cur[q]] = old => id[r] <= id[cur[q]])
        BY <2>3, <2>4, <2>6, <3>2 DEF Chains
      <4>2. \A u \in Tags : oldtag[u] = old => id[u] <= id[r]
        BY <2>4, <2>6, <3>2, <4>1 DEF Chains
      <4>3. ASSUME NEW q \in Procs, q # p, Calling(q), oldtag[cur[q]] = old
            PROVE  FALSE
        <5>1. cur[q] \in Tags /\ Live(cur[q]) /\ id[cur[q]] = id[r]
          BY <1>0, <2>3, <2>4, <2>6, <4>1, <4>2, <4>3
        <5>2. cur[q] = r
          BY <2>4, <2>6, <5>1 DEF Ids
        <5>3. QED
          BY <2>4, <2>6, <4>3, <5>2 DEF Inv, Owners
      <4>4. QED
        BY <1>0, <2>2, <2>3, <2>4, <2>6, <4>1, <4>2, <4>3 DEF Ids, Live
    <3>3. QED
      BY <3>1, <3>2
  <2>7. ASSUME NEW v \in Tags, oldtag'[v] # None
        PROVE  /\ Live(oldtag[v])' /\ oldtag'[oldtag'[v]] = None
               /\ id'[flushed'[v]] < id'[v]
               /\ flushed'[v] = oldtag'[v] \/ oldtag'[flushed'[v]] = oldtag'[v]
               /\ \A u \in Tags : oldtag'[u] = oldtag'[v] /\ id'[u] < id'[v] =>
                    oldtag'[flushed'[v]] = oldtag'[v] /\ id'[u] <= id'[flushed'[v]]
               /\ \A q \in Procs : Calling(q)' =>
                    /\ oldtag'[v] # cur'[q]
                    /\ oldtag'[v] = oldtag'[cur'[q]] => id'[v] <= id'[cur'[q]]
    <3>1. CASE v = t
      <4>1. r # None /\ oldtag'[v] = old /\ flushed'[v] = r /\ r \in Tags /\ r # t
        BY <2>1, <2>2, <2>4, <2>7, <3>1
      <4>2. /\ id'[v] = ids + 1 /\ id'[r] = id[r] /\ id[r] <= ids
            /\ oldtag'[r] = oldtag[r] /\ old \in Tags /\ old # t
            /\ oldtag'[old] = None /\ id'[old] = id[old] /\ id[old] # 0
        BY <2>1, <2>2, <2>4, <2>6, <3>1, <4>1 DEF Live
      <4>3. r = old \/ oldtag[r] = old
        BY <2>4, <4>1
      <4>4. ASSUME NEW u \in Tags, oldtag'[u] = old, id'[u] < id'[v]
            PROVE  oldtag'[r] = old /\ id'[u] <= id'[r]
        BY <2>2, <2>3, <2>6, <3>1, <4>1, <4>2, <4>4
      <4>5. ASSUME NEW q \in Procs, Calling(q)'
            PROVE  old # cur'[q] /\ (old = oldtag'[cur'[q]] => id'[v] <= id'[cur'[q]])
        BY <1>0, <2>1, <2>2, <2>3, <2>6, <3>1, <4>1, <4>2, <4>5
      <4>6. QED
        BY <2>3, <4>1, <4>2, <4>3, <4>4, <4>5 DEF Live
    <3>2. CASE v # t
      <4>1. /\ oldtag'[v] = oldtag[v] /\ oldtag[v] # None /\ flushed'[v] = flushed[v]
            /\ id'[v] = id[v] /\ oldtag[v] \in Tags /\ flushed[v] \in Tags
            /\ Live(oldtag[v]) /\ Live(flushed[v])
        BY <1>0, <2>2, <2>3, <2>7, <3>2 DEF Chains, Ids, Owners
      <4>2. oldtag[v] # t /\ flushed[v] # t /\ id[v] <= ids
        BY <2>2, <4>1 DEF Live, Ids
      <4>3. /\ oldtag[oldtag[v]] = None
            /\ id[flushed[v]] < id[v]
            /\ flushed[v] = oldtag[v] \/ oldtag[flushed[v]] = oldtag[v]
            /\ \A u \in Tags : oldtag[u] = oldtag[v] /\ id[u] < id[v] =>
                 oldtag[flushed[v]] = oldtag[v] /\ id[u] <= id[flushed[v]]
            /\ \A q \in Procs : Calling(q) =>
                 /\ oldtag[v] # cur[q]
                 /\ oldtag[v] = oldtag[cur[q]] => id[v] <= id[cur[q]]
        BY <4>1 DEF Chains
      <4>4. \A u \in Tags : oldtag'[u] = oldtag'[v] /\ id'[u] < id'[v] =>
              oldtag'[flushed'[v]] = oldtag'[v] /\ id'[u] <= id'[flushed'[v]]
        BY <2>1, <2>2, <2>3, <4>1, <4>2, <4>3
      <4>5. \A q \in Procs : Calling(q)' =>
              /\ oldtag'[v] # cur'[q]
              /\ oldtag'[v] = oldtag'[cur'[q]] => id'[v] <= id'[cur'[q]]
        BY <2>1, <2>2, <2>3, <4>1, <4>2, <4>3, <1>0
      <4>6. QED
        BY <2>2, <4>1, <4>2, <4>3, <4>4, <4>5 DEF Live
    <3>3. QED
      BY <3>1, <3>2
  <2>8. QED
    BY <2>5, <2>7 DEF Chains
<1>3. ASSUME NEW p \in Procs, FreeNext(p) \/ Return(p) PROVE Ids' /\ Chains'
  <2> DEFINE t == cur[p]
             f == flushed[t]
  <2>1. /\ Local(p, {t}) /\ Calling(p) /\ t \in Tags /\ Live(t)
        /\ cur'[p] = f
        /\ Calling(p)' => f # None
        /\ ids' = ids /\ id'[t] = 0 /\ flushed'[t] = None /\ oldtag'[t] = None
    BY <1>3, FreeingIsLocal DEF Calling
  <2>2. /\ \A u \in Tags : u # t => id'[u] = id[u] /\ oldtag'[u] = oldtag[u] /\ flushed'[u] = flushed[u]
        /\ \A q \in Procs : q # p => cur'[q] = cur[q] /\ (Calling(q)' <=> Calling(q))
        /\ \A q \in Procs : q # p /\ Calling(q) => cur[q] # t /\ cur[q] \in Tags
    BY <1>0, <2>1 DEF Local, Calling
  <2>3. /\ id \in [Tags -> Nat] /\ ids \in Nat
        /\ oldtag \in [Tags -> Tags \cup {None}] /\ flushed \in [Tags -> Tags \cup {None}]
    BY <1>0 DEF TypeOK
  <2>4. Ids'
    BY <2>1, <2>2, <2>3 DEF Ids, Live
  <2>5. ASSUME NEW v \in Tags, v # t, oldtag[v] # None
        PROVE  /\ oldtag[v] \in Tags /\ oldtag[v] # t /\ flushed[v] \in Tags /\ flushed[v] # t
               /\ oldtag[v] = oldtag[t] => id[v] < id[t]
               /\ Live(v)
    <3>1. oldtag[v] \in Tags /\ oldtag[v] # t /\ (oldtag[v] = oldtag[t] => id[v] <= id[t])
      BY <2>1, <2>3, <2>5 DEF Chains
    <3>2. flushed[v] # None /\ flushed[v] \in Tags /\ flushed[v] # t /\ Live(v)
      BY <1>0, <2>1, <2>3, <2>5 DEF Ids, Owners
    <3>3. id[v] # id[t]
      BY <2>1, <2>5, <3>2 DEF Ids
    <3>4. QED
      BY <2>1, <2>3, <3>1, <3>2, <3>3
  <2>6. ASSUME NEW v \in Tags, v # t, oldtag[v] # None, f # None
        PROVE  oldtag[v] # f /\ (oldtag[v] = oldtag[f] => id[v] <= id[f])
    <3>1. /\ oldtag[t] # None /\ oldtag[oldtag[t]] = None
          /\ f = oldtag[t] \/ oldtag[f] = oldtag[t]
          /\ \A u \in Tags : oldtag[u] = oldtag[t] /\ id[u] < id[t] =>
               oldtag[f] = oldtag[t] /\ id[u] <= id[f]
      BY <2>1, <2>6 DEF Ids, Chains
    <3>2. oldtag[oldtag[v]] = None
      BY <2>6 DEF Chains
    <3>3. oldtag[v] # f
      BY <2>5, <2>6, <3>1, <3>2
    <3>4. QED
      BY <2>5, <2>6, <3>1, <3>3
  <2>7. ASSUME NEW v \in Tags, oldtag'[v] # None
        PROVE  /\ Live(oldtag[v])' /\ oldtag'[oldtag'[v]] = None
               /\ id'[flushed'[v]] < id'[v]
               /\ flushed'[v] = oldtag'[v] \/ oldtag'[flushed'[v]] = oldtag'[v]
               /\ \A u \in Tags : oldtag'[u] = oldtag'[v] /\ id'[u] < id'[v] =>
                    oldtag'[flushed'[v]] = oldtag'[v] /\ id'[u] <= id'[flushed'[v]]
               /\ \A q \in Procs : Calling(q)' =>
                    /\ oldtag'[v] # cur'[q]
                    /\ oldtag'[v] = oldtag'[cur'[q]] => id'[v] <= id'[cur'[q]]
    <3>1. v # t /\ oldtag'[v] = oldtag[v] /\ oldtag[v] # None /\ id'[v] = id[v] /\ flushed'[v] = flushed[v]
      BY <2>1, <2>2, <2>7
    <3>2. /\ Live(oldtag[v]) /\ oldtag[oldtag[v]] = None
          /\ id[flushed[v]] < id[v]
          /\ flushed[v] = oldtag[v] \/ oldtag[flushed[v]] = oldtag[v]
          /\ \A u \in Tags : oldtag[u] = oldtag[v] /\ id[u] < id[v] =>
               oldtag[flushed[v]] = oldtag[v] /\ id[u] <= id[flushed[v]]
          /\ \A q \in Procs : Calling(q) =>
               /\ oldtag[v] # cur[q]
               /\ oldtag[v] = oldtag[cur[q]] => id[v] <= id[cur[q]]
      BY <3>1 DEF Chains
    <3>3. /\ Live(oldtag[v])' /\ oldtag'[oldtag'[v]] = None
          /\ id'[flushed'[v]] < id'[v]
          /\ flushed'[v] = oldtag'[v] \/ oldtag'[flushed'[v]] = oldtag'[v]
      BY <2>2, <2>5, <3>1, <3>2 DEF Live
    <3>4. \A u \in Tags : oldtag'[u] = oldtag'[v] /\ id'[u] < id'[v] =>
            oldtag'[flushed'[v]] = oldtag'[v] /\ id'[u] <= id'[flushed'[v]]
      BY <2>1, <2>2, <2>5, <3>1, <3>2
    <3>5. ASSUME NEW q \in Procs, Calling(q)'
          PROVE  /\ oldtag'[v] # cur'[q]
                 /\ oldtag'[v] = oldtag'[cur'[q]] => id'[v] <= id'[cur'[q]]
      <4>1. CASE q = p
        <5>1. f # None /\ f \in Tags /\ f # t
          BY <1>0, <2>1, <2>3, <3>5, <4>1 DEF Owners
        <5>2. QED
          BY <2>1, <2>2, <2>6, <3>1, <4>1, <5>1
      <4>2. CASE q # p
        BY <2>2, <3>1, <3>2, <3>5, <4>2
      <4>3. QED
        BY <4>1, <4>2
    <3>6. QED
      BY <3>3, <3>4, <3>5
  <2>8. QED
    BY <2>4, <2>7 DEF Chains
<1>4. ASSUME NEW p \in Procs, Quiet(p) PROVE Ids' /\ Chains'
  <2>1. \A q \in Procs : Calling(q)' => Calling(q)
    BY <1>4, QuietIsLocal DEF Local, Calling
  <2>2. QED
    BY <1>1, <1>4, <2>1, QuietIsLocal
<1>5. CASE Serve \/ HangUp \/ Down \/ UNCHANGED vars
  BY <1>1, <1>5 DEF Serve, Answer, AnswerFlush, HangUp, Down, vars, Calling
<1>6. QED
  BY <1>2, <1>3, <1>4, <1>5 DEF Next, Step, Quiet
-----------------------------------------------------------------------------
(* the connection *)

Still ==
  /\ UNCHANGED <<srv, in>>
  /\ \A q \in Procs : /\ pc'[q] = "mux" <=> pc[q] = "mux"
                      /\ pc[q] = "mux" => msg'[q] = msg[q]

(* nothing is on the way that was not before *)
Fewer == \A m \in Requests : OnTheWay(m)' => OnTheWay(m)

(* what is on the way stays in order if nothing moves *)
LEMMA NothingMoves ==
  ASSUME Still
  PROVE  Fewer /\ (Ordered => Ordered')
BY DEF Still, Fewer, OnTheWay, Ordered, Older

(* what is over stays so if nothing is sent *)
LEMMA OverKept ==
  ASSUME Fewer, NEW t, id'[t] = id[t], oldtag'[t] = oldtag[t], Over(t)
  PROVE  Over(t)'
BY DEF Fewer, Over, Older, Request

(* T has been given out or freed: nothing comes for it *)
LEMMA CurrentKept ==
  ASSUME Fewer, Current, NEW p, NEW T, Local(p, T),
         \A m \in Requests : OnTheWay(m) => m.tag \notin T
  PROVE  Current'
BY DEF Fewer, Current, Local, Request, Requests

(* a step of p that sends nothing, if it makes done only what is over *)
LEMMA AnswersKept ==
  ASSUME Inv, Inv', Unsent, Answered, Fewer, NEW p \in Procs, NEW T, Local(p, T),
         \A t \in Tags : done'[t] => (t \notin T /\ done[t]) \/ Over(t)',
         \A q \in Procs : q # p /\ pc[q] \in {"enqueue", "send"} => ~ done'[cur[q]],
         pc'[p] \in {"enqueue", "send"} =>
           ~ done'[cur'[p]] /\ \A m \in Requests : OnTheWay(m)' => m.tag # cur'[p],
         pc'[p] \in {"free", "freerm", "freenext"} => Over(cur[p])',
         why'[p] = "dead" => why[p] = "dead" \/ \A m \in Requests : ~ OnTheWay(m)'
  PROVE  Unsent' /\ Answered'
<1>1. Unsent'
  BY DEF Unsent, Local, Fewer
<1>2. \A t \in Tags : done'[t] => Over(t)'
  BY OverKept DEF Answered, Local
<1>3. ASSUME NEW q \in Procs, pc'[q] \in {"free", "freerm", "freenext"} PROVE Over(cur[q])'
  <2>1. CASE q = p
    BY <1>3, <2>1
  <2>2. CASE q # p
    <3>1. /\ pc[q] = pc'[q] /\ cur'[q] = cur[q] /\ cur[q] \in Tags \ T
      BY <1>3, <2>2 DEF Local, Calling
    <3>2. Over(cur[q])
      BY <1>3, <3>1 DEF Answered
    <3>3. (\A m \in Requests : OnTheWay(m)' => m.tag # cur[q] /\ ~ Older(m, Request(cur[q])'))
      BY <3>1, <3>2 DEF Local, Fewer, Over, Request
    <3>4. QED
      BY <3>1, <3>3 DEF Over, Older, Request
  <2>3. QED
    BY <2>1, <2>2
<1>4. \A q \in Procs : why'[q] = "dead" => \A m \in Requests : ~ OnTheWay(m)'
  BY DEF Answered, Local, Fewer
<1>5. QED
  BY <1>1, <1>2, <1>3, <1>4 DEF Answered

(* Only quiet steps in which nothing moves, but who is done or gives up.   *)
LEMMA StillNet ==
  ASSUME Inv, Inv', GateOuts, Net, NEW p \in Procs, Quiet(p), Still, link # "down"
  PROVE  Unsent' /\ Answered' /\ Ordered' /\ Current'
<1>0. /\ TypeOK /\ Current /\ Ordered /\ Unsent /\ Answered
      /\ \A q \in Procs : Calling(q) => cur[q] \in Tags
      /\ \A q, u \in Procs : Calling(q) /\ Calling(u) /\ cur[q] = cur[u] => q = u
  BY DEF Inv, Net, Owners
<1>1. /\ Local(p, {}) /\ Calling(p) /\ cur[p] \in Tags /\ UNCHANGED <<rpcs, cur>>
      /\ Fewer /\ Ordered' /\ Current'
  BY <1>0, QuietIsLocal, NothingMoves, CurrentKept
<1>2. \A t \in Tags : Over(t) => Over(t)'
  BY <1>1, OverKept DEF rpcs
<1>3. ASSUME /\ \A t \in Tags : done'[t] => done[t] \/ Over(t)
             /\ \A q \in Procs : q # p /\ pc[q] \in {"enqueue", "send"} => ~ done'[cur[q]]
             /\ pc'[p] \in {"enqueue", "send"} => pc[p] \in {"enqueue", "send"} /\ ~ done'[cur[p]]
             /\ pc'[p] \in {"free", "freerm", "freenext"} => Over(cur[p])
             /\ why'[p] = "dead" => why[p] = "dead" \/ \A m \in Requests : ~ OnTheWay(m)
      PROVE  Unsent' /\ Answered'
  <2>1. pc'[p] \in {"enqueue", "send"} =>
          ~ done'[cur'[p]] /\ \A m \in Requests : OnTheWay(m)' => m.tag # cur'[p]
    BY <1>0, <1>1, <1>3 DEF Unsent, Fewer
  <2>2. pc'[p] \in {"free", "freerm", "freenext"} => Over(cur[p])'
    <3>1. \A m : m \in Requests /\ OnTheWay(m)' => OnTheWay(m)
      BY <1>1 DEF Fewer
    <3>2. Request(cur[p])' = Request(cur[p])
      BY <1>1 DEF Request, rpcs
    <3>3. Over(cur[p]) => Over(cur[p])'
      BY <1>1, <3>1, <3>2 DEF Over, Older
    <3>4. QED
      BY <1>3, <3>3
  <2>3. why'[p] = "dead" => why[p] = "dead" \/ \A m \in Requests : ~ OnTheWay(m)'
    BY <1>1, <1>3 DEF Fewer
  <2>4. QED
    BY <1>0, <1>1, <1>2, <1>3, <2>1, <2>2, <2>3, AnswersKept
<1>4. \A q \in Procs : pc[q] \in {"enqueue", "send"} => ~ done[cur[q]]
  BY <1>0 DEF Unsent
<1>5. ASSUME NEW from, NEW to \in PC, Goto(p, from, to)
      PROVE  pc[p] = from /\ pc'[p] = to
  BY <1>0, <1>5, Went
<1>6. CASE Enqueue(p)
  <2>1. pc[p] = "enqueue" /\ pc'[p] = "send" /\ UNCHANGED <<done, why>>
    BY <1>5, <1>6 DEF Enqueue, PC
  <2>2. QED
    BY <1>1, <1>3, <1>4, <2>1
<1>7. CASE Send(p) \/ SendFails(p) \/ SendInterrupted(p)
  <2>1. pc'[p] \in {"gate", "error"} /\ UNCHANGED done /\ (why'[p] = "dead" => why[p] = "dead")
    BY <1>0, <1>5, <1>7 DEF Send, SendFails, SendInterrupted, Raise, PC, TypeOK
  <2>2. QED
    BY <1>1, <1>3, <1>4, <2>1
<1>8. CASE GateEnter(p) \/ GateShut(p) \/ Sleep(p) \/ Awake(p)
  <2>1. /\ pc'[p] \in {"gateout", "read", "sleep", "asleep", "awake", "gate", "free"}
        /\ pc'[p] = "free" => done[cur[p]]
        /\ UNCHANGED <<done, why>>
    BY <1>5, <1>8 DEF GateEnter, GateShut, Sleep, Awake, PC
  <2>2. pc'[p] = "free" => Over(cur[p])
    BY <1>0, <1>1, <2>1 DEF Answered
  <2>3. QED
    BY <1>1, <1>3, <1>4, <2>1, <2>2
<1>9. CASE ReadFails(p) \/ ReadInterrupted(p)
  <2>1. pc[p] = "read" /\ pc'[p] = "error" /\ UNCHANGED done
    BY <1>5, <1>9 DEF ReadFails, ReadInterrupted, Raise, PC
  <2>2. CASE ReadFails(p)
    <3>1. srv = {} /\ DOMAIN in = {}
      BY <2>2 DEF ReadFails, Net
    <3>2. \A q \in Procs : pc[q] # "mux"
      BY <2>1 DEF Inv, Gates, OneReader
    <3>3. \A m \in Requests : ~ OnTheWay(m)
      BY <3>1, <3>2 DEF OnTheWay
    <3>4. QED
      BY <1>1, <1>3, <1>4, <2>1, <3>3
  <2>3. CASE ReadInterrupted(p)
    <3>1. why'[p] # "dead"
      BY <1>0, <2>3 DEF ReadInterrupted, Raise, TypeOK
    <3>2. QED
      BY <1>1, <1>3, <1>4, <2>1, <3>1
  <2>4. QED
    BY <1>9, <2>2, <2>3
<1>10. CASE Read(p) \/ Mux(p)
  <2>1. (pc[p] = "read" /\ pc'[p] = "mux") \/ (pc[p] = "mux" /\ pc'[p] # "mux")
    BY <1>5, <1>10 DEF Read, Mux, PC
  <2>2. QED
    BY <2>1 DEF Still
<1>11. CASE MuxWake(p)
  <2>1. pc'[p] = "read" /\ UNCHANGED <<done, why>>
    BY <1>0, <1>11, Woke DEF MuxWake, PC
  <2>2. QED
    BY <1>1, <1>3, <1>4, <2>1
<1>12. CASE GateOut(p) \/ ErrorGate(p)
  <2>1. /\ pc'[p] = "free" => pc[p] = "gateout"
        /\ pc'[p] \in {"free", "error"}
        /\ UNCHANGED <<done, why>>
    BY <1>0, <1>12, Gated DEF GateOut, ErrorGate, PC
  <2>2. pc'[p] = "free" => Over(cur[p])
    BY <1>0, <1>1, <2>1 DEF Answered, GateOuts
  <2>3. QED
    BY <1>1, <1>3, <1>4, <2>1, <2>2
<1>13. CASE ErrorDead(p)
  <2>1. pc'[p] = "free" /\ why[p] = "dead" /\ UNCHANGED <<done, why>>
    BY <1>5, <1>13 DEF ErrorDead, PC
  <2>2. Over(cur[p])
    BY <1>0, <2>1 DEF Answered, Over
  <2>3. QED
    BY <1>1, <1>3, <1>4, <2>1, <2>2
<1>14. CASE FreeTest(p) \/ FreeRemove(p)
  <2>1. /\ pc[p] \in {"free", "freerm"} /\ pc'[p] \in {"freerm", "freenext"}
        /\ UNCHANGED why
        /\ done' \in {done, [done EXCEPT ![cur[p]] = TRUE]}
    BY <1>5, <1>14 DEF FreeTest, FreeRemove, PC
  <2>2. Over(cur[p])
    BY <1>0, <2>1 DEF Answered
  <2>3. \A t \in Tags : done'[t] => done[t] \/ Over(t)
    BY <1>0, <1>1, <2>1, <2>2 DEF TypeOK
  <2>4. ASSUME NEW q \in Procs, q # p, pc[q] \in {"enqueue", "send"} PROVE ~ done'[cur[q]]
    <3>1. cur[q] # cur[p] /\ cur[q] \in Tags /\ ~ done[cur[q]]
      BY <1>0, <1>1, <1>4, <2>4 DEF Calling
    <3>2. QED
      BY <1>0, <1>1, <2>1, <3>1 DEF TypeOK
  <2>5. QED
    BY <1>1, <1>3, <2>1, <2>2, <2>3, <2>4
<1>15. QED
  BY <1>1, <1>6, <1>7, <1>8, <1>9, <1>10, <1>11, <1>12, <1>13, <1>14 DEF Quiet

(* A request goes to the server: it is not older than any flush.           *)
LEMMA SentNet ==
  ASSUME Inv, Inv', Ids, Chains, Net, NEW p \in Procs, Send(p) \/ SendInterrupted(p), link = "up",
         srv' = srv \cup {Request(cur[p])}
  PROVE  Unsent' /\ Answered' /\ Ordered' /\ Current'
<1> DEFINE R == Request(cur[p])
<1>0. /\ TypeOK /\ Current /\ Ordered /\ Unsent /\ Answered
      /\ \A q \in Procs : Calling(q) => cur[q] \in Tags /\ Live(cur[q])
      /\ \A q, u \in Procs : Calling(q) /\ Calling(u) /\ cur[q] = cur[u] => q = u
      /\ \A q \in Procs : why[q] # "dead"
  BY DEF Inv, Net, Owners
<1>1. Quiet(p)
  BY DEF Quiet
<1>2. /\ pc[p] = "send" /\ pc'[p] \in {"gate", "error"} /\ \A q \in Procs : q # p => pc'[q] = pc[q]
      /\ UNCHANGED <<done, in, msg>> /\ why'[p] # "dead"
  BY <1>0, Went DEF Send, SendInterrupted, Raise, PC, TypeOK
<1>3. /\ Local(p, {}) /\ cur[p] \in Tags /\ Live(cur[p]) /\ UNCHANGED <<rpcs, cur>> /\ Calling(p)
  BY <1>0, <1>1, QuietIsLocal
<1>4. R = [tag |-> cur[p], id |-> id[cur[p]], old |-> oldtag[cur[p]]]
  BY DEF Request
<1>5. ASSUME NEW t \in Tags PROVE ~ Older(R, Request(t))
  <2>1. Request(t).old = oldtag[t] /\ Request(t).id = id[t]
    BY DEF Request
  <2>2. oldtag[t] # None => /\ oldtag[t] # cur[p]
                            /\ oldtag[t] = oldtag[cur[p]] => id[t] <= id[cur[p]]
    BY <1>3 DEF Chains
  <2>3. id[t] \in Nat /\ id[cur[p]] \in Nat
    BY <1>0, <1>3 DEF TypeOK
  <2>4. QED
    BY <1>4, <2>1, <2>2, <2>3 DEF Older
<1>6. \A m \in Requests : OnTheWay(m) => m.tag \in Tags /\ m.tag # R.tag /\ ~ Older(R, m)
  BY <1>0, <1>2, <1>4, <1>5 DEF Unsent, Current, Requests
<1>7. R \in Requests /\ R.id # 0 /\ R = Request(R.tag) /\ R.tag = cur[p]
  BY <1>0, <1>3, <1>4 DEF Requests, TypeOK, Live
<1> HIDE DEF R
<1>8. \A m \in Requests : OnTheWay(m)' => OnTheWay(m) \/ m = R
  BY <1>2 DEF OnTheWay, R
<1>9. \A m : Request(m)' = Request(m)
  BY <1>3 DEF Request, rpcs
<1>10. Current'
  BY <1>0, <1>7, <1>8, <1>9 DEF Current
<1>11. Ordered'
  <2>1. \A i \in DOMAIN in : in[i] \in Requests /\ OnTheWay(in[i])
    BY <1>0 DEF TypeOK, OnTheWay
  <2>2. \A q \in Procs : pc[q] = "mux" => msg[q] \in Requests /\ OnTheWay(msg[q])
    BY <1>0 DEF TypeOK, OnTheWay
  <2>3. \A q \in Procs : pc'[q] = "mux" => pc[q] = "mux" /\ msg'[q] = msg[q]
    BY <1>2
  <2>4. srv' = srv \cup {R} /\ in' = in
    BY <1>2 DEF R
  <2>5. ASSUME NEW i \in DOMAIN in
        PROVE  /\ \A j \in DOMAIN in : in[i].tag = in[j].tag => i = j
               /\ \A j \in DOMAIN in : i < j => ~ Older(in[j], in[i])
               /\ \A m \in srv' : in[i].tag # m.tag /\ ~ Older(m, in[i])
    BY <1>0, <1>6, <2>1, <2>4 DEF Ordered
  <2>6. ASSUME NEW q \in Procs, pc'[q] = "mux"
        PROVE  /\ \A m \in srv' : m.tag # msg[q].tag /\ ~ Older(m, msg[q])
               /\ \A i \in DOMAIN in : in[i].tag # msg[q].tag /\ ~ Older(in[i], msg[q])
    BY <1>0, <1>6, <2>2, <2>3, <2>4, <2>6 DEF Ordered
  <2>7. QED
    BY <2>3, <2>4, <2>5, <2>6 DEF Ordered, Older
<1>12. Unsent'
  <2>1. ASSUME NEW q \in Procs, pc'[q] \in {"enqueue", "send"}
        PROVE  ~ done'[cur'[q]] /\ \A m \in Requests : OnTheWay(m)' => m.tag # cur'[q]
    <3>1. q # p /\ pc[q] = pc'[q] /\ cur'[q] = cur[q] /\ cur[q] # cur[p]
      BY <1>0, <1>2, <1>3, <2>1 DEF Calling
    <3>2. QED
      BY <1>0, <1>2, <1>7, <1>8, <2>1, <3>1 DEF Unsent
  <2>2. QED
    BY <2>1 DEF Unsent
<1>13. ASSUME NEW t \in Tags, t # cur[p], Over(t) PROVE Over(t)'
  <2>1. \A m \in Requests : OnTheWay(m)' => m.tag # t /\ ~ Older(m, Request(t))
    BY <1>5, <1>7, <1>8, <1>13 DEF Over, R
  <2>2. QED
    BY <1>9, <2>1 DEF Over, Older
<1>14. Answered'
  <2>1. \A t \in Tags : done'[t] => Over(t)'
    BY <1>0, <1>2, <1>13 DEF Answered, Unsent
  <2>2. ASSUME NEW q \in Procs, pc'[q] \in {"free", "freerm", "freenext"} PROVE Over(cur[q])'
    <3>1. q # p /\ pc[q] = pc'[q] /\ cur'[q] = cur[q] /\ cur[q] # cur[p] /\ cur[q] \in Tags
      BY <1>0, <1>2, <1>3, <2>2 DEF Calling
    <3>2. Over(cur[q])
      BY <1>0, <2>2, <3>1 DEF Answered
    <3>3. \A m \in Requests : OnTheWay(m)' => m.tag # cur[q] /\ ~ Older(m, Request(cur[q]))
      BY <1>5, <1>7, <1>8, <3>1, <3>2 DEF Over, R
    <3>4. QED
      BY <1>3, <1>9, <3>1, <3>3 DEF Over, Older, Request, rpcs
  <2>3. \A q \in Procs : why'[q] # "dead"
    BY <1>0, <1>2, <1>3 DEF Local
  <2>4. QED
    BY <2>1, <2>2, <2>3 DEF Answered
<1>15. QED
  BY <1>10, <1>11, <1>12, <1>14

(* A message comes into the hands of the reader.                           *)
LEMMA ReadNet ==
  ASSUME Inv, Inv', Net, NEW p \in Procs, Read(p), link # "down"
  PROVE  Unsent' /\ Answered' /\ Ordered' /\ Current'
<1>0. TypeOK /\ Current /\ Ordered /\ Unsent /\ Answered
  BY DEF Inv, Net
<1>1. Quiet(p)
  BY DEF Quiet
<1>2. /\ pc[p] = "read" /\ pc'[p] = "mux" /\ \A q \in Procs : q # p => pc'[q] = pc[q]
      /\ UNCHANGED <<srv, done, why, cur>> /\ in' = Tail(in) /\ msg'[p] = Head(in) /\ in # <<>>
  BY <1>0, Went DEF Read, PC, TypeOK
<1>3. \A q \in Procs : pc[q] # "mux"
  BY <1>2 DEF Inv, Gates, OneReader
<1>4. /\ 1 \in DOMAIN in /\ msg'[p] = in[1]
      /\ \A i \in DOMAIN in' : i + 1 \in DOMAIN in /\ in'[i] = in[i + 1] /\ i \in Nat /\ i > 0
  BY <1>0, <1>2 DEF TypeOK
<1>5. \A m \in Requests : OnTheWay(m)' => OnTheWay(m)
  <2>1. \A m \in Requests : m \in srv' => OnTheWay(m)
    BY <1>2 DEF OnTheWay
  <2>2. \A i \in DOMAIN in' : OnTheWay(in'[i])
    BY <1>4 DEF OnTheWay
  <2>3. \A q \in Procs : pc'[q] = "mux" => q = p
    BY <1>2, <1>3
  <2>4. OnTheWay(msg'[p])
    BY <1>4 DEF OnTheWay
  <2>5. QED
    BY <2>1, <2>2, <2>3, <2>4 DEF OnTheWay
<1>6. Local(p, {}) /\ Fewer /\ Current'
  BY <1>0, <1>1, <1>5, QuietIsLocal, CurrentKept DEF Fewer
<1>7. Unsent' /\ Answered'
  <2>1. \A t \in Tags : done'[t] => t \notin {} /\ done[t]
    BY <1>2
  <2>2. QED
    BY <1>0, <1>2, <1>6, <2>1, AnswersKept DEF Unsent
<1>8. Ordered'
  <2>1. ASSUME NEW i \in DOMAIN in'
        PROVE  /\ \A j \in DOMAIN in' : in'[i].tag = in'[j].tag => i = j
               /\ \A j \in DOMAIN in' : i < j => ~ Older(in'[j], in'[i])
               /\ \A m \in srv : in'[i].tag # m.tag /\ ~ Older(m, in'[i])
    <3>1. i + 1 \in DOMAIN in /\ in'[i] = in[i + 1] /\ i \in Nat
      BY <1>4
    <3>2. \A j \in DOMAIN in : in[i + 1].tag = in[j].tag => i + 1 = j
      BY <1>0, <3>1 DEF Ordered
    <3>3. \A j \in DOMAIN in : i + 1 < j => ~ Older(in[j], in[i + 1])
      BY <1>0, <3>1 DEF Ordered
    <3>4. \A m \in srv : in[i + 1].tag # m.tag /\ ~ Older(m, in[i + 1])
      BY <1>0, <3>1 DEF Ordered
    <3>5. QED
      BY <1>4, <3>1, <3>2, <3>3, <3>4
  <2>2. /\ \A m \in srv : m.tag # in[1].tag /\ ~ Older(m, in[1])
        /\ \A j \in DOMAIN in : (in[1].tag = in[j].tag => 1 = j) /\ (1 < j => ~ Older(in[j], in[1]))
    BY <1>0, <1>4 DEF Ordered
  <2>3. \A i \in DOMAIN in' : in'[i].tag # in[1].tag /\ ~ Older(in'[i], in[1])
    <3>1. TAKE i \in DOMAIN in'
    <3>2. i + 1 \in DOMAIN in /\ 1 < i + 1 /\ 1 # i + 1 /\ in'[i] = in[i + 1]
      BY <1>4
    <3>3. QED
      BY <2>2, <3>2
  <2>4. \A q \in Procs : pc'[q] = "mux" => q = p
    BY <1>2, <1>3
  <2>5. QED
    BY <1>2, <1>4, <2>1, <2>2, <2>3, <2>4 DEF Ordered, Older
<1>9. QED
  BY <1>6, <1>7, <1>8

(* The reader deals with a message: whatever that was for is over.         *)
LEMMA MuxNet ==
  ASSUME Inv, Inv', Net, NEW p \in Procs, Mux(p), link # "down"
  PROVE  Unsent' /\ Answered' /\ Ordered' /\ Current'
<1>a. PICK m0 \in Requests : pc[p] = "mux" /\ m0 = msg[p] /\ m0.tag \in Tags
  BY DEF Mux, Goto, Inv, TypeOK, Requests
<1>b. PICK t \in Tags : t = m0.tag
  BY <1>a
<1>0. TypeOK /\ Current /\ Ordered /\ Unsent /\ Answered
  BY DEF Inv, Net
<1>1. Quiet(p)
  BY DEF Quiet
<1>2. /\ pc[p] = "mux" /\ pc'[p] \in {"read", "gateout", "muxwake"}
      /\ \A q \in Procs : q # p => pc'[q] = pc[q]
      /\ UNCHANGED <<srv, in, why, cur, id, oldtag>>
      /\ \A u \in Tags : u # t => done'[u] = done[u]
  BY <1>a, <1>b, <1>0, Went DEF Mux, PC, net, rpcs, TypeOK
<1>3. \A q \in Procs : pc[q] = "mux" => q = p
  BY <1>2 DEF Inv, Gates, OneReader
<1>4. OnTheWay(m0) /\ m0 = Request(t) /\ m0.id # 0
  BY <1>a, <1>b, <1>0 DEF OnTheWay, Current
<1>5. \A q \in Procs : pc'[q] # "mux"
  BY <1>2, <1>3
<1>6. \A m \in Requests : OnTheWay(m)' => OnTheWay(m) /\ m.tag # t /\ ~ Older(m, m0)
  <2>1. \A m \in Requests : OnTheWay(m)' => m \in srv \/ \E i \in DOMAIN in : in[i] = m
    BY <1>2, <1>5 DEF OnTheWay
  <2>2. QED
    BY <1>a, <1>b, <1>0, <1>2, <2>1 DEF OnTheWay, Ordered
<1>7. Fewer
  BY <1>6 DEF Fewer
<1>8. Local(p, {}) /\ Current'
  BY <1>0, <1>1, <1>7, QuietIsLocal, CurrentKept
<1>9. Over(t)'
  <2>1. Request(t)' = m0
    BY <1>2, <1>4 DEF Request
  <2>2. QED
    BY <1>6, <2>1 DEF Over, Older
<1>10. Unsent' /\ Answered'
  <2>1. \A u \in Tags : done'[u] => (u \notin {} /\ done[u]) \/ Over(u)'
    BY <1>2, <1>9
  <2>2. ASSUME NEW q \in Procs, q # p, pc[q] \in {"enqueue", "send"} PROVE ~ done'[cur[q]]
    <3>1. cur[q] # t /\ cur[q] \in Tags /\ ~ done[cur[q]]
      BY <1>b, <1>0, <1>4, <2>2 DEF Unsent, Inv, Owners, Calling
    <3>2. QED
      BY <1>2, <3>1
  <2>3. QED
    BY <1>0, <1>2, <1>7, <1>8, <2>1, <2>2, AnswersKept
<1>11. Ordered'
  BY <1>0, <1>2, <1>5 DEF Ordered, Older
<1>12. QED
  BY <1>8, <1>10, <1>11

(* The server answers; it drops what a Tflush it answers is older than.    *)
LEMMA AnswerNet ==
  ASSUME Inv, Inv', Net, NEW m0 \in srv, Answer(m0) \/ AnswerFlush(m0), link # "down"
  PROVE  Unsent' /\ Answered' /\ Ordered' /\ Current'
<1>0. TypeOK /\ Current /\ Ordered /\ Unsent /\ Answered
  BY DEF Inv, Net
<1>1. /\ UNCHANGED <<pc, cur, msg, done, why, id, oldtag>>
      /\ in' = Append(in, m0) /\ srv' \subseteq srv /\ m0 \notin srv'
      /\ \A n \in srv' : ~ Older(n, m0)
  <2>1. CASE Answer(m0)
    BY <2>1 DEF Answer, rpcs, Older
  <2>2. CASE AnswerFlush(m0)
    <3>1. /\ UNCHANGED <<pc, cur, msg, done, why, id, oldtag>>
          /\ in' = Append(in, m0) /\ srv' = {n \in srv : n # m0 /\ n.tag # m0.old}
          /\ \A n \in srv : n.old = m0.old => n.id >= m0.id
      BY <2>2 DEF AnswerFlush, rpcs
    <3>2. \A n \in srv : n.id \in Nat
      BY <1>0 DEF TypeOK, Requests
    <3>3. QED
      BY <3>1, <3>2 DEF Older
  <2>3. QED
    BY <2>1, <2>2
<1>2. /\ m0 \in Requests /\ OnTheWay(m0) /\ m0.id # 0 /\ m0 = Request(m0.tag)
      /\ \A n \in srv' : n \in Requests /\ n = Request(n.tag) /\ n.tag # m0.tag
  BY <1>0, <1>1 DEF TypeOK, Current, OnTheWay
<1>3. /\ in \in Seq(Requests) /\ Len(in) \in Nat /\ DOMAIN in = 1 .. Len(in)
      /\ DOMAIN in' = 1 .. Len(in) + 1
      /\ in'[Len(in) + 1] = m0 /\ \A i \in 1 .. Len(in) : in'[i] = in[i]
  BY <1>0, <1>1, <1>2 DEF TypeOK
<1>4. \A m \in Requests : OnTheWay(m)' => OnTheWay(m)
  <2>1. \A m \in Requests : m \in srv' => OnTheWay(m)
    BY <1>1 DEF OnTheWay
  <2>2. \A i \in DOMAIN in' : OnTheWay(in'[i])
    <3>1. TAKE i \in DOMAIN in'
    <3>2. CASE i = Len(in) + 1
      BY <1>2, <1>3, <3>2
    <3>3. CASE i # Len(in) + 1
      BY <1>3, <3>3 DEF OnTheWay
    <3>4. QED
      BY <3>2, <3>3
  <2>3. \A q \in Procs : pc'[q] = "mux" => OnTheWay(msg'[q])
    BY <1>1 DEF OnTheWay
  <2>4. QED
    BY <2>1, <2>2, <2>3 DEF OnTheWay
<1>5. \A t : Request(t)' = Request(t)
  BY <1>1 DEF Request
<1>6. Current'
  BY <1>0, <1>4, <1>5 DEF Current
<1>7. \A t : Over(t) => Over(t)'
  BY <1>1, <1>4, OverKept DEF Fewer
<1>8. Unsent' /\ Answered'
  <2>1. Unsent'
    BY <1>0, <1>1, <1>4 DEF Unsent
  <2>2. \A t \in Tags : done'[t] => Over(t)'
    BY <1>0, <1>1, <1>7 DEF Answered
  <2>3. ASSUME NEW q \in Procs, pc'[q] \in {"free", "freerm", "freenext"} PROVE Over(cur[q])'
    <3>1. cur'[q] = cur[q] /\ Over(cur[q])
      BY <1>0, <1>1, <2>3 DEF Answered
    <3>2. QED
      BY <1>4, <1>1, <3>1 DEF Over, Older, Request
  <2>4. \A q \in Procs : why'[q] = "dead" => \A m \in Requests : ~ OnTheWay(m)'
    BY <1>0, <1>1, <1>4 DEF Answered
  <2>5. QED
    BY <2>1, <2>2, <2>3, <2>4 DEF Answered
<1>9. Ordered'
  <2>1. ASSUME NEW i \in 1 .. Len(in)
        PROVE  /\ in[i].tag # m0.tag /\ ~ Older(m0, in[i])
               /\ \A n \in srv' : in[i].tag # n.tag /\ ~ Older(n, in[i])
    BY <1>0, <1>1, <1>3 DEF Ordered
  <2>2. ASSUME NEW i \in DOMAIN in'
        PROVE  /\ \A j \in DOMAIN in' : in'[i].tag = in'[j].tag => i = j
               /\ \A j \in DOMAIN in' : i < j => ~ Older(in'[j], in'[i])
               /\ \A n \in srv' : in'[i].tag # n.tag /\ ~ Older(n, in'[i])
    <3>1. CASE i = Len(in) + 1
      BY <1>1, <1>2, <1>3, <2>1, <3>1
    <3>2. CASE i # Len(in) + 1
      <4>1. i \in 1 .. Len(in) /\ in'[i] = in[i]
        BY <1>3, <3>2
      <4>2. \A j \in 1 .. Len(in) : (in[i].tag = in[j].tag => i = j) /\ (i < j => ~ Older(in[j], in[i]))
        BY <1>0, <1>3, <4>1 DEF Ordered
      <4>3. ASSUME NEW j \in DOMAIN in'
            PROVE  (in'[i].tag = in'[j].tag => i = j) /\ (i < j => ~ Older(in'[j], in'[i]))
        <5>1. CASE j = Len(in) + 1
          BY <1>3, <2>1, <4>1, <5>1
        <5>2. CASE j # Len(in) + 1
          BY <1>3, <4>1, <4>2, <5>2
        <5>3. QED
          BY <5>1, <5>2
      <4>4. QED
        BY <2>1, <4>1, <4>3
    <3>3. QED
      BY <3>1, <3>2
  <2>3. ASSUME NEW q \in Procs, pc[q] = "mux"
        PROVE  /\ \A n \in srv' : n.tag # msg[q].tag /\ ~ Older(n, msg[q])
               /\ \A i \in DOMAIN in' : in'[i].tag # msg[q].tag /\ ~ Older(in'[i], msg[q])
    <3>1. /\ \A n \in srv : n.tag # msg[q].tag /\ ~ Older(n, msg[q])
          /\ \A i \in DOMAIN in : in[i].tag # msg[q].tag /\ ~ Older(in[i], msg[q])
      BY <1>0, <2>3 DEF Ordered
    <3>2. ASSUME NEW i \in DOMAIN in' PROVE in'[i].tag # msg[q].tag /\ ~ Older(in'[i], msg[q])
      <4>1. CASE i = Len(in) + 1
        BY <1>3, <3>1, <4>1
      <4>2. CASE i # Len(in) + 1
        BY <1>3, <3>1, <4>2
      <4>3. QED
        BY <4>1, <4>2
    <3>3. QED
      BY <1>1, <3>1, <3>2
  <2>4. QED
    BY <1>1, <2>2, <2>3 DEF Ordered, Older
<1>10. QED
  BY <1>6, <1>8, <1>9

(* A Mntrpc is given out: nothing comes for it.                            *)
LEMMA GivenNet ==
  ASSUME Inv, Inv', Net, NEW p \in Procs, Call(p) \/ ErrorFlush(p), link # "down"
  PROVE  Unsent' /\ Answered' /\ Ordered' /\ Current'
<1>0. TypeOK /\ TypeOK' /\ Current /\ Ordered /\ Unsent /\ Answered
  BY DEF Inv, Net
<1>1. PICK t \in Tags :
        /\ Local(p, {t}) /\ ~ Live(t)
        /\ pc'[p] = "enqueue" /\ cur'[p] = t
        /\ done' = [done EXCEPT ![t] = FALSE]
        /\ why'[p] \in {None, why[p]}
        /\ UNCHANGED <<srv, in, msg, link>>
  BY GivingIsLocal
<1>2. pc[p] # "mux"
  BY DEF Call, ErrorFlush, Goto
<1>3. Still
  BY <1>1, <1>2 DEF Still, Local
<1>4. Fewer /\ Ordered'
  BY <1>0, <1>3, NothingMoves
<1>5. \A m \in Requests : OnTheWay(m) => m.tag # t
  BY <1>0, <1>1 DEF Current, Live, Request
<1>6. Current'
  BY <1>0, <1>1, <1>4, <1>5, CurrentKept
<1>7. \A u \in Tags : done'[u] => u # t /\ done[u]
  BY <1>0, <1>1 DEF TypeOK
<1>8. \A q \in Procs : q # p /\ pc[q] \in {"enqueue", "send"} => ~ done'[cur[q]]
  BY <1>0, <1>1, <1>7 DEF Unsent, Local, Calling
<1>9. ~ done'[t] /\ \A m \in Requests : OnTheWay(m)' => m.tag # t
  BY <1>4, <1>5, <1>7 DEF Fewer
<1>10. why'[p] = "dead" => why[p] = "dead"
  BY NoneIsNil DEF Call, ErrorFlush, Inv, TypeOK
<1>11. QED
  BY <1>0, <1>1, <1>4, <1>6, <1>7, <1>8, <1>9, <1>10, AnswersKept

(* What a Tflush replaces is over when the Tflush is, and is its process's *)
(* r once that is freed.                                                   *)
LEMMA FreedNet ==
  ASSUME Inv, Inv', Ids, Chains, Net, NEW p \in Procs, FreeNext(p) \/ Return(p), link # "down"
  PROVE  Unsent' /\ Answered' /\ Ordered' /\ Current'
<1>0. TypeOK /\ TypeOK' /\ Current /\ Ordered /\ Unsent /\ Answered
  BY DEF Inv, Net
<1>1. PICK t \in Tags :
        /\ t = cur[p] /\ Local(p, {t}) /\ Live(t) /\ Calling(p)
        /\ pc[p] = "freenext"
        /\ FreeNext(p) => pc'[p] = "free" /\ flushed[t] # None
        /\ Return(p) => ~ Calling(p)'
        /\ cur'[p] = flushed[t]
        /\ done' = [done EXCEPT ![t] = FALSE]
        /\ why'[p] \in {None, why[p]}
        /\ UNCHANGED <<srv, in, msg, link>>
  BY FreeingIsLocal
<1>2. pc'[p] \in {"free", "idle"}
  BY <1>1 DEF Calling
<1>3. Still
  BY <1>1, <1>2 DEF Still, Local
<1>4. Fewer /\ Ordered'
  BY <1>0, <1>3, NothingMoves
<1>5. Over(t)
  BY <1>0, <1>1 DEF Answered
<1>6. Current'
  BY <1>0, <1>1, <1>4, <1>5, CurrentKept DEF Over
<1>7. \A u \in Tags : done'[u] => u # t /\ done[u]
  BY <1>0, <1>1 DEF TypeOK
<1>8. \A q \in Procs : q # p /\ pc[q] \in {"enqueue", "send"} => ~ done'[cur[q]]
  BY <1>0, <1>1, <1>7 DEF Unsent, Local, Calling
<1>9. ASSUME pc'[p] = "free" PROVE Over(cur[p])'
  <2>1. PICK f \in Tags : f = flushed[t] /\ f # t /\ flushed[t] # None
    BY <1>0, <1>1, <1>9 DEF Calling, Inv, Owners, TypeOK
  <2>2. /\ oldtag[t] # None /\ oldtag[oldtag[t]] = None /\ id[f] < id[t]
        /\ f = oldtag[t] \/ oldtag[f] = oldtag[t]
    BY <2>1 DEF Ids, Chains
  <2>3. ASSUME NEW m \in Requests, OnTheWay(m) PROVE m.tag # f /\ ~ Older(m, Request(f))
    <3>1. /\ m.tag # oldtag[t] /\ ~ (m.old = oldtag[t] /\ m.id < id[t])
          /\ m.tag # t
      BY <1>5, <2>2, <2>3 DEF Over, Older, Request
    <3>2. m.id = id[m.tag] /\ m.old = oldtag[m.tag] /\ m.id \in Nat /\ id[f] \in Nat /\ id[t] \in Nat
      BY <1>0, <2>3 DEF Current, Request, Requests, TypeOK
    <3>3. m.tag # f
      BY <2>2, <3>1, <3>2
    <3>4. Request(f).old = oldtag[f] /\ Request(f).id = id[f]
      BY DEF Request
    <3>5. QED
      BY <2>2, <3>1, <3>2, <3>3, <3>4 DEF Older
  <2>4. Over(f)
    BY <2>3 DEF Over
  <2>5. id'[f] = id[f] /\ oldtag'[f] = oldtag[f]
    BY <1>1, <2>1 DEF Local
  <2>6. \A m \in Requests : OnTheWay(m)' => m.tag # f /\ ~ Older(m, Request(f))
    BY <1>4, <2>3 DEF Fewer
  <2>7. QED
    BY <1>1, <2>1, <2>5, <2>6 DEF Over, Older, Request
<1>10. why'[p] = "dead" => why[p] = "dead"
  BY <1>1, NoneIsNil
<1>11. QED
  BY <1>0, <1>1, <1>2, <1>4, <1>6, <1>7, <1>8, <1>9, <1>10, AnswersKept

(* every step of the driver, the server and the connection *)
LEMMA NetKept ==
  ASSUME Inv, Ids, Chains, GateOuts, Net, [Next]_vars
  PROVE  Net'
<1>0. Inv' /\ TypeOK /\ TypeOK'
  BY Kept DEF Inv
<1>1. ASSUME NEW p \in Procs, Local(p, {}), UNCHANGED srv, why'[p] = "dead" => why[p] = "dead" \/ link # "up",
             link # "down" => Unsent' /\ Answered' /\ Ordered' /\ Current'
      PROVE  Net'
  BY <1>1 DEF Net, Local
<1>2. ASSUME NEW p \in Procs, Call(p) \/ ErrorFlush(p) PROVE Net'
  <2>1. PICK t \in Tags : Local(p, {t}) /\ UNCHANGED <<srv, link>> /\ why'[p] \in {None, why[p]}
    BY <1>2, GivingIsLocal
  <2>2. link = "up" => \A q \in Procs : why'[q] # "dead"
    BY <2>1, NoneIsNil DEF Net, Local
  <2>3. QED
    BY <1>0, <1>2, <2>1, <2>2, GivenNet DEF Net
<1>3. ASSUME NEW p \in Procs, FreeNext(p) \/ Return(p) PROVE Net'
  <2>1. PICK t \in Tags : Local(p, {t}) /\ UNCHANGED <<srv, link>> /\ why'[p] \in {None, why[p]}
    BY <1>3, FreeingIsLocal
  <2>2. link = "up" => \A q \in Procs : why'[q] # "dead"
    BY <2>1, NoneIsNil DEF Net, Local
  <2>3. QED
    BY <1>0, <1>3, <2>1, <2>2, FreedNet DEF Net
<1>4. ASSUME NEW p \in Procs, Quiet(p) PROVE Net'
  <2>1. Local(p, {}) /\ UNCHANGED link
    BY <1>4, QuietIsLocal DEF Local
  <2>2. why'[p] = "dead" => why[p] = "dead" \/ link # "up"
    BY <1>0, <1>4 DEF Quiet, Enqueue, Send, SendFails, SendInterrupted, GateEnter, GateShut, Sleep,
       Awake, ErrorDead, Read, ReadFails, ReadInterrupted, Raise, Mux, MuxWake, FreeTest, FreeRemove,
       GateOut, ErrorGate, Gate, TypeOK
  <2>3. CASE (Send(p) \/ SendInterrupted(p)) /\ srv' # srv
    <3>1. link = "up" /\ srv' = srv \cup {Request(cur[p])}
      BY <2>3 DEF Send, SendInterrupted
    <3>2. QED
      BY <1>0, <2>1, <2>2, <2>3, <3>1, SentNet DEF Net, Local
  <2>4. CASE Read(p)
    BY <1>0, <1>1, <2>1, <2>2, <2>4, ReadNet DEF Read
  <2>5. CASE Mux(p)
    BY <1>0, <1>1, <2>1, <2>2, <2>5, MuxNet DEF Mux, net
  <2>6. CASE ~ Read(p) /\ ~ Mux(p) /\ UNCHANGED srv
    <3>1. in' = in
      BY <1>4, <2>6 DEF Quiet, Enqueue, Send, SendFails, SendInterrupted, GateEnter, GateShut, Sleep,
         Awake, ErrorDead, ReadFails, ReadInterrupted, Raise, MuxWake, FreeTest, FreeRemove,
         GateOut, ErrorGate, Gate, net
    <3>2. \A q \in Procs : q # p => msg'[q] = msg[q]
      BY <1>0, <1>4, <2>6 DEF Quiet, Enqueue, Send, SendFails, SendInterrupted, GateEnter, GateShut, Sleep,
         Awake, ErrorDead, ReadFails, ReadInterrupted, Raise, MuxWake, FreeTest, FreeRemove,
         GateOut, ErrorGate, Gate, TypeOK
    <3>3. pc[p] # "mux" /\ pc'[p] # "mux"
      <4>1. CASE MuxWake(p)
        BY <1>0, <4>1, Woke DEF MuxWake, PC
      <4>2. CASE GateOut(p) \/ ErrorGate(p)
        BY <1>0, <4>2, Gated DEF GateOut, ErrorGate, PC
      <4>3. CASE ~ (MuxWake(p) \/ GateOut(p) \/ ErrorGate(p))
        <5>1. PICK from \in PC \ {"mux"}, to \in PC \ {"mux"} : Goto(p, from, to)
          BY <1>4, <2>6, <4>3 DEF Quiet, Enqueue, Send, SendFails, SendInterrupted, GateEnter, GateShut,
             Sleep, Awake, ErrorDead, ReadFails, ReadInterrupted, Raise, FreeTest, FreeRemove, PC
        <5>2. QED
          BY <1>0, <5>1, Went
      <4>4. QED
        BY <4>1, <4>2, <4>3
    <3>4. Still
      BY <2>1, <2>6, <3>1, <3>2, <3>3 DEF Still, Local
    <3>5. QED
      BY <1>0, <1>1, <1>4, <2>1, <2>2, <2>6, <3>4, StillNet
  <2>7. UNCHANGED srv \/ Send(p) \/ SendInterrupted(p)
    BY <1>4 DEF Quiet, Enqueue, SendFails, GateEnter, GateShut, Sleep,
       Awake, ErrorDead, Read, ReadFails, ReadInterrupted, Raise, Mux, MuxWake, FreeTest, FreeRemove,
       GateOut, ErrorGate, Gate, net
  <2>8. QED
    BY <2>3, <2>4, <2>5, <2>6, <2>7 DEF Read, Mux, net
<1>5. ASSUME NEW m \in srv, Answer(m) \/ AnswerFlush(m) PROVE Net'
  <2>1. UNCHANGED <<link, why>> /\ srv' \subseteq srv
    BY <1>5 DEF Answer, AnswerFlush
  <2>2. QED
    BY <1>0, <1>5, <2>1, AnswerNet DEF Net
<1>6. CASE HangUp
  <2>1. /\ link = "up" /\ link' \in {"silent", "down"} /\ srv' = {} /\ in' \in {in, <<>>}
        /\ UNCHANGED <<done, pc, cur, msg, why, id, oldtag>>
    BY <1>6 DEF HangUp, rpcs
  <2>2. Fewer
    BY <2>1 DEF Fewer, OnTheWay
  <2>3. \A t : Request(t)' = Request(t)
    BY <2>1 DEF Request
  <2>4. Current'
    BY <2>1, <2>2, <2>3 DEF Net, Current, Fewer
  <2>5. Ordered'
    BY <2>1 DEF Net, Ordered, Older
  <2>6. Unsent'
    BY <2>1, <2>2 DEF Net, Unsent, Fewer
  <2>7. Answered'
    BY <2>1 DEF Net, Answered, Over, Older, Request, OnTheWay
  <2>8. QED
    BY <2>1, <2>4, <2>5, <2>6, <2>7 DEF Net
<1>7. CASE Down
  BY <1>7 DEF Down, Net
<1>8. CASE UNCHANGED vars
  BY <1>8 DEF vars, net, rpcs, Net, Current, Ordered, Unsent, Answered, Over, Older, Request, OnTheWay
<1>9. QED
  BY <1>2, <1>3, <1>4, <1>5, <1>6, <1>7, <1>8 DEF Next, Step, Quiet, Serve
-----------------------------------------------------------------------------
(* who leaves the gate has been answered *)
LEMMA GateOutsKept ==
  ASSUME Inv, GateOuts, [Next]_vars
  PROVE  GateOuts'
<1>0. TypeOK /\ \A q \in Procs : Calling(q) => cur[q] \in Tags
  BY DEF Inv, Owners
<1>1. ASSUME NEW p \in Procs, NEW T, Local(p, T), \A u \in Tags \ T : done[u] => done'[u],
             pc'[p] = "gateout" => done'[cur'[p]]
      PROVE  GateOuts'
  BY <1>1 DEF GateOuts, Local, Calling
<1>2. ASSUME NEW p \in Procs, Call(p) \/ ErrorFlush(p) PROVE GateOuts'
  <2>1. PICK t \in Tags : /\ Local(p, {t}) /\ pc'[p] = "enqueue"
                          /\ done' = [done EXCEPT ![t] = FALSE]
    BY <1>2, GivingIsLocal
  <2>2. \A u \in Tags \ {t} : done[u] => done'[u]
    BY <1>0, <2>1 DEF TypeOK
  <2>3. QED
    BY <1>1, <2>1, <2>2
<1>3. ASSUME NEW p \in Procs, FreeNext(p) \/ Return(p) PROVE GateOuts'
  <2>1. /\ Local(p, {cur[p]}) /\ pc'[p] # "gateout" /\ cur[p] \in Tags
        /\ done' = [done EXCEPT ![cur[p]] = FALSE]
    BY <1>3, FreeingIsLocal DEF Calling
  <2>2. \A u \in Tags \ {cur[p]} : done[u] => done'[u]
    BY <1>0, <2>1 DEF TypeOK
  <2>3. QED
    BY <1>1, <2>1, <2>2
<1>4. ASSUME NEW p \in Procs, Quiet(p) PROVE GateOuts'
  <2>1. Local(p, {}) /\ UNCHANGED cur /\ cur[p] \in Tags
    BY <1>0, <1>4, QuietIsLocal
  <2>2. \A u \in Tags : done[u] => done'[u]
    BY <1>0, <1>4 DEF Quiet, Enqueue, Send, SendFails, SendInterrupted, GateEnter, GateShut, Sleep,
       Awake, ErrorDead, Read, ReadFails, ReadInterrupted, Raise, Mux, MuxWake, FreeTest, FreeRemove,
       GateOut, ErrorGate, Gate, TypeOK
  <2>3. pc'[p] = "gateout" => done'[cur[p]]
    <3>1. CASE GateEnter(p)
      BY <1>0, <3>1, Went DEF GateEnter, PC
    <3>2. CASE Mux(p)
      <4>1. pc'[p] = "gateout" => InQueue(msg[p].tag) /\ msg[p].tag = cur[p]
        BY <1>0, <3>2, Went DEF Mux, PC
      <4>2. InQueue(msg[p].tag) => done' = [done EXCEPT ![msg[p].tag] = TRUE]
        BY <3>2 DEF Mux
      <4>3. QED
        BY <1>0, <2>1, <4>1, <4>2 DEF TypeOK
    <3>3. CASE MuxWake(p)
      BY <1>0, <3>3, Woke DEF MuxWake, PC
    <3>4. CASE GateOut(p) \/ ErrorGate(p)
      BY <1>0, <3>4, Gated DEF GateOut, ErrorGate, PC
    <3>5. CASE ~ (GateEnter(p) \/ Mux(p) \/ MuxWake(p) \/ GateOut(p) \/ ErrorGate(p))
      <4>1. PICK from \in PC, to \in PC \ {"gateout"} : Goto(p, from, to)
        BY <1>4, <3>5 DEF Quiet, Enqueue, Send, SendFails, SendInterrupted, GateShut,
           Sleep, Awake, ErrorDead, Read, ReadFails, ReadInterrupted, Raise, FreeTest, FreeRemove, PC
      <4>2. QED
        BY <1>0, <4>1, Went
    <3>6. QED
      BY <3>1, <3>2, <3>3, <3>4, <3>5
  <2>4. QED
    BY <1>1, <2>1, <2>2, <2>3
<1>5. CASE Serve \/ HangUp \/ Down \/ UNCHANGED vars
  BY <1>5 DEF Serve, Answer, AnswerFlush, HangUp, Down, vars, GateOuts
<1>6. QED
  BY <1>2, <1>3, <1>4, <1>5 DEF Next, Step, Quiet

-----------------------------------------------------------------------------
(* after the transport has gone down *)
LEMMA LatenessKept ==
  ASSUME Inv, Net, Lateness, [Next]_vars
  PROVE  Lateness'
<1>0. /\ TypeOK /\ TypeOK' /\ Owners
      /\ \A q \in Procs : Calling(q) => cur[q] \in Tags /\ Live(cur[q])
  BY Kept DEF Inv, Owners
<1> DEFINE OwnsUp(q) == \/ pc[q] \in Committed
                        \/ pc[q] \in {"free", "freerm", "freenext"} /\ why[q] # "dead"
<1>1. ASSUME NEW p \in Procs, NEW T, Local(p, T),
             link # "down" => late' = {},
             \A t \in T \cap Tags : flushed'[t] # None /\ t \notin late' => flushed'[t] \notin late',
             \A t \in Tags \ T : flushed[t] # None => flushed[t] \in Tags \ T,
             OwnsUp(p)' => cur'[p] \notin late',
             \A t \in Tags \ T : Live(t) /\ t \notin late => reply'[t] \in {None, id[t], reply[t]},
             \A t \in T \cap Tags : Live(t)' /\ t \notin late' => reply'[t] = None,
             \A m \in Requests : OnTheWay(m)' =>
                OnTheWay(m) \/ m.id = id[m.tag],
             \A m \in Requests : \A t \in T \cap Tags : OnTheWay(m)' /\ Live(t)' /\ t \notin late' => m.tag # t
      PROVE  Lateness'
  <2>1. link' # "down" => late' = {}
    BY <1>1 DEF Local
  <2>2. \A t \in Tags \ late' : flushed'[t] # None => flushed'[t] \notin late'
    BY <1>1 DEF Local, Lateness
  <2>3. ASSUME NEW q \in Procs, OwnsUp(q)' PROVE cur'[q] \notin late'
    <3>1. CASE q = p
      BY <1>1, <2>3, <3>1
    <3>2. CASE q # p
      <4>1. OwnsUp(q) /\ Calling(q) /\ cur'[q] = cur[q]
        BY <1>1, <2>3, <3>2 DEF Local, Committed, Calling
      <4>2. QED
        BY <1>1, <3>2, <4>1 DEF Local, Lateness
    <3>3. QED
      BY <3>1, <3>2
  <2>4. ASSUME NEW t \in Tags \ late', Live(t)'
        PROVE  reply'[t] \in {None, id'[t]}
    BY <1>1, <2>4 DEF Local, Lateness, Live
  <2>5. ASSUME NEW t \in Tags \ late', Live(t)', NEW m \in Requests, OnTheWay(m)', m.tag = t
        PROVE  m.id = id'[t]
    BY <1>1, <2>5 DEF Local, Lateness, Live
  <2>6. QED
    BY <2>1, <2>2, <2>3, <2>4, <2>5 DEF Lateness
<1>2. ASSUME NEW p \in Procs, Call(p) \/ ErrorFlush(p) PROVE Lateness'
  <2>1. PICK t \in Tags, r \in Tags \cup {None} :
           /\ Local(p, {t}) /\ ~ Live(t) /\ pc'[p] = "enqueue" /\ flushed'[t] = r
           /\ reply' = [reply EXCEPT ![t] = None]
           /\ late' = IF link = "down" THEN late \cup {t} ELSE late
           /\ UNCHANGED <<srv, in, msg, link>>
    BY <1>2, GivingIsLocal
  <2>2. late' = {} \/ t \in late'
    BY <2>1 DEF Lateness
  <2>3. link # "down" => late' = {}
    BY <2>1 DEF Lateness
  <2>4. \A m \in Requests : OnTheWay(m)' => OnTheWay(m)
    <3>1. pc[p] # "mux"
      BY <1>2 DEF Call, ErrorFlush, Goto
    <3>2. Still
      BY <2>1, <3>1 DEF Still, Local
    <3>3. QED
      BY <3>2, NothingMoves DEF Fewer
  <2>5. ASSUME NEW m \in Requests, OnTheWay(m)', t \notin late' PROVE m.tag # t
    BY <2>1, <2>4, <2>5 DEF Net, Current, Live, Request
  <2>6. \A u \in Tags \ {t} : flushed[u] # None => flushed[u] \in Tags \ {t}
    BY <1>0, <2>1 DEF Owners, TypeOK
  <2>7. reply'[t] = None /\ \A u \in Tags \ {t} : reply'[u] = reply[u]
    BY <1>0, <2>1 DEF TypeOK
  <2>8. ~ OwnsUp(p)'
    BY <2>1 DEF Committed
  <2>9. t \notin late' => flushed'[t] \notin late'
    BY <2>2
  <2>10. QED
    BY <1>1, <2>1, <2>3, <2>4, <2>5, <2>6, <2>7, <2>8, <2>9
<1>3. ASSUME NEW p \in Procs, FreeNext(p) \/ Return(p) PROVE Lateness'
  <2>1. PICK t \in Tags :
           /\ t = cur[p] /\ Local(p, {t}) /\ Live(t) /\ Calling(p) /\ pc[p] = "freenext"
           /\ FreeNext(p) => flushed[t] # None
           /\ Return(p) => ~ Calling(p)'
           /\ cur'[p] = flushed[t] /\ id'[t] = 0 /\ flushed'[t] = None
           /\ reply' = [reply EXCEPT ![t] = None]
           /\ late' = late \ {t}
           /\ FreeNext(p) => why'[p] = why[p]
           /\ UNCHANGED <<srv, in, msg, link>>
    BY <1>3, FreeingIsLocal
  <2>2. link # "down" => late' = {}
    BY <2>1 DEF Lateness
  <2>3. pc'[p] \in {"free", "idle"} /\ (pc'[p] = "free" => FreeNext(p))
    BY <1>0, <1>3, Went DEF FreeNext, Return, PC
  <2>4. \A m \in Requests : OnTheWay(m)' => OnTheWay(m)
    <3>1. Still
      BY <2>1, <2>3 DEF Still, Local
    <3>2. QED
      BY <3>1, NothingMoves DEF Fewer
  <2>5. \A u \in Tags \ {t} : flushed[u] # None => flushed[u] \in Tags \ {t}
    BY <1>0, <2>1 DEF Owners, TypeOK
  <2>6. reply'[t] = None /\ \A u \in Tags \ {t} : reply'[u] = reply[u]
    BY <1>0, <2>1 DEF TypeOK
  <2>7. OwnsUp(p)' => cur'[p] \notin late'
    <3>1. ASSUME OwnsUp(p)' PROVE pc[p] = "freenext" /\ why[p] # "dead" /\ flushed[t] # None
      BY <2>1, <2>3, <3>1 DEF Committed
    <3>2. OwnsUp(p)' => t \notin late
      BY <2>1, <3>1 DEF Lateness
    <3>3. OwnsUp(p)' => flushed[t] \notin late
      BY <2>1, <3>1, <3>2 DEF Lateness
    <3>4. QED
      BY <2>1, <3>3
  <2>8. ~ Live(t)'
    BY <2>1 DEF Live
  <2>9. QED
    BY <1>1, <2>1, <2>2, <2>4, <2>5, <2>6, <2>7, <2>8
<1>4. ASSUME NEW p \in Procs, Quiet(p) PROVE Lateness'
  <2>1. Local(p, {}) /\ UNCHANGED <<rpcs, cur>> /\ cur[p] \in Tags /\ Live(cur[p])
    BY <1>0, <1>4, QuietIsLocal
  <2>2. link # "down" => late' = {}
    BY <2>1 DEF Lateness, rpcs
  <2>3. OwnsUp(p)' => cur[p] \notin late
    <3>1. CASE Send(p)
      BY <3>1 DEF Send, Lateness
    <3>2. CASE GateOut(p) \/ ErrorGate(p)
      <4>1. \/ pc[p] = "gateout"
            \/ pc'[p] = "error"
        BY <1>0, <3>2, Gated DEF GateOut, ErrorGate, PC
      <4>2. QED
        BY <4>1 DEF Lateness, Committed
    <3>3. CASE MuxWake(p)
      <4>1. pc[p] \in Committed
        BY <3>3 DEF MuxWake, Wakeup, Committed
      <4>2. QED
        BY <4>1 DEF Lateness
    <3>4. CASE ErrorDead(p)
      <4>1. pc'[p] = "free" /\ why'[p] = "dead"
        BY <1>0, <3>4, Went DEF ErrorDead, PC
      <4>2. QED
        BY <4>1 DEF Committed
    <3>5. CASE Enqueue(p) \/ SendFails(p) \/ SendInterrupted(p) \/ ReadFails(p) \/ ReadInterrupted(p)
      <4>1. pc'[p] \in {"send", "error"}
        BY <1>0, <3>5, Went DEF Enqueue, SendFails, SendInterrupted, ReadFails, ReadInterrupted, Raise, PC
      <4>2. QED
        BY <4>1 DEF Committed
    <3>6. CASE GateEnter(p) \/ GateShut(p) \/ Sleep(p) \/ Awake(p) \/ Read(p) \/ Mux(p)
      <4>1. pc[p] \in Committed
        BY <3>6 DEF GateEnter, GateShut, Sleep, Awake, Read, Mux, Goto, Committed
      <4>2. QED
        BY <4>1 DEF Lateness
    <3>7. CASE FreeTest(p) \/ FreeRemove(p)
      <4>1. /\ pc[p] \in {"free", "freerm"} /\ pc'[p] \in {"freerm", "freenext"}
            /\ UNCHANGED why
        BY <1>0, <3>7, Went DEF FreeTest, FreeRemove, PC
      <4>2. QED
        BY <4>1 DEF Lateness, Committed
    <3>8. QED
      BY <1>4, <3>1, <3>2, <3>3, <3>4, <3>5, <3>6, <3>7 DEF Quiet
  <2>4. \A t \in Tags : Live(t) /\ t \notin late => reply'[t] \in {None, id[t], reply[t]}
    <3>1. CASE Mux(p)
      <4>1. PICK m \in Requests : m = msg[p] /\ m.tag \in Tags /\ OnTheWay(m)
        BY <1>0, <3>1 DEF Mux, Goto, TypeOK, Requests, OnTheWay
      <4>2. Live(m.tag) /\ m.tag \notin late => m.id = id[m.tag]
        BY <4>1 DEF Lateness
      <4>3. reply' = reply \/ reply' = [reply EXCEPT ![m.tag] = IF m.old = None THEN m.id ELSE None]
        BY <3>1, <4>1 DEF Mux
      <4>4. QED
        BY <1>0, <4>1, <4>2, <4>3 DEF TypeOK
    <3>2. CASE ~ Mux(p)
      <4>1. reply' \in {reply, [reply EXCEPT ![cur[p]] = None]}
        BY <1>4, <3>2 DEF Quiet, Enqueue, Send, SendFails, SendInterrupted, GateEnter, GateShut, Sleep,
           Awake, ErrorDead, Read, ReadFails, ReadInterrupted, Raise, MuxWake, FreeTest, FreeRemove,
           GateOut, ErrorGate, Gate
      <4>2. QED
        BY <1>0, <4>1 DEF TypeOK
    <3>3. QED
      BY <3>1, <3>2
  <2>5. \A m \in Requests : OnTheWay(m)' => OnTheWay(m) \/ m.id = id[m.tag]
    <3>1. \A m \in srv' : m \in srv \/ m.id = id[m.tag]
      BY <1>4 DEF Quiet, Enqueue, Send, SendFails, SendInterrupted, GateEnter, GateShut, Sleep,
         Awake, ErrorDead, Read, ReadFails, ReadInterrupted, Raise, Mux, MuxWake, FreeTest, FreeRemove,
         GateOut, ErrorGate, Gate, net, Request
    <3>2. \A i \in DOMAIN in' : \E j \in DOMAIN in : in[j] = in'[i]
      <4>1. CASE Read(p)
        <5>1. in \in Seq(Requests) /\ in # <<>> /\ in' = Tail(in)
          BY <1>0, <4>1 DEF Read, TypeOK
        <5>2. \A i \in DOMAIN in' : i + 1 \in DOMAIN in /\ in'[i] = in[i + 1]
          BY <5>1
        <5>3. QED
          BY <5>2
      <4>2. CASE ~ Read(p)
        <5>1. in' = in
          BY <1>4, <4>2 DEF Quiet, Enqueue, Send, SendFails, SendInterrupted, GateEnter, GateShut, Sleep,
             Awake, ErrorDead, ReadFails, ReadInterrupted, Raise, Mux, MuxWake, FreeTest, FreeRemove,
             GateOut, ErrorGate, Gate, net
        <5>2. QED
          BY <5>1
      <4>3. QED
        BY <4>1, <4>2
    <3>3. ASSUME NEW q \in Procs, pc'[q] = "mux" PROVE OnTheWay(msg'[q])
      <4>1. CASE Read(p)
        <5>1. /\ pc[p] = "read" /\ \A u \in Procs : u # p => pc'[u] = pc[u] /\ msg'[u] = msg[u]
              /\ in \in Seq(Requests) /\ in # <<>> /\ msg'[p] = Head(in)
          BY <1>0, <4>1, Went DEF Read, PC, TypeOK
        <5>2. 1 \in DOMAIN in /\ msg'[p] = in[1]
          BY <5>1
        <5>3. QED
          BY <3>3, <5>1, <5>2 DEF OnTheWay
      <4>2. CASE ~ Read(p)
        <5>1. pc'[p] # "mux" /\ \A u \in Procs : u # p => msg'[u] = msg[u]
          <6>1. CASE MuxWake(p)
            BY <1>0, <6>1, Woke DEF MuxWake, PC, TypeOK
          <6>2. CASE GateOut(p) \/ ErrorGate(p)
            BY <1>0, <6>2, Gated DEF GateOut, ErrorGate, PC
          <6>3. CASE ~ (MuxWake(p) \/ GateOut(p) \/ ErrorGate(p))
            <7>1. PICK from \in PC, to \in PC \ {"mux"} : Goto(p, from, to)
              BY <1>4, <4>2, <6>3 DEF Quiet, Enqueue, Send, SendFails, SendInterrupted, GateEnter, GateShut,
                 Sleep, Awake, ErrorDead, ReadFails, ReadInterrupted, Raise, Mux, FreeTest, FreeRemove, PC
            <7>2. \A u \in Procs : u # p => msg'[u] = msg[u]
              BY <1>0, <1>4, <4>2, <6>3 DEF Quiet, Enqueue, Send, SendFails, SendInterrupted, GateEnter,
                 GateShut, Sleep, Awake, ErrorDead, ReadFails, ReadInterrupted, Raise, Mux, FreeTest,
                 FreeRemove, TypeOK
            <7>3. QED
              BY <1>0, <7>1, <7>2, Went
          <6>4. QED
            BY <6>1, <6>2, <6>3
        <5>2. q # p /\ pc[q] = "mux" /\ msg'[q] = msg[q]
          BY <2>1, <3>3, <5>1 DEF Local
        <5>3. QED
          BY <5>2 DEF OnTheWay
      <4>3. QED
        BY <4>1, <4>2
    <3>4. QED
      BY <3>1, <3>2, <3>3 DEF OnTheWay
  <2>6. \A t \in Tags : flushed[t] # None => flushed[t] \in Tags
    BY <1>0 DEF TypeOK
  <2>7. QED
    <3>1. OwnsUp(p)' => cur'[p] \notin late'
      BY <2>1, <2>3 DEF rpcs
    <3>2. QED
      BY <1>1, <2>1, <2>2, <2>4, <2>5, <2>6, <3>1
<1>5. CASE Serve \/ HangUp \/ Down \/ UNCHANGED vars
  <2>1. /\ UNCHANGED <<pc, why, cur, late, id, flushed, reply, msg>>
        /\ link' # "down" => link # "down"
    BY <1>5 DEF Serve, Answer, AnswerFlush, HangUp, Down, vars, rpcs, net
  <2>2. \A m \in Requests : OnTheWay(m)' => OnTheWay(m)
    <3>1. ASSUME NEW n \in srv, Answer(n) \/ AnswerFlush(n)
          PROVE  srv' \subseteq srv /\ \A i \in DOMAIN in' : OnTheWay(in'[i])
      <4>1. in' = Append(in, n) /\ srv' \subseteq srv /\ n \in Requests /\ in \in Seq(Requests)
        BY <1>0, <3>1 DEF Answer, AnswerFlush, TypeOK
      <4>2. \A i \in DOMAIN in' : in'[i] = n \/ (i \in DOMAIN in /\ in'[i] = in[i])
        BY <4>1
      <4>3. QED
        BY <4>1, <4>2 DEF OnTheWay
    <3>2. CASE Serve
      BY <2>1, <3>1, <3>2 DEF Serve, OnTheWay
    <3>3. CASE ~ Serve
      BY <1>5, <2>1, <3>3 DEF HangUp, Down, vars, net, OnTheWay
    <3>4. QED
      BY <3>2, <3>3
  <2>3. QED
    BY <2>1, <2>2 DEF Lateness, Live
<1>6. QED
  BY <1>2, <1>3, <1>4, <1>5 DEF Next, Step, Quiet

-----------------------------------------------------------------------------
(* no call has been made *)
LEMMA TagsInitially == Init => TagInv
<1> SUFFICES ASSUME Init PROVE TagInv
  OBVIOUS
<1>1. DOMAIN in = {} /\ srv = {} /\ \A p \in Procs : pc[p] = "idle" /\ why[p] = None
  BY DEF Init
<1>2. \A m : ~ OnTheWay(m)
  BY <1>1 DEF OnTheWay
<1>3. Ids /\ Chains /\ GateOuts
  BY DEF Init, Ids, Chains, GateOuts, Live
<1>4. Net
  BY <1>1, <1>2, NoneIsNil DEF Init, Net, Current, Ordered, Unsent, Answered
<1>5. Lateness
  BY <1>1, <1>2 DEF Init, Lateness, Live, Committed
<1>6. QED
  BY <1>3, <1>4, <1>5 DEF TagInv

(* TagInv is inductive, given Inv *)
LEMMA TagsKept == Inv /\ TagInv /\ [Next]_vars => TagInv'
BY ChainsKept, GateOutsKept, NetKept, LatenessKept DEF TagInv

(* Tags and messages agree in every reachable state. *)
THEOREM TagInvariance == Spec => [](Inv /\ TagInv)
BY Initially, Kept, TagsInitially, TagsKept, PTL DEF Spec

(* While the server is there, what it owes an answer to, or has answered,  *)
(* is what the tag stands for now.                                         *)
THEOREM TagsAreNotStale == Spec => []NoStaleTag
<1>1. ASSUME Inv, TagInv PROVE NoStaleTag
  <2>1. /\ \A m \in srv : m \in Requests /\ OnTheWay(m)
        /\ \A i \in DOMAIN in : in[i] \in Requests /\ OnTheWay(in[i])
    BY <1>1 DEF Inv, TypeOK, OnTheWay
  <2>2. \A m \in Requests : link = "up" /\ OnTheWay(m) => id[m.tag] = m.id
    BY <1>1 DEF TagInv, Net, Current, Request
  <2>3. QED
    BY <2>1, <2>2 DEF NoStaleTag
<1>2. QED
  BY <1>1, TagInvariance, PTL

(* A call returns with the reply to its own request, or an error.          *)
THEOREM RepliesAreOwn == Spec => []ReplyIsOwn
<1>1. ASSUME Inv, TagInv PROVE ReplyIsOwn
  <2>1. ASSUME NEW p \in Procs, pc[p] \in {"gateout", "free", "freerm", "freenext"}, why[p] # "dead"
        PROVE  reply[cur[p]] \in {id[cur[p]], None}
    <3>1. cur[p] \in Tags /\ Live(cur[p])
      BY <1>1, <2>1 DEF Inv, Owners, Calling
    <3>2. cur[p] \notin late
      BY <1>1, <2>1 DEF TagInv, Lateness, Committed
    <3>3. QED
      BY <1>1, <3>1, <3>2 DEF TagInv, Lateness
  <2>2. QED
    BY <2>1 DEF ReplyIsOwn
<1>2. QED
  BY <1>1, TagInvariance, PTL
=============================================================================
