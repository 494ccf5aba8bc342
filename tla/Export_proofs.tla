--------------------------- MODULE Export_proofs ---------------------------
(***************************************************************************)
(* exportfs for any number of slaves and work buffers, any client and any  *)
(* load: master and slaves, which have no lock but rendezvous, never work  *)
(* on the same buffer; each request is answered once, as long as every     *)
(* flush finds its request; and the Files of the tree are counted exactly. *)
(***************************************************************************)
EXTENDS Export, FiniteSetTheorems, WellFoundedInduction, TLAPS

-----------------------------------------------------------------------------
(* First what each step of rendezvous keeps to, whatever its callers do: a *)
(* process is in the bucket, or has met its partner and is owed one        *)
(* wakeup, or is outside and its semaphore is at rest.                     *)

Waits(p) == \E i \in DOMAIN rend : rend[i] = p

Met(p) == rendpc[p] # "out" /\ ~ Waits(p)

RendTypeOK ==
  /\ OprocTypeOK
  /\ rend \in Seq(Procs)
  /\ DOMAIN rendtag = Procs /\ DOMAIN rendval = Procs
  /\ rendpc \in [Procs -> {"out", "queued", "slept"}]

(* a process is in the bucket at most once, and only while it waits *)
Bucket ==
  /\ \A i, j \in DOMAIN rend : rend[i] = rend[j] => i = j
  /\ \A p \in Procs : Waits(p) => rendpc[p] # "out"

(* what procwakeup owes the semaphore of p *)
Due(p) == IF Waits(p) THEN 0 ELSE 1

Credits ==
  \A p \in Procs :
    /\ rendpc[p] = "out" => credit[p] = 0
    /\ rendpc[p] = "queued" => credit[p] = Due(p)
    /\ rendpc[p] = "slept" => credit[p] = Due(p) - 1
    /\ thread[p] # "runs" => rendpc[p] = "slept"
    /\ thread[p] = "waits" => credit[p] < 0
    /\ thread[p] = "runs" => credit[p] >= 0

RendInv == RendTypeOK /\ Bucket /\ Credits

-----------------------------------------------------------------------------
(* taking an element out of the bucket *)
LEMMA RemoveAtElements ==
  ASSUME NEW S, NEW s \in Seq(S), NEW i \in DOMAIN s
  PROVE  /\ RemoveAt(s, i) \in Seq(S)
         /\ DOMAIN RemoveAt(s, i) = 1 .. Len(s) - 1 /\ Len(RemoveAt(s, i)) = Len(s) - 1
         /\ \A j \in 1 .. Len(s) - 1 : RemoveAt(s, i)[j] = IF j < i THEN s[j] ELSE s[j + 1]
<1> DEFINE a == SubSeq(s, 1, i - 1)
           b == SubSeq(s, i + 1, Len(s))
<1>1. i \in 1 .. Len(s) /\ Len(s) \in Nat
  OBVIOUS
<1>2. a \in Seq(S) /\ Len(a) = i - 1 /\ \A j \in 1 .. i - 1 : a[j] = s[j]
  BY <1>1
<1>3. b \in Seq(S) /\ Len(b) = Len(s) - i /\ \A j \in 1 .. Len(s) - i : b[j] = s[j + i]
  BY <1>1
<1> HIDE DEF a, b
<1>4. /\ a \o b \in Seq(S) /\ Len(a \o b) = Len(s) - 1
      /\ \A j \in 1 .. Len(s) - 1 : (a \o b)[j] = IF j <= i - 1 THEN a[j] ELSE b[j - (i - 1)]
  BY <1>1, <1>2, <1>3
<1>5. ASSUME NEW j \in 1 .. Len(s) - 1
      PROVE  (a \o b)[j] = IF j < i THEN s[j] ELSE s[j + 1]
  <2>1. CASE j < i
    BY <1>1, <1>2, <1>4, <2>1
  <2>2. CASE ~ (j < i)
    <3>1. j - (i - 1) \in 1 .. Len(s) - i /\ j - (i - 1) + i = j + 1 /\ ~ (j <= i - 1)
      BY <1>1, <2>2
    <3>2. QED
      BY <1>3, <1>4, <2>2, <3>1
  <2>3. QED
    BY <2>1, <2>2
<1>6. RemoveAt(s, i) = a \o b
  BY DEF RemoveAt, a, b
<1>7. QED
  BY <1>4, <1>5, <1>6

(* putting an element into the bucket *)
LEMMA AppendElements ==
  ASSUME NEW S, NEW s \in Seq(S), NEW e \in S
  PROVE  /\ Append(s, e) \in Seq(S)
         /\ DOMAIN Append(s, e) = DOMAIN s \cup {Len(s) + 1}
         /\ Len(s) + 1 \notin DOMAIN s
         /\ \A i \in DOMAIN s : Append(s, e)[i] = s[i]
         /\ Append(s, e)[Len(s) + 1] = e
OBVIOUS

(* the bucket is empty and nobody is in procsleep *)
LEMMA RendInitially == RendInit => RendInv
BY DEF RendInit, RendInv, RendTypeOK, OprocInit, OprocTypeOK, ThreadState, Bucket, Credits,
   Waits

(* rendezvous(t, val), when nobody is there *)
LEMMA AwaitKeeps ==
  ASSUME RendInv, NEW p \in Procs, NEW t, NEW val, Await(p, t, val)
  PROVE  /\ RendInv'
         /\ \A q \in Procs : /\ Waits(q)' <=> Waits(q) \/ q = p
                             /\ Met(q)' <=> Met(q)
<1>1. /\ rendpc[p] = "out" /\ rend' = Append(rend, p)
      /\ rendtag' = [rendtag EXCEPT ![p] = t] /\ rendval' = [rendval EXCEPT ![p] = val]
      /\ rendpc' = [rendpc EXCEPT ![p] = "queued"] /\ UNCHANGED <<credit, thread>>
  BY DEF Await, oprocVars
<1>2. /\ rend \in Seq(Procs) /\ rend' \in Seq(Procs)
      /\ DOMAIN rend' = DOMAIN rend \cup {Len(rend) + 1} /\ Len(rend) + 1 \notin DOMAIN rend
      /\ \A i \in DOMAIN rend : rend'[i] = rend[i]
      /\ rend'[Len(rend) + 1] = p
  BY <1>1, AppendElements DEF RendInv, RendTypeOK
<1>3. \A q \in Procs : Waits(q)' <=> Waits(q) \/ q = p
  BY <1>2 DEF Waits
<1>4. ~ Waits(p)
  BY <1>1 DEF RendInv, Bucket
<1>5. \A q \in Procs : rendpc'[q] = IF q = p THEN "queued" ELSE rendpc[q]
  BY <1>1 DEF RendInv, RendTypeOK
<1>6. \A q \in Procs : Met(q)' <=> Met(q)
  BY <1>1, <1>3, <1>4, <1>5 DEF Met
<1>7. RendTypeOK'
  BY <1>1, <1>2 DEF RendInv, RendTypeOK, OprocTypeOK
<1>8. Bucket'
  <2>1. \A i \in DOMAIN rend : rend[i] # p
    BY <1>4 DEF Waits
  <2>2. \A i, j \in DOMAIN rend' : rend'[i] = rend'[j] => i = j
    BY <1>2, <2>1 DEF RendInv, Bucket
  <2>3. QED
    BY <1>3, <1>5, <2>2 DEF RendInv, Bucket
<1>9. Credits'
  BY <1>1, <1>3, <1>4, <1>5 DEF RendInv, Credits, Due
<1>10. QED
  BY <1>3, <1>6, <1>7, <1>8, <1>9 DEF RendInv

(* rendezvous(t, val), when q is there *)
LEMMA MeetKeeps ==
  ASSUME RendInv, NEW p \in Procs, NEW t, NEW val, NEW got, Meet(p, t, val, got)
  PROVE  \E q \in Procs :
           /\ RendInv'
           /\ rendpc[p] = "out" /\ Waits(q) /\ q # p
           /\ rendtag[q] = t /\ got = rendval[q]
           /\ rendval' = [rendval EXCEPT ![p] = None, ![q] = val]
           /\ rendtag' = [rendtag EXCEPT ![q] = None]
           /\ rendpc' = rendpc
           /\ \A r \in Procs : /\ Waits(r)' <=> Waits(r) /\ r # q
                               /\ Met(r)' <=> Met(r) \/ r = q
<1>1. PICK i \in Partners(t) :
        /\ got = rendval[rend[i]]
        /\ rend' = RemoveAt(rend, i)
        /\ rendval' = [rendval EXCEPT ![p] = None, ![rend[i]] = val]
        /\ rendtag' = [rendtag EXCEPT ![rend[i]] = None]
        /\ ProcWakeup(rend[i])
  BY DEF Meet
<1>2. rendpc[p] = "out" /\ rendpc' = rendpc
  BY DEF Meet
<1>3. i \in DOMAIN rend /\ rendtag[rend[i]] = t
  BY <1>1 DEF Partners, Matching
<1>4. rend \in Seq(Procs)
  BY DEF RendInv, RendTypeOK
<1> PICK q \in Procs : q = rend[i]
  BY <1>3, <1>4
<1>5. Waits(q) /\ q # p
  BY <1>2, <1>3, <1>4 DEF Waits, RendInv, Bucket
<1>6. /\ rend' \in Seq(Procs) /\ DOMAIN rend' = 1 .. Len(rend) - 1
      /\ \A j \in DOMAIN rend' : rend'[j] = IF j < i THEN rend[j] ELSE rend[j + 1]
  BY <1>1, <1>3, <1>4, RemoveAtElements
<1>7. i \in 1 .. Len(rend) /\ DOMAIN rend = 1 .. Len(rend) /\ Len(rend) \in Nat
  BY <1>3, <1>4
<1>8. \A j, n \in DOMAIN rend' : rend'[j] = rend'[n] => j = n
  <2> SUFFICES ASSUME NEW j \in DOMAIN rend', NEW n \in DOMAIN rend', rend'[j] = rend'[n]
               PROVE  j = n
    OBVIOUS
  <2>1. \A a, b \in DOMAIN rend : rend[a] = rend[b] => a = b
    BY DEF RendInv, Bucket
  <2>2. j \in DOMAIN rend /\ j + 1 \in DOMAIN rend /\ n \in DOMAIN rend /\ n + 1 \in DOMAIN rend
    BY <1>6, <1>7
  <2>3. QED
    BY <1>6, <1>7, <2>1, <2>2
<1>9. \A r \in Procs : Waits(r)' <=> Waits(r) /\ r # q
  <2> SUFFICES ASSUME NEW r \in Procs
               PROVE  Waits(r)' <=> Waits(r) /\ r # q
    OBVIOUS
  <2>1. \A a \in DOMAIN rend : rend[a] = q => a = i
    BY <1>3 DEF RendInv, Bucket
  <2>2. ASSUME Waits(r)' PROVE Waits(r) /\ r # q
    <3>1. PICK j \in DOMAIN rend' : rend'[j] = r
      BY <2>2 DEF Waits
    <3>2. j \in DOMAIN rend /\ j + 1 \in DOMAIN rend /\ j \in Nat
      BY <1>6, <1>7, <3>1
    <3>3. QED
      BY <1>6, <1>7, <2>1, <3>1, <3>2 DEF Waits
  <2>3. ASSUME Waits(r), r # q PROVE Waits(r)'
    <3>1. PICK j \in DOMAIN rend : rend[j] = r
      BY <2>3 DEF Waits
    <3>2. CASE j < i
      BY <1>6, <1>7, <3>1, <3>2 DEF Waits
    <3>3. CASE j > i
      <4>1. j - 1 \in DOMAIN rend' /\ ~ (j - 1 < i) /\ j - 1 + 1 = j
        BY <1>6, <1>7, <3>3
      <4>2. QED
        BY <1>6, <3>1, <4>1 DEF Waits
    <3>4. QED
      BY <1>7, <2>3, <3>1, <3>2, <3>3
  <2>4. QED
    BY <2>2, <2>3
<1>10. \A r \in Procs : Met(r)' <=> Met(r) \/ r = q
  BY <1>2, <1>4, <1>5, <1>9 DEF Met, RendInv, Bucket
<1>11. RendInv'
  <2>1. RendTypeOK'
    BY <1>1, <1>2, <1>4, <1>6 DEF RendInv, RendTypeOK, OprocTypeOK, ThreadState, ProcWakeup
  <2>2. Bucket'
    BY <1>2, <1>8, <1>9 DEF RendInv, Bucket
  <2>3. Credits'
    <3>1. \A r \in Procs : r # q => credit'[r] = credit[r] /\ thread'[r] = thread[r]
      BY <1>1, <1>4 DEF ProcWakeup, RendInv, RendTypeOK, OprocTypeOK
    <3>2. /\ credit'[q] = credit[q] + 1
          /\ thread'[q] = IF thread[q] = "waits" /\ credit[q] + 1 = 0 THEN "signalled"
                          ELSE thread[q]
      BY <1>1, <1>4 DEF ProcWakeup, RendInv, RendTypeOK, OprocTypeOK
    <3>3. rendpc[q] # "out" /\ Due(q) = 0 /\ Due(q)' = 1
      BY <1>4, <1>5, <1>9 DEF Due, RendInv, Bucket
    <3>4. \A r \in Procs : r # q => Due(r)' = Due(r)
      BY <1>9 DEF Due
    <3>5. credit \in [Procs -> Int] /\ \A r \in Procs : Due(r) \in {0, 1}
      BY DEF RendInv, RendTypeOK, OprocTypeOK, Due
    <3>6. QED
      BY <1>2, <1>4, <3>1, <3>2, <3>3, <3>4, <3>5 DEF RendInv, Credits, RendTypeOK, OprocTypeOK,
         ThreadState
  <2>4. QED
    BY <2>1, <2>2, <2>3 DEF RendInv
<1>12. QED
  BY <1>1, <1>2, <1>3, <1>4, <1>5, <1>9, <1>10, <1>11

(* procsleep, spurious returns and tests of its condition *)
LEMMA SleepKeeps ==
  ASSUME RendInv, NEW p \in Procs, RendSleep(p) \/ CondTest(p) \/ CondReturn(p)
  PROVE  /\ RendInv'
         /\ UNCHANGED <<rend, rendtag, rendval>>
         /\ \A q \in Procs : /\ Waits(q)' <=> Waits(q)
                             /\ Met(q)' <=> Met(q)
                             /\ rendpc'[q] = "out" <=> rendpc[q] = "out"
<1>1. UNCHANGED <<rend, rendtag, rendval>>
  BY DEF RendSleep, CondTest, CondReturn
<1>2. \A q \in Procs : (Waits(q)' <=> Waits(q)) /\ Due(q)' = Due(q) /\ Due(q) \in {0, 1}
  BY <1>1 DEF Waits, Due
<1>3. CASE RendSleep(p)
  BY <1>1, <1>2, <1>3 DEF RendSleep, ProcSleep, WaitOrReturn, RendInv, RendTypeOK, OprocTypeOK,
     ThreadState, Bucket, Credits, Met
<1>4. CASE CondTest(p)
  BY <1>1, <1>2, <1>4 DEF CondTest, Retest, WaitOrReturn, RendInv, RendTypeOK, OprocTypeOK,
     ThreadState, Bucket, Credits, Met
<1>5. CASE CondReturn(p)
  BY <1>1, <1>2, <1>5 DEF CondReturn, SpuriousReturn, RendInv, RendTypeOK, OprocTypeOK,
     ThreadState, Bucket, Credits, Met
<1>6. QED
  BY <1>3, <1>4, <1>5

(* procsleep returns only to one that has met its partner *)
LEMMA WokenKeeps ==
  ASSUME RendInv, NEW p \in Procs, NEW got, Woken(p, got)
  PROVE  /\ RendInv'
         /\ Met(p) /\ got = rendval[p]
         /\ rendpc' = [rendpc EXCEPT ![p] = "out"]
         /\ rendval' = [rendval EXCEPT ![p] = None]
         /\ rendtag' = rendtag
         /\ \A q \in Procs : /\ Waits(q)' <=> Waits(q)
                             /\ Met(q)' <=> Met(q) /\ q # p
<1>1. /\ rendpc[p] = "slept" /\ thread[p] = "runs"
      /\ rendpc' = [rendpc EXCEPT ![p] = "out"] /\ got = rendval[p]
      /\ rendval' = [rendval EXCEPT ![p] = None]
      /\ UNCHANGED <<rend, rendtag, credit, thread>>
  BY DEF Woken, oprocVars
<1>2. \A q \in Procs : (Waits(q)' <=> Waits(q)) /\ Due(q)' = Due(q)
  BY <1>1 DEF Waits, Due
<1>3. ~ Waits(p) /\ Met(p)
  BY <1>1 DEF RendInv, Credits, Due, Met, RendTypeOK, OprocTypeOK
<1>4. \A q \in Procs : Met(q)' <=> Met(q) /\ q # p
  BY <1>1, <1>2 DEF Met, RendInv, RendTypeOK
<1>5. RendInv'
  <2>1. RendTypeOK'
    BY <1>1 DEF RendInv, RendTypeOK, OprocTypeOK
  <2>2. Bucket'
    BY <1>1, <1>2, <1>3 DEF RendInv, RendTypeOK, Bucket
  <2>3. Credits'
    BY <1>1, <1>2, <1>3 DEF RendInv, RendTypeOK, OprocTypeOK, Credits, Due
  <2>4. QED
    BY <2>1, <2>2, <2>3 DEF RendInv
<1>6. QED
  BY <1>1, <1>2, <1>3, <1>4, <1>5

-----------------------------------------------------------------------------
(* Now exportfs.                                                           *)

MasterPC == {"search", "read", "setflush", "slave", "greet", "hand", "fatal"}
WorkingPC == {"start", "getfid", "canint", "host", "test", "flushme", "rflush",
              "giveback"}
SlavePC == {"none", "hello", "take", "rest"} \cup WorkingPC

Created(s) == \E i \in DOMAIN proclist : proclist[i] = s

Shape ==
  /\ busy \in [Bufs -> BOOLEAN] /\ bufpid \in [Bufs -> Slaves \cup {None}]
  /\ DOMAIN buf = Procs /\ DOMAIN pc = Procs
  /\ proclist \in Seq(Slaves) /\ pbusy \subseteq Slaves
  /\ pc[Master] \in MasterPC
  /\ \A s \in Slaves : pc[s] \in SlavePC /\ (Created(s) <=> pc[s] # "none")

(* who is in rendezvous, and under which tag and with what he waits there  *)
Meetings ==
  /\ rendpc[Master] # "out" => pc[Master] \in {"greet", "hand"}
  /\ \A s \in Slaves : rendpc[s] # "out" => pc[s] \in {"hello", "take"}
  /\ \A p \in Procs : Waits(p) => rendtag[p] = Tag(p) /\ rendval[p] = Gives(p)

Greeting(s) ==
  pc[Master] = "greet" /\ ~ Met(Master) /\ proclist # <<>> /\ Head(proclist) = s

(* A new slave says hello to the master that made it, and to no other.     *)
Greetings ==
  /\ pc[Master] = "greet" => proclist # <<>>
  /\ \A s \in Slaves : pc[s] = "hello" /\ ~ Met(s) <=> Greeting(s)

Handing(s) == pc[Master] = "hand" /\ ~ Met(Master) /\ bufpid[buf[Master]] = s

(* slave s works on buffer b, or has been given it and is about to wake up *)
HasBuf(s, b) ==
  \/ pc[s] \in WorkingPC /\ buf[s] = b
  \/ pc[s] = "take" /\ Met(s) /\ rendval[s] = b

(* A slave that has a buffer, or will be given one, is busy; nobody else   *)
(* has its buffer, which says whose it is.                                 *)
Slaving ==
  \A s \in Slaves :
    /\ pc[s] \in WorkingPC \/ (pc[s] = "take" /\ Met(s)) => s \in pbusy /\ \E b \in Bufs : HasBuf(s, b)
    /\ pc[s] = "rest" => s \in pbusy
    /\ Handing(s) => s \in pbusy /\ pc[s] \in {"hello", "take"} /\ (pc[s] = "take" => ~ Met(s))
    /\ \A b \in Bufs : HasBuf(s, b) => busy[b] /\ bufpid[b] = s

(* The buffer that the master works on is nobody else's until a slave has  *)
(* met it; then the master has only to hear who that was.                  *)
Mastering ==
  /\ pc[Master] \in {"read", "setflush", "slave", "greet"} \/ (pc[Master] = "hand" /\ ~ Met(Master)) =>
       /\ buf[Master] \in Bufs /\ busy[buf[Master]]
       /\ \A s \in Slaves : ~ HasBuf(s, buf[Master])
  /\ pc[Master] = "hand" =>
       /\ buf[Master] \in Bufs /\ bufpid[buf[Master]] \in Slaves
       /\ Met(Master) => rendval[Master] = bufpid[buf[Master]]

Inv == RendInv /\ Shape /\ Meetings /\ Greetings /\ Slaving /\ Mastering

-----------------------------------------------------------------------------
LEMMA Everybody == Master \in Procs /\ Slaves \subseteq Procs /\ Master \notin Slaves
BY ProcsAre

(* nobody is in the middle of a rendezvous of another step *)
LEMMA RendStays ==
  ASSUME UNCHANGED rendVars
  PROVE  /\ RendInv' <=> RendInv
         /\ \A p \in Procs : /\ Waits(p)' <=> Waits(p)
                             /\ Met(p)' <=> Met(p)
BY DEF rendVars, oprocVars, RendInv, RendTypeOK, OprocTypeOK, Bucket, Credits, Due, Waits, Met

(* a process that is in no rendezvous *)
LEMMA OutIsOut ==
  ASSUME Inv, NEW p \in Procs, rendpc[p] = "out"
  PROVE  ~ Waits(p) /\ ~ Met(p)
BY DEF Inv, RendInv, Bucket, Met

(* the tags of rendezvous *)
LEMMA TagsAre ==
  ASSUME Inv
  PROVE  /\ pc[Master] = "greet" => Tag(Master) = Head(proclist) /\ Gives(Master) = Head(proclist)
         /\ pc[Master] = "hand" => Tag(Master) = bufpid[buf[Master]] /\ Gives(Master) = buf[Master]
         /\ \A s \in Slaves : Tag(s) = s /\ (pc[s] = "take" => Gives(s) = s)
BY DEF Tag, Gives, Inv, Shape, SlavePC, WorkingPC

-----------------------------------------------------------------------------
(* steps of a slave that works on its buffer *)
LEMMA SlaveWorks ==
  ASSUME Inv, NEW s \in Slaves, NEW to \in WorkingPC, pc[s] \in WorkingPC,
         pc' = [pc EXCEPT ![s] = to],
         UNCHANGED <<busy, bufpid, buf, proclist, pbusy, rendVars>>
  PROVE  Inv'
<1>1. \A p \in Procs : (Waits(p)' <=> Waits(p)) /\ (Met(p)' <=> Met(p))
  BY RendStays
<1>2. pc'[Master] = pc[Master] /\ \A t \in Slaves : pc'[t] = IF t = s THEN to ELSE pc[t]
  BY Everybody DEF Inv, Shape
<1>3. RendInv'
  BY RendStays DEF Inv
<1>4. Shape'
  BY <1>2 DEF Inv, Shape, Created, SlavePC, WorkingPC
<1>5. rendpc[s] = "out" /\ ~ Waits(s) /\ ~ Met(s)
  BY OutIsOut, Everybody DEF Inv, Meetings, WorkingPC
<1>6. UNCHANGED <<rendpc, rendtag, rendval>>
  BY DEF rendVars
<1>7. Meetings'
  <2>1. \A p \in Procs : Waits(p) => pc'[p] = pc[p]
    BY <1>2, <1>5, ProcsAre
  <2>2. \A p \in Procs : Waits(p) => Tag(p)' = Tag(p) /\ Gives(p)' = Gives(p)
    BY <2>1 DEF Tag, Gives
  <2>3. QED
    BY <1>1, <1>2, <1>5, <1>6, <2>2 DEF Inv, Meetings
<1>8. Greetings'
  BY <1>1, <1>2, Everybody DEF Inv, Greetings, Greeting, WorkingPC
<1>9. \A t \in Slaves : /\ Handing(t)' <=> Handing(t)
                        /\ \A b \in Bufs : HasBuf(t, b)' <=> HasBuf(t, b)
  BY <1>1, <1>2, <1>6, Everybody DEF Handing, HasBuf, WorkingPC
<1>10. Slaving'
  BY <1>1, <1>2, <1>9, Everybody DEF Inv, Slaving, WorkingPC
<1>11. Mastering'
  BY <1>1, <1>2, <1>6, <1>9, Everybody DEF Inv, Mastering
<1>12. QED
  BY <1>3, <1>4, <1>7, <1>8, <1>10, <1>11 DEF Inv

(* the slave gives its buffer back *)
LEMMA GiveBackPreserves ==
  ASSUME Inv, NEW s \in Slaves, SlaveGiveBack(s)
  PROVE  Inv'
<1>1. /\ pc[s] = "giveback" /\ pc' = [pc EXCEPT ![s] = "rest"]
      /\ busy' = [busy EXCEPT ![buf[s]] = FALSE] /\ buf' = [buf EXCEPT ![s] = None]
      /\ UNCHANGED <<bufpid, proclist, pbusy, rendVars>>
  BY DEF SlaveGiveBack, Goto, slaves
<1>2. \A p \in Procs : (Waits(p)' <=> Waits(p)) /\ (Met(p)' <=> Met(p))
  BY <1>1, RendStays
<1>3. /\ pc'[Master] = pc[Master] /\ buf'[Master] = buf[Master]
      /\ pc'[s] = "rest"
      /\ \A t \in Slaves : t # s => pc'[t] = pc[t] /\ buf'[t] = buf[t]
  BY <1>1, Everybody DEF Inv, Shape
<1>4. rendpc[s] = "out" /\ ~ Waits(s) /\ ~ Met(s)
  BY <1>1, OutIsOut, Everybody DEF Inv, Meetings
<1>5. UNCHANGED <<rendpc, rendtag, rendval>>
  BY <1>1 DEF rendVars
<1>6. buf[s] \in Bufs /\ HasBuf(s, buf[s]) /\ bufpid[buf[s]] = s /\ s \in pbusy
  BY <1>1, <1>4 DEF Inv, Slaving, HasBuf, WorkingPC
<1>7. RendInv' /\ Shape'
  BY <1>1, <1>3, <1>6, RendStays DEF Inv, Shape, Created, SlavePC, WorkingPC
<1>8. Meetings'
  <2>1. \A p \in Procs : Waits(p) => pc'[p] = pc[p] /\ buf'[p] = buf[p]
    BY <1>3, <1>4, ProcsAre
  <2>2. \A p \in Procs : Waits(p) => Tag(p)' = Tag(p) /\ Gives(p)' = Gives(p)
    BY <1>1, <2>1 DEF Tag, Gives
  <2>3. QED
    BY <1>2, <1>3, <1>4, <1>5, <2>2 DEF Inv, Meetings
<1>9. Greetings'
  BY <1>1, <1>2, <1>3, Everybody DEF Inv, Greetings, Greeting
<1>10. \A t \in Slaves : /\ Handing(t)' <=> Handing(t)
                         /\ t # s => \A b \in Bufs : HasBuf(t, b)' <=> HasBuf(t, b)
  BY <1>1, <1>2, <1>3, <1>5, Everybody DEF Handing, HasBuf
<1>11. \A b \in Bufs : ~ HasBuf(s, b)'
  BY <1>3 DEF HasBuf, WorkingPC
<1>12. \A t \in Slaves : t # s => ~ HasBuf(t, buf[s])
  BY <1>6 DEF Inv, Slaving
<1>13. \A b \in Bufs : b # buf[s] => busy'[b] = busy[b]
  BY <1>1 DEF Inv, Shape
<1>14. Slaving'
  <2> SUFFICES ASSUME NEW t \in Slaves
               PROVE  (/\ pc[t] \in WorkingPC \/ (pc[t] = "take" /\ Met(t))
                             => t \in pbusy /\ \E b \in Bufs : HasBuf(t, b)
                       /\ pc[t] = "rest" => t \in pbusy
                       /\ Handing(t) => t \in pbusy /\ pc[t] \in {"hello", "take"}
                                        /\ (pc[t] = "take" => ~ Met(t))
                       /\ \A b \in Bufs : HasBuf(t, b) => busy[b] /\ bufpid[b] = t)'
    BY DEF Slaving
  <2>1. CASE t = s
    BY <1>1, <1>3, <1>6, <1>10, <1>11, <2>1 DEF Inv, Slaving, WorkingPC
  <2>2. CASE t # s
    BY <1>1, <1>2, <1>3, <1>10, <1>12, <1>13, <2>2, Everybody DEF Inv, Slaving
  <2>3. QED
    BY <2>1, <2>2
<1>15. Mastering'
  <2>1. ASSUME \/ pc[Master] \in {"read", "setflush", "slave", "greet"}
               \/ pc[Master] = "hand" /\ ~ Met(Master)
        PROVE  (/\ buf[Master] \in Bufs /\ busy[buf[Master]]
                /\ \A t \in Slaves : ~ HasBuf(t, buf[Master]))'
    <3> PICK b \in Bufs : b = buf[Master]
      BY <2>1 DEF Inv, Mastering
    <3>1. busy[b] /\ \A t \in Slaves : ~ HasBuf(t, b)
      BY <2>1 DEF Inv, Mastering
    <3>2. b # buf[s]
      BY <1>6, <3>1
    <3>3. busy'[b] /\ \A t \in Slaves : ~ HasBuf(t, b)'
      BY <1>10, <1>11, <1>13, <3>1, <3>2
    <3>4. QED
      BY <1>3, <3>3 DEF HasBuf
  <2>2. QED
    BY <1>1, <1>2, <1>3, <1>5, <2>1, Everybody DEF Inv, Mastering
<1>16. QED
  BY <1>7, <1>8, <1>9, <1>14, <1>15 DEF Inv

(* m->busy = 0 *)
LEMMA RestPreserves ==
  ASSUME Inv, NEW s \in Slaves, SlaveRest(s)
  PROVE  Inv'
<1>1. /\ pc[s] = "rest" /\ pc' = [pc EXCEPT ![s] = "take"] /\ pbusy' = pbusy \ {s}
      /\ UNCHANGED <<busy, bufpid, buf, proclist, rendVars>>
  BY DEF SlaveRest, Goto, work
<1>2. \A p \in Procs : (Waits(p)' <=> Waits(p)) /\ (Met(p)' <=> Met(p))
  BY <1>1, RendStays
<1>3. /\ pc'[Master] = pc[Master] /\ pc'[s] = "take"
      /\ \A t \in Slaves : t # s => pc'[t] = pc[t]
  BY <1>1, Everybody DEF Inv, Shape
<1>4. rendpc[s] = "out" /\ ~ Waits(s) /\ ~ Met(s)
  BY <1>1, OutIsOut, Everybody DEF Inv, Meetings
<1>5. UNCHANGED <<rendpc, rendtag, rendval>>
  BY <1>1 DEF rendVars
<1>6. RendInv' /\ Shape'
  BY <1>1, <1>3, RendStays DEF Inv, Shape, Created, SlavePC, WorkingPC
<1>7. Meetings'
  <2>1. \A p \in Procs : Waits(p) => pc'[p] = pc[p]
    BY <1>3, <1>4, ProcsAre
  <2>2. \A p \in Procs : Waits(p) => Tag(p)' = Tag(p) /\ Gives(p)' = Gives(p)
    BY <1>1, <2>1 DEF Tag, Gives
  <2>3. QED
    BY <1>2, <1>3, <1>4, <1>5, <2>2 DEF Inv, Meetings
<1>8. Greetings'
  BY <1>1, <1>2, <1>3, Everybody DEF Inv, Greetings, Greeting
<1>9. ~ Handing(s) /\ \A b \in Bufs : ~ HasBuf(s, b) /\ ~ HasBuf(s, b)'
  BY <1>1, <1>2, <1>3, <1>4, Everybody DEF Inv, Slaving, HasBuf, WorkingPC
<1>10. \A t \in Slaves : /\ Handing(t)' <=> Handing(t)
                         /\ t # s => \A b \in Bufs : HasBuf(t, b)' <=> HasBuf(t, b)
  BY <1>1, <1>2, <1>3, <1>5, Everybody DEF Handing, HasBuf
<1>11. Slaving'
  BY <1>1, <1>2, <1>3, <1>4, <1>9, <1>10, Everybody DEF Inv, Slaving, WorkingPC
<1>12. Mastering'
  BY <1>1, <1>2, <1>3, <1>5, <1>9, <1>10, Everybody DEF Inv, Mastering
<1>13. QED
  BY <1>6, <1>7, <1>8, <1>11, <1>12 DEF Inv

-----------------------------------------------------------------------------
(* The steps of the master outside of rendezvous change no slave: what it  *)
(* must show is that its own buffer is nobody else's.                      *)
LEMMA MasterPreserves ==
  ASSUME Inv, pc[Master] \notin {"greet", "hand"},
         NEW to \in MasterPC \ {"greet", "hand"}, pc' = [pc EXCEPT ![Master] = to],
         \A s \in Slaves : buf'[s] = buf[s], DOMAIN buf' = Procs,
         busy' \in [Bufs -> BOOLEAN], bufpid' \in [Bufs -> Slaves \cup {None}],
         UNCHANGED <<proclist, pbusy, rendVars>>,
         \A s \in Slaves, b \in Bufs : HasBuf(s, b) => busy'[b] /\ bufpid'[b] = s,
         to \in {"read", "setflush", "slave"} =>
           /\ buf'[Master] \in Bufs /\ busy'[buf'[Master]]
           /\ \A s \in Slaves : ~ (pc[s] \in WorkingPC /\ buf[s] = buf'[Master])
           /\ \A s \in Slaves : ~ (pc[s] = "take" /\ Met(s) /\ rendval[s] = buf'[Master])
  PROVE  Inv'
<1>1. \A p \in Procs : (Waits(p)' <=> Waits(p)) /\ (Met(p)' <=> Met(p))
  BY RendStays
<1>2. pc'[Master] = to /\ \A t \in Slaves : pc'[t] = pc[t]
  BY Everybody DEF Inv, Shape
<1>3. UNCHANGED <<rendpc, rendtag, rendval>>
  BY DEF rendVars
<1>4. rendpc[Master] = "out" /\ ~ Waits(Master) /\ ~ Met(Master)
  BY OutIsOut, Everybody DEF Inv, Meetings
<1>5. RendInv'
  BY RendStays DEF Inv
<1>6. Shape'
  BY <1>2, Everybody DEF Inv, Shape, Created
<1>7. Meetings'
  <2>1. \A p \in Procs : Waits(p) => p \in Slaves
    BY <1>4, ProcsAre
  <2>2. \A s \in Slaves : Tag(s)' = Tag(s) /\ Gives(s)' = Gives(s)
    <3>1. \A s \in Slaves : pc[s] \notin {"greet", "hand"}
      BY DEF Inv, Shape, SlavePC, WorkingPC
    <3>2. QED
      BY <1>2, <3>1 DEF Tag, Gives
  <2>3. QED
    BY <1>1, <1>2, <1>3, <1>4, <2>1, <2>2 DEF Inv, Meetings
<1>8. Greetings'
  BY <1>1, <1>2, Everybody DEF Inv, Greetings, Greeting
<1>9. \A t \in Slaves : ~ Handing(t)' /\ \A b \in Bufs : HasBuf(t, b)' <=> HasBuf(t, b)
  BY <1>1, <1>2, <1>3, Everybody DEF Handing, HasBuf
<1>10. Slaving'
  BY <1>1, <1>2, <1>9, Everybody DEF Inv, Slaving
<1>11. Mastering'
  BY <1>1, <1>2, <1>3, Everybody DEF Mastering, HasBuf
<1>12. QED
  BY <1>5, <1>6, <1>7, <1>8, <1>10, <1>11 DEF Inv

(* where the master goes on with the buffer it has, or needs none          *)
LEMMA MasterGoesOn ==
  ASSUME Inv, pc[Master] \in {"search", "read", "setflush", "slave"},
         NEW to \in {"search", "setflush", "slave", "fatal"}, pc' = [pc EXCEPT ![Master] = to],
         to \in {"setflush", "slave"} => pc[Master] = "read",
         UNCHANGED <<busy, bufpid, buf, proclist, pbusy, rendVars>>
  PROVE  Inv'
<1>1. to \in {"setflush", "slave"} =>
        /\ buf[Master] \in Bufs /\ busy[buf[Master]]
        /\ \A s \in Slaves : ~ HasBuf(s, buf[Master])
  BY DEF Inv, Mastering
<1>2. QED
  BY <1>1, MasterPreserves DEF Inv, Shape, Slaving, HasBuf, MasterPC

(* the master has done with its buffer                                     *)
LEMMA DonePreserves ==
  ASSUME Inv, NEW from \in {"read", "setflush"}, Done(from),
         UNCHANGED <<bufpid, proclist, pbusy, rendVars>>
  PROVE  Inv'
<1>1. /\ pc[Master] = from /\ pc' = [pc EXCEPT ![Master] = "search"]
      /\ busy' = [busy EXCEPT ![buf[Master]] = FALSE]
      /\ buf' = [buf EXCEPT ![Master] = None]
  BY DEF Done, Goto
<1>2. buf[Master] \in Bufs /\ \A s \in Slaves : ~ HasBuf(s, buf[Master])
  BY <1>1 DEF Inv, Mastering
<1>3. /\ \A s \in Slaves : buf'[s] = buf[s]
      /\ DOMAIN buf' = Procs
      /\ busy' \in [Bufs -> BOOLEAN]
  BY <1>1, Everybody DEF Inv, Shape
<1>4. \A s \in Slaves, b \in Bufs : HasBuf(s, b) => busy'[b] /\ bufpid'[b] = s
  BY <1>1, <1>2 DEF Inv, Shape, Slaving
<1>5. QED
  BY <1>1, <1>3, <1>4, MasterPreserves DEF Inv, Shape, MasterPC

(* getsbuf: the buffer that is found is free, so no slave has it           *)
LEMMA SearchPreserves ==
  ASSUME Inv, SearchFound
  PROVE  Inv'
<1>1. PICK w \in FreeBufs : /\ bufpid' = [bufpid EXCEPT ![w] = None]
                            /\ busy' = [busy EXCEPT ![w] = TRUE]
                            /\ buf' = [buf EXCEPT ![Master] = w]
  BY DEF SearchFound
<1>2. /\ pc[Master] = "search" /\ pc' = [pc EXCEPT ![Master] = "read"]
      /\ UNCHANGED <<proclist, pbusy, rendVars>>
  BY DEF SearchFound, Goto, slaves
<1>3. w \in Bufs /\ \A s \in Slaves : ~ HasBuf(s, w)
  BY DEF FreeBufs, Inv, Slaving
<1>4. /\ \A s \in Slaves : buf'[s] = buf[s]
      /\ DOMAIN buf' = Procs /\ buf'[Master] = w
      /\ busy' \in [Bufs -> BOOLEAN] /\ busy'[w]
      /\ bufpid' \in [Bufs -> Slaves \cup {None}]
  BY <1>1, <1>3, Everybody DEF Inv, Shape
<1>5. \A s \in Slaves, b \in Bufs : HasBuf(s, b) => busy'[b] /\ bufpid'[b] = s
  BY <1>1, <1>3 DEF Inv, Shape, Slaving
<1>6. QED
  BY <1>2, <1>3, <1>4, <1>5, MasterPreserves DEF MasterPC, HasBuf

(* a slave that is idle is chosen: it is not at work                       *)
LEMMA SlaveFoundPreserves ==
  ASSUME Inv, SlaveFound
  PROVE  Inv'
<1>1. PICK i \in Idle : /\ bufpid' = [bufpid EXCEPT ![buf[Master]] = proclist[i]]
                        /\ pbusy' = pbusy \cup {proclist[i]}
  BY DEF SlaveFound
<1>2. /\ pc[Master] = "slave" /\ pc' = [pc EXCEPT ![Master] = "hand"]
      /\ UNCHANGED <<busy, buf, proclist, rendVars>>
  BY DEF SlaveFound, Goto
<1>3. i \in DOMAIN proclist /\ proclist[i] \notin pbusy /\ proclist[i] \in Slaves
  BY DEF Idle, Inv, Shape
<1> PICK n \in Slaves : n = proclist[i]
  BY <1>3
<1>4. Created(n) /\ n \notin pbusy
  BY <1>3 DEF Created
<1>5. pc[n] \in {"hello", "take"} /\ (pc[n] = "take" => ~ Met(n))
  BY <1>4 DEF Inv, Shape, Slaving, SlavePC
<1>6. \A p \in Procs : (Waits(p)' <=> Waits(p)) /\ (Met(p)' <=> Met(p))
  BY <1>2, RendStays
<1>7. pc'[Master] = "hand" /\ \A t \in Slaves : pc'[t] = pc[t]
  BY <1>2, Everybody DEF Inv, Shape
<1>8. UNCHANGED <<rendpc, rendtag, rendval>>
  BY <1>2 DEF rendVars
<1>9. rendpc[Master] = "out" /\ ~ Waits(Master) /\ ~ Met(Master)
  BY <1>2, OutIsOut, Everybody DEF Inv, Meetings
<1> PICK b \in Bufs : b = buf[Master]
  BY <1>2 DEF Inv, Mastering
<1>10. busy[b] /\ (\A s \in Slaves : ~ HasBuf(s, b)) /\ buf'[Master] = b
  BY <1>2 DEF Inv, Mastering
<1>11. bufpid'[b] = n /\ \A c \in Bufs : c # b => bufpid'[c] = bufpid[c]
  BY <1>1 DEF Inv, Shape
<1>12. RendInv'
  BY <1>2, RendStays DEF Inv
<1>13. Shape'
  BY <1>1, <1>2, <1>7, Everybody DEF Inv, Shape, Created, MasterPC
<1>14. Meetings'
  <2>1. \A p \in Procs : Waits(p) => p \in Slaves
    BY <1>9, ProcsAre
  <2>2. \A s \in Slaves : Tag(s)' = Tag(s) /\ Gives(s)' = Gives(s)
    <3>1. \A s \in Slaves : pc[s] \notin {"greet", "hand"}
      BY DEF Inv, Shape, SlavePC, WorkingPC
    <3>2. QED
      BY <1>2, <1>7, <3>1 DEF Tag, Gives
  <2>3. QED
    BY <1>6, <1>7, <1>8, <1>9, <2>1, <2>2 DEF Inv, Meetings
<1>15. Greetings'
  BY <1>2, <1>6, <1>7, Everybody DEF Inv, Greetings, Greeting
<1>16. \A t \in Slaves : /\ Handing(t)' => t = n
                         /\ \A c \in Bufs : HasBuf(t, c)' <=> HasBuf(t, c)
  BY <1>2, <1>6, <1>7, <1>8, <1>10, <1>11, Everybody DEF Handing, HasBuf
<1>17. Slaving'
  <2> SUFFICES ASSUME NEW t \in Slaves
               PROVE  (/\ pc[t] \in WorkingPC \/ (pc[t] = "take" /\ Met(t))
                             => t \in pbusy /\ \E c \in Bufs : HasBuf(t, c)
                       /\ pc[t] = "rest" => t \in pbusy
                       /\ Handing(t) => t \in pbusy /\ pc[t] \in {"hello", "take"}
                                        /\ (pc[t] = "take" => ~ Met(t))
                       /\ \A c \in Bufs : HasBuf(t, c) => busy[c] /\ bufpid[c] = t)'
    BY DEF Slaving
  <2>1. \A c \in Bufs : HasBuf(t, c)' => busy'[c] /\ bufpid'[c] = t
    BY <1>2, <1>10, <1>11, <1>16 DEF Inv, Slaving
  <2>2. Handing(t)' => t \in pbusy' /\ pc'[t] \in {"hello", "take"} /\ (pc'[t] = "take" => ~ Met(t)')
    BY <1>1, <1>5, <1>6, <1>7, <1>16, Everybody
  <2>3. QED
    BY <1>1, <1>6, <1>7, <1>16, <2>1, <2>2, Everybody DEF Inv, Slaving
<1>18. Mastering'
  <2>1. \A s \in Slaves : ~ HasBuf(s, b)'
    BY <1>10, <1>16
  <2>2. QED
    BY <1>2, <1>6, <1>7, <1>9, <1>10, <1>11, <2>1, Everybody DEF Mastering, HasBuf
<1>19. QED
  BY <1>12, <1>13, <1>14, <1>15, <1>17, <1>18 DEF Inv

(* a slave is made, and the master waits to be greeted by it               *)
LEMMA SlaveNewPreserves ==
  ASSUME Inv, SlaveNew
  PROVE  Inv'
<1>1. PICK n \in Slaves : /\ pc[n] = "none" /\ pc[Master] = "slave"
                         /\ pc' = [pc EXCEPT ![n] = "hello", ![Master] = "greet"]
                         /\ proclist' = <<n>> \o proclist
  BY DEF SlaveNew
<1>2. UNCHANGED <<busy, bufpid, buf, pbusy, rendVars>>
  BY DEF SlaveNew, work
<1>3. \A p \in Procs : (Waits(p)' <=> Waits(p)) /\ (Met(p)' <=> Met(p))
  BY <1>2, RendStays
<1>4. /\ pc'[Master] = "greet" /\ pc'[n] = "hello"
      /\ \A t \in Slaves : t # n => pc'[t] = pc[t]
  BY <1>1, Everybody DEF Inv, Shape
<1>5. UNCHANGED <<rendpc, rendtag, rendval>>
  BY <1>2 DEF rendVars
<1>6. /\ rendpc[Master] = "out" /\ ~ Waits(Master) /\ ~ Met(Master)
      /\ rendpc[n] = "out" /\ ~ Waits(n) /\ ~ Met(n)
  BY <1>1, OutIsOut, Everybody DEF Inv, Meetings
<1>7. proclist \in Seq(Slaves)
  BY DEF Inv, Shape
<1>8. /\ proclist' \in Seq(Slaves) /\ proclist' # <<>> /\ Head(proclist') = n
      /\ \A t \in Slaves : Created(t)' <=> Created(t) \/ t = n
  <2>1. /\ proclist' \in Seq(Slaves) /\ proclist' # <<>> /\ proclist'[1] = n
        /\ DOMAIN proclist' = 1 .. Len(proclist) + 1
        /\ \A i \in DOMAIN proclist : i + 1 \in DOMAIN proclist' /\ proclist'[i + 1] = proclist[i]
        /\ \A i \in DOMAIN proclist' : i # 1 => i - 1 \in DOMAIN proclist /\ proclist'[i] = proclist[i - 1]
    BY <1>1, <1>7
  <2>2. Head(proclist') = proclist'[1]
    BY <2>1
  <2>3. \A t \in Slaves : Created(t)' => Created(t) \/ t = n
    BY <2>1 DEF Created
  <2>4. \A t \in Slaves : Created(t) => Created(t)'
    BY <2>1 DEF Created
  <2>5. 1 \in DOMAIN proclist'
    BY <1>7, <2>1
  <2>6. Created(n)'
    BY <2>1, <2>5 DEF Created
  <2>7. QED
    BY <2>1, <2>2, <2>3, <2>4, <2>6
<1>9. RendInv'
  BY <1>2, RendStays DEF Inv
<1>10. Shape'
  BY <1>1, <1>2, <1>4, <1>8, Everybody DEF Inv, Shape, MasterPC, SlavePC
<1>11. Meetings'
  <2>1. \A p \in Procs : Waits(p) => p \in Slaves /\ p # n
    BY <1>6, ProcsAre
  <2>2. \A s \in Slaves : Waits(s) => Tag(s)' = Tag(s) /\ Gives(s)' = Gives(s)
    <3>1. \A s \in Slaves : Waits(s) => s # n /\ pc[s] \in {"hello", "take"}
      BY <1>6, Everybody DEF Inv, RendInv, Bucket, Meetings
    <3>2. QED
      BY <1>4, <3>1 DEF Tag, Gives
  <2>3. QED
    BY <1>3, <1>4, <1>5, <1>6, <2>1, <2>2 DEF Inv, Meetings
<1>12. Greetings'
  BY <1>1, <1>3, <1>4, <1>6, <1>8, Everybody DEF Inv, Greetings, Greeting
<1>13. \A t \in Slaves : /\ ~ Handing(t)'
                         /\ \A c \in Bufs : HasBuf(t, c)' <=> HasBuf(t, c)
  BY <1>1, <1>2, <1>3, <1>4, <1>5, <1>6, Everybody DEF Handing, HasBuf, WorkingPC
<1>14. Slaving'
  <2> SUFFICES ASSUME NEW t \in Slaves
               PROVE  (/\ pc[t] \in WorkingPC \/ (pc[t] = "take" /\ Met(t))
                             => t \in pbusy /\ \E b \in Bufs : HasBuf(t, b)
                       /\ pc[t] = "rest" => t \in pbusy
                       /\ Handing(t) => t \in pbusy /\ pc[t] \in {"hello", "take"}
                                        /\ (pc[t] = "take" => ~ Met(t))
                       /\ \A b \in Bufs : HasBuf(t, b) => busy[b] /\ bufpid[b] = t)'
    BY DEF Slaving
  <2>1. CASE t = n
    BY <1>1, <1>3, <1>4, <1>6, <1>13, <2>1, Everybody DEF HasBuf, WorkingPC
  <2>2. CASE t # n
    BY <1>2, <1>3, <1>4, <1>13, <2>2, Everybody DEF Inv, Slaving
  <2>3. QED
    BY <2>1, <2>2
<1>15. Mastering'
  <2> PICK b \in Bufs : b = buf[Master]
    BY <1>1 DEF Inv, Mastering
  <2>1. busy[b] /\ \A t \in Slaves : ~ HasBuf(t, b)'
    BY <1>1, <1>13 DEF Inv, Mastering
  <2>2. QED
    BY <1>2, <1>3, <1>4, <1>6, <2>1, Everybody DEF Mastering, HasBuf
<1>16. QED
  BY <1>9, <1>10, <1>11, <1>12, <1>14, <1>15 DEF Inv

-----------------------------------------------------------------------------
(* a process that comes first to a rendezvous *)
LEMMA AwaitPreserves ==
  ASSUME Inv, NEW p \in Procs, pc[p] \in {"greet", "hand", "hello", "take"},
         Await(p, Tag(p), Gives(p)),
         UNCHANGED <<busy, bufpid, buf, proclist, pbusy, pc>>
  PROVE  Inv'
<1>1. /\ RendInv'
      /\ \A q \in Procs : (Waits(q)' <=> Waits(q) \/ q = p) /\ (Met(q)' <=> Met(q))
  BY AwaitKeeps DEF Inv
<1>2. /\ rendpc[p] = "out" /\ rendpc' = [rendpc EXCEPT ![p] = "queued"]
      /\ rendtag' = [rendtag EXCEPT ![p] = Tag(p)]
      /\ rendval' = [rendval EXCEPT ![p] = Gives(p)]
  BY DEF Await
<1>3. /\ rendpc'[p] = "queued" /\ rendtag'[p] = Tag(p) /\ rendval'[p] = Gives(p)
      /\ \A q \in Procs : q # p => /\ rendpc'[q] = rendpc[q] /\ rendtag'[q] = rendtag[q]
                                  /\ rendval'[q] = rendval[q]
  BY <1>2 DEF Inv, RendInv, RendTypeOK
<1>4. ~ Met(p)
  BY <1>2, OutIsOut
<1>5. Shape'
  BY DEF Inv, Shape, Created
<1>6. Meetings'
  <2>1. pc[p] \in IF p = Master THEN {"greet", "hand"} ELSE {"hello", "take"}
    BY ProcsAre DEF Inv, Shape, MasterPC, SlavePC, WorkingPC
  <2>2. \A q \in Procs : Tag(q)' = Tag(q) /\ Gives(q)' = Gives(q)
    BY DEF Tag, Gives
  <2>3. \A q \in Procs : Waits(q)' => rendtag'[q] = Tag(q) /\ rendval'[q] = Gives(q)
    BY <1>1, <1>3 DEF Inv, Meetings
  <2>4. QED
    BY <1>3, <2>1, <2>2, <2>3, Everybody DEF Inv, Meetings
<1>7. Greetings'
  BY <1>1, Everybody DEF Inv, Greetings, Greeting
<1>8. \A t \in Slaves : /\ Handing(t)' <=> Handing(t)
                        /\ \A b \in Bufs : HasBuf(t, b)' <=> HasBuf(t, b)
  BY <1>1, <1>3, <1>4, Everybody DEF Handing, HasBuf
<1>9. Slaving'
  BY <1>1, <1>8, Everybody DEF Inv, Slaving
<1>10. Mastering'
  BY <1>1, <1>3, <1>4, <1>8, Everybody DEF Inv, Mastering
<1>11. QED
  BY <1>1, <1>5, <1>6, <1>7, <1>9, <1>10 DEF Inv

(* procsleep of one that has come first *)
LEMMA SleepPreserves ==
  ASSUME Inv, NEW p \in Procs, RendSleep(p) \/ CondTest(p) \/ CondReturn(p),
         UNCHANGED <<busy, bufpid, buf, proclist, pbusy, pc>>
  PROVE  Inv'
<1>1. /\ RendInv' /\ UNCHANGED <<rendtag, rendval>>
      /\ \A q \in Procs : /\ (Waits(q)' <=> Waits(q)) /\ (Met(q)' <=> Met(q))
                          /\ rendpc'[q] = "out" <=> rendpc[q] = "out"
  BY SleepKeeps DEF Inv
<1>2. Shape'
  BY DEF Inv, Shape, Created
<1>3. Meetings'
  <2>1. \A q \in Procs : Tag(q)' = Tag(q) /\ Gives(q)' = Gives(q)
    BY DEF Tag, Gives
  <2>2. QED
    BY <1>1, <2>1, Everybody DEF Inv, Meetings
<1>4. Greetings'
  BY <1>1, Everybody DEF Inv, Greetings, Greeting
<1>5. \A t \in Slaves : /\ Handing(t)' <=> Handing(t)
                        /\ \A b \in Bufs : HasBuf(t, b)' <=> HasBuf(t, b)
  BY <1>1, Everybody DEF Handing, HasBuf
<1>6. Slaving'
  BY <1>1, <1>5, Everybody DEF Inv, Slaving
<1>7. Mastering'
  BY <1>1, <1>5, Everybody DEF Inv, Mastering
<1>8. QED
  BY <1>1, <1>2, <1>3, <1>4, <1>6, <1>7 DEF Inv

-----------------------------------------------------------------------------
(***************************************************************************)
(* Who meets whom.  A process finds one that waits under its tag: the      *)
(* master finds the slave that it made or chose, a slave finds the master, *)
(* and both are at the same of the two meetings.                           *)
(***************************************************************************)
LEMMA MasterMeetsSlave ==
  ASSUME Inv, NEW q \in Procs, q # Master, Waits(q),
         pc[Master] \in {"greet", "hand"}, rendpc[Master] = "out", rendtag[q] = Tag(Master)
  PROVE  /\ q \in Slaves /\ ~ Met(Master) /\ ~ Waits(Master) /\ ~ Met(q)
         /\ pc[Master] = "greet" => pc[q] = "hello" /\ Greeting(q)
         /\ pc[Master] = "hand" => /\ pc[q] = "take" /\ bufpid[buf[Master]] = q
                                  /\ rendval[q] = q
<1>1. q \in Slaves
  BY ProcsAre
<1>2. ~ Met(Master) /\ ~ Waits(Master)
  BY OutIsOut, Everybody
<1>3. ~ Met(q) /\ pc[q] \in {"hello", "take"}
  BY <1>1 DEF Met, Inv, RendInv, Bucket, Meetings
<1>4. rendtag[q] = q /\ rendval[q] = Gives(q)
  BY <1>1, TagsAre DEF Inv, Meetings
<1>5. CASE pc[Master] = "greet"
  BY <1>1, <1>2, <1>3, <1>4, <1>5, TagsAre DEF Inv, Greetings, Greeting
<1>6. CASE pc[Master] = "hand"
  BY <1>1, <1>2, <1>3, <1>4, <1>6, TagsAre DEF Inv, Greetings, Greeting
<1>7. QED
  BY <1>1, <1>2, <1>3, <1>5, <1>6

(* a slave that meets somebody meets the master *)
LEMMA SlaveMeetsMaster ==
  ASSUME Inv, NEW s \in Slaves, NEW q \in Procs, q # s, Waits(q),
         pc[s] \in {"hello", "take"}, rendpc[s] = "out", rendtag[q] = Tag(s)
  PROVE  /\ q = Master /\ ~ Met(s) /\ ~ Waits(s) /\ ~ Met(Master)
         /\ pc[s] = "hello" => pc[Master] = "greet" /\ Greeting(s)
         /\ pc[s] = "take" => /\ pc[Master] = "hand" /\ Handing(s)
                             /\ rendval[Master] = buf[Master]
<1>1. rendtag[q] = s
  BY TagsAre
<1>2. q = Master
  <2>1. CASE q \in Slaves
    BY <1>1, <2>1, TagsAre DEF Inv, Meetings
  <2>2. QED
    BY <2>1, ProcsAre
<1>3. ~ Met(s) /\ ~ Waits(s) /\ ~ Met(Master)
  BY <1>2, OutIsOut, Everybody DEF Met
<1>4. pc[Master] \in {"greet", "hand"}
  BY <1>2 DEF Inv, RendInv, Bucket, Meetings
<1>5. Tag(Master) = s /\ rendval[Master] = Gives(Master)
  BY <1>1, <1>2 DEF Inv, Meetings
<1>6. CASE pc[s] = "hello"
  BY <1>2, <1>3, <1>6 DEF Inv, Greetings, Greeting
<1>7. CASE pc[s] = "take"
  <2>1. ~ Greeting(s)
    BY <1>7 DEF Inv, Greetings
  <2>2. pc[Master] = "hand"
    BY <1>3, <1>4, <1>5, <2>1, TagsAre DEF Inv, Greetings, Greeting
  <2>3. QED
    BY <1>2, <1>3, <1>5, <1>7, <2>2, TagsAre DEF Handing
<1>8. QED
  BY <1>2, <1>3, <1>6, <1>7

-----------------------------------------------------------------------------
(* the new slave is there already, and the master greets it *)
LEMMA GreetPreserves ==
  ASSUME Inv, NEW got, pc[Master] = "greet",
         Meet(Master, Tag(Master), Gives(Master), got), GoesOn(Master, got),
         UNCHANGED <<busy, bufpid, proclist, pbusy>>
  PROVE  Inv'
<1>1. PICK q \in Procs :
        /\ RendInv' /\ rendpc[Master] = "out" /\ Waits(q) /\ q # Master
        /\ rendtag[q] = Tag(Master)
        /\ rendval' = [rendval EXCEPT ![Master] = None, ![q] = Gives(Master)]
        /\ rendtag' = [rendtag EXCEPT ![q] = None] /\ rendpc' = rendpc
        /\ \A r \in Procs : /\ Waits(r)' <=> Waits(r) /\ r # q
                            /\ Met(r)' <=> Met(r) \/ r = q
  BY Everybody, MeetKeeps DEF Inv
<1>2. q \in Slaves /\ ~ Met(Master) /\ ~ Waits(Master) /\ pc[q] = "hello" /\ Greeting(q)
  BY <1>1, MasterMeetsSlave
<1>3. pc' = [pc EXCEPT ![Master] = "slave"] /\ UNCHANGED buf
  BY DEF GoesOn, Goto
<1>4. pc'[Master] = "slave" /\ \A t \in Slaves : pc'[t] = pc[t]
  BY <1>3, Everybody DEF Inv, Shape
<1>5. \A r \in Procs : r # q /\ r # Master => rendtag'[r] = rendtag[r] /\ rendval'[r] = rendval[r]
  BY <1>1 DEF Inv, RendInv, RendTypeOK
<1>6. Shape'
  BY <1>3, <1>4, Everybody DEF Inv, Shape, Created, MasterPC
<1>7. Meetings'
  <2>1. ASSUME NEW r \in Procs, Waits(r)'
        PROVE  rendtag'[r] = Tag(r)' /\ rendval'[r] = Gives(r)'
    <3>1. r \in Slaves /\ r # q /\ r # Master /\ Waits(r)
      BY <1>1, <1>2, <2>1, ProcsAre
    <3>2. pc[r] \in {"hello", "take"}
      BY <3>1 DEF Inv, RendInv, Bucket, Meetings
    <3>3. Tag(r)' = Tag(r) /\ Gives(r)' = Gives(r)
      BY <1>4, <3>1, <3>2 DEF Tag, Gives
    <3>4. QED
      BY <1>5, <3>1, <3>3 DEF Inv, Meetings
  <2>2. QED
    BY <1>1, <1>4, <2>1, Everybody DEF Inv, Meetings
<1>8. Greetings'
  <2>1. \A t \in Slaves : Greeting(t) => t = q
    BY <1>2 DEF Greeting
  <2>2. QED
    BY <1>1, <1>4, <2>1, Everybody DEF Inv, Greetings, Greeting
<1>9. \A t \in Slaves : ~ Handing(t)' /\ \A b \in Bufs : HasBuf(t, b)' <=> HasBuf(t, b)
  BY <1>1, <1>2, <1>3, <1>4, <1>5, Everybody DEF Handing, HasBuf, WorkingPC
<1>10. Slaving'
  BY <1>1, <1>2, <1>4, <1>9, Everybody DEF Inv, Slaving
<1>11. Mastering'
  <2> PICK b \in Bufs : b = buf[Master]
    BY DEF Inv, Mastering
  <2>1. busy[b] /\ \A t \in Slaves : ~ HasBuf(t, b)'
    BY <1>9 DEF Inv, Mastering
  <2>2. QED
    BY <1>3, <1>4, <2>1, Everybody DEF Mastering, HasBuf
<1>12. QED
  BY <1>1, <1>6, <1>7, <1>8, <1>10, <1>11 DEF Inv

(* the chosen slave is there already, and the master hands it the buffer   *)
LEMMA HandPreserves ==
  ASSUME Inv, NEW got, pc[Master] = "hand",
         Meet(Master, Tag(Master), Gives(Master), got), GoesOn(Master, got),
         UNCHANGED <<busy, bufpid, proclist, pbusy>>
  PROVE  Inv'
<1>1. PICK q \in Procs :
        /\ RendInv' /\ rendpc[Master] = "out" /\ Waits(q) /\ q # Master
        /\ rendtag[q] = Tag(Master) /\ got = rendval[q]
        /\ rendval' = [rendval EXCEPT ![Master] = None, ![q] = Gives(Master)]
        /\ rendtag' = [rendtag EXCEPT ![q] = None] /\ rendpc' = rendpc
        /\ \A r \in Procs : /\ Waits(r)' <=> Waits(r) /\ r # q
                            /\ Met(r)' <=> Met(r) \/ r = q
  BY Everybody, MeetKeeps DEF Inv
<1>2. /\ q \in Slaves /\ ~ Met(Master) /\ ~ Waits(Master) /\ ~ Met(q) /\ pc[q] = "take"
      /\ bufpid[buf[Master]] = q /\ rendval[q] = q
  BY <1>1, MasterMeetsSlave
<1> PICK b \in Bufs : b = buf[Master]
  BY DEF Inv, Mastering
<1>3. /\ busy[b] /\ (\A t \in Slaves : ~ HasBuf(t, b)) /\ bufpid[b] = q /\ q \in pbusy
      /\ Tag(Master) = q /\ Gives(Master) = b
  BY <1>2, TagsAre DEF Inv, Mastering, Slaving, Handing
<1>4. pc' = [pc EXCEPT ![Master] = "search"] /\ buf' = [buf EXCEPT ![Master] = None]
  BY <1>1, <1>2, <1>3 DEF GoesOn, Goto
<1>5. pc'[Master] = "search" /\ \A t \in Slaves : pc'[t] = pc[t] /\ buf'[t] = buf[t]
  BY <1>4, Everybody DEF Inv, Shape
<1>6. /\ rendval'[q] = b
      /\ \A r \in Procs : r # q /\ r # Master => rendtag'[r] = rendtag[r] /\ rendval'[r] = rendval[r]
  BY <1>1, <1>3 DEF Inv, RendInv, RendTypeOK
<1>7. Shape'
  BY <1>4, <1>5, Everybody DEF Inv, Shape, Created, MasterPC
<1>8. Meetings'
  <2>1. ASSUME NEW r \in Procs, Waits(r)'
        PROVE  rendtag'[r] = Tag(r)' /\ rendval'[r] = Gives(r)'
    <3>1. r \in Slaves /\ r # q /\ r # Master /\ Waits(r)
      BY <1>1, <1>2, <2>1, ProcsAre
    <3>2. pc[r] \in {"hello", "take"}
      BY <3>1 DEF Inv, RendInv, Bucket, Meetings
    <3>3. Tag(r)' = Tag(r) /\ Gives(r)' = Gives(r)
      BY <1>5, <3>1, <3>2 DEF Tag, Gives
    <3>4. QED
      BY <1>6, <3>1, <3>3 DEF Inv, Meetings
  <2>2. QED
    BY <1>1, <1>5, <2>1, Everybody DEF Inv, Meetings
<1>9. Greetings'
  BY <1>1, <1>2, <1>5, Everybody DEF Inv, Greetings, Greeting
<1>10. \A t \in Slaves : /\ ~ Handing(t)'
                         /\ \A c \in Bufs : HasBuf(t, c)' <=> HasBuf(t, c) \/ (t = q /\ c = b)
  BY <1>1, <1>2, <1>5, <1>6, Everybody DEF Handing, HasBuf, WorkingPC
<1>11. Slaving'
  <2> SUFFICES ASSUME NEW t \in Slaves
               PROVE  (/\ pc[t] \in WorkingPC \/ (pc[t] = "take" /\ Met(t))
                             => t \in pbusy /\ \E c \in Bufs : HasBuf(t, c)
                       /\ pc[t] = "rest" => t \in pbusy
                       /\ Handing(t) => t \in pbusy /\ pc[t] \in {"hello", "take"}
                                        /\ (pc[t] = "take" => ~ Met(t))
                       /\ \A c \in Bufs : HasBuf(t, c) => busy[c] /\ bufpid[c] = t)'
    BY DEF Slaving
  <2>1. CASE t = q
    BY <1>2, <1>3, <1>5, <1>10, <2>1 DEF Inv, Slaving, WorkingPC
  <2>2. CASE t # q
    BY <1>1, <1>5, <1>10, <2>2, Everybody DEF Inv, Slaving
  <2>3. QED
    BY <2>1, <2>2
<1>12. Mastering'
  BY <1>5 DEF Mastering
<1>13. QED
  BY <1>1, <1>7, <1>8, <1>9, <1>11, <1>12 DEF Inv

(* the master is there already, and the new slave says hello *)
LEMMA HelloPreserves ==
  ASSUME Inv, NEW s \in Slaves, NEW got, pc[s] = "hello",
         Meet(s, Tag(s), Gives(s), got), GoesOn(s, got),
         UNCHANGED <<busy, bufpid, proclist, pbusy>>
  PROVE  Inv'
<1>1. PICK q \in Procs :
        /\ RendInv' /\ rendpc[s] = "out" /\ Waits(q) /\ q # s
        /\ rendtag[q] = Tag(s)
        /\ rendval' = [rendval EXCEPT ![s] = None, ![q] = Gives(s)]
        /\ rendtag' = [rendtag EXCEPT ![q] = None] /\ rendpc' = rendpc
        /\ \A r \in Procs : /\ Waits(r)' <=> Waits(r) /\ r # q
                            /\ Met(r)' <=> Met(r) \/ r = q
  BY Everybody, MeetKeeps DEF Inv
<1>2. /\ q = Master /\ ~ Met(s) /\ ~ Waits(s) /\ ~ Met(Master)
      /\ pc[Master] = "greet" /\ Greeting(s)
  BY <1>1, SlaveMeetsMaster
<1>3. pc' = [pc EXCEPT ![s] = "take"] /\ UNCHANGED buf
  BY DEF GoesOn, Goto
<1>4. /\ pc'[s] = "take" /\ pc'[Master] = "greet"
      /\ \A t \in Slaves : t # s => pc'[t] = pc[t]
  BY <1>2, <1>3, Everybody DEF Inv, Shape
<1>5. \A r \in Procs : r # q /\ r # s => rendtag'[r] = rendtag[r] /\ rendval'[r] = rendval[r]
  BY <1>1 DEF Inv, RendInv, RendTypeOK
<1>6. Shape'
  BY <1>3, <1>4, Everybody DEF Inv, Shape, Created, MasterPC, SlavePC
<1>7. Meetings'
  <2>1. ASSUME NEW r \in Procs, Waits(r)'
        PROVE  rendtag'[r] = Tag(r)' /\ rendval'[r] = Gives(r)'
    <3>1. r \in Slaves /\ r # s /\ r # q /\ Waits(r)
      BY <1>1, <1>2, <2>1, ProcsAre
    <3>2. pc[r] \in {"hello", "take"}
      BY <3>1 DEF Inv, RendInv, Bucket, Meetings
    <3>3. Tag(r)' = Tag(r) /\ Gives(r)' = Gives(r)
      BY <1>4, <3>1, <3>2 DEF Tag, Gives
    <3>4. QED
      BY <1>5, <3>1, <3>3 DEF Inv, Meetings
  <2>2. QED
    BY <1>1, <1>2, <1>4, <2>1, Everybody DEF Inv, Meetings
<1>8. Greetings'
  <2>1. \A t \in Slaves : Greeting(t) => t = s
    BY <1>2 DEF Greeting
  <2>2. QED
    BY <1>1, <1>2, <1>4, <2>1, Everybody DEF Inv, Greetings, Greeting
<1>9. \A t \in Slaves : ~ Handing(t)' /\ \A b \in Bufs : HasBuf(t, b)' <=> HasBuf(t, b)
  BY <1>1, <1>2, <1>3, <1>4, <1>5, Everybody DEF Handing, HasBuf, WorkingPC
<1>10. Slaving'
  BY <1>1, <1>2, <1>4, <1>9, Everybody DEF Inv, Slaving, WorkingPC
<1>11. Mastering'
  <2> PICK b \in Bufs : b = buf[Master]
    BY <1>2 DEF Inv, Mastering
  <2>1. busy[b] /\ \A t \in Slaves : ~ HasBuf(t, b)'
    BY <1>2, <1>9 DEF Inv, Mastering
  <2>2. QED
    BY <1>3, <1>4, <2>1, Everybody DEF Mastering, HasBuf
<1>12. QED
  BY <1>1, <1>6, <1>7, <1>8, <1>10, <1>11 DEF Inv

(* the master is there already, and the slave takes the buffer             *)
LEMMA TakePreserves ==
  ASSUME Inv, NEW s \in Slaves, NEW got, pc[s] = "take",
         Meet(s, Tag(s), Gives(s), got), GoesOn(s, got),
         UNCHANGED <<busy, bufpid, proclist, pbusy>>
  PROVE  Inv'
<1>1. PICK q \in Procs :
        /\ RendInv' /\ rendpc[s] = "out" /\ Waits(q) /\ q # s
        /\ rendtag[q] = Tag(s) /\ got = rendval[q]
        /\ rendval' = [rendval EXCEPT ![s] = None, ![q] = Gives(s)]
        /\ rendtag' = [rendtag EXCEPT ![q] = None] /\ rendpc' = rendpc
        /\ \A r \in Procs : /\ Waits(r)' <=> Waits(r) /\ r # q
                            /\ Met(r)' <=> Met(r) \/ r = q
  BY Everybody, MeetKeeps DEF Inv
<1>2. /\ q = Master /\ ~ Met(s) /\ ~ Waits(s) /\ ~ Met(Master)
      /\ pc[Master] = "hand" /\ Handing(s) /\ rendval[Master] = buf[Master]
  BY <1>1, SlaveMeetsMaster
<1> PICK b \in Bufs : b = buf[Master]
  BY <1>2 DEF Inv, Mastering
<1>3. /\ busy[b] /\ (\A t \in Slaves : ~ HasBuf(t, b)) /\ bufpid[b] = s /\ s \in pbusy
      /\ got = b /\ Gives(s) = s
  BY <1>1, <1>2, TagsAre DEF Inv, Mastering, Slaving, Handing
<1>4. pc' = [pc EXCEPT ![s] = "start"] /\ buf' = [buf EXCEPT ![s] = b]
  BY <1>3 DEF GoesOn, Goto
<1>5. /\ pc'[s] = "start" /\ buf'[s] = b /\ pc'[Master] = "hand" /\ buf'[Master] = b
      /\ \A t \in Slaves : t # s => pc'[t] = pc[t] /\ buf'[t] = buf[t]
  BY <1>2, <1>4, Everybody DEF Inv, Shape
<1>6. /\ rendval'[Master] = s
      /\ \A r \in Procs : r # q /\ r # s => rendtag'[r] = rendtag[r] /\ rendval'[r] = rendval[r]
  BY <1>1, <1>2, <1>3 DEF Inv, RendInv, RendTypeOK
<1>7. Shape'
  BY <1>4, <1>5, Everybody DEF Inv, Shape, Created, MasterPC, SlavePC, WorkingPC
<1>8. Meetings'
  <2>1. ASSUME NEW r \in Procs, Waits(r)'
        PROVE  rendtag'[r] = Tag(r)' /\ rendval'[r] = Gives(r)'
    <3>1. r \in Slaves /\ r # s /\ r # q /\ Waits(r)
      BY <1>1, <1>2, <2>1, ProcsAre
    <3>2. pc[r] \in {"hello", "take"}
      BY <3>1 DEF Inv, RendInv, Bucket, Meetings
    <3>3. Tag(r)' = Tag(r) /\ Gives(r)' = Gives(r)
      BY <1>5, <3>1, <3>2 DEF Tag, Gives
    <3>4. QED
      BY <1>6, <3>1, <3>3 DEF Inv, Meetings
  <2>2. rendpc'[s] = "out"
    BY <1>1
  <2>3. QED
    BY <1>1, <1>2, <1>5, <2>1, <2>2, Everybody DEF Inv, Meetings
<1>9. Greetings'
  BY <1>1, <1>2, <1>5, Everybody DEF Inv, Greetings, Greeting
<1>10. \A t \in Slaves : /\ ~ Handing(t)'
                         /\ \A c \in Bufs : HasBuf(t, c)' <=> HasBuf(t, c) \/ (t = s /\ c = b)
  <2>1. Met(Master)'
    BY <1>1, <1>2
  <2>2. \A c \in Bufs : ~ HasBuf(s, c) /\ (HasBuf(s, c)' <=> c = b)
    BY <1>2, <1>5 DEF HasBuf, WorkingPC
  <2>3. \A t \in Slaves : t # s => \A c \in Bufs : HasBuf(t, c)' <=> HasBuf(t, c)
    BY <1>1, <1>2, <1>5, <1>6, Everybody DEF HasBuf
  <2>4. QED
    BY <2>1, <2>2, <2>3 DEF Handing
<1>11. Slaving'
  <2> SUFFICES ASSUME NEW t \in Slaves
               PROVE  (/\ pc[t] \in WorkingPC \/ (pc[t] = "take" /\ Met(t))
                             => t \in pbusy /\ \E c \in Bufs : HasBuf(t, c)
                       /\ pc[t] = "rest" => t \in pbusy
                       /\ Handing(t) => t \in pbusy /\ pc[t] \in {"hello", "take"}
                                        /\ (pc[t] = "take" => ~ Met(t))
                       /\ \A c \in Bufs : HasBuf(t, c) => busy[c] /\ bufpid[c] = t)'
    BY DEF Slaving
  <2>1. CASE t = s
    BY <1>3, <1>5, <1>10, <2>1 DEF Inv, Slaving, WorkingPC
  <2>2. CASE t # s
    BY <1>1, <1>2, <1>5, <1>10, <2>2, Everybody DEF Inv, Slaving
  <2>3. QED
    BY <2>1, <2>2
<1>12. Mastering'
  BY <1>1, <1>2, <1>3, <1>5, <1>6, Everybody DEF Mastering
<1>13. QED
  BY <1>1, <1>7, <1>8, <1>9, <1>11, <1>12 DEF Inv

-----------------------------------------------------------------------------
(* the master is woken: by the slave it greets, or by the one it hands the *)
(* buffer, which then has it, and whose pid it gets                        *)
LEMMA MasterWokenPreserves ==
  ASSUME Inv, NEW got, pc[Master] \in {"greet", "hand"},
         Woken(Master, got), GoesOn(Master, got),
         UNCHANGED <<busy, bufpid, proclist, pbusy>>
  PROVE  Inv'
<1>1. /\ RendInv' /\ Met(Master) /\ got = rendval[Master]
      /\ rendpc' = [rendpc EXCEPT ![Master] = "out"]
      /\ rendval' = [rendval EXCEPT ![Master] = None] /\ rendtag' = rendtag
      /\ \A q \in Procs : /\ Waits(q)' <=> Waits(q)
                          /\ Met(q)' <=> Met(q) /\ q # Master
  BY Everybody, WokenKeeps DEF Inv
<1>2. pc[Master] = "hand" => got = Tag(Master)
  BY <1>1, TagsAre DEF Inv, Mastering
<1>3. \/ pc[Master] = "greet" /\ pc' = [pc EXCEPT ![Master] = "slave"] /\ UNCHANGED buf
      \/ pc[Master] = "hand" /\ pc' = [pc EXCEPT ![Master] = "search"]
                             /\ buf' = [buf EXCEPT ![Master] = None]
  BY <1>2 DEF GoesOn, Goto
<1>4. /\ pc'[Master] \in {"slave", "search"}
      /\ pc[Master] = "greet" => buf'[Master] = buf[Master]
      /\ pc[Master] = "hand" => pc'[Master] = "search"
      /\ \A t \in Slaves : pc'[t] = pc[t] /\ buf'[t] = buf[t]
  BY <1>3, Everybody DEF Inv, Shape
<1>5. /\ rendpc'[Master] = "out" /\ ~ Waits(Master)
      /\ \A r \in Slaves : rendpc'[r] = rendpc[r] /\ rendval'[r] = rendval[r]
  BY <1>1, Everybody DEF Inv, RendInv, RendTypeOK, Met
<1>6. Shape'
  BY <1>3, <1>4, Everybody DEF Inv, Shape, Created, MasterPC
<1>7. Meetings'
  <2>1. ASSUME NEW r \in Procs, Waits(r)'
        PROVE  rendtag'[r] = Tag(r)' /\ rendval'[r] = Gives(r)'
    <3>1. r \in Slaves /\ Waits(r)
      BY <1>1, <1>5, <2>1, ProcsAre
    <3>2. pc[r] \in {"hello", "take"}
      BY <3>1, Everybody DEF Inv, RendInv, Bucket, Meetings
    <3>3. Tag(r)' = Tag(r) /\ Gives(r)' = Gives(r)
      BY <1>4, <3>1, <3>2 DEF Tag, Gives
    <3>4. QED
      BY <1>1, <1>5, <3>1, <3>3, Everybody DEF Inv, Meetings
  <2>2. QED
    BY <1>4, <1>5, <2>1 DEF Inv, Meetings
<1>8. Greetings'
  BY <1>1, <1>4, Everybody DEF Inv, Greetings, Greeting
<1>9. \A t \in Slaves : ~ Handing(t)' /\ \A b \in Bufs : HasBuf(t, b)' <=> HasBuf(t, b)
  BY <1>1, <1>4, <1>5, Everybody DEF Handing, HasBuf
<1>10. Slaving'
  BY <1>1, <1>4, <1>9, Everybody DEF Inv, Slaving
<1>11. Mastering'
  <2>1. CASE pc[Master] = "greet"
    <3> PICK b \in Bufs : b = buf[Master]
      BY <2>1 DEF Inv, Mastering
    <3>1. busy[b] /\ \A t \in Slaves : ~ HasBuf(t, b)'
      BY <1>9, <2>1 DEF Inv, Mastering
    <3>2. QED
      BY <1>4, <2>1, <3>1, Everybody DEF Mastering, HasBuf
  <2>2. CASE pc[Master] = "hand"
    BY <1>4, <2>2 DEF Mastering
  <2>3. QED
    BY <2>1, <2>2
<1>12. QED
  BY <1>1, <1>6, <1>7, <1>8, <1>10, <1>11 DEF Inv

(* a slave is woken: by the master it said hello to, or with a buffer      *)
LEMMA SlaveWokenPreserves ==
  ASSUME Inv, NEW s \in Slaves, NEW got, pc[s] \in {"hello", "take"},
         Woken(s, got), GoesOn(s, got),
         UNCHANGED <<busy, bufpid, proclist, pbusy>>
  PROVE  Inv'
<1>1. /\ RendInv' /\ Met(s) /\ got = rendval[s]
      /\ rendpc' = [rendpc EXCEPT ![s] = "out"]
      /\ rendval' = [rendval EXCEPT ![s] = None] /\ rendtag' = rendtag
      /\ \A q \in Procs : /\ Waits(q)' <=> Waits(q)
                          /\ Met(q)' <=> Met(q) /\ q # s
  BY Everybody, WokenKeeps DEF Inv
<1>2. \/ pc[s] = "hello" /\ pc' = [pc EXCEPT ![s] = "take"] /\ UNCHANGED buf
      \/ pc[s] = "take" /\ pc' = [pc EXCEPT ![s] = "start"] /\ buf' = [buf EXCEPT ![s] = got]
  BY DEF GoesOn, Goto
<1>3. pc[s] = "take" => got \in Bufs /\ HasBuf(s, got) /\ s \in pbusy
  <2> SUFFICES ASSUME pc[s] = "take"
               PROVE  got \in Bufs /\ HasBuf(s, got) /\ s \in pbusy
    OBVIOUS
  <2>1. s \in pbusy /\ \E b \in Bufs : HasBuf(s, b)
    BY <1>1 DEF Inv, Slaving
  <2>2. PICK b \in Bufs : HasBuf(s, b)
    BY <2>1
  <2>3. b = got
    BY <1>1, <2>2 DEF HasBuf, WorkingPC
  <2>4. QED
    BY <2>1, <2>2, <2>3
<1>4. /\ pc[s] = "hello" => pc'[s] = "take" /\ buf'[s] = buf[s]
      /\ pc[s] = "take" => pc'[s] = "start" /\ buf'[s] = got
      /\ pc'[Master] = pc[Master] /\ buf'[Master] = buf[Master]
      /\ \A t \in Slaves : t # s => pc'[t] = pc[t] /\ buf'[t] = buf[t]
  BY <1>2, Everybody DEF Inv, Shape
<1>5. /\ rendpc'[s] = "out" /\ ~ Waits(s)
      /\ \A r \in Procs : r # s => rendpc'[r] = rendpc[r] /\ rendval'[r] = rendval[r]
  BY <1>1, Everybody DEF Inv, RendInv, RendTypeOK, Met
<1>6. Shape'
  BY <1>2, <1>4, Everybody DEF Inv, Shape, Created, SlavePC, WorkingPC
<1>7. Meetings'
  <2>1. ASSUME NEW r \in Procs, Waits(r)'
        PROVE  rendtag'[r] = Tag(r)' /\ rendval'[r] = Gives(r)'
    <3>1. r # s /\ Waits(r)
      BY <1>1, <1>5, <2>1
    <3>2. pc'[r] = pc[r] /\ buf'[r] = buf[r]
      BY <1>4, <3>1, ProcsAre
    <3>3. Tag(r)' = Tag(r) /\ Gives(r)' = Gives(r)
      BY <3>2 DEF Tag, Gives
    <3>4. QED
      BY <1>1, <1>5, <3>1, <3>3 DEF Inv, Meetings
  <2>2. QED
    BY <1>4, <1>5, <2>1, Everybody DEF Inv, Meetings
<1>8. Greetings'
  BY <1>1, <1>2, <1>4, Everybody DEF Inv, Greetings, Greeting
<1>9. \A t \in Slaves : /\ Handing(t)' <=> Handing(t)
                        /\ \A b \in Bufs : HasBuf(t, b)' <=> HasBuf(t, b)
  <2>1. \A b \in Bufs : HasBuf(s, b)' <=> HasBuf(s, b)
    BY <1>1, <1>2, <1>4, Everybody DEF HasBuf, WorkingPC
  <2>2. \A t \in Slaves : t # s => \A b \in Bufs : HasBuf(t, b)' <=> HasBuf(t, b)
    BY <1>1, <1>4, <1>5, Everybody DEF HasBuf
  <2>3. \A t \in Slaves : Handing(t)' <=> Handing(t)
    BY <1>1, <1>4, Everybody DEF Handing
  <2>4. QED
    BY <2>1, <2>2, <2>3
<1>10. pc[s] = "take" => ~ Handing(s)
  BY <1>1 DEF Inv, Slaving
<1>11. Slaving'
  <2> SUFFICES ASSUME NEW t \in Slaves
               PROVE  (/\ pc[t] \in WorkingPC \/ (pc[t] = "take" /\ Met(t))
                             => t \in pbusy /\ \E c \in Bufs : HasBuf(t, c)
                       /\ pc[t] = "rest" => t \in pbusy
                       /\ Handing(t) => t \in pbusy /\ pc[t] \in {"hello", "take"}
                                        /\ (pc[t] = "take" => ~ Met(t))
                       /\ \A c \in Bufs : HasBuf(t, c) => busy[c] /\ bufpid[c] = t)'
    BY DEF Slaving
  <2>1. CASE t = s
    BY <1>1, <1>2, <1>3, <1>4, <1>9, <1>10, <2>1, Everybody DEF Inv, Slaving, WorkingPC
  <2>2. CASE t # s
    BY <1>1, <1>4, <1>9, <2>2, Everybody DEF Inv, Slaving
  <2>3. QED
    BY <2>1, <2>2
<1>12. Mastering'
  <2>1. ASSUME \/ pc[Master] \in {"read", "setflush", "slave", "greet"}
               \/ pc[Master] = "hand" /\ ~ Met(Master)
        PROVE  (/\ buf[Master] \in Bufs /\ busy[buf[Master]]
                /\ \A t \in Slaves : ~ HasBuf(t, buf[Master]))'
    <3> PICK b \in Bufs : b = buf[Master]
      BY <2>1 DEF Inv, Mastering
    <3>1. busy[b] /\ \A t \in Slaves : ~ HasBuf(t, b)'
      BY <1>9, <2>1 DEF Inv, Mastering
    <3>2. QED
      BY <1>4, <3>1 DEF HasBuf
  <2>2. QED
    BY <1>1, <1>4, <1>5, <2>1, Everybody DEF Inv, Mastering
<1>13. QED
  BY <1>1, <1>6, <1>7, <1>8, <1>11, <1>12 DEF Inv

(* rendezvous, where master or slave calls it                              *)
LEMMA RendezvousPreserves ==
  ASSUME Inv, NEW p \in Procs, Rendezvous(p)
  PROVE  Inv'
<1>1. UNCHANGED <<busy, bufpid, proclist, pbusy>> /\ pc[p] \in {"greet", "hand", "hello", "take"}
  BY DEF Rendezvous, work, slaves
<1>2. CASE Await(p, Tag(p), Gives(p)) /\ UNCHANGED <<pc, buf>>
  BY <1>1, <1>2, AwaitPreserves
<1>3. CASE (RendSleep(p) \/ CondTest(p)) /\ UNCHANGED <<pc, buf>>
  BY <1>1, <1>3, SleepPreserves
<1>4. p = Master \/ p \in Slaves
  BY ProcsAre
<1>5. /\ p = Master => pc[p] \in {"greet", "hand"}
      /\ p \in Slaves => pc[p] \in {"hello", "take"}
  BY <1>1 DEF Inv, Shape, MasterPC, SlavePC, WorkingPC
<1>6. ASSUME NEW got, Meet(p, Tag(p), Gives(p), got), GoesOn(p, got)
      PROVE  Inv'
  <2>1. CASE p = Master
    BY <1>1, <1>5, <1>6, <2>1, GreetPreserves, HandPreserves
  <2>2. CASE p \in Slaves
    BY <1>1, <1>5, <1>6, <2>2, HelloPreserves, TakePreserves
  <2>3. QED
    BY <1>4, <2>1, <2>2
<1>7. ASSUME Woken(p, rendval[p]), GoesOn(p, rendval[p])
      PROVE  Inv'
  BY <1>1, <1>4, <1>5, <1>7, MasterWokenPreserves, SlaveWokenPreserves
<1>8. QED
  BY <1>2, <1>3, <1>6, <1>7 DEF Rendezvous

-----------------------------------------------------------------------------
LEMMA InitiallyInv == Init => Inv
<1> SUFFICES ASSUME Init PROVE Inv
  OBVIOUS
<1>1. RendInv
  BY RendInitially DEF Init
<1>2. \A p \in Procs : ~ Waits(p) /\ ~ Met(p)
  <2>1. rend = <<>> /\ \A p \in Procs : rendpc[p] = "out"
    BY DEF Init, RendInit
  <2>2. \A p \in Procs : ~ Waits(p)
    <3>1. DOMAIN rend = {}
      BY <2>1
    <3>2. QED
      BY <3>1 DEF Waits
  <2>3. QED
    BY <2>1, <2>2 DEF Met
<1>3. pc[Master] = "search" /\ \A s \in Slaves : pc[s] = "none"
  BY Everybody DEF Init
<1>4. Shape
  <2>1. proclist = <<>> /\ pbusy = {}
    BY DEF Init
  <2>2. proclist \in Seq(Slaves) /\ \A s \in Slaves : ~ Created(s)
    BY <2>1 DEF Created
  <2>3. busy \in [Bufs -> BOOLEAN] /\ bufpid \in [Bufs -> Slaves \cup {None}]
    BY DEF Init
  <2>4. DOMAIN buf = Procs /\ DOMAIN pc = Procs
    BY DEF Init
  <2>5. QED
    BY <1>3, <2>1, <2>2, <2>3, <2>4 DEF Shape, MasterPC, SlavePC
<1>5. Meetings
  BY <1>2, Everybody DEF Init, RendInit, Meetings
<1>6. Greetings /\ Slaving /\ Mastering
  BY <1>3 DEF Greetings, Greeting, Slaving, HasBuf, Handing, Mastering, WorkingPC
<1>7. QED
  BY <1>1, <1>4, <1>5, <1>6 DEF Inv

(* what the client sends and the master reads                              *)
LEMMA MasterReadsPreserves ==
  ASSUME Inv, MasterReads
  PROVE  Inv'
<1> PICK t \in Tags : Quick(t) \/ BadVersion(t) \/ Slow(t) \/ Flush(t)
  BY DEF MasterReads
<1>1. CASE Quick(t)
  BY <1>1, DonePreserves DEF Quick, slaves
<1>2. CASE BadVersion(t)
  BY <1>2, MasterGoesOn DEF BadVersion, Goto, slaves
<1>3. CASE Slow(t)
  BY <1>3, MasterGoesOn DEF Slow, Goto, slaves
<1>4. CASE Flush(t)
  <2>1. CASE Done("read")
    BY <1>4, <2>1, DonePreserves DEF Flush, slaves
  <2>2. CASE Goto(Master, "read", "setflush") /\ UNCHANGED <<busy, buf>>
    BY <1>4, <2>2, MasterGoesOn DEF Flush, Goto, slaves
  <2>3. QED
    BY <1>4, <2>1, <2>2 DEF Flush
<1>5. QED
  BY <1>1, <1>2, <1>3, <1>4

(* The invariant of master and slaves, for any number of slaves and work   *)
(* buffers, any client and any load.                                       *)
THEOREM Invariance == Spec => []Inv
<1>1. Inv /\ [Next]_vars => Inv'
  <2> SUFFICES ASSUME Inv, [Next]_vars PROVE Inv'
    OBVIOUS
  <2>1. CASE MasterReads
    BY <2>1, MasterReadsPreserves
  <2>2. CASE MasterStep
    <3>1. CASE SearchFound
      BY <3>1, SearchPreserves
    <3>2. CASE SearchAgain
      BY <3>2, MasterGoesOn DEF SearchAgain, Goto, work, slaves
    <3>3. CASE FlushSet
      BY <3>3, DonePreserves DEF FlushSet, slaves
    <3>4. CASE SlaveFound
      BY <3>4, SlaveFoundPreserves
    <3>5. CASE SlaveNew
      BY <3>5, SlaveNewPreserves
    <3>6. CASE TooManyProcs
      BY <3>6, MasterGoesOn DEF TooManyProcs, Goto, work, slaves
    <3>7. CASE Rendezvous(Master)
      BY <3>7, RendezvousPreserves, Everybody
    <3>8. QED
      BY <2>2, <3>1, <3>2, <3>3, <3>4, <3>5, <3>6, <3>7 DEF MasterStep
  <2>3. ASSUME NEW s \in Slaves, SlaveStep(s)
        PROVE  Inv'
    <3>1. CASE Rendezvous(s)
      BY <3>1, RendezvousPreserves, Everybody
    <3>2. CASE SlaveGiveBack(s)
      BY <3>2, GiveBackPreserves
    <3>3. CASE SlaveRest(s)
      BY <3>3, RestPreserves
    <3>4. CASE SlaveStart(s) \/ SlaveGetFid(s) \/ SlaveCanInt(s) \/ SlaveReply(s)
               \/ SlaveTest(s) \/ SlaveRetag(s) \/ SlaveFlushMe(s)
      <4>1. \E to \in WorkingPC : pc[s] \in WorkingPC /\ pc' = [pc EXCEPT ![s] = to]
        BY <3>4 DEF SlaveStart, SlaveGetFid, SlaveCanInt, SlaveReply, SlaveTest, SlaveRetag,
           SlaveFlushMe, Goto, WorkingPC
      <4>2. UNCHANGED <<busy, bufpid, buf, proclist, pbusy, rendVars>>
        BY <3>4 DEF SlaveStart, SlaveGetFid, SlaveCanInt, SlaveReply, SlaveTest, SlaveRetag,
           SlaveFlushMe, work, slaves
      <4>3. QED
        BY <4>1, <4>2, SlaveWorks
    <3>5. QED
      BY <2>3, <3>1, <3>2, <3>3, <3>4 DEF SlaveStep
  <2>4. ASSUME NEW p \in Procs, Spurious(p)
        PROVE  Inv'
    BY <2>4, SleepPreserves DEF Spurious, work, slaves
  <2>5. CASE ClientTakes \/ UNCHANGED vars
    <3>1. UNCHANGED <<busy, bufpid, buf, proclist, pbusy, pc, rendVars>>
      BY <2>5 DEF ClientTakes, vars, work, slaves
    <3>2. \A p \in Procs : (Waits(p)' <=> Waits(p)) /\ (Met(p)' <=> Met(p))
      BY <3>1, RendStays
    <3>3. RendInv' /\ UNCHANGED <<rendpc, rendtag, rendval>>
      BY <3>1, RendStays DEF Inv, rendVars
    <3>4. \A p \in Procs : Tag(p)' = Tag(p) /\ Gives(p)' = Gives(p)
      BY <3>1 DEF Tag, Gives
    <3>5. Shape' /\ Meetings' /\ Greetings'
      BY <3>1, <3>2, <3>3, <3>4, Everybody DEF Inv, Shape, Created, Meetings, Greetings, Greeting
    <3>6. \A s \in Slaves : /\ Handing(s)' <=> Handing(s)
                            /\ \A b : HasBuf(s, b)' <=> HasBuf(s, b)
      BY <3>1, <3>2, <3>3, Everybody DEF Handing, HasBuf
    <3>7. Slaving' /\ Mastering'
      BY <3>1, <3>2, <3>3, <3>6, Everybody DEF Inv, Slaving, Mastering
    <3>8. QED
      BY <3>3, <3>5, <3>7 DEF Inv
  <2>6. QED
    BY <2>1, <2>2, <2>3, <2>4, <2>5 DEF Next
<1>2. QED
  BY <1>1, InitiallyInv, PTL DEF Spec

(* A slave works on the buffer that the master handed to it and on no      *)
(* other, apart from the master and all other slaves, and the master's     *)
(* rendezvous ends with the slave that it chose (blockingslave, exportfs). *)
THEOREM NoBufferIsShared == Spec => []SlavesWorkApart
<1>1. Inv => SlavesWorkApart
  <2> SUFFICES ASSUME Inv PROVE SlavesWorkApart
    OBVIOUS
  <2>1. Working = {s \in Slaves : pc[s] \in WorkingPC}
    BY DEF Working, WorkingPC
  <2>2. ASSUME NEW s \in Working
        PROVE  /\ buf[s] \in Bufs
               /\ busy[buf[s]] /\ bufpid[buf[s]] = s /\ s \in pbusy
               /\ pc[Master] \in {"read", "slave", "setflush"} => buf[Master] # buf[s]
    <3>1. s \in Slaves /\ pc[s] \in WorkingPC
      BY <2>1
    <3>2. buf[s] \in Bufs /\ HasBuf(s, buf[s])
      BY <3>1 DEF Inv, Slaving, HasBuf, WorkingPC
    <3>3. QED
      BY <3>1, <3>2 DEF Inv, Slaving, Mastering
  <2>3. pc[Master] # "syncfail"
    BY DEF Inv, Shape, MasterPC
  <2>4. QED
    BY <2>2, <2>3 DEF SlavesWorkApart
<1>2. QED
  BY <1>1, Invariance, PTL

-----------------------------------------------------------------------------
(***************************************************************************)
(* Each request is answered once.  As long as no flush has gone astray     *)
(* (Once):                                                                 *)
(*                                                                         *)
(*   Book        what requests, tags and buffers say of each other;        *)
(*   Olds        a flush that is waited for is of a request that is;       *)
(*   Pending     a request whose buffer waits for the host is not answered,*)
(*               and the client waits for it under its tag;                *)
(*   Recorded    a flush recorded where the slave has yet to look is of    *)
(*               the request there, and not answered;                      *)
(*   Unanswered  nor is any other flush of that request;                   *)
(*   Replying    a flush that a slave has put its buffer's tag to is not   *)
(*               answered, nor is any other of the same request, which no  *)
(*               slave has in its buffer any more;                         *)
(*   Setting     what Xflush is about to record, and where;                *)
(*   Fresh       a new request has no flush recorded;                      *)
(*   Returning   replies on the way are in an order in which the client    *)
(*               can take them.                                            *)
(***************************************************************************)
Requests == [tag : Tags, kind : {"quick", "io", "open", "flush"}, fid : Fids \cup {None},
             old : Tags \cup {None}, astray : BOOLEAN]

(* the kinds that slaves serve *)
Slowly == {"io", "open"}

Book ==
  /\ req \in Seq(Requests)
  /\ \A r \in 1 .. Len(req) : req[r].kind = "flush" <=> req[r].old # None
  /\ want \in [Tags -> 1 .. Len(req) \cup {None}]
  /\ \A t \in Tags : Outstanding(t) => req[want[t]].tag = t
  /\ answered \subseteq 1 .. Len(req) /\ again = {}
  /\ tag \in [Bufs -> Tags \cup {NOTAG}] /\ flushtag \in [Bufs -> Tags \cup {NOTAG}]
  /\ rid \in [Bufs -> 0 .. Len(req)]

Olds ==
  \A u \in Tags : Outstanding(u) /\ req[want[u]].kind = "flush" =>
    /\ Outstanding(req[want[u]].old)
    /\ req[want[req[want[u]].old]].kind \in Slowly

(* the master has read a request into w that is for a slave *)
Filling(w) ==
  /\ pc[Master] \in {"slave", "greet"} \/ (pc[Master] = "hand" /\ ~ Met(Master))
  /\ buf[Master] = w

(* the request in w is not answered; whoever has w has yet to look at its flushtag *)
Early(w) ==
  Filling(w) \/ \E s \in Slaves : HasBuf(s, w) /\ pc[s] \notin {"test", "flushme", "rflush", "giveback"}

Looked(w) == Filling(w) \/ \E s \in Slaves : HasBuf(s, w) /\ pc[s] \notin {"rflush", "giveback"}

Pending ==
  /\ \A v, w \in Bufs : Looked(v) /\ Looked(w) /\ rid[v] = rid[w] => v = w
  /\ \A w \in Bufs :
    /\ Early(w) => rid[w] \notin answered /\ want[tag[w]] = rid[w]
    /\ Looked(w) => /\ rid[w] \in 1 .. Len(req) /\ tag[w] = req[rid[w]].tag
                    /\ req[rid[w]].kind \in Slowly

Recorded ==
  \A w \in Bufs : Looked(w) /\ flushtag[w] # NOTAG =>
    /\ Outstanding(flushtag[w]) /\ want[flushtag[w]] \notin answered
    /\ req[want[flushtag[w]]].old = tag[w] /\ want[tag[w]] = rid[w]

Unanswered ==
  \A w \in Bufs : Looked(w) /\ want[tag[w]] = rid[w] =>
    \A u \in FlushesOf(tag[w]) : want[u] \notin answered

(* f, under tag u, is the flush that a slave is replying to *)
ReplyingTo(f, u) ==
  /\ f \in 1 .. Len(req) /\ f \notin answered
  /\ u \in Tags /\ want[u] = f /\ req[f].kind = "flush"
  /\ \A x \in FlushesOf(req[f].old) : want[x] \notin answered
  /\ \A v \in Bufs : Looked(v) => rid[v] # want[req[f].old]
  /\ pc[Master] = "setflush" => rid[buf[Master]] # f

Replying ==
  /\ \A s \in Slaves : pc[s] = "rflush" => ReplyingTo(rid[buf[s]], tag[buf[s]])
  /\ \A s, t \in Slaves : pc[s] = "rflush" /\ pc[t] = "rflush" /\ s # t =>
       req[rid[buf[s]]].old # req[rid[buf[t]]].old

(* f, under tag u, is in the master's buffer b *)
SettingIn(b, f, u) ==
  /\ f = Len(req) /\ f # 0 /\ f \notin answered
  /\ u \in Tags /\ want[u] = f /\ req[f].kind = "flush"
  /\ hit \in Bufs /\ hit # b
  /\ Looked(hit) => rid[hit] = want[req[f].old]
  /\ \A w \in Bufs : Looked(w) => flushtag[w] # u

Setting ==
  pc[Master] = "setflush" => SettingIn(buf[Master], rid[buf[Master]], tag[buf[Master]])

Fresh ==
  /\ pc[Master] = "read" => flushtag[buf[Master]] = NOTAG /\ bufpid[buf[Master]] = None
  /\ \A w \in Bufs : Filling(w) => flushtag[w] = NOTAG
  /\ \A s \in Slaves : pc[s] = "flushme" => flushtag[buf[s]] # NOTAG

(* a reply before another is another's, and not of a flush of its request, *)
(* nor of a later flush of the same request                                *)
InTurn(x, y) ==
  /\ x.id # y.id
  /\ req[x.id].old # y.tag
  /\ req[x.id].old # None /\ req[x.id].old = req[y.id].old => x.id < y.id

Returning ==
  /\ back \in Seq([tag : Tags, id : 1 .. Len(req)])
  /\ \A i \in 1 .. Len(back) : back[i].id \in answered /\ want[back[i].tag] = back[i].id
  /\ \A i, j \in 1 .. Len(back) : i < j => InTurn(back[i], back[j])

Once ==
  /\ Book /\ Olds /\ Pending /\ Recorded /\ Unanswered /\ Replying /\ Setting /\ Fresh
  /\ Returning

(* A buffer has at most one slave, and not the master too. *)
LEMMA OneHasBuf ==
  ASSUME Inv, NEW s \in Slaves, NEW w \in Bufs, HasBuf(s, w)
  PROVE  /\ busy[w] /\ bufpid[w] = s
         /\ \A t \in Slaves : HasBuf(t, w) => t = s
         /\ ~ Filling(w)
         /\ pc[Master] \in {"read", "setflush"} => buf[Master] # w
BY DEF Inv, Slaving, Mastering, Filling

(* Whoever has yet to look had so before rendezvous.                       *)
LEMMA RendezvousLooks ==
  ASSUME Inv, NEW p \in Procs, Rendezvous(p), NEW w \in Bufs
  PROVE  /\ Looked(w)' => Looked(w)
         /\ Early(w)' => Early(w)
         /\ Filling(w)' => Filling(w)
         /\ pc[p]' \notin {"read", "setflush", "flushme", "rflush"}
         /\ \A q \in Procs : q # p => pc'[q] = pc[q] /\ buf'[q] = buf[q]
<1>1. pc[p] \in {"greet", "hand", "hello", "take"}
  BY DEF Rendezvous
<1>2. p = Master \/ p \in Slaves
  BY ProcsAre
<1>3. /\ p = Master => pc[p] \in {"greet", "hand"}
      /\ p \in Slaves => pc[p] \in {"hello", "take"}
  BY <1>1 DEF Inv, Shape, MasterPC, SlavePC, WorkingPC
<1>4. CASE Await(p, Tag(p), Gives(p)) /\ UNCHANGED <<pc, buf>>
  <2>1. \A q \in Procs : Met(q)' <=> Met(q)
    BY <1>4, AwaitKeeps DEF Inv
  <2>2. rendpc[p] = "out" /\ rendval' = [rendval EXCEPT ![p] = Gives(p)]
    BY <1>4 DEF Await
  <2>3. ~ Met(p)
    BY <2>2, OutIsOut
  <2>4. \A q \in Procs : q # p => rendval'[q] = rendval[q]
    BY <2>2 DEF Inv, RendInv, RendTypeOK
  <2>5. \A s \in Slaves : HasBuf(s, w)' => HasBuf(s, w)
    BY <1>4, <2>1, <2>3, <2>4, Everybody DEF HasBuf
  <2>6. Filling(w)' <=> Filling(w)
    BY <1>4, <2>1, Everybody DEF Filling
  <2> QED BY <1>1, <1>4, <2>5, <2>6 DEF Looked, Early
<1>5. CASE (RendSleep(p) \/ CondTest(p)) /\ UNCHANGED <<pc, buf>>
  <2>1. /\ UNCHANGED rendval
        /\ \A q \in Procs : Met(q)' <=> Met(q)
    BY <1>5, SleepKeeps DEF Inv
  <2>2. \A s \in Slaves : HasBuf(s, w)' => HasBuf(s, w)
    BY <1>5, <2>1, Everybody DEF HasBuf
  <2>3. Filling(w)' <=> Filling(w)
    BY <1>5, <2>1, Everybody DEF Filling
  <2> QED BY <1>1, <1>5, <2>2, <2>3 DEF Looked, Early
<1>6. ASSUME NEW got, Meet(p, Tag(p), Gives(p), got), GoesOn(p, got)
      PROVE  /\ Looked(w)' => Looked(w)
             /\ Early(w)' => Early(w)
             /\ Filling(w)' => Filling(w)
             /\ pc[p]' \notin {"read", "setflush", "flushme", "rflush"}
             /\ \A q \in Procs : q # p => pc'[q] = pc[q] /\ buf'[q] = buf[q]
  <2>1. PICK q \in Procs :
          /\ rendpc[p] = "out" /\ Waits(q) /\ q # p
          /\ rendtag[q] = Tag(p) /\ got = rendval[q]
          /\ rendval' = [rendval EXCEPT ![p] = None, ![q] = Gives(p)]
          /\ rendpc' = rendpc
          /\ \A r \in Procs : /\ Waits(r)' <=> Waits(r) /\ r # q
                              /\ Met(r)' <=> Met(r) \/ r = q
    BY <1>6, MeetKeeps DEF Inv
  <2>2. \A r \in Procs : r # p /\ r # q => rendval'[r] = rendval[r]
    BY <2>1 DEF Inv, RendInv, RendTypeOK
  <2>3. rendval'[q] = Gives(p)
    BY <2>1 DEF Inv, RendInv, RendTypeOK
  <2>4. CASE p = Master
    <3>1. /\ q \in Slaves /\ ~ Met(Master) /\ ~ Met(q)
          /\ pc[Master] = "greet" => pc[q] = "hello"
          /\ pc[Master] = "hand" => pc[q] = "take" /\ bufpid[buf[Master]] = q /\ rendval[q] = q
      BY <1>3, <2>1, <2>4, MasterMeetsSlave
    <3>2. /\ pc[Master] = "greet" => pc' = [pc EXCEPT ![Master] = "slave"] /\ UNCHANGED buf
          /\ pc[Master] = "hand" => pc' = [pc EXCEPT ![Master] = "search"]
                                 /\ buf' = [buf EXCEPT ![Master] = None]
      BY <1>6, <2>1, <2>4, <3>1, TagsAre DEF GoesOn, Goto
    <3>3. /\ \A s \in Slaves : pc'[s] = pc[s] /\ buf'[s] = buf[s]
          /\ pc[Master] = "greet" => pc'[Master] = "slave" /\ buf'[Master] = buf[Master]
          /\ pc[Master] = "hand" => pc'[Master] = "search"
      BY <1>3, <2>4, <3>2, Everybody DEF Inv, Shape
    <3>4. Gives(p) = IF pc[Master] = "hand" THEN buf[Master] ELSE Head(proclist)
      BY <1>3, <2>4, TagsAre
    <3>5. Filling(w)' => Filling(w)
      BY <1>3, <2>4, <3>3 DEF Filling
    <3>6. ASSUME NEW s \in Slaves, HasBuf(s, w)'
          PROVE  HasBuf(s, w) \/ (Filling(w) /\ pc[s] = "take")
      <4>1. CASE s = q
        BY <2>3, <3>1, <3>3, <3>4, <3>6, <4>1, <1>3, <2>4, Everybody DEF HasBuf, Filling, WorkingPC
      <4>2. CASE s # q
        BY <2>1, <2>2, <2>4, <3>3, <3>6, <4>2, Everybody DEF HasBuf
      <4> QED BY <4>1, <4>2
    <3>7. pc'[p] \notin {"read", "setflush", "flushme", "rflush"}
          /\ \A r \in Procs : r # p => pc'[r] = pc[r] /\ buf'[r] = buf[r]
      BY <1>3, <2>4, <3>3, ProcsAre
    <3> QED BY <3>3, <3>5, <3>6, <3>7 DEF Looked, Early
  <2>5. CASE p \in Slaves
    <3>1. /\ q = Master /\ ~ Met(p) /\ ~ Met(Master)
          /\ pc[p] = "hello" => pc[Master] = "greet"
          /\ pc[p] = "take" => /\ pc[Master] = "hand" /\ rendval[Master] = buf[Master]
      BY <1>3, <2>1, <2>5, SlaveMeetsMaster
    <3>2. /\ pc[p] = "hello" => pc' = [pc EXCEPT ![p] = "take"] /\ UNCHANGED buf
          /\ pc[p] = "take" => pc' = [pc EXCEPT ![p] = "start"] /\ buf' = [buf EXCEPT ![p] = got]
      BY <1>6 DEF GoesOn, Goto
    <3>3. /\ \A r \in Procs : r # p => pc'[r] = pc[r] /\ buf'[r] = buf[r]
          /\ pc[p] = "hello" => pc'[p] = "take"
          /\ pc[p] = "take" => pc'[p] = "start" /\ buf'[p] = got
      BY <1>3, <2>5, <3>2, Everybody DEF Inv, Shape
    <3>4. Filling(w)' => Filling(w)
      BY <2>5, <3>1, <3>3, Everybody DEF Filling
    <3>5. ASSUME NEW s \in Slaves, HasBuf(s, w)'
          PROVE  (s # p /\ HasBuf(s, w)) \/ (Filling(w) /\ s = p)
      <4>1. CASE s = p
        BY <1>3, <2>1, <3>1, <3>3, <3>5, <4>1, Everybody DEF HasBuf, Filling, WorkingPC
      <4>2. CASE s # p
        BY <2>1, <2>2, <3>1, <3>3, <3>5, <4>2, Everybody DEF HasBuf
      <4> QED BY <4>1, <4>2
    <3>6. pc'[p] \notin {"read", "setflush", "flushme", "rflush"}
      BY <1>3, <2>5, <3>3
    <3> QED BY <3>3, <3>4, <3>5, <3>6, Everybody DEF Looked, Early
  <2> QED BY <1>2, <2>4, <2>5
<1>7. ASSUME Woken(p, rendval[p]), GoesOn(p, rendval[p])
      PROVE  /\ Looked(w)' => Looked(w)
             /\ Early(w)' => Early(w)
             /\ Filling(w)' => Filling(w)
             /\ pc[p]' \notin {"read", "setflush", "flushme", "rflush"}
             /\ \A q \in Procs : q # p => pc'[q] = pc[q] /\ buf'[q] = buf[q]
  <2>1. /\ Met(p)
        /\ rendval' = [rendval EXCEPT ![p] = None]
        /\ \A q \in Procs : Met(q)' <=> Met(q) /\ q # p
    BY <1>7, WokenKeeps DEF Inv
  <2>2. \A q \in Procs : q # p => rendval'[q] = rendval[q]
    BY <2>1 DEF Inv, RendInv, RendTypeOK
  <2>3. CASE p = Master
    <3>1. pc[Master] = "hand" => rendval[Master] = Tag(Master)
      BY <2>1, <2>3, TagsAre DEF Inv, Mastering
    <3>2. /\ pc[Master] = "greet" => pc' = [pc EXCEPT ![Master] = "slave"] /\ UNCHANGED buf
          /\ pc[Master] = "hand" => pc' = [pc EXCEPT ![Master] = "search"]
                                 /\ buf' = [buf EXCEPT ![Master] = None]
      BY <1>7, <2>3, <3>1 DEF GoesOn, Goto
    <3>3. /\ \A r \in Procs : r # p => pc'[r] = pc[r] /\ buf'[r] = buf[r]
          /\ pc[Master] = "greet" => pc'[Master] = "slave" /\ buf'[Master] = buf[Master]
          /\ pc[Master] = "hand" => pc'[Master] = "search"
      BY <1>3, <2>3, <3>2, Everybody DEF Inv, Shape
    <3>4. Filling(w)' => Filling(w)
      BY <1>3, <2>3, <3>3 DEF Filling
    <3>5. \A s \in Slaves : HasBuf(s, w)' => HasBuf(s, w)
      BY <2>1, <2>2, <2>3, <3>3, Everybody DEF HasBuf
    <3>6. pc'[p] \notin {"read", "setflush", "flushme", "rflush"}
      BY <1>3, <2>3, <3>3
    <3> QED BY <2>3, <3>3, <3>4, <3>5, <3>6, Everybody DEF Looked, Early
  <2>4. CASE p \in Slaves
    <3>1. /\ pc[p] = "hello" => pc' = [pc EXCEPT ![p] = "take"] /\ UNCHANGED buf
          /\ pc[p] = "take" => pc' = [pc EXCEPT ![p] = "start"] /\ buf' = [buf EXCEPT ![p] = rendval[p]]
      BY <1>7 DEF GoesOn, Goto
    <3>2. /\ \A r \in Procs : r # p => pc'[r] = pc[r] /\ buf'[r] = buf[r]
          /\ pc[p] = "hello" => pc'[p] = "take"
          /\ pc[p] = "take" => pc'[p] = "start" /\ buf'[p] = rendval[p]
      BY <1>3, <2>4, <3>1, Everybody DEF Inv, Shape
    <3>3. Filling(w)' => Filling(w)
      BY <2>1, <2>4, <3>2, Everybody DEF Filling
    <3>4. ASSUME NEW s \in Slaves, HasBuf(s, w)'
          PROVE  HasBuf(s, w) /\ (s = p => pc[s] = "take")
      <4>1. CASE s = p
        BY <1>3, <2>1, <2>4, <3>2, <3>4, <4>1, Everybody DEF HasBuf, WorkingPC
      <4>2. CASE s # p
        BY <2>1, <2>2, <3>2, <3>4, <4>2, Everybody DEF HasBuf
      <4> QED BY <4>1, <4>2
    <3>5. pc'[p] \notin {"read", "setflush", "flushme", "rflush"}
      BY <1>3, <2>4, <3>2
    <3> QED BY <3>2, <3>3, <3>4, <3>5, Everybody DEF Looked, Early
  <2> QED BY <1>2, <2>3, <2>4
<1> QED BY <1>4, <1>5, <1>6, <1>7 DEF Rendezvous


(* Steps that change only where the processes are.                         *)
LEMMA OnceStays ==
  ASSUME Once, UNCHANGED <<flushtag, tag, rid, req, want, answered, again, back>>,
         \A w \in Bufs : /\ Looked(w)' => Looked(w)
                         /\ Early(w)' => Early(w)
                         /\ Filling(w)' => Filling(w),
         pc'[Master] \in {"read", "setflush"} =>
           pc'[Master] = pc[Master] /\ buf'[Master] = buf[Master] /\ UNCHANGED <<hit, bufpid>>,
         \A s \in Slaves : pc'[s] = "flushme" => flushtag[buf'[s]] # NOTAG,
         \A s \in Slaves : pc'[s] = "rflush" => pc[s] = "rflush" /\ buf'[s] = buf[s]
  PROVE  Once'
<1>1. \A t \in Tags : FlushesOf(t)' = FlushesOf(t) /\ (Outstanding(t)' <=> Outstanding(t))
  BY DEF FlushesOf, Outstanding
<1>2. Book' /\ Olds' /\ Returning'
  BY <1>1 DEF Once, Book, Olds, Returning, Outstanding, InTurn
<1>3. Pending'
  BY DEF Once, Pending
<1>4. Recorded'
  BY DEF Once, Recorded, Outstanding
<1>5. Unanswered'
  BY DEF Once, Unanswered, FlushesOf, Outstanding
<1>6. Setting'
  BY DEF Once, Setting, SettingIn
<1>7. Fresh'
  BY DEF Once, Fresh
<1>8. ASSUME NEW f, NEW u, ReplyingTo(f, u)
      PROVE  ReplyingTo(f, u)'
  BY <1>8 DEF ReplyingTo, FlushesOf, Outstanding
<1>9. Replying'
  BY <1>8 DEF Once, Replying
<1> QED BY <1>2, <1>3, <1>4, <1>5, <1>6, <1>7, <1>9 DEF Once

(* A slave that goes on with its buffer.                                   *)
LEMMA SlaveLooks ==
  ASSUME Inv, NEW s \in Slaves, NEW to \in WorkingPC, pc[s] \in WorkingPC \ {"giveback"},
         pc' = [pc EXCEPT ![s] = to], UNCHANGED <<buf, rendVars>>,
         to \in {"test", "flushme", "rflush", "giveback"} \/ pc[s] \notin {"test", "flushme"},
         pc[s] = "rflush" => to = "giveback"
  PROVE  /\ \A w \in Bufs : /\ Looked(w)' => Looked(w)
                                /\ (w = buf[s] => to \notin {"rflush", "giveback"})
                            /\ Early(w)' => Early(w)
                                /\ (w = buf[s] => to \notin {"test", "flushme", "rflush", "giveback"})
                            /\ Filling(w)' => Filling(w)
         /\ pc'[Master] = pc[Master] /\ pc'[s] = to
         /\ \A t \in Slaves : t # s => pc'[t] = pc[t]
         /\ buf[s] \in Bufs /\ HasBuf(s, buf[s])
         /\ pc[s] # "rflush" => Looked(buf[s])
         /\ pc[s] \notin {"test", "flushme", "rflush"} => Early(buf[s])
<1>1. \A p \in Procs : Met(p)' <=> Met(p)
  BY RendStays
<1>2. UNCHANGED rendval
  BY DEF rendVars
<1>3. pc'[Master] = pc[Master] /\ pc'[s] = to /\ \A t \in Slaves : t # s => pc'[t] = pc[t]
  BY Everybody DEF Inv, Shape
<1>4. buf[s] \in Bufs /\ HasBuf(s, buf[s])
  BY DEF Inv, Slaving, HasBuf, WorkingPC
<1>5. \A t \in Slaves, w \in Bufs : HasBuf(t, w)' <=> HasBuf(t, w)
  BY <1>1, <1>2, <1>3, Everybody DEF HasBuf, WorkingPC
<1>6. \A w \in Bufs : Filling(w)' <=> Filling(w)
  BY <1>1, <1>3, Everybody DEF Filling
<1>7. ~ Filling(buf[s]) /\ \A t \in Slaves : HasBuf(t, buf[s]) => t = s
  BY <1>4, OneHasBuf
<1>8. \A w \in Bufs : HasBuf(s, w) => w = buf[s]
  BY DEF HasBuf, WorkingPC
<1>9. \A w \in Bufs : Looked(w)' => Looked(w) /\ (w = buf[s] => to \notin {"rflush", "giveback"})
  BY <1>3, <1>5, <1>6, <1>7 DEF Looked
<1>10. \A w \in Bufs : Early(w)' => Early(w)
                         /\ (w = buf[s] => to \notin {"test", "flushme", "rflush", "giveback"})
  BY <1>3, <1>5, <1>6, <1>7 DEF Early
<1>11. /\ pc[s] # "rflush" => Looked(buf[s])
       /\ pc[s] \notin {"test", "flushme", "rflush"} => Early(buf[s])
  BY <1>4 DEF Looked, Early
<1> QED BY <1>3, <1>4, <1>6, <1>9, <1>10, <1>11

(* What the replies on the way are of.                                     *)
LEMMA BackIs ==
  ASSUME Once, NEW i \in 1 .. Len(back), NEW x, x = back[i]
  PROVE  /\ x.id \in answered /\ want[x.tag] = x.id
         /\ x.tag \in Tags /\ x.id \in 1 .. Len(req) /\ Outstanding(x.tag)
<1> DEFINE Q == [tag : Tags, id : 1 .. Len(req)]
<1>1. /\ back \in Seq(Q) /\ back[i].id \in answered /\ want[back[i].tag] = back[i].id
      /\ \A q \in Q : q.tag \in Tags /\ q.id \in 1 .. Len(req)
  BY DEF Once, Returning
<1> HIDE DEF Q
<1>2. x \in Q
  BY <1>1
<1>3. x.tag \in Tags /\ x.id \in 1 .. Len(req)
  BY <1>1, <1>2
<1> QED BY <1>1, <1>3, NoneIsNothing DEF Outstanding

(* A reply joins those on the way.                                         *)
LEMMA ReplyReturns ==
  ASSUME Book, Returning, NEW t \in Tags, NEW r \in 1 .. Len(req'), Reply(t, r),
         Len(req') \in Nat, Len(req) <= Len(req'),
         \A x \in 1 .. Len(req) : req'[x] = req[x],
         \A i \in 1 .. Len(back) : want'[back[i].tag] = back[i].id,
         want'[t] = r,
         \A i \in 1 .. Len(back) : \A x : x = back[i] => InTurn(x, [tag |-> t, id |-> r])'
  PROVE  Returning'
<1> DEFINE b == [tag |-> t, id |-> r]
           Q == [tag : Tags, id : 1 .. Len(req)]
           R == [tag : Tags, id : 1 .. Len(req')]
<1>0. /\ Q \subseteq R /\ back \in Seq(Q) /\ b \in R /\ b.tag = t /\ b.id = r
      /\ \A q \in Q : q.id \in 1 .. Len(req)
  BY DEF Book, Returning
<1> HIDE DEF Q, R
<1>1. back \in Seq(R) /\ b \in R
  BY <1>0
<1>2. /\ back' \in Seq(R) /\ Len(back') = Len(back) + 1 /\ back'[Len(back) + 1] = b
      /\ \A i \in 1 .. Len(back) : back'[i] = back[i]
  <2>1. back' = Append(back, b)
    BY DEF Reply
  <2> HIDE DEF b
  <2> QED BY <1>1, <2>1
<1>3. Len(back) \in Nat
  BY <1>1
<1>4. \A i \in 1 .. Len(back) : \A x : x = back[i] => InTurn(x, b)'
  OBVIOUS
<1> HIDE DEF b
<1>5. \A i \in 1 .. Len(back) : back[i].id \in 1 .. Len(req)
  BY <1>0
<1>6. \A i \in 1 .. Len(back') : back'[i].id \in answered' /\ want'[back'[i].tag] = back'[i].id
  BY <1>0, <1>2, <1>3 DEF Reply, Returning
<1>7. ASSUME NEW i \in 1 .. Len(back'), NEW j \in 1 .. Len(back'), i < j,
             NEW x, NEW y, x = back'[i], y = back'[j]
      PROVE  InTurn(x, y)'
  <2>1. CASE j = Len(back) + 1
    <3>1. i \in 1 .. Len(back) /\ y = b /\ x = back[i]
      BY <1>2, <1>3, <1>7, <2>1
    <3> QED BY <1>4, <3>1
  <2>2. CASE j # Len(back) + 1
    <3>1. i \in 1 .. Len(back) /\ j \in 1 .. Len(back)
      BY <1>2, <1>3, <1>7, <2>2
    <3>2. x = back[i] /\ y = back[j]
      BY <1>2, <1>7, <3>1
    <3>3. InTurn(x, y)
      BY <1>7, <3>1, <3>2 DEF Returning
    <3>4. x.id \in 1 .. Len(req) /\ y.id \in 1 .. Len(req)
      BY <1>5, <3>1, <3>2
    <3> QED BY <3>3, <3>4 DEF InTurn
  <2> QED BY <2>1, <2>2
<1>8. back' \in Seq([tag : Tags, id : 1 .. Len(req')])
  BY <1>2 DEF R
<1>9. \A i, j \in 1 .. Len(back') : i < j => \A x, y : x = back'[i] /\ y = back'[j] => InTurn(x, y)'
  BY <1>7
<1> QED BY <1>6, <1>8, <1>9 DEF Returning, InTurn

(* A slave's own request is answered.                                      *)
LEMMA OnceReplied ==
  ASSUME Inv, Once, NEW s \in Slaves, NEW w \in Bufs, w = buf[s], Early(w), HasBuf(s, w),
         pc[s] \in WorkingPC \ {"test", "flushme", "rflush", "giveback"},
         pc' = [pc EXCEPT ![s] = "test"], Reply(tag[w], rid[w]),
         UNCHANGED <<flushtag, tag, rid, req, want, hit, bufpid, buf, rendVars>>
  PROVE  Once'
<1> DEFINE r == rid[w]
<1>1. /\ \A v \in Bufs : /\ Looked(v)' => Looked(v)
                         /\ Early(v)' => Early(v) /\ v # w
                         /\ Filling(v)' => Filling(v)
      /\ pc'[Master] = pc[Master] /\ pc'[s] = "test"
      /\ \A t \in Slaves : t # s => pc'[t] = pc[t]
      /\ Looked(w)
  BY SlaveLooks DEF WorkingPC
<1>2. r \in 1 .. Len(req) /\ r \notin answered /\ want[tag[w]] = r
      /\ tag[w] = req[r].tag /\ req[r].kind \in Slowly
  BY <1>1 DEF Once, Pending
<1>3. /\ req \in Seq(Requests) /\ Len(req) \in Nat
      /\ \A x \in 1 .. Len(req) : req[x] \in Requests
  BY DEF Once, Book
<1>4. tag[w] \in Tags /\ req[r].old = None /\ tag[w] # None
  <2>1. req[r] \in Requests
    BY <1>2, <1>3
  <2>2. tag[w] \in Tags /\ req[r].old \in Tags \cup {None}
    BY <1>2, <2>1 DEF Requests
  <2> QED BY <1>2, <2>2, NoneIsNothing DEF Once, Book, Slowly
<1>5. answered' = answered \cup {r} /\ again' = again
  BY <1>2 DEF Reply
<1>6. \A t \in Tags : FlushesOf(t)' = FlushesOf(t) /\ (Outstanding(t)' <=> Outstanding(t))
  BY DEF FlushesOf, Outstanding
<1>7. \A t \in Tags : Outstanding(t) => want[t] \in 1 .. Len(req) /\ req[want[t]].tag = t
  BY DEF Once, Book, Outstanding
<1>8. Book'
  BY <1>2, <1>5 DEF Once, Book, Outstanding
<1>9. Olds'
  BY DEF Once, Olds, Outstanding
<1>10. Pending'
  <2> SUFFICES ASSUME NEW v \in Bufs
               PROVE  /\ Early(v)' => rid[v] \notin answered' /\ want[tag[v]] = rid[v]
                      /\ Looked(v)' => /\ rid[v] \in 1 .. Len(req) /\ tag[v] = req[rid[v]].tag
                                       /\ req[rid[v]].kind \in Slowly
    BY <1>1 DEF Once, Pending
  <2>1. Early(v) => Looked(v)
    BY DEF Early, Looked
  <2>2. v # w /\ Looked(v) => rid[v] # r
    BY <1>1 DEF Once, Pending
  <2> QED BY <1>1, <1>5, <2>1, <2>2 DEF Once, Pending
(* a flush is not answered by this *)
<1>11. ASSUME NEW u \in Tags, Outstanding(u), req[want[u]].old # None, want[u] \notin answered
       PROVE  want[u] \notin answered'
  BY <1>4, <1>5, <1>11
<1>12. ASSUME NEW v \in Bufs, Looked(v)
       PROVE  tag[v] \in Tags /\ tag[v] # None
  <2>1. rid[v] \in 1 .. Len(req) /\ tag[v] = req[rid[v]].tag
    BY <1>12 DEF Once, Pending
  <2>2. req[rid[v]] \in Requests
    BY <1>3, <2>1
  <2> QED BY <2>1, <2>2, NoneIsNothing DEF Requests
<1>13. Recorded'
  <2> SUFFICES ASSUME NEW v \in Bufs, Looked(v), flushtag[v] # NOTAG
               PROVE  /\ Outstanding(flushtag[v]) /\ want[flushtag[v]] \notin answered'
                      /\ req[want[flushtag[v]]].old = tag[v] /\ want[tag[v]] = rid[v]
    BY <1>1 DEF Recorded, Outstanding
  <2>1. flushtag[v] \in Tags
    BY DEF Once, Book
  <2> QED BY <1>11, <1>12, <2>1 DEF Once, Recorded
<1>14. Unanswered'
  <2> SUFFICES ASSUME NEW v \in Bufs, Looked(v), want[tag[v]] = rid[v], NEW u \in FlushesOf(tag[v])
               PROVE  want[u] \notin answered'
    BY <1>1, <1>6, <1>12 DEF Unanswered
  <2> QED BY <1>11, <1>12 DEF Once, Unanswered, FlushesOf
<1>15. Setting'
  <2> SUFFICES ASSUME pc[Master] = "setflush"
               PROVE  SettingIn(buf[Master], rid[buf[Master]], tag[buf[Master]])'
    BY <1>1 DEF Setting
  <2>1. SettingIn(buf[Master], rid[buf[Master]], tag[buf[Master]])
    BY DEF Once, Setting
  <2>2. rid[buf[Master]] # r
    BY <1>2, <2>1 DEF SettingIn, Slowly
  <2> QED BY <1>1, <1>5, <2>1, <2>2 DEF SettingIn
<1>16. Fresh'
  BY <1>1 DEF Once, Fresh
<1>18. Replying'
  <2>1. ASSUME NEW f, NEW u, ReplyingTo(f, u)
        PROVE  ReplyingTo(f, u)'
    <3>1. /\ f \in 1 .. Len(req) /\ f \notin answered
          /\ u \in Tags /\ want[u] = f /\ req[f].kind = "flush"
      BY <2>1 DEF ReplyingTo
    <3>2. f \notin answered' /\ req[f].old # None
      BY <1>2, <1>5, <3>1 DEF Slowly, Once, Book
    <3>3. \A x \in FlushesOf(req[f].old)' : want[x] \notin answered'
      <4> SUFFICES ASSUME NEW x \in Tags, Outstanding(x), req[want[x]].old = req[f].old
                   PROVE  want[x] \notin answered'
        BY DEF FlushesOf, Outstanding
      <4>1. want[x] \notin answered
        BY <2>1 DEF ReplyingTo, FlushesOf
      <4> QED BY <1>11, <3>2, <4>1
    <3>4. \A v \in Bufs : Looked(v)' => rid[v] # want[req[f].old]
      BY <1>1, <2>1 DEF ReplyingTo
    <3>5. pc'[Master] = "setflush" => rid[buf[Master]] # f
      BY <1>1, <2>1 DEF ReplyingTo
    <3> QED BY <3>1, <3>2, <3>3, <3>4, <3>5 DEF ReplyingTo
  <2>2. \A t \in Slaves : pc'[t] = "rflush" => pc[t] = "rflush"
    BY <1>1
  <2> QED BY <2>1, <2>2 DEF Once, Replying
<1>17. Returning'
  <2>1. ASSUME NEW i \in 1 .. Len(back), NEW x, x = back[i]
        PROVE  InTurn(x, [tag |-> tag[w], id |-> r])
    <3>1. x.id \in answered /\ want[x.tag] = x.id /\ x.tag \in Tags /\ x.id \in 1 .. Len(req)
      BY <2>1, BackIs
    <3>2. Outstanding(x.tag)
      BY <2>1, BackIs
    <3>3. req[x.id].old # tag[w]
      BY <1>1, <1>2, <3>1, <3>2 DEF Once, Unanswered, FlushesOf
    <3> QED BY <1>2, <1>4, <3>1, <3>3 DEF InTurn
  <2>2. \A i \in 1 .. Len(back) : \A x : x = back[i] => InTurn(x, [tag |-> tag[w], id |-> r])'
    BY <2>1 DEF InTurn
  <2>3. \A i \in 1 .. Len(back) : want[back[i].tag] = back[i].id
    BY DEF Once, Returning
  <2>4. Book /\ Returning
    BY DEF Once
  <2>5. r \in 1 .. Len(req') /\ want'[tag[w]] = r
    BY <1>2
  <2> HIDE DEF r
  <2> QED BY <1>3, <1>4, <2>2, <2>3, <2>4, <2>5, ReplyReturns DEF r
<1> QED BY <1>8, <1>9, <1>10, <1>13, <1>14, <1>15, <1>16, <1>17, <1>18 DEF Once

(* work.tag = flushtag: the slave begins to reply to the flush that is     *)
(* recorded with its request.                                              *)
LEMMA OnceRetagged ==
  ASSUME Inv, Once, NEW s \in Slaves, SlaveRetag(s)
  PROVE  Once'
<1> PICK w : w = buf[s]
  OBVIOUS
<1> PICK u : u = flushtag[w]
  OBVIOUS
<1> PICK f : f = want[u]
  OBVIOUS
<1>0. /\ pc[s] = "flushme" /\ pc' = [pc EXCEPT ![s] = "rflush"]
      /\ tag' = [tag EXCEPT ![w] = u] /\ rid' = [rid EXCEPT ![w] = f]
      /\ UNCHANGED <<busy, bufpid, flushtag, hit, buf, want, req, back, answered, again, rendVars>>
  BY DEF SlaveRetag, Goto, client, replies
<1>1. /\ \A v \in Bufs : /\ Looked(v)' => Looked(v) /\ v # w
                         /\ Early(v)' => Early(v) /\ v # w
                         /\ Filling(v)' => Filling(v)
      /\ pc'[Master] = pc[Master] /\ pc'[s] = "rflush"
      /\ \A t \in Slaves : t # s => pc'[t] = pc[t]
      /\ w \in Bufs /\ HasBuf(s, w) /\ Looked(w)
  BY <1>0, SlaveLooks DEF WorkingPC
<1>2. \A t \in Tags : Outstanding(t) => want[t] \in 1 .. Len(req) /\ req[want[t]].tag = t
  BY DEF Once, Book, Outstanding
<1>3. tag[w] \in Tags /\ tag[w] # None
  <2>1. rid[w] \in 1 .. Len(req) /\ tag[w] = req[rid[w]].tag
    BY <1>1 DEF Once, Pending
  <2>2. req[rid[w]] \in Requests
    BY <2>1 DEF Once, Book
  <2> QED BY <2>1, <2>2, NoneIsNothing DEF Requests
<1>4. /\ u \in Tags /\ Outstanding(u) /\ f \in 1 .. Len(req) /\ f \notin answered
      /\ req[f].old = tag[w] /\ want[tag[w]] = rid[w] /\ req[f].kind = "flush" /\ u # NOTAG
  <2>1. u # NOTAG /\ u \in Tags \cup {NOTAG}
    BY <1>0, <1>1 DEF Once, Fresh, Book
  <2>2. Outstanding(u) /\ f \notin answered /\ req[f].old = tag[w] /\ want[tag[w]] = rid[w]
    BY <1>1, <2>1 DEF Once, Recorded
  <2> QED BY <1>2, <1>3, <2>1, <2>2 DEF Once, Book
<1>5. /\ tag'[w] = u /\ rid'[w] = f
      /\ \A v \in Bufs : v # w => tag'[v] = tag[v] /\ rid'[v] = rid[v]
  BY <1>0, <1>1 DEF Once, Book
<1>6. Book'
  <2>1. tag' \in [Bufs -> Tags \cup {NOTAG}] /\ rid' \in [Bufs -> 0 .. Len(req)]
    BY <1>0, <1>1, <1>4 DEF Once, Book
  <2> QED BY <1>0, <2>1 DEF Once, Book, Outstanding
<1>7. Olds' /\ Returning'
  BY <1>0 DEF Once, Olds, Returning, Outstanding, InTurn
<1>8. Pending'
  BY <1>0, <1>1, <1>5 DEF Once, Pending
<1>9. Recorded'
  BY <1>0, <1>1, <1>5 DEF Once, Recorded, Outstanding
<1>10. Unanswered'
  BY <1>0, <1>1, <1>5 DEF Once, Unanswered, FlushesOf, Outstanding
<1>11. /\ pc[Master] = "setflush" => buf[Master] \in Bufs
       /\ pc[Master] \in {"read", "setflush"} => buf[Master] # w
  BY <1>1, OneHasBuf DEF Inv, Mastering
<1>12. Setting'
  BY <1>0, <1>1, <1>5, <1>11 DEF Once, Setting, SettingIn
<1>13. Fresh'
  BY <1>0, <1>1 DEF Once, Fresh
<1>14. Replying'
  <2>1. ASSUME NEW g, NEW x, ReplyingTo(g, x)
        PROVE  ReplyingTo(g, x)'
    <3>1. \A v \in Bufs : Looked(v)' => rid'[v] # want[req[g].old]
      BY <1>1, <1>5, <2>1 DEF ReplyingTo
    <3>2. pc'[Master] = "setflush" => rid'[buf'[Master]] # g
      BY <1>0, <1>1, <1>5, <1>11, <2>1 DEF ReplyingTo
    <3> QED BY <1>0, <2>1, <3>1, <3>2 DEF ReplyingTo, FlushesOf, Outstanding
  <2>2. ReplyingTo(f, u)'
    <3>1. \A x \in FlushesOf(req[f].old) : want[x] \notin answered
      BY <1>1, <1>4 DEF Once, Unanswered
    <3>2. \A v \in Bufs : Looked(v)' => rid'[v] # want[req[f].old]
      BY <1>1, <1>4, <1>5 DEF Once, Pending
    <3>3. pc'[Master] = "setflush" => rid'[buf'[Master]] # f
      <4> SUFFICES ASSUME pc[Master] = "setflush", NEW b, b = buf[Master], rid[b] = f
                   PROVE  FALSE
        BY <1>0, <1>1, <1>5, <1>11
      <4>1. SettingIn(b, rid[b], tag[b])
        BY DEF Once, Setting
      <4>2. tag[b] # u /\ tag[b] \in Tags /\ want[tag[b]] = f
        BY <1>1, <4>1 DEF SettingIn
      <4>3. Outstanding(tag[b])
        BY <1>4, <4>2, NoneIsNothing DEF Outstanding
      <4> QED BY <1>2, <1>4, <4>2, <4>3
    <3> QED BY <1>0, <1>4, <3>1, <3>2, <3>3 DEF ReplyingTo, FlushesOf, Outstanding
  <2>3. ASSUME NEW t \in Slaves, pc[t] = "rflush"
        PROVE  /\ t # s /\ ReplyingTo(rid[buf[t]], tag[buf[t]])
               /\ rid'[buf[t]] = rid[buf[t]] /\ tag'[buf[t]] = tag[buf[t]]
               /\ req[rid[buf[t]]].old # req[f].old
    <3>1. t # s /\ buf[t] \in Bufs /\ HasBuf(t, buf[t])
      BY <1>0, <2>3 DEF Inv, Slaving, HasBuf, WorkingPC
    <3>2. buf[t] # w
      BY <1>1, <3>1, OneHasBuf
    <3>3. ReplyingTo(rid[buf[t]], tag[buf[t]])
      BY <2>3 DEF Once, Replying
    <3>4. req[rid[buf[t]]].old # tag[w]
      BY <1>1, <1>4, <3>3 DEF ReplyingTo
    <3> QED BY <1>4, <1>5, <3>1, <3>2, <3>3, <3>4
  <2>4. ASSUME NEW t \in Slaves, pc'[t] = "rflush"
        PROVE  ReplyingTo(rid[buf[t]], tag[buf[t]])'
    <3>1. CASE t = s
      BY <1>0, <1>5, <2>2, <3>1
    <3>2. CASE t # s
      <4> PICK g : g = rid[buf[t]]
        OBVIOUS
      <4> PICK x : x = tag[buf[t]]
        OBVIOUS
      <4>1. ReplyingTo(g, x) /\ rid'[buf'[t]] = g /\ tag'[buf'[t]] = x
        BY <1>0, <1>1, <2>3, <2>4, <3>2
      <4>2. ReplyingTo(g, x)'
        BY <2>1, <4>1
      <4> QED BY <4>1, <4>2
    <3> QED BY <3>1, <3>2
  <2>5. \A t \in Slaves : pc'[t] = "rflush" /\ t # s =>
          /\ pc[t] = "rflush" /\ rid'[buf'[t]] = rid[buf[t]]
          /\ req[rid[buf[t]]].old # req[f].old
    BY <1>0, <1>1, <2>3
  <2>6. rid'[buf'[s]] = f
    BY <1>0, <1>5
  <2>7. ASSUME NEW p \in Slaves, NEW q \in Slaves, pc'[p] = "rflush", pc'[q] = "rflush", p # q
        PROVE  req'[rid'[buf'[p]]].old # req'[rid'[buf'[q]]].old
    BY <1>0, <2>5, <2>6, <2>7 DEF Once, Replying
  <2> QED BY <2>4, <2>7 DEF Replying
<1> QED BY <1>6, <1>7, <1>8, <1>9, <1>10, <1>12, <1>13, <1>14 DEF Once

(* The Rflush: the flush that the buffer stands for is answered.           *)
LEMMA OnceFlushed ==
  ASSUME Inv, Once, NEW s \in Slaves, SlaveFlushMe(s)
  PROVE  Once'
<1> PICK w : w = buf[s]
  OBVIOUS
<1> PICK u : u = tag[w]
  OBVIOUS
<1> PICK f : f = rid[w]
  OBVIOUS
<1> PICK old : old = req[f].old
  OBVIOUS
<1>0. /\ pc[s] = "rflush" /\ pc' = [pc EXCEPT ![s] = "giveback"] /\ Reply(u, f)
      /\ UNCHANGED <<busy, bufpid, flushtag, hit, tag, rid, buf, want, req, rendVars>>
  BY DEF SlaveFlushMe, Goto, client, work
<1>1. /\ \A v \in Bufs : /\ Looked(v)' => Looked(v)
                         /\ Early(v)' => Early(v)
                         /\ Filling(v)' => Filling(v)
      /\ pc'[Master] = pc[Master] /\ pc'[s] = "giveback"
      /\ \A t \in Slaves : t # s => pc'[t] = pc[t]
  BY <1>0, SlaveLooks DEF WorkingPC
<1>2. \A x \in 1 .. Len(req) : req[x] \in Requests
  BY DEF Once, Book
<1>3. \A v \in Bufs : Looked(v) => req[rid[v]].kind \in Slowly
  BY DEF Once, Pending
<1>4. \A t \in Tags : Outstanding(t) => want[t] \in 1 .. Len(req) /\ req[want[t]].tag = t
  BY DEF Once, Book, Outstanding
<1>5. /\ u \in Tags /\ Outstanding(u) /\ f \in 1 .. Len(req) /\ f \notin answered
      /\ want[u] = f /\ req[f].kind = "flush" /\ old # None
      /\ \A x \in FlushesOf(old) : want[x] \notin answered
      /\ \A v \in Bufs : Looked(v) => rid[v] # want[old]
      /\ pc[Master] = "setflush" => rid[buf[Master]] # f
  <2>1. ReplyingTo(f, u)
    BY <1>0 DEF Once, Replying
  <2>2. f \in 1 .. Len(req) /\ want[u] = f /\ req[f].kind = "flush"
    BY <2>1 DEF ReplyingTo
  <2>3. old # None /\ Outstanding(u)
    BY <2>2, NoneIsNothing DEF Once, Book, Outstanding
  <2> QED BY <2>1, <2>2, <2>3 DEF ReplyingTo
<1>6. answered' = answered \cup {f} /\ again' = again
  BY <1>0, <1>5 DEF Reply
<1>7. \A t \in Tags : FlushesOf(t)' = FlushesOf(t) /\ (Outstanding(t)' <=> Outstanding(t))
  BY <1>0 DEF FlushesOf, Outstanding
<1>9. Book'
  <2>1. answered' \subseteq 1 .. Len(req) /\ again' = {}
    BY <1>5, <1>6 DEF Once, Book
  <2> QED BY <1>0, <2>1 DEF Once, Book, Outstanding
<1>10. Olds'
  BY <1>0 DEF Once, Olds, Outstanding
<1>11. Pending'
  <2>1. \A v \in Bufs : Looked(v) => rid[v] # f
    BY <1>3, <1>5 DEF Slowly
  <2>2. \A v \in Bufs : Early(v) => Looked(v)
    BY DEF Early, Looked
  <2> QED BY <1>0, <1>1, <1>6, <2>1, <2>2 DEF Once, Pending
(* no buffer that a slave has yet to look at is of the request flushed *)
<1>12. ASSUME NEW v \in Bufs, Looked(v), want[tag[v]] = rid[v]
       PROVE  tag[v] # old
  BY <1>5, <1>12
<1>13. Recorded'
  <2> SUFFICES ASSUME NEW v \in Bufs, Looked(v), flushtag[v] # NOTAG
               PROVE  /\ Outstanding(flushtag[v]) /\ want[flushtag[v]] \notin answered'
                      /\ req[want[flushtag[v]]].old = tag[v] /\ want[tag[v]] = rid[v]
    BY <1>0, <1>1 DEF Recorded, Outstanding
  <2>1. /\ Outstanding(flushtag[v]) /\ want[flushtag[v]] \notin answered
        /\ req[want[flushtag[v]]].old = tag[v] /\ want[tag[v]] = rid[v]
    BY DEF Once, Recorded
  <2>2. want[flushtag[v]] # f
    BY <1>12, <2>1
  <2> QED BY <1>6, <2>1, <2>2
<1>14. Unanswered'
  <2> SUFFICES ASSUME NEW v \in Bufs, Looked(v), want[tag[v]] = rid[v],
                      NEW x \in Tags, Outstanding(x), req[want[x]].old = tag[v]
               PROVE  want[x] \notin answered'
    BY <1>0, <1>1 DEF Unanswered, FlushesOf, Outstanding
  <2>1. want[x] \notin answered
    BY DEF Once, Unanswered, FlushesOf
  <2>2. want[x] # f
    BY <1>12
  <2> QED BY <1>6, <2>1, <2>2
<1>15. Setting'
  BY <1>0, <1>1, <1>5, <1>6 DEF Once, Setting, SettingIn
<1>16. Fresh'
  BY <1>0, <1>1 DEF Once, Fresh
<1>17. Returning'
  <2>1. ASSUME NEW i \in 1 .. Len(back), NEW x, x = back[i]
        PROVE  InTurn(x, [tag |-> u, id |-> f])
    <3>1. x.id \in answered /\ want[x.tag] = x.id /\ x.tag \in Tags /\ x.id \in 1 .. Len(req)
      BY <2>1, BackIs
    <3>2. Outstanding(x.tag)
      BY <2>1, BackIs
    <3>3. req[x.id].old # old
      BY <1>5, <3>1, <3>2 DEF FlushesOf
    <3>4. req[x.id].old # u
      <4> SUFFICES ASSUME req[x.id].old = u
                   PROVE  FALSE
        OBVIOUS
      <4>1. req[x.id].kind = "flush"
        BY <1>5, <3>1, NoneIsNothing DEF Once, Book
      <4>2. req[want[u]].kind \in Slowly
        BY <3>1, <3>2, <4>1 DEF Once, Olds
      <4> QED BY <1>5, <4>2 DEF Slowly
    <3> QED BY <1>5, <3>1, <3>3, <3>4 DEF InTurn
  <2>2. \A i \in 1 .. Len(back) : \A x : x = back[i] => InTurn(x, [tag |-> u, id |-> f])'
    BY <1>0, <2>1 DEF InTurn
  <2>3. \A i \in 1 .. Len(back) : want'[back[i].tag] = back[i].id
    BY <1>0 DEF Once, Returning
  <2>4. Book /\ Returning /\ Len(req) \in Nat
    BY DEF Once, Book
  <2>5. f \in 1 .. Len(req') /\ want'[u] = f /\ u \in Tags /\ Reply(u, f) /\ Len(req') = Len(req)
        /\ \A x \in 1 .. Len(req) : req'[x] = req[x]
    BY <1>0, <1>5
  <2> QED BY <2>2, <2>3, <2>4, <2>5, ReplyReturns
<1>18. Replying'
  <2>1. ASSUME NEW g, NEW x, ReplyingTo(g, x), req[g].old # old
        PROVE  ReplyingTo(g, x)'
    <3>1. g \notin answered' /\ \A y \in FlushesOf(req[g].old) : want[y] \notin answered'
      BY <1>6, <2>1 DEF ReplyingTo, FlushesOf
    <3> QED BY <1>0, <1>1, <2>1, <3>1 DEF ReplyingTo, FlushesOf, Outstanding
  <2>2. \A t \in Slaves : pc'[t] = "rflush" => t # s /\ pc[t] = "rflush" /\ req[rid[buf[t]]].old # old
    BY <1>0, <1>1 DEF Once, Replying
  <2>3. ASSUME NEW t \in Slaves, pc'[t] = "rflush"
        PROVE  ReplyingTo(rid[buf[t]], tag[buf[t]])'
    <3> PICK g : g = rid[buf[t]]
      OBVIOUS
    <3> PICK x : x = tag[buf[t]]
      OBVIOUS
    <3>1. ReplyingTo(g, x) /\ req[g].old # old
      BY <2>2, <2>3 DEF Once, Replying
    <3>2. ReplyingTo(g, x)' /\ rid'[buf'[t]] = g /\ tag'[buf'[t]] = x
      BY <1>0, <2>1, <3>1
    <3> QED BY <3>2
  <2> QED BY <1>0, <2>2, <2>3 DEF Once, Replying
<1> QED BY <1>9, <1>10, <1>11, <1>13, <1>14, <1>15, <1>16, <1>17, <1>18 DEF Once

(* The slave's buffer is free again.                                       *)
LEMMA OnceGivenBack ==
  ASSUME Inv, Once, NEW s \in Slaves, SlaveGiveBack(s)
  PROVE  Once'
<1> DEFINE w == buf[s]
<1>0. /\ pc[s] = "giveback" /\ pc' = [pc EXCEPT ![s] = "rest"]
      /\ tag' = [tag EXCEPT ![w] = NOTAG] /\ rid' = [rid EXCEPT ![w] = 0]
      /\ buf' = [buf EXCEPT ![s] = None]
      /\ UNCHANGED <<bufpid, flushtag, hit, want, req, back, answered, again, rendVars>>
  BY DEF SlaveGiveBack, Goto, client, replies
<1>1. w \in Bufs /\ HasBuf(s, w)
  BY <1>0 DEF Inv, Slaving, HasBuf, WorkingPC
<1>2. /\ pc'[Master] = pc[Master] /\ buf'[Master] = buf[Master] /\ pc'[s] = "rest"
      /\ \A t \in Slaves : t # s => pc'[t] = pc[t] /\ buf'[t] = buf[t]
  BY <1>0, Everybody DEF Inv, Shape
<1>3. \A p \in Procs : Met(p)' <=> Met(p)
  BY <1>0, RendStays
<1>4. UNCHANGED rendval
  BY <1>0 DEF rendVars
<1>5. \A t \in Slaves, v \in Bufs : HasBuf(t, v)' => HasBuf(t, v) /\ t # s
  BY <1>2, <1>3, <1>4, Everybody DEF HasBuf, WorkingPC
<1>6. \A v \in Bufs : Filling(v)' <=> Filling(v)
  BY <1>2, <1>3, Everybody DEF Filling
<1>7. ~ Filling(w) /\ (\A t \in Slaves : HasBuf(t, w) => t = s)
      /\ (pc[Master] = "setflush" => buf[Master] # w)
  BY <1>1, OneHasBuf
<1>8. \A v \in Bufs : /\ Looked(v)' => Looked(v) /\ v # w
                      /\ Early(v)' => Early(v) /\ v # w
  BY <1>2, <1>5, <1>6, <1>7 DEF Looked, Early
<1>9. tag'[w] = NOTAG /\ rid'[w] = 0
      /\ \A v \in Bufs : v # w => tag'[v] = tag[v] /\ rid'[v] = rid[v]
  BY <1>0, <1>1 DEF Once, Book
<1>10. Book'
  <2>1. tag' \in [Bufs -> Tags \cup {NOTAG}] /\ rid' \in [Bufs -> 0 .. Len(req)]
    BY <1>0, <1>1 DEF Once, Book
  <2> QED BY <1>0, <2>1 DEF Once, Book, Outstanding
<1>11. Olds' /\ Returning'
  BY <1>0 DEF Once, Olds, Outstanding, Returning, InTurn
<1>12. Pending' /\ Recorded'
  BY <1>0, <1>8, <1>9 DEF Once, Pending, Recorded, Outstanding
<1>13. Unanswered'
  BY <1>0, <1>8, <1>9 DEF Once, Unanswered, FlushesOf, Outstanding
<1>14. Setting'
  <2>1. pc[Master] = "setflush" => buf[Master] \in Bufs
    BY DEF Inv, Mastering
  <2> QED BY <1>0, <1>2, <1>7, <1>8, <1>9, <2>1 DEF Once, Setting, SettingIn
<1>15. Fresh'
  BY <1>0, <1>2, <1>6 DEF Once, Fresh
<1>16. Replying'
  <2>1. ASSUME NEW f, NEW u, ReplyingTo(f, u)
        PROVE  ReplyingTo(f, u)'
    <3>1. pc[Master] = "setflush" => buf[Master] \in Bufs
      BY DEF Inv, Mastering
    <3>2. pc'[Master] = "setflush" => rid'[buf'[Master]] # f
      BY <1>2, <1>7, <1>9, <2>1, <3>1 DEF ReplyingTo
    <3>3. \A v \in Bufs : Looked(v)' => rid'[v] # want[req[f].old]
      BY <1>8, <1>9, <2>1 DEF ReplyingTo
    <3> QED BY <1>0, <2>1, <3>2, <3>3 DEF ReplyingTo, FlushesOf, Outstanding
  <2>2. \A t \in Slaves : pc'[t] = "rflush" =>
          /\ pc[t] = "rflush" /\ buf'[t] = buf[t]
          /\ rid'[buf[t]] = rid[buf[t]] /\ tag'[buf[t]] = tag[buf[t]]
    <3> SUFFICES ASSUME NEW t \in Slaves, pc'[t] = "rflush"
                 PROVE  /\ pc[t] = "rflush" /\ buf'[t] = buf[t]
                        /\ rid'[buf[t]] = rid[buf[t]] /\ tag'[buf[t]] = tag[buf[t]]
      OBVIOUS
    <3>1. t # s /\ pc[t] = "rflush" /\ buf'[t] = buf[t]
      BY <1>2
    <3>2. buf[t] \in Bufs /\ HasBuf(t, buf[t])
      BY <3>1 DEF Inv, Slaving, HasBuf, WorkingPC
    <3> QED BY <1>7, <1>9, <3>1, <3>2
  <2> QED BY <1>0, <2>1, <2>2 DEF Once, Replying
<1> QED BY <1>10, <1>11, <1>12, <1>13, <1>14, <1>15, <1>16 DEF Once

(* The master goes on, and no slave changes.                               *)
LEMMA MasterLooks ==
  ASSUME Inv, pc[Master] \notin {"greet", "hand"}, NEW to \in MasterPC, pc' = [pc EXCEPT ![Master] = to],
         to \notin {"greet", "hand"},
         \A s \in Slaves : buf'[s] = buf[s], UNCHANGED rendVars
  PROVE  /\ pc'[Master] = to
         /\ \A s \in Slaves : pc'[s] = pc[s]
         /\ \A w \in Bufs : /\ Filling(w)' <=> to = "slave" /\ buf'[Master] = w
                            /\ Looked(w)' => Looked(w) \/ Filling(w)'
                            /\ Early(w)' => Early(w) \/ Filling(w)'
<1>1. \A p \in Procs : Met(p)' <=> Met(p)
  BY RendStays
<1>2. UNCHANGED rendval
  BY DEF rendVars
<1>3. pc'[Master] = to /\ \A s \in Slaves : pc'[s] = pc[s]
  BY Everybody DEF Inv, Shape
<1>4. \A t \in Slaves, w \in Bufs : HasBuf(t, w)' <=> HasBuf(t, w)
  BY <1>1, <1>2, <1>3, Everybody DEF HasBuf
<1>5. \A w \in Bufs : Filling(w)' <=> to = "slave" /\ buf'[Master] = w
  BY <1>3 DEF Filling
<1> QED BY <1>3, <1>4, <1>5 DEF Looked, Early

(* getsbuf: nobody looks at a free buffer                                  *)
LEMMA OnceSearched ==
  ASSUME Inv, Once, SearchFound
  PROVE  Once'
<1>1. PICK w \in FreeBufs : /\ bufpid' = [bufpid EXCEPT ![w] = None]
                            /\ flushtag' = [flushtag EXCEPT ![w] = NOTAG]
                            /\ busy' = [busy EXCEPT ![w] = TRUE]
                            /\ buf' = [buf EXCEPT ![Master] = w]
  BY DEF SearchFound
<1>2. /\ pc[Master] = "search" /\ pc' = [pc EXCEPT ![Master] = "read"]
      /\ UNCHANGED <<hit, tag, rid, want, req, back, answered, again, rendVars>>
  BY DEF SearchFound, Goto, client, replies
<1>3. w \in Bufs /\ \A s \in Slaves : ~ HasBuf(s, w)
  BY DEF FreeBufs, Inv, Slaving
<1>4. buf'[Master] = w /\ \A s \in Slaves : buf'[s] = buf[s]
  BY <1>1, Everybody DEF Inv, Shape
<1>5. /\ pc'[Master] = "read" /\ \A s \in Slaves : pc'[s] = pc[s]
      /\ \A v \in Bufs : /\ ~ Filling(v)'
                         /\ Looked(v)' => Looked(v)
                         /\ Early(v)' => Early(v)
  BY <1>2, <1>4, MasterLooks DEF MasterPC
<1>6. ~ Filling(w) /\ ~ Looked(w)
  BY <1>2, <1>3 DEF Filling, Looked
<1>7. flushtag'[w] = NOTAG /\ bufpid'[w] = None /\ \A v \in Bufs : v # w => flushtag'[v] = flushtag[v]
  BY <1>1, <1>3 DEF Once, Book, Inv, Shape
<1>8. \A s \in Slaves : pc[s] = "flushme" => buf[s] \in Bufs /\ buf[s] # w
  BY <1>3 DEF Inv, Slaving, HasBuf, WorkingPC
<1>9. flushtag' \in [Bufs -> Tags \cup {NOTAG}]
  BY <1>1, <1>3 DEF Once, Book
<1>10. Book' /\ Olds' /\ Returning'
  BY <1>2, <1>9 DEF Once, Book, Olds, Returning, Outstanding, InTurn
<1>11. Pending' /\ Recorded'
  BY <1>2, <1>5, <1>6, <1>7 DEF Once, Pending, Recorded, Outstanding
<1>12. Unanswered'
  BY <1>2, <1>5 DEF Once, Unanswered, FlushesOf, Outstanding
<1>13. Setting'
  BY <1>5 DEF Setting
<1>14. Fresh'
  BY <1>4, <1>5, <1>7, <1>8 DEF Once, Fresh
<1>15. Replying'
  <2>1. ASSUME NEW f, NEW u, ReplyingTo(f, u)
        PROVE  ReplyingTo(f, u)'
    BY <1>2, <1>5, <2>1 DEF ReplyingTo, FlushesOf, Outstanding
  <2> QED BY <1>2, <1>4, <1>5, <2>1 DEF Once, Replying
<1> QED BY <1>10, <1>11, <1>12, <1>13, <1>14, <1>15 DEF Once

(* The flush is recorded where Xflush found its request, or where nobody   *)
(* looks.                                                                  *)
LEMMA OnceSet ==
  ASSUME Inv, Once, FlushSet
  PROVE  Once'
<1> PICK b : b = buf[Master]
  OBVIOUS
<1> PICK u : u = tag[b]
  OBVIOUS
<1> PICK f : f = rid[b]
  OBVIOUS
<1> PICK h : h = hit
  OBVIOUS
<1>1. /\ pc[Master] = "setflush" /\ pc' = [pc EXCEPT ![Master] = "search"]
      /\ flushtag' = [flushtag EXCEPT ![h] = u]
      /\ buf' = [buf EXCEPT ![Master] = None]
      /\ UNCHANGED <<tag, rid, want, req, back, answered, again, rendVars>>
  BY DEF FlushSet, Done, Goto, client, replies
<1>2. \A s \in Slaves : buf'[s] = buf[s]
  BY <1>1, Everybody DEF Inv, Shape
<1>3. /\ pc'[Master] = "search" /\ \A s \in Slaves : pc'[s] = pc[s]
      /\ \A v \in Bufs : /\ ~ Filling(v)'
                         /\ Looked(v)' => Looked(v)
                         /\ Early(v)' => Early(v)
  BY <1>1, <1>2, MasterLooks DEF MasterPC
<1>4. /\ f = Len(req) /\ f # 0 /\ f \notin answered
      /\ u \in Tags /\ want[u] = f /\ req[f].kind = "flush"
      /\ h \in Bufs
      /\ Looked(h) => rid[h] = want[req[f].old]
  BY <1>1 DEF Once, Setting, SettingIn
<1>5. f \in 1 .. Len(req) /\ Outstanding(u)
  <2>1. req \in Seq(Requests)
    BY DEF Once, Book
  <2>2. f \in 1 .. Len(req)
    BY <1>4, <2>1
  <2> QED BY <1>4, <2>2, NoneIsNothing DEF Outstanding
<1>6. Looked(h) => req[f].old = tag[h] /\ want[tag[h]] = rid[h]
  <2> SUFFICES ASSUME Looked(h)
               PROVE  req[f].old = tag[h] /\ want[tag[h]] = rid[h]
    OBVIOUS
  <2>1. Outstanding(req[f].old)
    BY <1>4, <1>5 DEF Once, Olds
  <2>2. req[f].old \in Tags
    <3>1. req[f] \in Requests /\ req[f].old # None
      BY <1>4, <1>5 DEF Once, Book
    <3> QED BY <3>1 DEF Requests
  <2>3. req[want[req[f].old]].tag = req[f].old
    BY <2>1, <2>2 DEF Once, Book
  <2> QED BY <1>4, <2>3 DEF Once, Pending
<1>7. flushtag'[h] = u /\ \A v \in Bufs : v # h => flushtag'[v] = flushtag[v]
  BY <1>1, <1>4 DEF Once, Book
<1>8. u # NOTAG
  BY <1>4, Values
<1>9. Book' /\ Olds' /\ Returning'
  <2>1. flushtag' \in [Bufs -> Tags \cup {NOTAG}]
    BY <1>1, <1>4 DEF Once, Book
  <2> QED BY <1>1, <2>1 DEF Once, Book, Olds, Returning, Outstanding, InTurn
<1>10. Pending'
  BY <1>1, <1>3 DEF Once, Pending
<1>11. Recorded'
  <2> SUFFICES ASSUME NEW v \in Bufs, Looked(v), flushtag'[v] # NOTAG
               PROVE  /\ Outstanding(flushtag'[v]) /\ want[flushtag'[v]] \notin answered
                      /\ req[want[flushtag'[v]]].old = tag[v] /\ want[tag[v]] = rid[v]
    BY <1>1, <1>3 DEF Recorded, Outstanding
  <2>1. CASE v = h
    BY <1>4, <1>5, <1>6, <1>7, <2>1
  <2>2. CASE v # h
    BY <1>7, <2>2 DEF Once, Recorded
  <2> QED BY <2>1, <2>2
<1>12. Unanswered'
  BY <1>1, <1>3 DEF Once, Unanswered, FlushesOf, Outstanding
<1>13. Setting'
  BY <1>3 DEF Setting
<1>14. Fresh'
  <2>1. \A s \in Slaves : pc[s] = "flushme" => buf[s] \in Bufs
    BY DEF Inv, Slaving, HasBuf, WorkingPC
  <2> QED BY <1>2, <1>3, <1>7, <1>8, <2>1 DEF Once, Fresh
<1>15. Replying'
  <2>1. ASSUME NEW g, NEW x, ReplyingTo(g, x)
        PROVE  ReplyingTo(g, x)'
    BY <1>1, <1>3, <2>1 DEF ReplyingTo, FlushesOf, Outstanding
  <2> QED BY <1>1, <1>2, <1>3, <2>1 DEF Once, Replying
<1> QED BY <1>9, <1>10, <1>11, <1>12, <1>13, <1>14, <1>15 DEF Once

(* what the master may be asked                                            *)
Asks(r) ==
  /\ r \in Requests
  /\ r.kind = "flush" <=> r.old # None
  /\ r.old # None => r.old # r.tag /\ Outstanding(r.old) /\ req[want[r.old]].kind \in Slowly

(* what is new, and what is not, once request n is read into buffer b      *)
Reads(r, n, b) ==
  /\ n = Len(req) + 1 /\ n \in Nat /\ Len(req) \in Nat /\ n \notin answered
  /\ b = buf[Master] /\ b \in Bufs
  /\ r.tag \in Tags /\ ~ Outstanding(r.tag)
  /\ bufpid[b] = None /\ flushtag[b] = NOTAG
  /\ \A v \in Bufs : ~ Filling(v) /\ (Early(v) => Looked(v))
  /\ \A s \in Slaves : ~ HasBuf(s, b)

Adds(r, n, b) ==
  /\ req' \in Seq(Requests) /\ Len(req') = n /\ req'[n] = r
  /\ \A x \in 1 .. Len(req) : req'[x] = req[x]
  /\ want'[r.tag] = n
  /\ \A u \in Tags : u # r.tag => want'[u] = want[u] /\ (Outstanding(u)' <=> Outstanding(u))
  /\ Outstanding(r.tag)'
  /\ \A u, v \in Tags : v # r.tag => (u \in FlushesOf(v)' <=> u \in FlushesOf(v) \/ (u = r.tag /\ r.old = v))
  /\ FlushesOf(r.tag)' = {}
  /\ tag'[b] = r.tag /\ rid'[b] = n
  /\ \A v \in Bufs : v # b => tag'[v] = tag[v] /\ rid'[v] = rid[v]

(* Receive does that.                                                      *)
LEMMA Received ==
  ASSUME Inv, Once, NEW what, NEW r, Receive(what, r), Asks(r),
         NEW n, n = Len(req) + 1, NEW b, b = buf[Master]
  PROVE  Reads(r, n, b) /\ Adds(r, n, b)
<1>1. /\ pc[Master] = "read" /\ req' = Append(req, r)
      /\ want' = [want EXCEPT ![r.tag] = n]
      /\ tag' = [tag EXCEPT ![b] = r.tag] /\ rid' = [rid EXCEPT ![b] = n]
      /\ r.tag \in Tags /\ ~ Outstanding(r.tag)
  BY DEF Receive, FreeTags
<1>2. req \in Seq(Requests) /\ Len(req) \in Nat /\ n \in Nat /\ n \notin 1 .. Len(req)
      /\ n \notin answered
  BY DEF Once, Book
<1>3. /\ req' \in Seq(Requests) /\ Len(req') = n /\ req'[n] = r
      /\ \A x \in 1 .. Len(req) : req'[x] = req[x]
  BY <1>1, <1>2 DEF Asks
<1>4. b \in Bufs /\ (\A s \in Slaves : ~ HasBuf(s, b)) /\ bufpid[b] = None /\ flushtag[b] = NOTAG
  BY <1>1 DEF Inv, Mastering, Once, Fresh
<1>5. Reads(r, n, b)
  BY <1>1, <1>2, <1>4 DEF Reads, Filling, Early, Looked
<1>6. want'[r.tag] = n /\ \A u \in Tags : u # r.tag => want'[u] = want[u]
  BY <1>1 DEF Once, Book
<1>7. n # None
  BY <1>2, NoneIsNothing
<1>8. /\ Outstanding(r.tag)'
      /\ \A u \in Tags : u # r.tag => (Outstanding(u)' <=> Outstanding(u))
  BY <1>6, <1>7 DEF Outstanding
<1>9. \A u \in Tags : Outstanding(u) => want[u] \in 1 .. Len(req) /\ u # r.tag
  BY <1>1 DEF Once, Book, Outstanding
<1>10. \A v \in Tags : \A u \in Tags : (u \in FlushesOf(v)' <=> u \in FlushesOf(v) \/ (u = r.tag /\ r.old = v))
  <2> SUFFICES ASSUME NEW v \in Tags, NEW u \in Tags
               PROVE  (u \in FlushesOf(v)' <=> u \in FlushesOf(v) \/ (u = r.tag /\ r.old = v))
    OBVIOUS
  <2>1. CASE u = r.tag
    <3>1. u \in FlushesOf(v)' <=> req'[want'[u]].old = v
      BY <1>8, <2>1 DEF FlushesOf
    <3>2. u \notin FlushesOf(v)
      BY <1>1, <2>1 DEF FlushesOf
    <3> QED BY <1>3, <1>6, <2>1, <3>1, <3>2
  <2>2. CASE u # r.tag
    BY <1>3, <1>6, <1>8, <1>9, <2>2 DEF FlushesOf
  <2> QED BY <2>1, <2>2
<1>11. FlushesOf(r.tag) = {}
  <2> SUFFICES ASSUME NEW u \in Tags, Outstanding(u), req[want[u]].old = r.tag
               PROVE  FALSE
    BY DEF FlushesOf
  <2>1. req[want[u]].kind = "flush"
    BY <1>1, <1>9, NoneIsNothing DEF Once, Book
  <2>2. Outstanding(r.tag)
    BY <2>1 DEF Once, Olds
  <2> QED BY <1>1, <2>2
<1>12. r.old # r.tag
  BY <1>1, NoneIsNothing DEF Asks
<1>13. FlushesOf(r.tag)' = {}
  <2>1. \A u \in FlushesOf(r.tag)' : u \in Tags
    BY DEF FlushesOf
  <2> QED BY <1>1, <1>10, <1>11, <1>12, <2>1
<1>14. tag'[b] = r.tag /\ rid'[b] = n
       /\ \A v \in Bufs : v # b => tag'[v] = tag[v] /\ rid'[v] = rid[v]
  BY <1>1, <1>4 DEF Once, Book
<1>15. \A u, v \in Tags : v # r.tag => (u \in FlushesOf(v)' <=> u \in FlushesOf(v) \/ (u = r.tag /\ r.old = v))
  BY <1>10
<1>16. \A u \in Tags : u # r.tag => want'[u] = want[u] /\ (Outstanding(u)' <=> Outstanding(u))
  BY <1>6, <1>8
<1>17. Adds(r, n, b)
  BY <1>3, <1>6, <1>8, <1>13, <1>14, <1>15, <1>16 DEF Adds
<1> QED BY <1>5, <1>17

(* The new request disturbs none before it; it is answered at once only if *)
(* it is no flush of one that a slave has.                                 *)
LEMMA OnceReceived ==
  ASSUME Inv, Once, NEW r, Asks(r), NEW n, NEW b, Reads(r, n, b), Adds(r, n, b),
         UNCHANGED flushtag,
         tag' \in [Bufs -> Tags \cup {NOTAG}], rid' \in [Bufs -> 0 .. n],
         want' \in [Tags -> 1 .. n \cup {None}],
         again' = again,
         \/ answered' = answered
         \/ answered' = answered \cup {n} /\ \A v \in Bufs : Looked(v) => tag[v] # r.old,
         \A v \in Bufs : /\ Looked(v)' => Looked(v) \/ Filling(v)'
                         /\ Early(v)' => Early(v) \/ Filling(v)'
                         /\ Filling(v)' => v = b /\ r.kind \in Slowly /\ answered' = answered
  PROVE  Book' /\ Olds' /\ Pending' /\ Recorded' /\ Unanswered'
<1>1. \A x \in 1 .. Len(req) : x # n /\ req'[x] = req[x] /\ (x \in answered' <=> x \in answered)
  BY DEF Reads, Adds
<1>2. \A u \in Tags : Outstanding(u) => want[u] \in 1 .. Len(req) /\ req[want[u]].tag = u /\ u # r.tag
  BY DEF Once, Book, Outstanding, Reads
<1>3. ASSUME NEW v \in Bufs, Looked(v)
      PROVE  /\ v # b /\ rid[v] \in 1 .. Len(req) /\ tag[v] \in Tags /\ tag[v] # None
             /\ tag[v] = req[rid[v]].tag /\ req[rid[v]].kind \in Slowly
             /\ rid'[v] = rid[v] /\ tag'[v] = tag[v]
  <2>1. v # b
    BY <1>3 DEF Looked, Reads
  <2>2. rid[v] \in 1 .. Len(req) /\ tag[v] = req[rid[v]].tag /\ req[rid[v]].kind \in Slowly
    BY <1>3 DEF Once, Pending
  <2>3. req[rid[v]] \in Requests
    BY <2>2 DEF Once, Book
  <2> QED BY <2>1, <2>2, <2>3, NoneIsNothing DEF Requests, Adds
(* the tag that a live request has is not the new one *)
<1>4. ASSUME NEW v \in Bufs, Looked(v)
      PROVE  /\ want[tag[v]] = rid[v] => tag[v] # r.tag /\ want'[tag[v]] = rid[v]
             /\ want'[tag[v]] = rid[v] => tag[v] # r.tag /\ want[tag[v]] = rid[v]
  <2>1. rid[v] # None /\ rid[v] # n
    BY <1>1, <1>3, <1>4, NoneIsNothing
  <2>2. want[r.tag] = None
    BY DEF Reads, Outstanding
  <2> QED BY <1>3, <1>4, <2>1, <2>2 DEF Adds
<1>5. r \in Requests /\ r.tag \in Tags /\ r.tag # None /\ (r.kind = "flush" <=> r.old # None)
  BY NoneIsNothing DEF Asks, Reads
<1>6. ASSUME NEW u \in Tags, Outstanding(u)
      PROVE  /\ u # r.tag /\ Outstanding(u)' /\ want'[u] = want[u] /\ want[u] \in 1 .. Len(req)
             /\ req'[want[u]] = req[want[u]] /\ req[want[u]].tag = u
             /\ want[u] \in answered' <=> want[u] \in answered
  BY <1>1, <1>2, <1>6 DEF Adds
<1>7. Book'
  <2>1. \A x \in 1 .. Len(req') : req'[x].kind = "flush" <=> req'[x].old # None
    <3> SUFFICES ASSUME NEW x \in 1 .. Len(req')
                 PROVE  req'[x].kind = "flush" <=> req'[x].old # None
      OBVIOUS
    <3>1. x \in 1 .. Len(req) \/ x = n
      BY DEF Reads, Adds
    <3>2. CASE x = n
      BY <1>5, <3>2 DEF Adds
    <3>3. CASE x \in 1 .. Len(req)
      BY <1>1, <3>3 DEF Once, Book
    <3> QED BY <3>1, <3>2, <3>3
  <2>2. \A t \in Tags : Outstanding(t)' => req'[want'[t]].tag = t
    BY <1>6 DEF Adds
  <2>3. answered' \subseteq 1 .. Len(req') /\ again' = {}
    <3>1. answered \subseteq 1 .. Len(req) /\ again = {}
      BY DEF Once, Book
    <3>2. n = Len(req) + 1 /\ Len(req) \in Nat /\ Len(req') = n
      BY DEF Reads, Adds
    <3> QED BY <3>1, <3>2
  <2>5. Len(req') = n /\ req' \in Seq(Requests)
    BY DEF Adds
  <2>6. flushtag' \in [Bufs -> Tags \cup {NOTAG}]
    BY DEF Once, Book
  <2> QED BY <2>1, <2>2, <2>3, <2>5, <2>6 DEF Book
<1>8. Olds'
  <2> SUFFICES ASSUME NEW u \in Tags, Outstanding(u)', req'[want'[u]].kind = "flush",
                      NEW o, o = req'[want'[u]].old
               PROVE  Outstanding(o)' /\ req'[want'[o]].kind \in Slowly
    BY DEF Olds
  <2>1. \E x \in 1 .. Len(req') : req'[x].old = o /\ req'[x].kind = "flush" /\ x = want'[u]
    BY <1>6, <1>7 DEF Adds, Reads, Book
  <2>2. o \in Tags
    <3>1. PICK x \in 1 .. Len(req') : req'[x].old = o /\ req'[x].kind = "flush"
      BY <2>1
    <3>2. req'[x] \in Requests /\ o # None
      BY <1>7, <3>1 DEF Book
    <3> QED BY <3>1, <3>2 DEF Requests
  <2>3. Outstanding(o) /\ req[want[o]].kind \in Slowly
    <3>1. CASE u = r.tag
      BY <2>2, <3>1, NoneIsNothing DEF Adds, Asks
    <3>2. CASE u # r.tag
      <4>1. Outstanding(u)
        BY <3>2 DEF Adds
      <4> QED BY <1>6, <4>1 DEF Once, Olds
    <3> QED BY <3>1, <3>2
  <2> QED BY <1>6, <2>2, <2>3
<1>9. Pending'
  <2> SUFFICES ASSUME NEW v \in Bufs
               PROVE  /\ Early(v)' => rid'[v] \notin answered' /\ want'[tag'[v]] = rid'[v]
                      /\ Looked(v)' => /\ rid'[v] \in 1 .. Len(req') /\ tag'[v] = req'[rid'[v]].tag
                                       /\ req'[rid'[v]].kind \in Slowly
    <3>1. ASSUME NEW v \in Bufs, NEW w \in Bufs, Looked(v)', Looked(w)', rid'[v] = rid'[w]
          PROVE  v = w
      <4>1. \A x \in Bufs : Looked(x) => rid'[x] = rid[x] /\ rid[x] # n
        BY <1>1, <1>3
      <4>2. \A x \in Bufs : Filling(x)' => x = b
        OBVIOUS
      <4>3. rid'[b] = n
        BY DEF Adds
      <4> QED BY <3>1, <4>1, <4>2, <4>3 DEF Once, Pending
    <3> QED BY <3>1 DEF Pending
  <2>1. ASSUME Looked(v)
        PROVE  /\ Early(v) => rid'[v] \notin answered' /\ want'[tag'[v]] = rid'[v]
               /\ rid'[v] \in 1 .. Len(req') /\ tag'[v] = req'[rid'[v]].tag
               /\ req'[rid'[v]].kind \in Slowly
    <3>1. Early(v) => rid[v] \notin answered /\ want[tag[v]] = rid[v]
      BY DEF Once, Pending
    <3>2. rid[v] \in 1 .. Len(req')
      BY <1>3, <2>1 DEF Reads, Adds
    <3> QED BY <1>1, <1>3, <1>4, <2>1, <3>1, <3>2
  <2>2. ASSUME Filling(v)'
        PROVE  /\ rid'[v] \notin answered' /\ want'[tag'[v]] = rid'[v]
               /\ rid'[v] \in 1 .. Len(req') /\ tag'[v] = req'[rid'[v]].tag
               /\ req'[rid'[v]].kind \in Slowly
    BY <2>2 DEF Reads, Adds
  <2>3. Early(v) => Looked(v)
    BY DEF Reads
  <2> QED BY <2>1, <2>2, <2>3
<1>10. Recorded'
  <2> SUFFICES ASSUME NEW v \in Bufs, Looked(v)', flushtag[v] # NOTAG
               PROVE  /\ Outstanding(flushtag[v])' /\ want'[flushtag[v]] \notin answered'
                      /\ req'[want'[flushtag[v]]].old = tag'[v] /\ want'[tag'[v]] = rid'[v]
    BY DEF Recorded, Outstanding
  <2>1. Looked(v)
    BY DEF Reads
  <2>2. flushtag[v] \in Tags
    BY DEF Once, Book
  <2>3. /\ Outstanding(flushtag[v]) /\ want[flushtag[v]] \notin answered
        /\ req[want[flushtag[v]]].old = tag[v] /\ want[tag[v]] = rid[v]
    BY <2>1 DEF Once, Recorded
  <2> QED BY <1>3, <1>4, <1>6, <2>1, <2>2, <2>3
<1>11. Unanswered'
  <2> SUFFICES ASSUME NEW v \in Bufs, Looked(v)', NEW a, a = tag'[v], want'[a] = rid'[v],
                      NEW u \in FlushesOf(a)'
               PROVE  want'[u] \notin answered'
    BY DEF Unanswered, FlushesOf, Outstanding
  <2>0. u \in Tags
    BY DEF FlushesOf
  <2>1. CASE Filling(v)'
    <3>1. a = r.tag
      BY <2>1 DEF Adds
    <3> QED BY <3>1 DEF Adds
  <2>2. CASE Looked(v)
    <3>1. a # r.tag /\ want[a] = rid[v] /\ a = tag[v] /\ a \in Tags
      BY <1>3, <1>4, <2>2
    <3>2. u \in FlushesOf(a) \/ (u = r.tag /\ r.old = a)
      BY <2>0, <3>1 DEF Adds
    <3>3. CASE u \in FlushesOf(a)
      <4>1. Outstanding(u) /\ want[u] \notin answered
        BY <2>2, <3>1, <3>3 DEF Once, Unanswered, FlushesOf
      <4> QED BY <1>6, <2>0, <4>1
    <3>4. CASE u = r.tag /\ r.old = a
      BY <2>2, <3>1, <3>4 DEF Reads, Adds
    <3> QED BY <3>2, <3>3, <3>4
  <2> QED BY <2>1, <2>2
<1> QED BY <1>7, <1>8, <1>9, <1>10, <1>11

(* Nor does it disturb a reply to a flush, of another request.             *)
LEMMA ReplyingReceived ==
  ASSUME Inv, Once, NEW r, Asks(r), NEW n, NEW b, Reads(r, n, b), Adds(r, n, b),
         answered' \subseteq answered \cup {n},
         \A v \in Bufs : /\ Looked(v)' => Looked(v) \/ Filling(v)'
                         /\ Filling(v)' => v = b,
         \A s \in Slaves : pc'[s] = pc[s] /\ buf'[s] = buf[s],
         pc'[Master] = "setflush" => buf'[Master] = b,
         \A s \in Slaves : pc[s] = "rflush" => req[rid[buf[s]]].old # r.old
  PROVE  Replying'
<1>1. \A s \in Slaves : pc[s] = "rflush" => buf[s] \in Bufs /\ buf[s] # b
  BY DEF Inv, Slaving, HasBuf, WorkingPC, Reads
<1>2. \A s \in Slaves : pc[s] = "rflush" =>
        rid'[buf[s]] = rid[buf[s]] /\ tag'[buf[s]] = tag[buf[s]]
  BY <1>1 DEF Adds
<1>3. \A x \in 1 .. Len(req) : x # n /\ req'[x] = req[x] /\ (x \notin answered => x \notin answered')
  BY DEF Reads, Adds
<1>4. \A u \in Tags : Outstanding(u) =>
        /\ want[u] \in 1 .. Len(req) /\ u # r.tag /\ want'[u] = want[u]
        /\ req[want[u]].kind = "flush" => Outstanding(req[want[u]].old)
  BY DEF Once, Book, Olds, Outstanding, Reads, Adds
<1>5. ASSUME NEW f, NEW u, ReplyingTo(f, u), req[f].old # r.old
      PROVE  ReplyingTo(f, u)' /\ req'[f] = req[f]
  <2> PICK o : o = req[f].old
    OBVIOUS
  <2>1. /\ f \in 1 .. Len(req) /\ f \notin answered
        /\ u \in Tags /\ want[u] = f /\ req[f].kind = "flush"
        /\ \A x \in FlushesOf(o) : want[x] \notin answered
        /\ \A v \in Bufs : Looked(v) => rid[v] # want[o]
    BY <1>5 DEF ReplyingTo
  <2>2. Outstanding(u)
    BY <2>1, NoneIsNothing DEF Outstanding
  <2>3. f \notin answered' /\ want'[u] = f /\ req'[f] = req[f] /\ f \in 1 .. Len(req') /\ f # n
    <3>1. Len(req') = Len(req) + 1 /\ Len(req) \in Nat
      BY DEF Reads, Adds
    <3> QED BY <1>3, <1>4, <2>1, <2>2, <3>1
  <2>4. o \in Tags /\ Outstanding(o)
    <3>1. req[f] \in Requests /\ req[f].old # None
      BY <2>1 DEF Once, Book
    <3> QED BY <1>4, <2>1, <2>2, <3>1 DEF Requests
  <2>5. o # r.tag /\ want'[o] = want[o] /\ want[o] # n
    BY <1>3, <1>4, <2>4
  <2>6. ASSUME NEW x \in FlushesOf(o)'
        PROVE  want'[x] \notin answered'
    <3>1. x \in Tags
      BY DEF FlushesOf
    <3>2. x \in FlushesOf(o)
      BY <1>5, <2>4, <2>5, <3>1 DEF Adds
    <3>3. Outstanding(x) /\ want[x] \notin answered
      BY <2>1, <3>2 DEF FlushesOf
    <3> QED BY <1>3, <1>4, <3>1, <3>3
  <2>7. ASSUME NEW v \in Bufs, Looked(v)'
        PROVE  rid'[v] # want'[o]
    <3>1. CASE Filling(v)'
      BY <2>5, <3>1 DEF Adds
    <3>2. CASE Looked(v)
      <4>1. v # b
        BY <3>2 DEF Looked, Reads
      <4> QED BY <2>1, <2>5, <3>2, <4>1 DEF Adds
    <3> QED BY <2>7, <3>1, <3>2
  <2>8. pc'[Master] = "setflush" => rid'[buf'[Master]] # f
    BY <2>3 DEF Adds
  <2>9. \A x \in FlushesOf(req[f].old)' : want'[x] \notin answered'
    <3>1. FlushesOf(req[f].old)' = FlushesOf(o)'
      BY <2>3 DEF FlushesOf
    <3> QED BY <2>6, <3>1
  <2>10. req'[f].kind = "flush" /\ req'[f] = req[f]
    BY <2>1, <2>3
  <2>11. \A v \in Bufs : Looked(v)' => rid'[v] # want'[req'[f].old]
    BY <2>3, <2>7
  <2>12. u \in Tags /\ want'[u] = f /\ f \in 1 .. Len(req') /\ f \notin answered'
    BY <2>1, <2>3
  <2>13. ReplyingTo(f, u)'
    BY <2>8, <2>9, <2>10, <2>11, <2>12 DEF ReplyingTo
  <2> QED BY <2>10, <2>13
<1>6. ASSUME NEW s \in Slaves, pc[s] = "rflush"
      PROVE  ReplyingTo(rid[buf[s]], tag[buf[s]])' /\ req'[rid[buf[s]]] = req[rid[buf[s]]]
  <2> PICK f : f = rid[buf[s]]
    OBVIOUS
  <2> PICK u : u = tag[buf[s]]
    OBVIOUS
  <2>1. ReplyingTo(f, u) /\ req[f].old # r.old
    BY <1>6 DEF Once, Replying
  <2>2. ReplyingTo(f, u)' /\ req'[f] = req[f]
    BY <1>5, <2>1
  <2>3. rid'[buf'[s]] = f /\ tag'[buf'[s]] = u
    BY <1>2, <1>6
  <2> QED BY <2>2, <2>3
<1> QED BY <1>2, <1>6 DEF Once, Replying

(* What the master reads fits the variables, and so does its reply.        *)
LEMMA ReceivedTypes ==
  ASSUME Inv, Once, NEW what, NEW r, Receive(what, r), Asks(r),
         NEW n, n = Len(req) + 1, NEW b, b = buf[Master]
  PROVE  /\ tag' \in [Bufs -> Tags \cup {NOTAG}] /\ rid' \in [Bufs -> 0 .. n]
         /\ want' \in [Tags -> 1 .. n \cup {None}]
         /\ \A i \in 1 .. Len(back) : want'[back[i].tag] = back[i].id
<1>1. Reads(r, n, b) /\ Adds(r, n, b)
  BY Received
<1>2. /\ want' = [want EXCEPT ![r.tag] = n]
      /\ tag' = [tag EXCEPT ![b] = r.tag] /\ rid' = [rid EXCEPT ![b] = n]
  BY DEF Receive
<1>3. r.tag \in Tags /\ b \in Bufs /\ n \in Nat /\ n = Len(req) + 1 /\ Len(req) \in Nat
  BY <1>1 DEF Reads
<1>4. tag' \in [Bufs -> Tags \cup {NOTAG}]
  BY <1>2, <1>3 DEF Once, Book
<1>5. rid' \in [Bufs -> 0 .. n]
  BY <1>2, <1>3 DEF Once, Book
<1>6. want' \in [Tags -> 1 .. n \cup {None}]
  BY <1>2, <1>3 DEF Once, Book
<1>7. ASSUME NEW i \in 1 .. Len(back)
      PROVE  want'[back[i].tag] = back[i].id
  <2> PICK x : x = back[i]
    OBVIOUS
  <2>1. want[x.tag] = x.id /\ x.tag \in Tags /\ Outstanding(x.tag)
    BY BackIs
  <2>2. x.tag # r.tag
    BY <1>1, <2>1 DEF Reads
  <2> QED BY <1>1, <2>1, <2>2 DEF Adds
<1> QED BY <1>4, <1>5, <1>6, <1>7

(* The master answers at once.                                             *)
LEMMA OnceAnsweredNow ==
  ASSUME Inv, Once, NEW what, NEW r, Receive(what, r), Asks(r), Reply(r.tag, Len(req) + 1),
         pc' = [pc EXCEPT ![Master] = "search"], \A s \in Slaves : buf'[s] = buf[s],
         UNCHANGED <<flushtag, rendVars>>, \A v \in Bufs : Looked(v) => tag[v] # r.old,
         \A s \in Slaves : pc[s] = "rflush" => req[rid[buf[s]]].old # r.old
  PROVE  Once'
<1> PICK n : n = Len(req) + 1
  OBVIOUS
<1> PICK b : b = buf[Master]
  OBVIOUS
<1>1. Reads(r, n, b) /\ Adds(r, n, b)
  BY Received
<1>2. /\ tag' \in [Bufs -> Tags \cup {NOTAG}] /\ rid' \in [Bufs -> 0 .. n]
      /\ want' \in [Tags -> 1 .. n \cup {None}]
      /\ \A i \in 1 .. Len(back) : want'[back[i].tag] = back[i].id
  BY ReceivedTypes
<1>3. pc[Master] = "read"
  BY DEF Receive
<1>4. /\ pc'[Master] = "search" /\ \A s \in Slaves : pc'[s] = pc[s]
      /\ \A v \in Bufs : /\ ~ Filling(v)'
                         /\ Looked(v)' => Looked(v)
                         /\ Early(v)' => Early(v)
  BY <1>3, MasterLooks DEF MasterPC
<1>5. answered' = answered \cup {n} /\ again' = again
  BY <1>1 DEF Reply, Reads
<1>6. Book' /\ Olds' /\ Pending' /\ Recorded' /\ Unanswered'
  BY <1>1, <1>2, <1>4, <1>5, OnceReceived
<1>9. Replying'
  BY <1>1, <1>4, <1>5, ReplyingReceived
<1>7. Setting' /\ Fresh'
  BY <1>4 DEF Setting, Once, Fresh
<1>8. Returning'
  <2>1. \A x \in 1 .. Len(req) : req'[x] = req[x] /\ x < n
    BY <1>1 DEF Adds, Reads
  <2>2. r.tag \in Tags /\ ~ Outstanding(r.tag) /\ r.tag # None
    BY <1>1, NoneIsNothing DEF Reads
  <2>3. ASSUME NEW i \in 1 .. Len(back), NEW x, x = back[i]
        PROVE  InTurn(x, [tag |-> r.tag, id |-> n])'
    <3>1. want[x.tag] = x.id /\ x.tag \in Tags /\ x.id \in 1 .. Len(req) /\ Outstanding(x.tag)
      BY <2>3, BackIs
    <3>2. req[x.id].old # r.tag
      <4> SUFFICES ASSUME req[x.id].old = r.tag
                   PROVE  FALSE
        OBVIOUS
      <4>1. req[x.id].kind = "flush"
        BY <2>2, <3>1 DEF Once, Book
      <4>2. Outstanding(r.tag)
        BY <3>1, <4>1 DEF Once, Olds
      <4> QED BY <2>2, <4>2
    <3> QED BY <2>1, <3>1, <3>2 DEF InTurn
  <2>4. /\ Book /\ Returning /\ n \in 1 .. Len(req') /\ Reply(r.tag, n) /\ want'[r.tag] = n
        /\ Len(req') \in Nat /\ Len(req) <= Len(req')
    BY <1>1 DEF Once, Reads, Adds
  <2>5. \A i \in 1 .. Len(back) : \A x : x = back[i] => InTurn(x, [tag |-> r.tag, id |-> n])'
    BY <2>3
  <2> QED BY <1>2, <2>1, <2>2, <2>4, <2>5, ReplyReturns
<1> QED BY <1>6, <1>7, <1>8, <1>9 DEF Once

(* The master goes on with the request, or with where to record the flush. *)
LEMMA OnceKept ==
  ASSUME Inv, Once, NEW what, NEW r, Receive(what, r), Asks(r),
         NEW to \in {"slave", "setflush"}, pc' = [pc EXCEPT ![Master] = to],
         UNCHANGED <<buf, flushtag, back, answered, again, rendVars>>,
         to = "slave" => r.kind \in Slowly,
         to = "setflush" => /\ r.kind = "flush"
                            /\ hit' \in Bufs /\ bufpid[hit'] # None
                            /\ rid[hit'] \in {0, want[r.old]},
         \A s \in Slaves : pc[s] = "rflush" => req[rid[buf[s]]].old # r.old
  PROVE  Once'
<1> PICK n : n = Len(req) + 1
  OBVIOUS
<1> PICK b : b = buf[Master]
  OBVIOUS
<1>1. Reads(r, n, b) /\ Adds(r, n, b)
  BY Received
<1>2. /\ tag' \in [Bufs -> Tags \cup {NOTAG}] /\ rid' \in [Bufs -> 0 .. n]
      /\ want' \in [Tags -> 1 .. n \cup {None}]
      /\ \A i \in 1 .. Len(back) : want'[back[i].tag] = back[i].id
  BY ReceivedTypes
<1>3. pc[Master] = "read"
  BY DEF Receive
<1>4. /\ pc'[Master] = to /\ \A s \in Slaves : pc'[s] = pc[s]
      /\ \A v \in Bufs : /\ Filling(v)' <=> to = "slave" /\ v = b
                         /\ Looked(v)' => Looked(v) \/ Filling(v)'
                         /\ Early(v)' => Early(v) \/ Filling(v)'
  <2>1. to \in MasterPC /\ to \notin {"greet", "hand"} /\ buf'[Master] = b
    BY DEF MasterPC
  <2>2. \A s \in Slaves : buf'[s] = buf[s]
    OBVIOUS
  <2> QED BY <1>3, <2>1, <2>2, MasterLooks
<1>5. Book' /\ Olds' /\ Pending' /\ Recorded' /\ Unanswered'
  BY <1>1, <1>2, <1>4, OnceReceived
<1>6. Setting'
  <2> SUFFICES ASSUME to = "setflush"
               PROVE  SettingIn(b, n, r.tag)'
    BY <1>1, <1>4 DEF Setting, Adds
  <2> PICK h : h = hit'
    OBVIOUS
  <2>1. h \in Bufs /\ h # b /\ rid'[h] = rid[h] /\ \A v \in Bufs : Looked(v)' => Looked(v)
    BY <1>1, <1>4 DEF Reads, Adds
  <2>2. r.old \in Tags /\ r.old # r.tag /\ Outstanding(r.old)
    BY NoneIsNothing DEF Asks, Requests
  <2>3. Looked(h) => rid[h] \in 1 .. Len(req)
    BY <2>1 DEF Once, Pending
  <2>4. Looked(h)' => rid'[h] = want'[r.old]
    BY <1>1, <2>1, <2>2, <2>3 DEF Adds
  <2>5. \A v \in Bufs : Looked(v) => flushtag[v] # r.tag
    BY <1>1, Values DEF Once, Recorded, Reads
  <2>6. n = Len(req') /\ n # 0 /\ n \notin answered /\ r.tag \in Tags /\ want'[r.tag] = n
        /\ req'[n] = r
    BY <1>1 DEF Reads, Adds
  <2> QED BY <2>1, <2>4, <2>5, <2>6 DEF SettingIn
<1>7. Fresh'
  BY <1>1, <1>4 DEF Once, Fresh, Reads
<1>8. Returning'
  <2> DEFINE Q == [tag : Tags, id : 1 .. Len(req)]
             R == [tag : Tags, id : 1 .. Len(req')]
  <2>1. Q \subseteq R /\ back \in Seq(Q)
    BY <1>1 DEF Reads, Adds, Once, Returning
  <2> HIDE DEF Q, R
  <2>2. back' \in Seq(R)
    BY <2>1
  <2>3. \A x \in 1 .. Len(req) : req'[x] = req[x]
    BY <1>1 DEF Adds
  <2>4. ASSUME NEW i \in 1 .. Len(back), NEW j \in 1 .. Len(back), i < j,
               NEW x, NEW y, x = back[i], y = back[j]
        PROVE  InTurn(x, y)'
    <3>1. x.id \in 1 .. Len(req) /\ y.id \in 1 .. Len(req)
      BY <2>4, BackIs
    <3>2. InTurn(x, y)
      BY <2>4 DEF Once, Returning
    <3> QED BY <2>3, <3>1, <3>2 DEF InTurn
  <2>5. \A i, j \in 1 .. Len(back') : i < j => \A x, y : x = back'[i] /\ y = back'[j] => InTurn(x, y)'
    BY <2>4
  <2>6. \A i \in 1 .. Len(back') : back'[i].id \in answered' /\ want'[back'[i].tag] = back'[i].id
    BY <1>2 DEF Once, Returning
  <2>7. back' \in Seq([tag : Tags, id : 1 .. Len(req')])
    BY <2>2 DEF R
  <2> QED BY <2>5, <2>6, <2>7 DEF Returning, InTurn
<1>9. Replying'
  <2>1. answered' \subseteq answered \cup {n} /\ buf'[Master] = b
    OBVIOUS
  <2> QED BY <1>1, <1>4, <2>1, ReplyingReceived
<1> QED BY <1>5, <1>6, <1>7, <1>8, <1>9 DEF Once

(* what the client sends and the master reads                              *)
LEMMA OnceRead ==
  ASSUME Inv, Once, MasterReads, ~ Astray'
  PROVE  Once'
<1> PICK t \in Tags : Quick(t) \/ BadVersion(t) \/ Slow(t) \/ Flush(t)
  BY DEF MasterReads
<1>1. \A kind \in {"quick", "io", "open"}, f \in Fids \cup {None} :
        /\ Asks(Request(t, kind, f, None))
        /\ Request(t, kind, f, None).tag = t /\ Request(t, kind, f, None).kind = kind
        /\ Request(t, kind, f, None).old = None
  BY NoneIsNothing DEF Request, Asks, Requests
<1>2. \A v \in Bufs : Looked(v) => tag[v] \in Tags /\ tag[v] # None
  <2> SUFFICES ASSUME NEW v \in Bufs, Looked(v)
               PROVE  tag[v] \in Tags /\ tag[v] # None
    OBVIOUS
  <2>1. rid[v] \in 1 .. Len(req) /\ tag[v] = req[rid[v]].tag
    BY DEF Once, Pending
  <2>2. req[rid[v]] \in Requests
    BY <2>1 DEF Once, Book
  <2> QED BY <2>1, <2>2, NoneIsNothing DEF Requests
<1>3. \A from : Done(from) => \A s \in Slaves : buf'[s] = buf[s]
  BY Everybody DEF Done, Inv, Shape
<1>7. ASSUME NEW s \in Slaves, pc[s] = "rflush"
      PROVE  /\ req[rid[buf[s]]].old # None
             /\ tag[buf[s]] \in FlushesOf(req[rid[buf[s]]].old)
  <2> PICK f : f = rid[buf[s]]
    OBVIOUS
  <2> PICK u : u = tag[buf[s]]
    OBVIOUS
  <2>1. f \in 1 .. Len(req) /\ u \in Tags /\ want[u] = f /\ req[f].kind = "flush"
    BY <1>7 DEF Once, Replying, ReplyingTo
  <2>2. req[f].old # None /\ Outstanding(u)
    BY <2>1, NoneIsNothing DEF Once, Book, Outstanding
  <2> QED BY <2>1, <2>2 DEF FlushesOf
<1>4. CASE Quick(t) \/ BadVersion(t)
  <2> PICK r : r = Request(t, "quick", None, None)
    OBVIOUS
  <2>1. /\ Receive("quick", r) /\ Reply(r.tag, Len(req) + 1)
        /\ pc' = [pc EXCEPT ![Master] = "search"] /\ \A s \in Slaves : buf'[s] = buf[s]
        /\ UNCHANGED <<flushtag, rendVars>>
    BY <1>1, <1>3, <1>4 DEF Quick, BadVersion, Done, Goto
  <2>2. Asks(r) /\ \A v \in Bufs : Looked(v) => tag[v] # r.old
    BY <1>1, <1>2
  <2>3. \A s \in Slaves : pc[s] = "rflush" => req[rid[buf[s]]].old # r.old
    BY <1>1, <1>7
  <2> QED BY <2>1, <2>2, <2>3, OnceAnsweredNow
<1>5. CASE Slow(t)
  <2>1. PICK f \in Fids : Receive("slow", Request(t, "io", f, None))
                          \/ Receive("slow", Request(t, "open", f, None))
    BY <1>5 DEF Slow
  <2>2. /\ pc' = [pc EXCEPT ![Master] = "slave"]
        /\ UNCHANGED <<buf, flushtag, back, answered, again, rendVars>>
    BY <1>5 DEF Slow, Goto, replies
  <2>3. PICK kind \in Slowly : Receive("slow", Request(t, kind, f, None))
    BY <2>1 DEF Slowly
  <2> PICK r : r = Request(t, kind, f, None)
    OBVIOUS
  <2>4. Asks(r) /\ r.kind \in Slowly /\ Receive("slow", r)
    BY <1>1, <2>3 DEF Slowly
  <2>5. \A s \in Slaves : pc[s] = "rflush" => req[rid[buf[s]]].old # r.old
    BY <1>1, <1>7, <2>3 DEF Slowly
  <2> QED BY <2>2, <2>4, <2>5, OnceKept
<1>6. CASE Flush(t)
  <2>1. PICK old \in Tags \ {t} :
       /\ Outstanding(old) /\ req[want[old]].kind \in {"io", "open"}
       /\ \/ /\ Flushable(old) = {}
             /\ Receive("flush", FlushOf(t, old, 0))
             /\ Reply(t, Len(req) + 1)
             /\ Done("read")
          \/ \E w \in Flushable(old) :
               /\ Receive("flush", FlushOf(t, old, rid[w]))
               /\ hit' = w
               /\ Goto(Master, "read", "setflush")
               /\ UNCHANGED <<busy, buf, replies>>
    BY <1>6 DEF Flush
  <2>2. UNCHANGED <<bufpid, flushtag, rendVars>>
    BY <1>6 DEF Flush
  <2>3. ASSUME NEW r, NEW found, r = FlushOf(t, old, found), Receive("flush", r)
        PROVE  /\ Asks(r) /\ r.tag = t /\ r.old = old /\ r.kind = "flush"
               /\ found \in {0, want[old]}
               /\ \A s \in Slaves : pc[s] = "rflush" => req[rid[buf[s]]].old # old
    <3>1. /\ Asks(r) /\ r.tag = t /\ r.old = old /\ r.kind = "flush"
          /\ r.astray <=> found \notin {0, want[old]} \/ BeingFlushed(old)
      BY <2>1, <2>3, NoneIsNothing DEF FlushOf, BeingFlushed, Request, Asks, Requests, Slowly
    <3>2. ~ r.astray
      <4>1. Len(req) + 1 \in DOMAIN req' /\ req'[Len(req) + 1] = r
        <5>1. Len(req) \in Nat /\ req \in Seq(Requests)
          BY DEF Once, Book
        <5>2. req' = Append(req, r)
          BY <2>3 DEF Receive
        <5>3. r \in Requests
          BY <3>1 DEF Asks
        <5> QED BY <5>1, <5>2, <5>3
      <4> QED BY <4>1 DEF Astray
    <3>3. \A s \in Slaves : pc[s] = "rflush" => req[rid[buf[s]]].old # old
      BY <1>7, <3>1, <3>2 DEF BeingFlushed
    <3> QED BY <3>1, <3>2, <3>3
  <2>4. CASE Flushable(old) = {} /\ Receive("flush", FlushOf(t, old, 0))
             /\ Reply(t, Len(req) + 1) /\ Done("read")
    <3> PICK r : r = FlushOf(t, old, 0)
      OBVIOUS
    <3>1. /\ Asks(r) /\ r.tag = t /\ r.old = old
          /\ \A s \in Slaves : pc[s] = "rflush" => req[rid[buf[s]]].old # r.old
      BY <2>3, <2>4
    <3>2. \A v \in Bufs : Looked(v) => tag[v] # old
      <4> SUFFICES ASSUME NEW v \in Bufs, Looked(v)
                   PROVE  busy[v] /\ bufpid[v] # None
        BY <2>4 DEF Flushable
      <4>1. ~ Filling(v)
        BY <2>4 DEF Filling, Done, Goto
      <4>2. PICK s \in Slaves : HasBuf(s, v)
        BY <4>1 DEF Looked
      <4>3. busy[v] /\ bufpid[v] = s
        BY <4>2, OneHasBuf
      <4> QED BY <4>3, Everybody, NoneIsNothing
    <3>3. pc' = [pc EXCEPT ![Master] = "search"] /\ \A s \in Slaves : buf'[s] = buf[s]
      BY <1>3, <2>4 DEF Done, Goto
    <3> QED BY <2>2, <2>4, <3>1, <3>2, <3>3, OnceAnsweredNow
  <2>5. ASSUME NEW w \in Flushable(old), Receive("flush", FlushOf(t, old, rid[w])),
               hit' = w, Goto(Master, "read", "setflush"), UNCHANGED <<buf, replies>>
        PROVE  Once'
    <3> PICK r : r = FlushOf(t, old, rid[w])
      OBVIOUS
    <3>1. /\ Asks(r) /\ r.tag = t /\ r.old = old /\ r.kind = "flush"
          /\ rid[w] \in {0, want[old]}
          /\ \A s \in Slaves : pc[s] = "rflush" => req[rid[buf[s]]].old # r.old
      BY <2>3, <2>5
    <3>3. w \in Bufs /\ bufpid[w] # None
      BY DEF Flushable
    <3>4. pc' = [pc EXCEPT ![Master] = "setflush"]
          /\ UNCHANGED <<buf, flushtag, back, answered, again, rendVars>>
      BY <2>2, <2>5 DEF Goto, replies
    <3> QED BY <2>5, <3>1, <3>3, <3>4, OnceKept
  <2> QED BY <2>1, <2>4, <2>5
<1> QED BY <1>4, <1>5, <1>6

(* What the client frees is the tag of no request that is still of         *)
(* interest to a slave, to Xflush or to a later reply.                     *)
LEMMA OnceTaken ==
  ASSUME Inv, Once, ClientTakes
  PROVE  Once'
<1> DEFINE Q == [tag : Tags, id : 1 .. Len(req)]
<1> PICK h : h = Head(back)
  OBVIOUS
<1> PICK t : t = h.tag
  OBVIOUS
<1> PICK k : k = h.id
  OBVIOUS
<1> PICK old : old = req[k].old
  OBVIOUS
<1> PICK upto : upto = {u \in FlushesOf(old) : want[u] <= k}
  OBVIOUS
<1> PICK free : free = IF old # None THEN upto \cup {u \in {old} : FlushesOf(old) = upto}
                       ELSE {u \in {t} : FlushesOf(t) = {}}
  OBVIOUS
<1>1. /\ back # <<>> /\ back \in Seq(Q) /\ back' = Tail(back)
      /\ UNCHANGED <<flushtag, hit, tag, rid, bufpid, pc, buf, req, answered, again, rendVars>>
  <2>1. back # <<>> /\ back' = Tail(back)
        /\ UNCHANGED <<flushtag, hit, tag, rid, bufpid, pc, buf, req, answered, again, rendVars>>
    BY DEF ClientTakes, work
  <2> QED BY <2>1 DEF Once, Returning
<1> HIDE DEF Q
<1>2. /\ 1 \in 1 .. Len(back) /\ h = back[1]
      /\ back' \in Seq(Q) /\ Len(back') = Len(back) - 1 /\ Len(back) \in Nat
      /\ \A i \in 1 .. Len(back) - 1 : back'[i] = back[i + 1] /\ i + 1 \in 1 .. Len(back)
  BY <1>1
<1>3. k \in answered /\ want[t] = k /\ t \in Tags /\ k \in 1 .. Len(req) /\ Outstanding(t)
  BY <1>2, BackIs
<1>4. want' = [u \in Tags |-> IF u \in free THEN None ELSE want[u]]
  BY <1>3 DEF ClientTakes
<1>5. \A u \in Tags : Outstanding(u) =>
        /\ want[u] \in 1 .. Len(req) /\ req[want[u]].tag = u /\ req[want[u]] \in Requests
        /\ req[want[u]].kind = "flush" <=> req[want[u]].old # None
  BY DEF Once, Book, Outstanding
<1>6. \A u \in Tags : /\ Outstanding(u)' <=> Outstanding(u) /\ u \notin free
                      /\ u \notin free => want'[u] = want[u]
                      /\ u \in free => want'[u] = None
  BY <1>4 DEF Outstanding
(* a tag that is freed is of a flush up to this one, of the request they   *)
(* flush, or of this reply's request                                       *)
<1>7. ASSUME NEW u \in free
      PROVE  \/ /\ old # None /\ u \in Tags /\ Outstanding(u) /\ req[want[u]].old = old /\ want[u] <= k
             \/ old # None /\ u = old /\ FlushesOf(old) = upto
             \/ old = None /\ u = t /\ FlushesOf(t) = {}
  BY <1>7 DEF FlushesOf
<1>8. old # None => /\ t \in FlushesOf(old) /\ old \in Tags /\ Outstanding(old)
                    /\ req[want[old]].kind \in Slowly
  <2> SUFFICES ASSUME old # None
               PROVE  /\ t \in FlushesOf(old) /\ old \in Tags /\ Outstanding(old)
                      /\ req[want[old]].kind \in Slowly
    OBVIOUS
  <2>1. t \in FlushesOf(old)
    BY <1>3 DEF FlushesOf
  <2>2. old \in Tags
    BY <1>3, <1>5 DEF Requests
  <2>3. req[want[t]].kind = "flush"
    BY <1>3, <1>5
  <2>4. Outstanding(old) /\ req[want[old]].kind \in Slowly
    BY <1>3, <2>3 DEF Once, Olds
  <2> QED BY <2>1, <2>2, <2>4
<1>9. \A v \in Bufs : /\ Looked(v)' <=> Looked(v)
                      /\ Early(v)' <=> Early(v)
                      /\ Filling(v)' <=> Filling(v)
                      /\ Early(v) => Looked(v)
  <2>1. \A p \in Procs : Met(p)' <=> Met(p)
    BY <1>1, RendStays
  <2>2. UNCHANGED rendval
    BY <1>1 DEF rendVars
  <2>3. \A v \in Bufs : Filling(v)' <=> Filling(v)
    BY <1>1, <2>1, Everybody DEF Filling
  <2>4. \A s \in Slaves, v \in Bufs : HasBuf(s, v)' <=> HasBuf(s, v)
    BY <1>1, <2>1, <2>2, Everybody DEF HasBuf
  <2> QED BY <1>1, <2>3, <2>4 DEF Looked, Early
<1>10. ASSUME NEW v \in Bufs, Looked(v)
       PROVE  /\ tag[v] \in Tags /\ tag[v] # None /\ rid[v] \in 1 .. Len(req)
              /\ req[rid[v]].kind \in Slowly /\ rid[v] # None
  <2>1. rid[v] \in 1 .. Len(req) /\ tag[v] = req[rid[v]].tag /\ req[rid[v]].kind \in Slowly
    BY <1>10 DEF Once, Pending
  <2>2. req[rid[v]] \in Requests
    BY <2>1 DEF Once, Book
  <2> QED BY <2>1, <2>2, NoneIsNothing DEF Requests
(* a request that is not answered, nor any flush of it, keeps its tag *)
<1>11. ASSUME NEW u \in Tags, Outstanding(u), req[want[u]].kind \in Slowly,
              \A x \in FlushesOf(u) : want[x] \notin answered,
              want[u] \notin answered \/ FlushesOf(u) # {}
       PROVE  u \notin free
  <2> SUFFICES ASSUME u \in free
               PROVE  FALSE
    OBVIOUS
  <2>1. CASE old # None /\ req[want[u]].old = old
    BY <1>5, <1>11, <2>1 DEF Slowly
  <2>2. CASE old # None /\ u = old
    BY <1>3, <1>8, <1>11, <2>2
  <2>3. CASE old = None /\ u = t /\ FlushesOf(t) = {}
    BY <1>3, <1>11, <2>3
  <2> QED BY <1>7, <2>1, <2>2, <2>3
(* nor does a flush that is not answered, of a request whose other flushes *)
(* are not either, or that is the latest                                   *)
<1>12. ASSUME NEW u \in Tags, Outstanding(u), req[want[u]].kind = "flush", want[u] \notin answered,
              want[u] = Len(req) \/ \A x \in FlushesOf(req[want[u]].old) : want[x] \notin answered
       PROVE  u \notin free
  <2> SUFFICES ASSUME u \in free
               PROVE  FALSE
    OBVIOUS
  <2>1. CASE old # None /\ req[want[u]].old = old /\ want[u] <= k
    <3>1. want[u] = Len(req) => want[u] = k
      BY <1>3, <1>5, <1>12, <2>1
    <3> QED BY <1>3, <1>8, <1>12, <2>1, <3>1
  <2>2. CASE old # None /\ u = old
    BY <1>8, <1>12, <2>2 DEF Slowly
  <2>3. CASE old = None /\ u = t
    BY <1>3, <1>12, <2>3
  <2> QED BY <1>7, <2>1, <2>2, <2>3
(* and what a flush that stays is of *)
<1>13. ASSUME NEW u \in Tags, Outstanding(u), req[want[u]].kind = "flush", u \notin free
       PROVE  /\ req[want[u]].old \in Tags /\ req[want[u]].old \notin free
              /\ Outstanding(req[want[u]].old) /\ req[want[req[want[u]].old]].kind \in Slowly
  <2> PICK o : o = req[want[u]].old
    OBVIOUS
  <2>1. o \in Tags
    BY <1>5, <1>13 DEF Requests
  <2>2. Outstanding(o) /\ req[want[o]].kind \in Slowly
    BY <1>13 DEF Once, Olds
  <2>3. u \in FlushesOf(o)
    BY <1>13 DEF FlushesOf
  <2>4. o \notin free
    <3> SUFFICES ASSUME o \in free
                 PROVE  FALSE
      OBVIOUS
    <3>1. CASE old # None /\ req[want[o]].old = old
      BY <1>5, <2>1, <2>2, <3>1 DEF Slowly
    <3>2. CASE old # None /\ o = old /\ FlushesOf(old) = upto
      BY <1>13, <2>3, <3>2
    <3>3. CASE old = None /\ o = t /\ FlushesOf(t) = {}
      BY <2>3, <3>3
    <3> QED BY <1>7, <3>1, <3>2, <3>3
  <2> QED BY <2>1, <2>2, <2>4
<1>14. Book'
  <2>1. want' \in [Tags -> 1 .. Len(req) \cup {None}]
    BY <1>4 DEF Once, Book
  <2>2. \A u \in Tags : Outstanding(u)' => req[want'[u]].tag = u
    BY <1>5, <1>6
  <2> QED BY <1>1, <2>1, <2>2 DEF Once, Book
<1>15. Olds'
  <2> SUFFICES ASSUME NEW u \in Tags, Outstanding(u)', req[want'[u]].kind = "flush",
                      NEW o, o = req[want'[u]].old
               PROVE  Outstanding(o)' /\ req[want'[o]].kind \in Slowly
    BY <1>1 DEF Olds
  <2>1. Outstanding(u) /\ u \notin free /\ want'[u] = want[u]
    BY <1>6
  <2> QED BY <1>6, <1>13, <2>1
<1>16. ASSUME NEW v \in Bufs, Early(v)
       PROVE  want'[tag[v]] = rid[v] /\ rid[v] \notin answered
  <2>1. Looked(v) /\ want[tag[v]] = rid[v] /\ rid[v] \notin answered
    BY <1>9, <1>16 DEF Once, Pending
  <2>2. Outstanding(tag[v]) /\ \A x \in FlushesOf(tag[v]) : want[x] \notin answered
    BY <1>10, <2>1 DEF Once, Unanswered, Outstanding
  <2>3. tag[v] \notin free
    BY <1>10, <1>11, <2>1, <2>2
  <2> QED BY <1>6, <1>10, <2>1, <2>3
<1>17. Pending'
  BY <1>1, <1>9, <1>16 DEF Once, Pending
<1>18. Recorded'
  <2> SUFFICES ASSUME NEW v \in Bufs, Looked(v), NEW u, u = flushtag[v], u # NOTAG
               PROVE  /\ Outstanding(u)' /\ want'[u] \notin answered
                      /\ req[want'[u]].old = tag[v] /\ want'[tag[v]] = rid[v]
    BY <1>1, <1>9 DEF Recorded, Outstanding
  <2>1. /\ u \in Tags /\ Outstanding(u) /\ want[u] \notin answered
        /\ req[want[u]].old = tag[v] /\ want[tag[v]] = rid[v]
    BY DEF Once, Book, Recorded
  <2>2. req[want[u]].kind = "flush" /\ u \in FlushesOf(tag[v])
    BY <1>5, <1>10, <2>1 DEF FlushesOf
  <2>3. Outstanding(tag[v]) /\ \A x \in FlushesOf(tag[v]) : want[x] \notin answered
    BY <1>10, <2>1 DEF Once, Unanswered, Outstanding
  <2>4. u \notin free
    BY <1>12, <2>1, <2>2, <2>3
  <2>5. tag[v] \notin free
    BY <1>10, <1>11, <2>1, <2>2, <2>3
  <2> QED BY <1>6, <1>10, <2>1, <2>4, <2>5
<1>19. Unanswered'
  <2> SUFFICES ASSUME NEW v \in Bufs, Looked(v), want'[tag[v]] = rid[v],
                      NEW u \in Tags, Outstanding(u)', req[want'[u]].old = tag[v]
               PROVE  want'[u] \notin answered
    BY <1>1, <1>9 DEF Unanswered, FlushesOf, Outstanding
  <2>1. Outstanding(u) /\ want'[u] = want[u]
    BY <1>6
  <2>2. want[tag[v]] = rid[v]
    BY <1>6, <1>10
  <2> QED BY <2>1, <2>2 DEF Once, Unanswered, FlushesOf
<1>20. Setting'
  <2> SUFFICES ASSUME pc[Master] = "setflush", NEW b, b = buf[Master],
                      NEW f, f = rid[b], NEW u, u = tag[b]
               PROVE  SettingIn(b, f, u)'
    BY <1>1 DEF Setting
  <2>1. SettingIn(b, f, u)
    BY DEF Once, Setting
  <2>2. /\ f = Len(req) /\ f # 0 /\ f \notin answered
        /\ u \in Tags /\ want[u] = f /\ req[f].kind = "flush"
        /\ Looked(hit) => rid[hit] = want[req[f].old]
    BY <2>1 DEF SettingIn
  <2>3. f \in 1 .. Len(req) /\ Outstanding(u)
    <3>1. req \in Seq(Requests)
      BY DEF Once, Book
    <3>2. f \in 1 .. Len(req)
      BY <2>2, <3>1
    <3> QED BY <2>2, <3>2, NoneIsNothing DEF Outstanding
  <2>4. u \notin free
    BY <1>12, <2>2, <2>3
  <2>5. want'[u] = f /\ want'[req[f].old] = want[req[f].old]
    BY <1>6, <1>13, <2>2, <2>3, <2>4
  <2> QED BY <1>1, <1>9, <2>1, <2>5 DEF SettingIn
<1>21. Fresh'
  BY <1>1, <1>9 DEF Once, Fresh
<1>22. Returning'
  <2>1. ASSUME NEW i \in 1 .. Len(back) - 1, NEW y, y = back[i + 1]
        PROVE  y.id \in answered /\ want'[y.tag] = y.id
    <3>1. i + 1 \in 1 .. Len(back) /\ 1 < i + 1
      BY <1>2, <2>1
    <3>2. y.id \in answered /\ want[y.tag] = y.id /\ y.tag \in Tags /\ y.id \in 1 .. Len(req)
      BY <2>1, <3>1, BackIs
    <3>3. InTurn(h, y)
      BY <1>2, <2>1, <3>1 DEF Once, Returning
    <3>4. k # y.id /\ old # y.tag /\ (old # None /\ old = req[y.id].old => k < y.id)
      BY <3>3 DEF InTurn
    <3>5. y.tag \notin free
      <4> SUFFICES ASSUME y.tag \in free
                   PROVE  FALSE
        OBVIOUS
      <4>1. CASE old # None /\ req[want[y.tag]].old = old /\ want[y.tag] <= k
        BY <1>3, <3>2, <3>4, <4>1
      <4> QED BY <1>3, <1>7, <3>2, <3>4, <4>1
    <3> QED BY <1>6, <3>2, <3>5
  <2>2. \A i \in 1 .. Len(back') : back'[i].id \in answered' /\ want'[back'[i].tag] = back'[i].id
    BY <1>1, <1>2, <2>1
  <2>3. ASSUME NEW i \in 1 .. Len(back'), NEW j \in 1 .. Len(back'), i < j,
               NEW x, NEW y, x = back'[i], y = back'[j]
        PROVE  InTurn(x, y)'
    <3>1. i + 1 \in 1 .. Len(back) /\ j + 1 \in 1 .. Len(back) /\ i + 1 < j + 1
          /\ x = back[i + 1] /\ y = back[j + 1]
      BY <1>2, <2>3
    <3>2. InTurn(x, y)
      BY <3>1 DEF Once, Returning
    <3> QED BY <1>1, <3>2 DEF InTurn
  <2>4. \A i, j \in 1 .. Len(back') : i < j => \A x, y : x = back'[i] /\ y = back'[j] => InTurn(x, y)'
    BY <2>3
  <2>5. back' \in Seq([tag : Tags, id : 1 .. Len(req')])
    BY <1>1, <1>2 DEF Q
  <2> QED BY <2>2, <2>4, <2>5 DEF Returning, InTurn
<1>23. Replying'
  <2>1. ASSUME NEW f, NEW u, ReplyingTo(f, u)
        PROVE  ReplyingTo(f, u)'
    <3> PICK o : o = req[f].old
      OBVIOUS
    <3>1. /\ f \in 1 .. Len(req) /\ f \notin answered
          /\ u \in Tags /\ want[u] = f /\ req[f].kind = "flush"
          /\ \A x \in FlushesOf(o) : want[x] \notin answered
          /\ \A v \in Bufs : Looked(v) => rid[v] # want[o]
          /\ pc[Master] = "setflush" => rid[buf[Master]] # f
      BY <2>1 DEF ReplyingTo
    <3>2. Outstanding(u)
      BY <3>1, NoneIsNothing DEF Outstanding
    <3>3. u \notin free
      BY <1>12, <3>1, <3>2
    <3>4. want'[u] = f /\ want'[o] = want[o]
      BY <1>6, <1>13, <3>1, <3>2, <3>3
    <3>5. \A x \in FlushesOf(o)' : want'[x] \notin answered
      <4> SUFFICES ASSUME NEW x \in Tags, Outstanding(x)', req[want'[x]].old = o
                   PROVE  want'[x] \notin answered
        BY <1>1 DEF FlushesOf
      <4>1. Outstanding(x) /\ want'[x] = want[x]
        BY <1>6
      <4> QED BY <3>1, <4>1 DEF FlushesOf
    <3> QED BY <1>1, <1>9, <3>1, <3>4, <3>5 DEF ReplyingTo
  <2> QED BY <1>1, <2>1 DEF Once, Replying
<1> QED BY <1>14, <1>15, <1>17, <1>18, <1>19, <1>20, <1>21, <1>22, <1>23 DEF Once

(* The master's steps.                                                     *)
LEMMA OnceMaster ==
  ASSUME Inv, Once, MasterStep
  PROVE  Once'
<1>1. CASE SearchFound
  BY <1>1, OnceSearched
<1>2. CASE SearchAgain \/ TooManyProcs
  <2>1. PICK to \in {"search", "fatal"} : pc' = [pc EXCEPT ![Master] = to]
    BY <1>2 DEF SearchAgain, TooManyProcs, Goto
  <2>2. /\ pc[Master] \in {"search", "slave"}
        /\ UNCHANGED <<flushtag, tag, rid, req, want, answered, again, back, buf, rendVars>>
    BY <1>2 DEF SearchAgain, TooManyProcs, Goto, work, client, replies
  <2>3. to \in MasterPC /\ to \notin {"greet", "hand"} /\ \A s \in Slaves : buf'[s] = buf[s]
    BY <2>2 DEF MasterPC
  <2>4. /\ pc'[Master] = to /\ \A s \in Slaves : pc'[s] = pc[s]
        /\ \A w \in Bufs : /\ ~ Filling(w)'
                           /\ Looked(w)' => Looked(w)
                           /\ Early(w)' => Early(w)
    BY <2>1, <2>2, <2>3, MasterLooks
  <2>5. \A s \in Slaves : pc'[s] = "flushme" => flushtag[buf'[s]] # NOTAG
    BY <2>3, <2>4 DEF Once, Fresh
  <2>6. \A s \in Slaves : pc'[s] = "rflush" => pc[s] = "rflush" /\ buf'[s] = buf[s]
    BY <2>3, <2>4
  <2> QED BY <2>2, <2>4, <2>5, <2>6, OnceStays
<1>3. CASE FlushSet
  BY <1>3, OnceSet
<1>4. CASE SlaveFound \/ SlaveNew
  <2>1. /\ pc[Master] = "slave"
        /\ UNCHANGED <<flushtag, tag, rid, req, want, answered, again, back, buf, rendVars>>
    BY <1>4 DEF SlaveFound, SlaveNew, Goto, work, client, replies
  <2>2. /\ pc'[Master] \in {"greet", "hand"}
        /\ \A s \in Slaves : pc'[s] = pc[s] \/ (pc[s] = "none" /\ pc'[s] = "hello")
    BY <1>4, Everybody DEF SlaveFound, SlaveNew, Goto, Inv, Shape
  <2>3. \A p \in Procs : Met(p)' <=> Met(p)
    BY <2>1, RendStays
  <2>4. ~ Met(Master) /\ UNCHANGED rendval
    BY <2>1, OutIsOut, Everybody DEF Inv, Meetings, rendVars
  <2>5. \A w \in Bufs : Filling(w)' <=> Filling(w)
    BY <2>1, <2>2, <2>3, <2>4, Everybody DEF Filling
  <2>6. \A s \in Slaves, w \in Bufs : HasBuf(s, w)' => HasBuf(s, w) /\ pc'[s] = pc[s]
    BY <2>1, <2>2, <2>3, <2>4, Everybody DEF HasBuf, WorkingPC
  <2>7. \A w \in Bufs : /\ Looked(w)' => Looked(w)
                        /\ Early(w)' => Early(w)
                        /\ Filling(w)' => Filling(w)
    BY <2>5, <2>6 DEF Looked, Early
  <2>8. \A s \in Slaves : pc'[s] = "flushme" => flushtag[buf'[s]] # NOTAG
    BY <2>1, <2>2 DEF Once, Fresh
  <2>9. \A s \in Slaves : pc'[s] = "rflush" => pc[s] = "rflush" /\ buf'[s] = buf[s]
    BY <2>1, <2>2
  <2> QED BY <2>1, <2>2, <2>7, <2>8, <2>9, OnceStays
<1>5. CASE Rendezvous(Master)
  <2>1. /\ UNCHANGED <<flushtag, tag, rid, req, want, answered, again, back>>
    BY <1>5 DEF Rendezvous, work, client, replies
  <2>2. \A w \in Bufs : /\ Looked(w)' => Looked(w)
                        /\ Early(w)' => Early(w)
                        /\ Filling(w)' => Filling(w)
    BY <1>5, RendezvousLooks, Everybody
  <2>3. /\ pc'[Master] \notin {"read", "setflush", "flushme", "rflush"}
        /\ \A q \in Procs : q # Master => pc'[q] = pc[q] /\ buf'[q] = buf[q]
    <3>1. 0 \in Bufs
      BY Values DEF Bufs
    <3> QED BY <1>5, <3>1, RendezvousLooks, Everybody
  <2>4. \A s \in Slaves : pc'[s] = "flushme" => flushtag[buf'[s]] # NOTAG
    BY <2>3, Everybody DEF Once, Fresh
  <2>5. \A s \in Slaves : pc'[s] = "rflush" => pc[s] = "rflush" /\ buf'[s] = buf[s]
    BY <2>3, Everybody
  <2> QED BY <2>1, <2>2, <2>3, <2>4, <2>5, OnceStays
<1> QED BY <1>1, <1>2, <1>3, <1>4, <1>5 DEF MasterStep

(* The slaves' steps.                                                      *)
LEMMA OnceSlave ==
  ASSUME Inv, Once, NEW s \in Slaves, SlaveStep(s)
  PROVE  Once'
<1>1. CASE Rendezvous(s)
  <2>1. UNCHANGED <<flushtag, tag, rid, req, want, answered, again, back, hit, bufpid>>
    BY <1>1 DEF Rendezvous, work, client, replies
  <2>2. \A w \in Bufs : /\ Looked(w)' => Looked(w)
                        /\ Early(w)' => Early(w)
                        /\ Filling(w)' => Filling(w)
    BY <1>1, RendezvousLooks, Everybody
  <2>3. /\ pc'[s] \notin {"read", "setflush", "flushme", "rflush"}
        /\ \A q \in Procs : q # s => pc'[q] = pc[q] /\ buf'[q] = buf[q]
    <3>1. 0 \in Bufs
      BY Values DEF Bufs
    <3> QED BY <1>1, <3>1, RendezvousLooks, Everybody
  <2>4. \A t \in Slaves : pc'[t] = "flushme" => flushtag[buf'[t]] # NOTAG
    BY <2>3, Everybody DEF Once, Fresh
  <2>5. pc'[Master] = pc[Master] /\ buf'[Master] = buf[Master]
    BY <2>3, Everybody
  <2>6. \A t \in Slaves : pc'[t] = "rflush" => pc[t] = "rflush" /\ buf'[t] = buf[t]
    BY <2>3, Everybody
  <2> QED BY <2>1, <2>2, <2>4, <2>5, <2>6, OnceStays
<1>2. CASE SlaveStart(s) \/ SlaveCanInt(s) \/ SlaveTest(s) \/ (SlaveGetFid(s) /\ Known(Fid(s)))
  <2>1. PICK to \in WorkingPC :
          /\ pc[s] \in WorkingPC \ {"rflush", "giveback"} /\ pc' = [pc EXCEPT ![s] = to]
          /\ to \in {"test", "flushme", "giveback"} \/ pc[s] \notin {"test", "flushme"}
          /\ to # "rflush"
          /\ to = "flushme" => flushtag[buf[s]] # NOTAG
    BY <1>2 DEF SlaveStart, SlaveCanInt, SlaveTest, SlaveGetFid, Goto, WorkingPC, ToBeFlushed
  <2>2. UNCHANGED <<flushtag, tag, rid, req, want, answered, again, back, buf, hit, bufpid, rendVars>>
    <3>1. CASE SlaveStart(s) \/ SlaveCanInt(s) \/ SlaveTest(s)
      BY <3>1 DEF SlaveStart, SlaveCanInt, SlaveTest, work, client, replies
    <3>2. CASE SlaveGetFid(s) /\ Known(Fid(s))
      BY <3>2 DEF SlaveGetFid, work, client, replies
    <3> QED BY <1>2, <3>1, <3>2
  <2>3. /\ \A w \in Bufs : /\ Looked(w)' => Looked(w)
                           /\ Early(w)' => Early(w)
                           /\ Filling(w)' => Filling(w)
        /\ pc'[Master] = pc[Master] /\ pc'[s] = to
        /\ \A t \in Slaves : t # s => pc'[t] = pc[t]
    BY <2>1, <2>2, SlaveLooks
  <2>4. \A t \in Slaves : pc'[t] = "flushme" => flushtag[buf'[t]] # NOTAG
    BY <2>1, <2>2, <2>3 DEF Once, Fresh
  <2>5. \A t \in Slaves : pc'[t] = "rflush" => pc[t] = "rflush" /\ buf'[t] = buf[t]
    BY <2>1, <2>2, <2>3
  <2> QED BY <2>2, <2>3, <2>4, <2>5, OnceStays
<1>3. CASE (SlaveGetFid(s) /\ ~ Known(Fid(s))) \/ SlaveReply(s)
  <2> PICK w : w = buf[s]
    OBVIOUS
  <2>1. /\ pc[s] \in WorkingPC \ {"test", "flushme", "rflush", "giveback"}
        /\ pc' = [pc EXCEPT ![s] = "test"] /\ Reply(tag[w], rid[w])
        /\ UNCHANGED <<flushtag, tag, rid, req, want, hit, bufpid, buf, rendVars>>
    BY <1>3 DEF SlaveGetFid, SlaveReply, Goto, WorkingPC, work, client
  <2>2. w \in Bufs /\ HasBuf(s, w) /\ Early(w)
    <3>1. w \in Bufs /\ HasBuf(s, w)
      BY <2>1 DEF Inv, Slaving, HasBuf, WorkingPC
    <3> QED BY <2>1, <3>1 DEF Early
  <2> QED BY <2>1, <2>2, OnceReplied
<1>4. CASE SlaveRetag(s) \/ SlaveFlushMe(s)
  BY <1>4, OnceRetagged, OnceFlushed
<1>5. CASE SlaveGiveBack(s)
  BY <1>5, OnceGivenBack
<1>6. CASE SlaveRest(s)
  <2>1. /\ pc[s] = "rest" /\ pc' = [pc EXCEPT ![s] = "take"]
        /\ UNCHANGED <<flushtag, tag, rid, req, want, answered, again, back, buf, hit, bufpid, rendVars>>
    BY <1>6 DEF SlaveRest, Goto, work, client, replies
  <2>2. pc'[Master] = pc[Master] /\ pc'[s] = "take" /\ \A t \in Slaves : t # s => pc'[t] = pc[t]
    BY <2>1, Everybody DEF Inv, Shape
  <2>3. \A p \in Procs : Met(p)' <=> Met(p)
    BY <2>1, RendStays
  <2>4. ~ Met(s) /\ UNCHANGED rendval
    BY <2>1, OutIsOut, Everybody DEF Inv, Meetings, rendVars
  <2>5. \A w \in Bufs : Filling(w)' <=> Filling(w)
    BY <2>1, <2>2, <2>3, Everybody DEF Filling
  <2>6. \A t \in Slaves, w \in Bufs : HasBuf(t, w)' => HasBuf(t, w) /\ t # s
    BY <2>1, <2>2, <2>3, <2>4, Everybody DEF HasBuf, WorkingPC
  <2>7. \A w \in Bufs : /\ Looked(w)' => Looked(w)
                        /\ Early(w)' => Early(w)
                        /\ Filling(w)' => Filling(w)
    BY <2>2, <2>5, <2>6 DEF Looked, Early
  <2>8. \A t \in Slaves : pc'[t] = "flushme" => flushtag[buf'[t]] # NOTAG
    BY <2>1, <2>2 DEF Once, Fresh
  <2>9. \A t \in Slaves : pc'[t] = "rflush" => pc[t] = "rflush" /\ buf'[t] = buf[t]
    BY <2>1, <2>2
  <2> QED BY <2>1, <2>2, <2>7, <2>8, <2>9, OnceStays
<1> QED BY <1>1, <1>2, <1>3, <1>4, <1>5, <1>6 DEF SlaveStep

(* A condition variable that returns, and steps of nobody.                 *)
LEMMA OnceElse ==
  ASSUME Inv, Once, (\E p \in Procs : Spurious(p)) \/ UNCHANGED vars
  PROVE  Once'
<1>1. UNCHANGED <<flushtag, tag, rid, req, want, answered, again, back, buf, hit, bufpid, pc>>
  BY DEF Spurious, vars, work, client, replies
<1>2. UNCHANGED rendval /\ \A p \in Procs : Met(p)' <=> Met(p)
  <2>1. CASE UNCHANGED vars
    BY <2>1, RendStays DEF vars, rendVars
  <2>2. ASSUME NEW p \in Procs, Spurious(p)
        PROVE  UNCHANGED rendval /\ \A q \in Procs : Met(q)' <=> Met(q)
    BY <2>2, SleepKeeps DEF Inv, Spurious
  <2> QED BY <2>1, <2>2
<1>3. \A w \in Bufs : Filling(w)' <=> Filling(w)
  BY <1>1, <1>2, Everybody DEF Filling
<1>4. \A t \in Slaves, w \in Bufs : HasBuf(t, w)' <=> HasBuf(t, w)
  BY <1>1, <1>2, Everybody DEF HasBuf
<1>5. \A w \in Bufs : /\ Looked(w)' => Looked(w)
                      /\ Early(w)' => Early(w)
                      /\ Filling(w)' => Filling(w)
  BY <1>1, <1>3, <1>4 DEF Looked, Early
<1>6. \A t \in Slaves : pc'[t] = "flushme" => flushtag[buf'[t]] # NOTAG
  BY <1>1 DEF Once, Fresh
<1>7. \A t \in Slaves : pc'[t] = "rflush" => pc[t] = "rflush" /\ buf'[t] = buf[t]
  BY <1>1
<1> QED BY <1>1, <1>5, <1>6, <1>7, OnceStays

(* At first there are no requests.                                         *)
LEMMA InitiallyOnce == Init => Once
<1> SUFFICES ASSUME Init PROVE Once
  OBVIOUS
<1>1. /\ req = <<>> /\ back = <<>> /\ answered = {} /\ again = {}
      /\ want = [t \in Tags |-> None]
      /\ tag = [w \in Bufs |-> NOTAG] /\ rid = [w \in Bufs |-> 0] /\ flushtag = [w \in Bufs |-> NOTAG]
      /\ pc[Master] = "search" /\ \A s \in Slaves : pc[s] = "none"
  BY Everybody DEF Init
<1>2. \A w \in Bufs : ~ Filling(w) /\ ~ Early(w) /\ ~ Looked(w)
  BY <1>1 DEF Filling, Early, Looked, HasBuf, WorkingPC
<1>3. \A t \in Tags : ~ Outstanding(t)
  BY <1>1 DEF Outstanding
<1>4. Book
  <2>1. req \in Seq(Requests) /\ Len(req) = 0
    BY <1>1
  <2> QED BY <1>1, <1>3, <2>1 DEF Book
<1>5. Olds /\ Pending /\ Recorded /\ Unanswered /\ Replying /\ Setting /\ Fresh
  BY <1>1, <1>2, <1>3 DEF Olds, Pending, Recorded, Unanswered, Replying, Setting, Fresh
<1>6. Returning
  <2>1. back \in Seq([tag : Tags, id : 1 .. Len(req)]) /\ Len(back) = 0
    BY <1>1
  <2> QED BY <2>1 DEF Returning
<1> QED BY <1>4, <1>5, <1>6 DEF Once

(* The requests are never taken back, so a flush that has gone astray      *)
(* stays astray.                                                           *)
LEMMA StaysAstray ==
  ASSUME req \in Seq(Requests), [Next]_vars
  PROVE  req' \in Seq(Requests) /\ (Astray => Astray')
<1>1. CASE UNCHANGED req
  BY <1>1 DEF Astray
<1>2. CASE MasterReads
  <2>0. PICK t \in Tags : Quick(t) \/ BadVersion(t) \/ Slow(t) \/ Flush(t)
    BY <1>2 DEF MasterReads
  <2>1. \E r \in Requests : req' = Append(req, r)
    <3>1. \A what, r : Receive(what, r) => req' = Append(req, r)
      BY DEF Receive
    <3>2. \A kind \in {"quick", "io", "open"}, f \in Fids \cup {None} :
            Request(t, kind, f, None) \in Requests
      BY DEF Request, Requests
    <3>3. \A old \in Tags : \A found : FlushOf(t, old, found) \in Requests
      BY DEF FlushOf, BeingFlushed, Request, Requests
    <3>4. CASE Quick(t) \/ BadVersion(t)
      <4>1. Receive("quick", Request(t, "quick", None, None))
        BY <3>4 DEF Quick, BadVersion
      <4> QED BY <3>1, <3>2, <4>1
    <3>5. CASE Slow(t)
      <4>1. PICK f \in Fids, kind \in {"io", "open"} : Receive("slow", Request(t, kind, f, None))
        <5>1. PICK f \in Fids : Receive("slow", Request(t, "io", f, None))
                                \/ Receive("slow", Request(t, "open", f, None))
          BY <3>5 DEF Slow
        <5> QED BY <5>1
      <4> QED BY <3>1, <3>2, <4>1
    <3>6. CASE Flush(t)
      <4>1. PICK old \in Tags : \E found : Receive("flush", FlushOf(t, old, found))
        BY <3>6 DEF Flush
      <4> QED BY <3>1, <3>3, <4>1
    <3> QED BY <2>0, <3>4, <3>5, <3>6
  <2> PICK r \in Requests : req' = Append(req, r)
    BY <2>1
  <2>2. req' \in Seq(Requests) /\ \A f \in DOMAIN req : f \in DOMAIN req' /\ req'[f] = req[f]
    OBVIOUS
  <2> QED BY <2>2 DEF Astray
<1>3. CASE MasterStep
  BY <1>3, <1>1 DEF MasterStep, SearchFound, SearchAgain, FlushSet, SlaveFound, SlaveNew,
     TooManyProcs, Rendezvous, client
<1>4. ASSUME NEW s \in Slaves, SlaveStep(s)
      PROVE  UNCHANGED req
  BY <1>4 DEF SlaveStep, Rendezvous, SlaveStart, SlaveGetFid, SlaveCanInt, SlaveReply,
     SlaveTest, SlaveRetag, SlaveFlushMe, SlaveGiveBack, SlaveRest, client
<1>5. CASE (\E p \in Procs : Spurious(p)) \/ ClientTakes \/ UNCHANGED vars
  BY <1>5, <1>1 DEF Spurious, ClientTakes, vars, client
<1> QED BY <1>1, <1>2, <1>3, <1>4, <1>5 DEF Next

(* Whatever is flushed, and however often tags are used again: as long as  *)
(* every flush has found its request, and none comes while an earlier one  *)
(* of the same request is replied to, no request is answered twice and     *)
(* every reply is to the request that the client has under its tag         *)
(* (Xflush, blockingslave and reply, exportfs).                            *)
THEOREM AnswersAreOnce == Spec => []AnsweredOnce
<1> DEFINE OnceInv == Inv /\ req \in Seq(Requests) /\ (Astray \/ Once)
<1>1. Init => OnceInv
  BY InitiallyInv, InitiallyOnce DEF Once, Book
<1>2. Inv /\ Inv' /\ OnceInv /\ [Next]_vars => OnceInv'
  <2> SUFFICES ASSUME Inv, req \in Seq(Requests), Astray \/ Once, [Next]_vars
               PROVE  req' \in Seq(Requests) /\ (Astray' \/ Once')
    OBVIOUS
  <2>1. req' \in Seq(Requests) /\ (Astray => Astray')
    BY StaysAstray
  <2>2. ASSUME Once, ~ Astray'
        PROVE  Once'
    <3>1. CASE MasterReads
      BY <2>2, <3>1, OnceRead
    <3>2. CASE MasterStep
      BY <2>2, <3>2, OnceMaster
    <3>3. CASE \E s \in Slaves : SlaveStep(s)
      BY <2>2, <3>3, OnceSlave
    <3>4. CASE ClientTakes
      BY <2>2, <3>4, OnceTaken
    <3>5. CASE (\E p \in Procs : Spurious(p)) \/ UNCHANGED vars
      BY <2>2, <3>5, OnceElse
    <3> QED BY <3>1, <3>2, <3>3, <3>4, <3>5 DEF Next
  <2> QED BY <2>1, <2>2
<1>3. OnceInv => AnsweredOnce
  <2> SUFFICES ASSUME Once
               PROVE  /\ again = {}
                      /\ \A i \in DOMAIN back : /\ req[back[i].id].tag = back[i].tag
                                                /\ want[back[i].tag] = back[i].id
    BY DEF AnsweredOnce
  <2>1. ASSUME NEW i \in DOMAIN back
        PROVE  req[back[i].id].tag = back[i].tag /\ want[back[i].tag] = back[i].id
    <3> PICK x : x = back[i]
      OBVIOUS
    <3>1. i \in 1 .. Len(back)
      BY DEF Once, Returning
    <3>2. want[x.tag] = x.id /\ x.tag \in Tags /\ Outstanding(x.tag)
      BY <3>1, BackIs
    <3> QED BY <3>2 DEF Once, Book
  <2> QED BY <2>1 DEF Once, Book
<1>4. Spec => []OnceInv
  <2>1. OnceInv /\ []Inv /\ [][Next]_vars => []OnceInv
    BY <1>2, PTL
  <2> QED BY <1>1, <2>1, Invariance, PTL DEF Spec
<1> QED BY <1>3, <1>4, PTL

-----------------------------------------------------------------------------
(***************************************************************************)
(* Fourth part: the Files of the exported tree.                            *)
(***************************************************************************)

(* a set of naturals has a least element *)
LEMMA LeastNat ==
  ASSUME NEW T, T \in SUBSET Nat, T # {}
  PROVE  \E m \in T : \A k \in T : m <= k
<1> DEFINE F == {0 .. c-1 : c \in T}
           R == StrictSubsetOrdering(Nat)
<1>1. IsWellFoundedOn(R, FiniteSubsetsOf(Nat))
  BY FS_StrictSubsetOrderingWellFounded
<1>2. F \subseteq FiniteSubsetsOf(Nat)
  <2>1. ASSUME NEW c \in T PROVE 0 .. c-1 \in SUBSET Nat /\ IsFiniteSet(0 .. c-1)
    <3>1. c \in Nat /\ 0 \in Int /\ c - 1 \in Int
      OBVIOUS
    <3> QED BY <3>1, FS_Interval
  <2> QED BY <2>1 DEF FiniteSubsetsOf
<1>3. F # {}
  OBVIOUS
<1>4. \E x \in F : \A y \in F : ~ (<<y, x>> \in R)
  <2> HIDE DEF F, R
  <2> QED BY <1>1, <1>2, <1>3, WFMin
<1>5. PICK m \in T : \A y \in F : ~ (<<y, 0 .. m-1>> \in R)
  BY <1>4
<1>6. ASSUME NEW k \in T, k < m PROVE FALSE
  <2>1. 0 .. k-1 \in F
    OBVIOUS
  <2>2. 0 .. k-1 \subseteq 0 .. m-1 /\ 0 .. k-1 # 0 .. m-1
    <3>1. k \in 0 .. m-1 /\ k \notin 0 .. k-1
      BY <1>6
    <3> QED BY <3>1, <1>6
  <2>3. 0 .. k-1 \in SUBSET Nat /\ 0 .. m-1 \in SUBSET Nat
    OBVIOUS
  <2>4. <<0 .. k-1, 0 .. m-1>> \in R
    BY <2>2, <2>3 DEF StrictSubsetOrdering
  <2> QED BY <1>5, <2>1, <2>4
<1> QED BY <1>6

(* induction over the naturals, about a set *)
LEMMA NatInd ==
  ASSUME NEW G, 0 \in G, \A c \in Nat : c \in G => c + 1 \in G
  PROVE  Nat \subseteq G
<1> SUFFICES ASSUME Nat \ G # {} PROVE FALSE
  OBVIOUS
<1>1. PICK m \in Nat \ G : \A k \in Nat \ G : m <= k
  BY LeastNat
<1>2. m # 0 /\ m - 1 \in Nat
  BY <1>1
<1>3. m - 1 \in G
  BY <1>1, <1>2
<1> QED BY <1>1, <1>2, <1>3

Trees == [ref : [Files -> Nat], name : [Files -> Names \cup {Nil}],
          parent : [Files -> Files \cup {Nil}], child : [Files -> Seq(Files)]]

Live(t) == {x \in Files : t.ref[x] > 0}

(* the children of a File are live, know their parent and are listed once; *)
(* whoever has a child x that is listed                                    *)
Children(t) ==
  \A x \in Files : \A i \in 1 .. Len(t.child[x]) :
    /\ t.child[x][i] \in Live(t) /\ t.parent[t.child[x][i]] = x
    /\ \A j \in 1 .. Len(t.child[x]) : t.child[x][i] = t.child[x][j] => i = j

Listed(t, x) ==
  /\ t.parent[x] \in Files
  /\ \E i \in 1 .. Len(t.child[t.parent[x]]) : t.child[t.parent[x]][i] = x

Parents(t) == t.parent[Root] = Nil /\ \A x \in Live(t) \ {Root} : Listed(t, x)

(* every File is counted own[x] times besides once for each child *)
Counts(t, own) == \A x \in Files : t.ref[x] = own[x] + Len(t.child[x])

Owners(own) == own \in [Files -> Nat] /\ own[Root] > 0

Sound(t, own) == t \in Trees /\ Owners(own) /\ Children(t) /\ Parents(t) /\ Counts(t, own)

(* one owner more *)
Plus(own, x) == [y \in Files |-> IF y = x THEN own[y] + 1 ELSE own[y]]

(* the root keeps its owner *)
LEMMA PlusOwns ==
  ASSUME NEW own, Owners(own), NEW x
  PROVE  Owners(Plus(own, x))
BY RootIsFile DEF Owners, Plus

(* the order in which owners come does not matter *)
LEMMA PlusCommutes ==
  ASSUME NEW own, Owners(own), NEW x, NEW y
  PROVE  Plus(Plus(own, x), y) = Plus(Plus(own, y), x)
BY DEF Owners, Plus

(* who has an owner or a child is live *)
LEMMA OwnedLive ==
  ASSUME NEW own, NEW t, Sound(t, own), NEW x \in Files, own[x] > 0 \/ Len(t.child[x]) > 0
  PROVE  x \in Live(t)
<1>1. t.ref[x] = own[x] + Len(t.child[x]) /\ own[x] \in Nat /\ Len(t.child[x]) \in Nat
  BY DEF Sound, Counts, Owners, Trees
<1> QED BY <1>1 DEF Live

(* a reference less that was not the last *)
LEMMA FreeOneStays ==
  ASSUME NEW own, NEW t, NEW x \in Files, Sound(t, Plus(own, x)), Owners(own), t.ref[x] > 1
  PROVE  Sound([t EXCEPT !.ref[x] = @ - 1], own)
<1> DEFINE u == [t EXCEPT !.ref[x] = @ - 1]
<1>1. /\ u \in Trees /\ u.name = t.name /\ u.parent = t.parent /\ u.child = t.child
      /\ u.ref = [t.ref EXCEPT ![x] = @ - 1]
  <2>1. t \in Trees /\ t.ref[x] \in Nat
    BY DEF Sound, Trees
  <2>2. t.ref[x] - 1 \in Nat
    BY <2>1
  <2> QED BY <2>1, <2>2 DEF Trees
<1> HIDE DEF u
<1>2. t.ref \in [Files -> Nat]
  BY DEF Sound, Trees
<1>3. Live(u) = Live(t)
  BY <1>1, <1>2 DEF Live
<1>4. Children(u) /\ Parents(u)
  BY <1>1, <1>3 DEF Sound, Children, Parents, Listed
<1>5. Counts(u, own)
  <2>1. ASSUME NEW y \in Files PROVE u.ref[y] = own[y] + Len(u.child[y])
    <3>1. t.ref[y] = Plus(own, x)[y] + Len(t.child[y])
      BY DEF Sound, Counts
    <3>2. own[y] \in Nat /\ Len(t.child[y]) \in Nat
      BY DEF Sound, Trees, Owners
    <3>3. Plus(own, x)[y] = IF y = x THEN own[y] + 1 ELSE own[y]
      BY DEF Plus
    <3>4. u.ref[y] = (IF y = x THEN t.ref[y] - 1 ELSE t.ref[y]) /\ u.child[y] = t.child[y]
      BY <1>1, <1>2
    <3>5. t.ref[y] \in Nat
      BY <1>2
    <3> QED BY <3>1, <3>2, <3>3, <3>4, <3>5
  <2> QED BY <2>1 DEF Counts
<1> QED BY <1>1, <1>4, <1>5 DEF Sound, u

(* freeing x, which leaves p the children c *)
Freed(t, x, p, c) == [t EXCEPT !.ref[x] = 0, !.name[x] = Nil, !.parent[x] = Nil, !.child[p] = c]

IsFreed(u, t, x, p, c) ==
  /\ u \in Trees
  /\ \A y \in Files : /\ u.ref[y] = IF y = x THEN 0 ELSE t.ref[y]
                      /\ u.parent[y] = IF y = x THEN Nil ELSE t.parent[y]
                      /\ u.child[y] = IF y = p THEN c ELSE t.child[y]

(* the fields of Freed, File by File *)
LEMMA FreedFields ==
  ASSUME NEW t \in Trees, NEW x \in Files, NEW p \in Files, NEW c \in Seq(Files)
  PROVE  IsFreed(Freed(t, x, p, c), t, x, p, c)
<1>1. Freed(t, x, p, c) \in Trees
  BY DEF Freed, Trees
<1>2. ASSUME NEW y \in Files
      PROVE  /\ Freed(t, x, p, c).ref[y] = IF y = x THEN 0 ELSE t.ref[y]
             /\ Freed(t, x, p, c).parent[y] = IF y = x THEN Nil ELSE t.parent[y]
             /\ Freed(t, x, p, c).child[y] = IF y = p THEN c ELSE t.child[y]
  BY DEF Freed, Trees
<1> QED BY <1>1, <1>2 DEF IsFreed

(* the last reference of x: x goes, and its parent p is to lose a reference *)
LEMMA FreeOneFrees ==
  ASSUME NEW own, NEW t, NEW x \in Files, Sound(t, Plus(own, x)), Owners(own), ~ (t.ref[x] > 1),
         NEW p, p = t.parent[x]
  PROVE  /\ p \in Files /\ p # x
         /\ \E i \in 1 .. Len(t.child[p]) : t.child[p][i] = x
         /\ \A i \in 1 .. Len(t.child[p]) :
              t.child[p][i] = x =>
                /\ Sound(Freed(t, x, p, RemoveAt(t.child[p], i)), Plus(own, p))
                /\ Live(Freed(t, x, p, RemoveAt(t.child[p], i))) = Live(t) \ {x}
         /\ x \in Live(t)
<1>0. t \in Trees /\ t.ref \in [Files -> Nat] /\ t.child \in [Files -> Seq(Files)]
  BY DEF Sound, Trees
<1>1. t.ref[x] = 1 /\ own[x] = 0 /\ Len(t.child[x]) = 0
  <2>1. t.ref[x] = own[x] + 1 + Len(t.child[x])
    BY DEF Sound, Counts, Plus
  <2>2. own[x] \in Nat /\ Len(t.child[x]) \in Nat /\ t.ref[x] \in Nat
    BY <1>0 DEF Owners
  <2> QED BY <2>1, <2>2
<1>2. x # Root /\ x \in Live(t)
  BY <1>1, <1>0 DEF Owners, Live
<1>3. Listed(t, x)
  BY <1>2 DEF Sound, Parents
<1>4. p \in Files /\ \E i \in 1 .. Len(t.child[p]) : t.child[p][i] = x
  BY <1>3 DEF Listed
<1>5. p # x
  BY <1>4, <1>1
<1>6. ASSUME NEW i \in 1 .. Len(t.child[p]), t.child[p][i] = x
      PROVE  /\ Sound(Freed(t, x, p, RemoveAt(t.child[p], i)), Plus(own, p))
             /\ Live(Freed(t, x, p, RemoveAt(t.child[p], i))) = Live(t) \ {x}
  <2> DEFINE c == RemoveAt(t.child[p], i)
             u == Freed(t, x, p, c)
  <2>2. t.child[p] \in Seq(Files)
    BY <1>0, <1>4
  <2>3. /\ c \in Seq(Files) /\ Len(c) = Len(t.child[p]) - 1
        /\ \A j \in 1 .. Len(t.child[p]) - 1 : c[j] = IF j < i THEN t.child[p][j] ELSE t.child[p][j+1]
    <3>1. i \in DOMAIN t.child[p]
      BY <2>2
    <3> QED BY <2>2, <3>1, RemoveAtElements
  <2> HIDE DEF c
  <2>1. /\ u \in Trees
        /\ \A y \in Files : /\ u.ref[y] = IF y = x THEN 0 ELSE t.ref[y]
                            /\ u.parent[y] = IF y = x THEN Nil ELSE t.parent[y]
                            /\ u.child[y] = IF y = p THEN c ELSE t.child[y]
    <3>1. IsFreed(u, t, x, p, c)
      BY <1>0, <1>4, <2>3, FreedFields
    <3> HIDE DEF u
    <3> QED BY <3>1 DEF IsFreed
  <2> HIDE DEF u
  <2>4. Live(u) = Live(t) \ {x}
    BY <2>1, <1>0 DEF Live
  <2>5. u.child[p] = c /\ \A y \in Files : y # p => u.child[y] = t.child[y]
    BY <2>1, <1>0, <1>4
  <2>6. \A y \in Files : y # x => u.parent[y] = t.parent[y]
    BY <2>1, <1>0 DEF Trees
  <2>7. \A k \in 1 .. Len(t.child[p]) : k # i => t.child[p][k] # x
    BY <1>4, <1>6 DEF Sound, Children
  <2>8. \A j \in 1 .. Len(c) : \E k \in 1 .. Len(t.child[p]) \ {i} :
           c[j] = t.child[p][k] /\ k = IF j < i THEN j ELSE j + 1
    <3>1. Len(t.child[p]) \in Nat
      BY <2>2
    <3>2. ASSUME NEW j \in 1 .. Len(c) PROVE (IF j < i THEN j ELSE j + 1) \in 1 .. Len(t.child[p]) \ {i}
      BY <3>1, <2>3
    <3> QED BY <3>1, <3>2, <2>3
  <2>9. Children(u)
    <3>1. ASSUME NEW y \in Files, NEW j \in 1 .. Len(u.child[y])
          PROVE  /\ u.child[y][j] \in Live(u) /\ u.parent[u.child[y][j]] = y
                 /\ \A l \in 1 .. Len(u.child[y]) : u.child[y][j] = u.child[y][l] => j = l
      <4>1. CASE y = p
        <5>1. PICK k \in 1 .. Len(t.child[p]) \ {i} :
                 c[j] = t.child[p][k] /\ k = IF j < i THEN j ELSE j + 1
          BY <4>1, <2>5, <2>8
        <5>2. c[j] \in Live(t) /\ t.parent[c[j]] = p /\ c[j] # x
          BY <5>1, <2>7, <1>4 DEF Sound, Children
        <5>3. c[j] \in Live(u) /\ u.parent[c[j]] = p
          BY <5>2, <2>4, <2>6 DEF Live
        <5>4. ASSUME NEW l \in 1 .. Len(c), c[j] = c[l] PROVE j = l
          <6>1. PICK m \in 1 .. Len(t.child[p]) \ {i} :
                   c[l] = t.child[p][m] /\ m = IF l < i THEN l ELSE l + 1
            BY <2>8
          <6>2. t.child[p][k] = t.child[p][m]
            BY <6>1, <5>1, <5>4
          <6>3. \A a, b \in 1 .. Len(t.child[p]) : t.child[p][a] = t.child[p][b] => a = b
            BY <1>4 DEF Sound, Children
          <6>4. k = m
            BY <6>2, <6>3
          <6>5. j \in Int /\ l \in Int /\ i \in Int
            BY <4>1, <2>5, <2>3
          <6> QED BY <6>1, <6>4, <6>5, <5>1
        <5> QED BY <4>1, <2>5, <5>3, <5>4
      <4>2. CASE y # p
        <5>1. u.child[y] = t.child[y]
          BY <4>2, <2>5
        <5>2. t.child[y][j] \in Live(t) /\ t.parent[t.child[y][j]] = y
          BY <5>1 DEF Sound, Children
        <5>3. t.child[y][j] # x
          BY <5>2, <4>2
        <5> QED BY <5>1, <5>2, <5>3, <2>4, <2>6 DEF Sound, Children, Live
      <4> QED BY <4>1, <4>2
    <3> QED BY <3>1 DEF Children
  <2>10. Parents(u)
    <3>1. u.parent[Root] = Nil
      BY <1>2, <2>6, RootIsFile DEF Sound, Parents
    <3>2. ASSUME NEW y \in Live(u) \ {Root} PROVE Listed(u, y)
      <4>1. y # x /\ y \in Live(t) \ {Root} /\ y \in Files
        BY <2>4 DEF Live
      <4>2. Listed(t, y) /\ u.parent[y] = t.parent[y]
        BY <4>1, <2>6 DEF Sound, Parents
      <4>3. CASE t.parent[y] = p
        <5>1. PICK k \in 1 .. Len(t.child[p]) : t.child[p][k] = y
          BY <4>2, <4>3 DEF Listed
        <5>2. k # i /\ Len(t.child[p]) \in Nat
          BY <5>1, <4>1, <1>6, <2>2
        <5>3. CASE k < i
          <6>1. k \in 1 .. Len(t.child[p]) - 1
            BY <5>2, <5>3
          <6>2. c[k] = y /\ k \in 1 .. Len(c)
            BY <6>1, <5>3, <5>1, <2>3
          <6> QED BY <6>2, <4>2, <4>3, <2>5, <1>4 DEF Listed
        <5>4. CASE k > i
          <6>1. k - 1 \in 1 .. Len(t.child[p]) - 1 /\ ~ (k - 1 < i) /\ (k - 1) + 1 = k
            BY <5>2, <5>4
          <6>2. c[k-1] = t.child[p][k] /\ k - 1 \in 1 .. Len(c)
            BY <6>1, <2>3
          <6> QED BY <6>2, <5>1, <4>2, <4>3, <2>5, <1>4 DEF Listed
        <5> QED BY <5>2, <5>3, <5>4
      <4>4. CASE t.parent[y] # p
        BY <4>2, <4>4, <2>5 DEF Listed
      <4> QED BY <4>3, <4>4
    <3> QED BY <3>1, <3>2 DEF Parents
  <2>11. Counts(u, Plus(own, p))
    <3>1. ASSUME NEW y \in Files PROVE u.ref[y] = Plus(own, p)[y] + Len(u.child[y])
      <4>1. t.ref[y] = Plus(own, x)[y] + Len(t.child[y])
        BY DEF Sound, Counts
      <4>2. own[y] \in Nat /\ Len(t.child[y]) \in Nat
        BY <1>0 DEF Owners
      <4>3. Plus(own, x)[y] = (IF y = x THEN own[y] + 1 ELSE own[y])
            /\ Plus(own, p)[y] = (IF y = p THEN own[y] + 1 ELSE own[y])
        BY DEF Plus
      <4>4. CASE y = x
        <5>1. u.ref[y] = 0 /\ u.child[y] = t.child[y] /\ y # p
          BY <4>4, <2>1, <2>5, <1>5, <1>0
        <5> QED BY <5>1, <4>3, <4>4, <1>1
      <4>5. CASE y = p
        <5>1. u.ref[y] = t.ref[y] /\ Len(u.child[y]) = Len(t.child[y]) - 1
          BY <4>5, <2>1, <2>5, <2>3, <1>5, <1>0
        <5> QED BY <5>1, <4>1, <4>2, <4>3, <4>5, <1>5
      <4>6. CASE y # x /\ y # p
        <5>1. u.ref[y] = t.ref[y] /\ u.child[y] = t.child[y]
          BY <4>6, <2>1, <2>5, <1>0
        <5> QED BY <5>1, <4>1, <4>3, <4>6
      <4> QED BY <4>4, <4>5, <4>6
    <3> QED BY <3>1 DEF Counts
  <2> QED BY <2>1, <2>4, <2>9, <2>10, <2>11, PlusOwns DEF Sound, u, c
<1> QED BY <1>2, <1>4, <1>5, <1>6

(* what the loop of freefile keeps: the File it is at has an owner too many *)
Freeing(s, own) ==
  \/ s.at = Nil /\ Sound(s.tree, own)
  \/ s.at \in Files /\ Sound(s.tree, Plus(own, s.at))

(* one turn keeps it, and is the last or frees a File *)
LEMMA FreeOneFreeing ==
  ASSUME NEW own, Owners(own), NEW s, Freeing(s, own)
  PROVE  /\ Freeing(FreeOne(s), own)
         /\ FreeOne(s).at = Nil \/ \E x \in Live(s.tree) : Live(FreeOne(s).tree) = Live(s.tree) \ {x}
<1>1. CASE s.at = Nil
  BY <1>1 DEF FreeOne
<1>2. CASE s.at \in Files
  <2> DEFINE t == s.tree
             x == s.at
             p == t.parent[x]
             e == CHOOSE i \in DOMAIN t.child[p] : t.child[p][i] = x
  <2>0. x \in Files /\ x # Nil /\ Sound(t, Plus(own, x))
    BY <1>2, NilIsNew DEF Freeing
  <2>1. CASE t.ref[x] > 1
    <3>1. FreeOne(s) = [tree |-> [t EXCEPT !.ref[x] = @ - 1], at |-> Nil]
      BY <2>0, <2>1 DEF FreeOne
    <3>2. Sound([t EXCEPT !.ref[x] = @ - 1], own)
      BY <2>0, <2>1, FreeOneStays
    <3> QED BY <3>1, <3>2 DEF Freeing
  <2>2. CASE ~ (t.ref[x] > 1)
    <3> DEFINE u == Freed(t, x, p, RemoveAt(t.child[p], e))
    <3>1. FreeOne(s) = [tree |-> u, at |-> p]
      BY <2>0, <2>2 DEF FreeOne, Freed
    <3> HIDE DEF t, x, p
    <3>2. p = t.parent[x]
      BY DEF t, x, p
    <3> HIDE DEF e
    <3>3. /\ p \in Files
          /\ \E i \in 1 .. Len(t.child[p]) : t.child[p][i] = x
          /\ \A i \in 1 .. Len(t.child[p]) :
               t.child[p][i] = x =>
                 /\ Sound(Freed(t, x, p, RemoveAt(t.child[p], i)), Plus(own, p))
                 /\ Live(Freed(t, x, p, RemoveAt(t.child[p], i))) = Live(t) \ {x}
          /\ x \in Live(t)
      BY <2>0, <2>2, <3>2, FreeOneFrees
    <3>4. e \in 1 .. Len(t.child[p]) /\ t.child[p][e] = x
      <4>1. t.child[p] \in Seq(Files)
        BY <2>0, <3>3 DEF Sound, Trees
      <4>2. DOMAIN t.child[p] = 1 .. Len(t.child[p])
        BY <4>1
      <4> QED BY <3>3, <4>2 DEF e
    <3>5. Sound(u, Plus(own, p)) /\ Live(u) = Live(t) \ {x}
      BY <3>3, <3>4
    <3> HIDE DEF u
    <3> QED BY <3>1, <3>3, <3>5 DEF Freeing, t
  <2> QED BY <2>1, <2>2
<1> QED BY <1>1, <1>2 DEF Freeing

(* the function that is the loop, up to n turns *)
FreeLoop(t, x, n, f) ==
  f = [i \in 0 .. n |-> IF i = 0 THEN [tree |-> t, at |-> x] ELSE FreeOne(f[i-1])]

(* there is such a function for each number of turns *)
LEMMA FreeLoopExists ==
  ASSUME NEW t, NEW x
  PROVE  \A n \in Nat : \E f : FreeLoop(t, x, n, f)
<1> DEFINE s0 == [tree |-> t, at |-> x]
           G == {n \in Nat : \E f : FreeLoop(t, x, n, f)}
<1>1. 0 \in G
  <2> DEFINE f == [i \in 0 .. 0 |-> s0]
  <2>1. f = [i \in 0 .. 0 |-> IF i = 0 THEN s0 ELSE FreeOne(f[i-1])]
    OBVIOUS
  <2>2. FreeLoop(t, x, 0, f)
    BY <2>1 DEF FreeLoop
  <2> QED BY <2>2
<1>2. ASSUME NEW n \in Nat, n \in G PROVE n + 1 \in G
  <2>1. PICK f : FreeLoop(t, x, n, f)
    BY <1>2
  <2> DEFINE g == [i \in 0 .. n+1 |-> IF i = 0 THEN s0 ELSE FreeOne(f[i-1])]
  <2>2. ASSUME NEW i \in 0 .. n PROVE g[i] = f[i]
    <3>1. f[i] = IF i = 0 THEN s0 ELSE FreeOne(f[i-1])
      BY <2>1 DEF FreeLoop
    <3>2. i \in 0 .. n+1
      OBVIOUS
    <3> QED BY <3>1, <3>2
  <2>3. g = [i \in 0 .. n+1 |-> IF i = 0 THEN s0 ELSE FreeOne(g[i-1])]
    <3>1. ASSUME NEW i \in 0 .. n+1, i # 0 PROVE g[i-1] = f[i-1]
      <4>1. i - 1 \in 0 .. n
        BY <3>1
      <4> HIDE DEF g
      <4> QED BY <4>1, <2>2
    <3> QED BY <3>1
  <2>4. FreeLoop(t, x, n+1, g)
    BY <2>3 DEF FreeLoop
  <2> QED BY <2>4
<1> HIDE DEF G
<1>3. Nat \subseteq G
  BY <1>1, <1>2, NatInd
<1> QED BY <1>3 DEF G

(* FreeFile is its last value *)
LEMMA FreeFileDef ==
  ASSUME NEW t, NEW x, NEW n \in Nat, n = Cardinality(Files)
  PROVE  \E f : FreeLoop(t, x, n, f) /\ FreeFile(t, x) = f[n].tree
<1>1. \E f : FreeLoop(t, x, n, f)
  BY FreeLoopExists
<1> DEFINE h == CHOOSE f : f = [i \in 0 .. n |-> IF i = 0 THEN [tree |-> t, at |-> x]
                                                ELSE FreeOne(f[i-1])]
<1>2. FreeLoop(t, x, n, h)
  BY <1>1 DEF FreeLoop
<1>3. FreeFile(t, x) = h[n].tree
  BY DEF FreeFile
<1> QED BY <1>2, <1>3

(***************************************************************************)
(* freefile gives back one reference.  Its loop frees a live File in every *)
(* turn but the last, so it ends.                                          *)
(***************************************************************************)
LEMMA FreeFileSound ==
  ASSUME NEW own, Owners(own), NEW t, NEW x \in Files, Sound(t, Plus(own, x))
  PROVE  Sound(FreeFile(t, x), own)
<1> DEFINE n == Cardinality(Files)
<1>0. n \in Nat
  BY FiniteAre, FS_CardinalityType
<1>1. PICK f : FreeLoop(t, x, n, f) /\ FreeFile(t, x) = f[n].tree
  BY <1>0, FreeFileDef
<1> DEFINE Ends(i) == f[i].at = Nil \/ Cardinality(Live(f[i].tree)) + i <= n
           G == {i \in Nat : i \in 0 .. n => Freeing(f[i], own) /\ Ends(i)}
<1>2. \A u : IsFiniteSet(Live(u)) /\ Cardinality(Live(u)) \in Nat
  <2>1. ASSUME NEW u PROVE IsFiniteSet(Live(u)) /\ Cardinality(Live(u)) \in Nat
    <3>1. Live(u) \subseteq Files
      BY DEF Live
    <3> QED BY <3>1, FiniteAre, FS_Subset, FS_CardinalityType
  <2> QED BY <2>1
<1>3. 0 \in G
  <2>1. f[0] = [tree |-> t, at |-> x]
    BY <1>1, <1>0 DEF FreeLoop
  <2>2. Freeing(f[0], own)
    BY <2>1 DEF Freeing
  <2>3. Live(t) \subseteq Files
    BY DEF Live
  <2>4. Cardinality(Live(t)) <= n /\ Cardinality(Live(t)) \in Nat
    BY <2>3, <1>2, FiniteAre, FS_Subset
  <2>5. Ends(0)
    BY <2>1, <2>4
  <2> QED BY <2>2, <2>5
<1>4. ASSUME NEW i \in Nat, i \in G PROVE i + 1 \in G
  <2> SUFFICES ASSUME i + 1 \in 0 .. n PROVE Freeing(f[i+1], own) /\ Ends(i+1)
    OBVIOUS
  <2>1. Freeing(f[i], own) /\ Ends(i)
    BY <1>4, <1>0
  <2>2. f[i+1] = FreeOne(f[i])
    <3> DEFINE j == i + 1
    <3>1. j \in 0 .. n /\ j # 0 /\ j - 1 = i
      OBVIOUS
    <3> HIDE DEF j
    <3>2. f[j] = FreeOne(f[j-1])
      BY <3>1, <1>1 DEF FreeLoop
    <3> QED BY <3>1, <3>2 DEF j
  <2>3. /\ Freeing(FreeOne(f[i]), own)
        /\ \/ FreeOne(f[i]).at = Nil
           \/ \E y \in Live(f[i].tree) : Live(FreeOne(f[i]).tree) = Live(f[i].tree) \ {y}
    BY <2>1, FreeOneFreeing
  <2>4. CASE FreeOne(f[i]).at = Nil
    BY <2>2, <2>3, <2>4
  <2>5. CASE FreeOne(f[i]).at # Nil
    <3>1. f[i].at # Nil
      BY <2>5 DEF FreeOne
    <3>2. PICK y \in Live(f[i].tree) : Live(FreeOne(f[i]).tree) = Live(f[i].tree) \ {y}
      BY <2>3, <2>5
    <3>3. Cardinality(Live(f[i].tree) \ {y}) = Cardinality(Live(f[i].tree)) - 1
      BY <3>2, <1>2, FS_RemoveElement
    <3>4. Cardinality(Live(f[i].tree)) + i <= n /\ Cardinality(Live(f[i].tree)) \in Nat
      BY <3>1, <2>1, <1>2
    <3>5. Cardinality(Live(f[i+1].tree)) + (i + 1) <= n
      <4> DEFINE k == Cardinality(Live(f[i].tree))
      <4>1. Cardinality(Live(f[i+1].tree)) = k - 1
        BY <3>2, <3>3, <2>2
      <4>2. k \in Nat /\ k + i <= n
        BY <3>4
      <4> HIDE DEF k, n
      <4> QED BY <4>1, <4>2, <1>0
    <3> QED BY <3>5, <2>2, <2>3
  <2> QED BY <2>4, <2>5
<1> HIDE DEF G
<1>5. n \in G
  BY <1>3, <1>4, <1>0, NatInd
<1>6. Freeing(f[n], own) /\ Ends(n)
  BY <1>5, <1>0 DEF G
<1>7. f[n].at = Nil
  <2> SUFFICES ASSUME f[n].at # Nil PROVE FALSE
    OBVIOUS
  <2> DEFINE u == f[n].tree
             y == f[n].at
  <2>1. y \in Files /\ Sound(u, Plus(own, y))
    BY <1>6 DEF Freeing
  <2>2. y \in Live(u)
    <3>1. Plus(own, y)[y] > 0
      BY <2>1 DEF Plus, Owners
    <3> HIDE DEF u, y
    <3> QED BY <2>1, <3>1, OwnedLive
  <2>3. Cardinality(Live(u)) = 0
    BY <1>6, <1>0, <1>2
  <2> QED BY <2>2, <2>3, <1>2, FS_EmptySet
<1> QED BY <1>1, <1>6, <1>7, NilIsNew DEF Freeing

(* one more reference to a live File *)
LEMMA AddRefSound ==
  ASSUME NEW own, NEW t, Sound(t, own), NEW x \in Live(t)
  PROVE  Sound(AddRef(t, x), Plus(own, x))
<1> DEFINE u == AddRef(t, x)
<1>0. x \in Files /\ t.ref[x] > 0 /\ t.ref \in [Files -> Nat]
  BY DEF Live, Sound, Trees
<1>1. /\ u \in Trees /\ u.name = t.name /\ u.parent = t.parent /\ u.child = t.child
      /\ u.ref = [t.ref EXCEPT ![x] = @ + 1]
  <2>1. t \in Trees /\ t.ref[x] \in Nat
    BY <1>0 DEF Sound
  <2>2. t.ref[x] + 1 \in Nat
    BY <2>1
  <2> QED BY <1>0, <2>1, <2>2 DEF AddRef, Trees
<1> HIDE DEF u
<1>2. Live(u) = Live(t)
  BY <1>0, <1>1 DEF Live
<1>3. Children(u) /\ Parents(u)
  BY <1>1, <1>2 DEF Sound, Children, Parents, Listed
<1>4. Counts(u, Plus(own, x))
  <2>1. ASSUME NEW y \in Files PROVE u.ref[y] = Plus(own, x)[y] + Len(u.child[y])
    <3>1. t.ref[y] = own[y] + Len(t.child[y])
      BY DEF Sound, Counts
    <3>2. own[y] \in Nat /\ Len(t.child[y]) \in Nat
      BY DEF Sound, Trees, Owners
    <3>3. Plus(own, x)[y] = IF y = x THEN own[y] + 1 ELSE own[y]
      BY DEF Plus
    <3>4. u.ref[y] = (IF y = x THEN t.ref[y] + 1 ELSE t.ref[y]) /\ u.child[y] = t.child[y]
      BY <1>0, <1>1
    <3> QED BY <3>1, <3>2, <3>3, <3>4
  <2> QED BY <2>1 DEF Counts
<1> QED BY <1>1, <1>3, <1>4, PlusOwns DEF Sound, u

(* the parent of a live File is live *)
LEMMA ParentLive ==
  ASSUME NEW own, NEW t, Sound(t, own), NEW x \in Live(t), t.parent[x] # Nil
  PROVE  t.parent[x] \in Live(t)
<1>1. x # Root
  BY DEF Sound, Parents
<1>2. Listed(t, x)
  BY <1>1 DEF Sound, Parents
<1>3. t.parent[x] \in Files /\ \E i \in 1 .. Len(t.child[t.parent[x]]) : TRUE
  BY <1>2 DEF Listed
<1>4. Len(t.child[t.parent[x]]) \in Nat
  BY <1>3 DEF Sound, Trees
<1>5. Len(t.child[t.parent[x]]) > 0
  BY <1>3, <1>4
<1> QED BY <1>3, <1>5, OwnedLive

(* making x, the newest child of d *)
Made(t, x, d, s) ==
  [t EXCEPT !.ref[x] = 1, !.ref[d] = @ + 1, !.name[x] = s, !.parent[x] = d,
            !.child[d] = <<x>> \o @]

IsMade(u, t, x, d) ==
  /\ u \in Trees
  /\ \A y \in Files : /\ u.ref[y] = IF y = x THEN 1 ELSE IF y = d THEN t.ref[y] + 1 ELSE t.ref[y]
                      /\ u.parent[y] = IF y = x THEN d ELSE t.parent[y]
                      /\ u.child[y] = IF y = d THEN <<x>> \o t.child[d] ELSE t.child[y]

(* the fields of Made, File by File *)
LEMMA MadeFields ==
  ASSUME NEW t \in Trees, NEW x \in Files, NEW d \in Files, x # d, NEW s \in Names
  PROVE  IsMade(Made(t, x, d, s), t, x, d)
<1> DEFINE c == <<x>> \o t.child[d]
           n == t.ref[d] + 1
<1>1. c \in Seq(Files) /\ n \in Nat
  BY DEF Trees
<1>2. Made(t, x, d, s) = [t EXCEPT !.ref[x] = 1, !.ref[d] = n, !.name[x] = s, !.parent[x] = d,
                                   !.child[d] = c]
  BY DEF Made, Trees
<1> DEFINE u == [t EXCEPT !.ref[x] = 1, !.ref[d] = n, !.name[x] = s, !.parent[x] = d,
                          !.child[d] = c]
<1> HIDE DEF c, n
<1>3. u \in Trees
  BY <1>1 DEF Trees
<1>4. ASSUME NEW y \in Files
      PROVE  /\ u.ref[y] = IF y = x THEN 1 ELSE IF y = d THEN n ELSE t.ref[y]
             /\ u.parent[y] = IF y = x THEN d ELSE t.parent[y]
             /\ u.child[y] = IF y = d THEN c ELSE t.child[y]
  BY <1>1 DEF Trees
<1> HIDE DEF u
<1> QED BY <1>2, <1>3, <1>4 DEF IsMade, c, n, u

(* a new File below a live one, with one owner *)
LEMMA MadeSound ==
  ASSUME NEW own, NEW t, Sound(t, own), NEW d \in Live(t), NEW x \in Unused(t), NEW s \in Names
  PROVE  Sound(Made(t, x, d, s), Plus(own, x))
<1> DEFINE u == Made(t, x, d, s)
           c == <<x>> \o t.child[d]
<1>0. /\ t \in Trees /\ t.ref \in [Files -> Nat] /\ t.child \in [Files -> Seq(Files)]
      /\ x \in Files /\ d \in Files /\ t.ref[x] = 0 /\ t.ref[d] > 0 /\ x # d
  BY DEF Sound, Trees, Unused, Live
<1>1. /\ u \in Trees
      /\ \A y \in Files : /\ u.ref[y] = IF y = x THEN 1 ELSE IF y = d THEN t.ref[y] + 1 ELSE t.ref[y]
                          /\ u.parent[y] = IF y = x THEN d ELSE t.parent[y]
                          /\ u.child[y] = IF y = d THEN c ELSE t.child[y]
  <2>1. IsMade(u, t, x, d)
    BY <1>0, MadeFields
  <2> HIDE DEF u
  <2> QED BY <2>1 DEF IsMade
<1> HIDE DEF u
<1>2. Live(u) = Live(t) \cup {x} /\ x \notin Live(t)
  <2>1. ASSUME NEW y \in Files PROVE u.ref[y] > 0 <=> t.ref[y] > 0 \/ y = x
    <3>1. t.ref[y] \in Nat /\ t.ref[d] \in Nat
      BY <1>0
    <3>2. u.ref[y] = IF y = x THEN 1 ELSE IF y = d THEN t.ref[y] + 1 ELSE t.ref[y]
      BY <1>1
    <3> QED BY <3>1, <3>2, <1>0
  <2>2. \A y \in Files : u.ref[y] > 0 <=> t.ref[y] > 0 \/ y = x
    BY <2>1
  <2> QED BY <2>2, <1>0 DEF Live
<1>3. own[x] = 0 /\ Len(t.child[x]) = 0
  <2>1. own[x] \in Nat /\ Len(t.child[x]) \in Nat /\ t.ref[x] = own[x] + Len(t.child[x])
    BY <1>0 DEF Sound, Owners, Counts
  <2> QED BY <2>1, <1>0
<1>4. x # Root
  BY <1>3 DEF Sound, Owners
<1>5. t.child[d] \in Seq(Files) /\ Len(t.child[d]) \in Nat
  BY <1>0
<1>6. /\ Len(c) = Len(t.child[d]) + 1 /\ c[1] = x
      /\ \A j \in 1 .. Len(c) : j # 1 => j - 1 \in 1 .. Len(t.child[d]) /\ c[j] = t.child[d][j-1]
      /\ \A j \in 1 .. Len(t.child[d]) : j + 1 \in 1 .. Len(c) /\ c[j+1] = t.child[d][j]
  <2>1. Len(c) = Len(t.child[d]) + 1 /\ c[1] = x
    BY <1>5
  <2>2. ASSUME NEW j \in 1 .. Len(c), j # 1 PROVE j - 1 \in 1 .. Len(t.child[d]) /\ c[j] = t.child[d][j-1]
    BY <1>5, <2>1, <2>2
  <2>3. ASSUME NEW j \in 1 .. Len(t.child[d]) PROVE j + 1 \in 1 .. Len(c) /\ c[j+1] = t.child[d][j]
    <3>1. j + 1 \in 1 .. Len(c) /\ j + 1 # 1 /\ (j + 1) - 1 = j
      BY <2>1, <1>5
    <3> HIDE DEF c
    <3> QED BY <3>1, <2>2
  <2> QED BY <2>1, <2>2, <2>3
<1> HIDE DEF c
<1>7. \A y \in Files : \A j \in 1 .. Len(t.child[y]) : t.child[y][j] \in Files /\ t.child[y][j] # x
  BY <1>2 DEF Sound, Children, Live
<1>8. Children(u)
  <2>1. ASSUME NEW y \in Files, NEW j \in 1 .. Len(u.child[y])
        PROVE  /\ u.child[y][j] \in Live(u) /\ u.parent[u.child[y][j]] = y
               /\ \A l \in 1 .. Len(u.child[y]) : u.child[y][j] = u.child[y][l] => j = l
    <3>1. CASE y # d
      <4>1. u.child[y] = t.child[y]
        BY <3>1, <1>1
      <4>2. t.child[y][j] \in Files /\ t.child[y][j] # x
        BY <4>1, <1>7
      <4> QED BY <4>1, <4>2, <1>1, <1>2 DEF Sound, Children
    <3>2. CASE y = d
      <4>1. u.child[y] = c
        BY <3>2, <1>1
      <4>2. CASE j = 1
        <5>1. ASSUME NEW l \in 1 .. Len(c), l # 1 PROVE c[l] # x
          <6>1. l - 1 \in 1 .. Len(t.child[d]) /\ c[l] = t.child[d][l-1]
            BY <5>1, <1>6
          <6> QED BY <6>1, <1>0, <1>7
        <5> QED BY <4>1, <4>2, <5>1, <3>2, <1>0, <1>1, <1>2, <1>6
      <4>3. CASE j # 1
        <5>1. j - 1 \in 1 .. Len(t.child[d]) /\ c[j] = t.child[d][j-1]
          BY <4>1, <4>3, <1>6
        <5>2. c[j] \in Files /\ c[j] # x /\ c[j] \in Live(t) /\ t.parent[c[j]] = d
          <6> DEFINE k == j - 1
          <6>1. k \in 1 .. Len(t.child[d]) /\ c[j] = t.child[d][k]
            BY <5>1
          <6> HIDE DEF k
          <6>2. t.child[d][k] \in Files /\ t.child[d][k] # x
            BY <6>1, <1>0, <1>7
          <6>3. t.child[d][k] \in Live(t) /\ t.parent[t.child[d][k]] = d
            BY <6>1, <1>0 DEF Sound, Children
          <6> QED BY <6>1, <6>2, <6>3
        <5>3. ASSUME NEW l \in 1 .. Len(c), c[j] = c[l] PROVE j = l
          <6>1. l # 1
            BY <5>2, <5>3, <1>6
          <6>2. l - 1 \in 1 .. Len(t.child[d]) /\ c[l] = t.child[d][l-1]
            BY <6>1, <1>6
          <6>3. j - 1 = l - 1
            BY <6>2, <5>1, <5>3, <1>0 DEF Sound, Children
          <6>4. j \in Int /\ l \in Int
            BY <4>1
          <6> QED BY <6>3, <6>4
        <5> QED BY <4>1, <5>2, <5>3, <3>2, <1>1, <1>2
      <4> QED BY <4>2, <4>3
    <3> QED BY <3>1, <3>2
  <2> QED BY <2>1 DEF Children
<1>9. Parents(u)
  <2>1. u.parent[Root] = Nil
    BY <1>1, <1>4, RootIsFile DEF Sound, Parents
  <2>2. ASSUME NEW y \in Live(u) \ {Root} PROVE Listed(u, y)
    <3>0. y \in Files
      BY DEF Live
    <3>1. CASE y = x
      <4>1. u.parent[y] = d /\ u.child[d] = c /\ c[1] = y /\ 1 \in 1 .. Len(c)
        BY <3>1, <1>0, <1>1, <1>5, <1>6
      <4> QED BY <4>1, <1>0 DEF Listed
    <3>2. CASE y # x
      <4>1. Listed(t, y) /\ u.parent[y] = t.parent[y]
        BY <3>0, <3>2, <1>1, <1>2 DEF Sound, Parents
      <4>2. CASE t.parent[y] = d
        <5>1. PICK i \in 1 .. Len(t.child[d]) : t.child[d][i] = y
          BY <4>1, <4>2 DEF Listed
        <5>2. i + 1 \in 1 .. Len(c) /\ c[i+1] = y /\ u.child[d] = c
          BY <5>1, <1>0, <1>1, <1>6
        <5> QED BY <5>2, <4>1, <4>2, <1>0 DEF Listed
      <4>3. CASE t.parent[y] # d
        BY <4>1, <4>3, <1>1 DEF Listed
      <4> QED BY <4>2, <4>3
    <3> QED BY <3>1, <3>2
  <2> QED BY <2>1, <2>2 DEF Parents
<1>10. Counts(u, Plus(own, x))
  <2>1. ASSUME NEW y \in Files PROVE u.ref[y] = Plus(own, x)[y] + Len(u.child[y])
    <3>1. t.ref[y] = own[y] + Len(t.child[y]) /\ own[y] \in Nat /\ Len(t.child[y]) \in Nat
      BY <1>0 DEF Sound, Counts, Owners
    <3>2. Plus(own, x)[y] = IF y = x THEN own[y] + 1 ELSE own[y]
      BY DEF Plus
    <3>3. u.ref[y] = IF y = x THEN 1 ELSE IF y = d THEN t.ref[y] + 1 ELSE t.ref[y]
      BY <1>1
    <3>4. Len(u.child[y]) = IF y = d THEN Len(t.child[y]) + 1 ELSE Len(t.child[y])
      BY <1>1, <1>6
    <3> QED BY <3>1, <3>2, <3>3, <3>4, <1>0, <1>3
  <2> QED BY <2>1 DEF Counts
<1> QED BY <1>1, <1>8, <1>9, <1>10, PlusOwns DEF Sound, u

(* who has come to a File is one of its owners, besides those in base *)
Placed(r, base) == r.file \in Files /\ Sound(r.tree, Plus(base, r.file))

(* file: the child of that name, or a new one *)
LEMMA FileSound ==
  ASSUME NEW own, NEW t, Sound(t, own), NEW d \in Live(t), NEW s \in Names, Unused(t) # {}
  PROVE  Placed(File(t, d, s), own)
<1> DEFINE same == {i \in DOMAIN t.child[d] : t.name[t.child[d][i]] = s}
           k == CHOOSE i \in same : \A j \in same : i <= j
           x == t.child[d][k]
           y == CHOOSE z \in Unused(t) : TRUE
<1>0. t.child[d] \in Seq(Files) /\ DOMAIN t.child[d] = 1 .. Len(t.child[d]) /\ d \in Files
  BY DEF Sound, Trees, Live
<1>1. CASE same # {}
  <2>1. File(t, d, s) = [file |-> x, tree |-> AddRef(t, x)]
    BY <1>1 DEF File
  <2>2. k \in same
    <3>1. same \in SUBSET Nat
      BY <1>0
    <3>2. \E i \in same : \A j \in same : i <= j
      <4> HIDE DEF same
      <4> QED BY <1>1, <3>1, LeastNat
    <3> HIDE DEF same
    <3> QED BY <3>2
  <2>3. k \in 1 .. Len(t.child[d])
    BY <2>2, <1>0
  <2> HIDE DEF k
  <2>4. x \in Live(t)
    BY <2>3, <1>0 DEF Sound, Children
  <2>5. x \in Files
    BY <2>4 DEF Live
  <2> HIDE DEF x
  <2> QED BY <2>1, <2>4, <2>5, AddRefSound DEF Placed
<1>2. CASE same = {}
  <2>1. File(t, d, s) = [file |-> y, tree |-> Made(t, y, d, s)]
    BY <1>2 DEF File, Made
  <2>2. y \in Unused(t)
    OBVIOUS
  <2>3. y \in Files
    BY <2>2 DEF Unused
  <2> HIDE DEF y
  <2> QED BY <2>1, <2>2, <2>3, MadeSound DEF Placed
<1> QED BY <1>1, <1>2

(* a walk, on its way or ended *)
Walked == [file : Files, tree : Trees, ok : BOOLEAN]

(* x is left for the File that a name led to *)
LEMMA AcceptSound ==
  ASSUME NEW base, Owners(base), NEW x \in Files, NEW to, Placed(to, Plus(base, x))
  PROVE  Accept(to, x) \in Walked /\ Placed(Accept(to, x), base)
<1>1. to.file \in Files /\ Sound(to.tree, Plus(Plus(base, to.file), x))
  <2>1. to.file \in Files /\ Sound(to.tree, Plus(Plus(base, x), to.file))
    BY DEF Placed
  <2> QED BY <2>1, PlusCommutes
<1>2. Sound(FreeFile(to.tree, x), Plus(base, to.file))
  BY <1>1, PlusOwns, FreeFileSound
<1>3. FreeFile(to.tree, x) \in Trees
  BY <1>2 DEF Sound
<1> QED BY <1>1, <1>2, <1>3 DEF Accept, Walked, Placed

(* one name of a walk *)
LEMMA WalkOneSound ==
  ASSUME NEW base, Owners(base), NEW r \in Walked, Placed(r, base),
         NEW s \in Names \cup {".."}, NEW q \in WalkOne(r, s)
  PROVE  q \in Walked /\ Placed(q, base)
<1> DEFINE x == r.file
           t == r.tree
<1>1. /\ x \in Files /\ Sound(t, Plus(base, x))
      /\ [r EXCEPT !.ok = FALSE] \in Walked /\ Placed([r EXCEPT !.ok = FALSE], base)
  BY DEF Walked, Placed
<1>2. x \in Live(t)
  <2>1. Plus(base, x)[x] > 0
    BY <1>1 DEF Plus, Owners
  <2> HIDE DEF x, t
  <2> QED BY <1>1, <2>1, OwnedLive
<1>3. CASE q \in {r, [r EXCEPT !.ok = FALSE]}
  BY <1>1, <1>3
<1>4. CASE q = Accept(Parent(t, x), x) /\ t.parent[x] # Nil
  <2> HIDE DEF x, t
  <2>1. t.parent[x] \in Live(t)
    BY <1>1, <1>2, <1>4, ParentLive
  <2>2. Sound(AddRef(t, t.parent[x]), Plus(Plus(base, x), t.parent[x]))
    BY <1>1, <2>1, AddRefSound
  <2>3. Placed(Parent(t, x), Plus(base, x))
    BY <2>1, <2>2 DEF Placed, Parent, Live
  <2> QED BY <1>1, <1>4, <2>3, AcceptSound
<1>5. CASE q = Accept(File(t, x, s), x) /\ s \in Names /\ Unused(t) # {}
  <2> HIDE DEF x, t
  <2>1. Placed(File(t, x, s), Plus(base, x))
    BY <1>1, <1>2, <1>5, FileSound
  <2> QED BY <1>1, <1>5, <2>1, AcceptSound
<1> QED BY <1>3, <1>4, <1>5 DEF WalkOne

(* the function that is the loop of Xwalk, up to the n-th name *)
WalkLoop(t, x, path, n, f) ==
  f = [i \in 0 .. n |-> IF i = 0 THEN {[file |-> x, tree |-> t, ok |-> TRUE]}
                        ELSE UNION {WalkOne(r, path[i]) : r \in f[i-1]}]

(* there is such a function for each length *)
LEMMA WalkLoopExists ==
  ASSUME NEW t, NEW x, NEW path
  PROVE  \A n \in Nat : \E f : WalkLoop(t, x, path, n, f)
<1> DEFINE s0 == {[file |-> x, tree |-> t, ok |-> TRUE]}
           On(S, i) == UNION {WalkOne(r, path[i]) : r \in S}
           G == {n \in Nat : \E f : WalkLoop(t, x, path, n, f)}
<1>1. 0 \in G
  <2> DEFINE f == [i \in 0 .. 0 |-> s0]
  <2>1. f = [i \in 0 .. 0 |-> IF i = 0 THEN s0 ELSE On(f[i-1], i)]
    OBVIOUS
  <2>2. WalkLoop(t, x, path, 0, f)
    BY <2>1 DEF WalkLoop
  <2> QED BY <2>2
<1>2. ASSUME NEW n \in Nat, n \in G PROVE n + 1 \in G
  <2>1. PICK f : WalkLoop(t, x, path, n, f)
    BY <1>2
  <2> DEFINE g == [i \in 0 .. n+1 |-> IF i = 0 THEN s0 ELSE On(f[i-1], i)]
  <2>2. ASSUME NEW i \in 0 .. n PROVE g[i] = f[i]
    <3>1. f[i] = IF i = 0 THEN s0 ELSE On(f[i-1], i)
      BY <2>1 DEF WalkLoop
    <3>2. i \in 0 .. n+1
      OBVIOUS
    <3> HIDE DEF On
    <3> QED BY <3>1, <3>2
  <2>3. g = [i \in 0 .. n+1 |-> IF i = 0 THEN s0 ELSE On(g[i-1], i)]
    <3>1. ASSUME NEW i \in 0 .. n+1, i # 0 PROVE g[i-1] = f[i-1]
      <4>1. i - 1 \in 0 .. n
        BY <3>1
      <4> HIDE DEF g
      <4> QED BY <4>1, <2>2
    <3> HIDE DEF On
    <3> QED BY <3>1
  <2>4. WalkLoop(t, x, path, n+1, g)
    BY <2>3 DEF WalkLoop
  <2> QED BY <2>4
<1> HIDE DEF G
<1>3. Nat \subseteq G
  BY <1>1, <1>2, NatInd
<1> QED BY <1>3 DEF G

(* Walks is its last value *)
LEMMA WalksDef ==
  ASSUME NEW t, NEW x, NEW path, Len(path) \in Nat
  PROVE  \E f : WalkLoop(t, x, path, Len(path), f) /\ Walks(t, x, path) = f[Len(path)]
<1>1. \E f : WalkLoop(t, x, path, Len(path), f)
  BY WalkLoopExists
<1> DEFINE h == CHOOSE f : f = [i \in 0 .. Len(path) |->
                                  IF i = 0 THEN {[file |-> x, tree |-> t, ok |-> TRUE]}
                                  ELSE UNION {WalkOne(r, path[i]) : r \in f[i-1]}]
<1>2. WalkLoop(t, x, path, Len(path), h)
  BY <1>1 DEF WalkLoop
<1>3. Walks(t, x, path) = h[Len(path)]
  BY DEF Walks
<1> QED BY <1>2, <1>3

(***************************************************************************)
(* Wherever a walk ends, every name before it has given back the File that *)
(* it left.                                                                *)
(***************************************************************************)
LEMMA WalksSound ==
  ASSUME NEW base, Owners(base), NEW t, NEW x \in Files, Sound(t, Plus(base, x)),
         NEW path \in Seq(Names \cup {".."}), NEW q \in Walks(t, x, path)
  PROVE  q \in Walked /\ Placed(q, base)
<1>0. Len(path) \in Nat
  OBVIOUS
<1>1. PICK f : WalkLoop(t, x, path, Len(path), f) /\ Walks(t, x, path) = f[Len(path)]
  BY <1>0, WalksDef
<1> DEFINE G == {i \in Nat : i \in 0 .. Len(path) => \A r \in f[i] : r \in Walked /\ Placed(r, base)}
<1>2. 0 \in G
  <2>1. f[0] = {[file |-> x, tree |-> t, ok |-> TRUE]}
    BY <1>0, <1>1 DEF WalkLoop
  <2>2. t \in Trees
    BY DEF Sound
  <2> DEFINE r == [file |-> x, tree |-> t, ok |-> TRUE]
  <2>3. r \in Walked
    BY <2>2 DEF Walked
  <2>4. Placed(r, base)
    BY DEF Placed
  <2> HIDE DEF r
  <2>5. \A p \in f[0] : p = r
    BY <2>1 DEF r
  <2> QED BY <2>3, <2>4, <2>5
<1>3. ASSUME NEW i \in Nat, i \in G PROVE i + 1 \in G
  <2> SUFFICES ASSUME i + 1 \in 0 .. Len(path), NEW r \in f[i+1]
               PROVE  r \in Walked /\ Placed(r, base)
    OBVIOUS
  <2> DEFINE j == i + 1
  <2>1. j \in 0 .. Len(path) /\ j # 0 /\ j - 1 = i /\ j \in 1 .. Len(path) /\ i \in 0 .. Len(path)
    BY <1>0
  <2> HIDE DEF j
  <2>2. f[j] = UNION {WalkOne(p, path[j]) : p \in f[j-1]}
    BY <2>1, <1>1 DEF WalkLoop
  <2>3. PICK p \in f[i] : r \in WalkOne(p, path[j])
    BY <2>1, <2>2 DEF j
  <2>4. p \in Walked /\ Placed(p, base) /\ path[j] \in Names \cup {".."}
    BY <2>1, <2>3, <1>3
  <2> QED BY <2>3, <2>4, WalkOneSound
<1> HIDE DEF G
<1>4. Len(path) \in G
  BY <1>0, <1>2, <1>3, NatInd
<1> QED BY <1>0, <1>1, <1>4 DEF G

(***************************************************************************)
(* The fids own Files, and main owns the root.                             *)
(***************************************************************************)
FidFiles == [Fids -> Files \cup {Nil}]

FidsAt(ff, x) == {f \in Fids : ff[f] = x}

Own(ff) == [x \in Files |-> IF x = Root THEN Cardinality(FidsAt(ff, x)) + 1
                            ELSE Cardinality(FidsAt(ff, x))]

(* a File has finitely many fids *)
LEMMA FidsAtFinite ==
  ASSUME NEW ff, NEW x
  PROVE  IsFiniteSet(FidsAt(ff, x)) /\ Cardinality(FidsAt(ff, x)) \in Nat
<1>1. FidsAt(ff, x) \subseteq Fids
  BY DEF FidsAt
<1> QED BY <1>1, FiniteAre, FS_Subset, FS_CardinalityType

(* the root has an owner: main *)
LEMMA OwnOwns ==
  ASSUME NEW ff
  PROVE  Owners(Own(ff))
<1>1. ASSUME NEW x \in Files PROVE Own(ff)[x] \in Nat /\ (x = Root => Own(ff)[x] > 0)
  BY FidsAtFinite DEF Own
<1>2. Own(ff) = [x \in Files |-> Own(ff)[x]]
  BY DEF Own
<1> HIDE DEF Own
<1> QED BY <1>1, <1>2, RootIsFile DEF Owners

(* a fid that is put at a File is one owner more *)
LEMMA OwnPlus ==
  ASSUME NEW ff \in FidFiles, NEW f \in Fids, ff[f] = Nil, NEW x \in Files
  PROVE  Own([ff EXCEPT ![f] = x]) = Plus(Own(ff), x)
<1> DEFINE gg == [ff EXCEPT ![f] = x]
<1>1. FidsAt(gg, x) = FidsAt(ff, x) \cup {f} /\ f \notin FidsAt(ff, x)
  BY NilIsNew DEF FidsAt, FidFiles
<1>2. \A y \in Files : y # x => FidsAt(gg, y) = FidsAt(ff, y)
  BY NilIsNew DEF FidsAt, FidFiles
<1> HIDE DEF gg
<1>3. Cardinality(FidsAt(gg, x)) = Cardinality(FidsAt(ff, x)) + 1
  BY <1>1, FidsAtFinite, FS_AddElement
<1>4. Cardinality(FidsAt(ff, x)) \in Nat
  BY FidsAtFinite
<1>5. ASSUME NEW y \in Files PROVE Own(gg)[y] = Plus(Own(ff), x)[y]
  BY <1>2, <1>3, <1>4 DEF Own, Plus
<1> QED BY <1>5 DEF Own, Plus, gg

(* a fid that leaves its File is one owner less *)
LEMMA OwnMinus ==
  ASSUME NEW ff \in FidFiles, NEW f \in Fids, NEW x \in Files, x = ff[f]
  PROVE  /\ [ff EXCEPT ![f] = Nil] \in FidFiles
         /\ Own(ff) = Plus(Own([ff EXCEPT ![f] = Nil]), x)
<1> DEFINE gg == [ff EXCEPT ![f] = Nil]
<1>1. gg \in FidFiles /\ gg[f] = Nil /\ [gg EXCEPT ![f] = x] = ff
  BY DEF FidFiles
<1> HIDE DEF gg
<1>2. Own([gg EXCEPT ![f] = x]) = Plus(Own(gg), x)
  BY <1>1, OwnPlus
<1> QED BY <1>1, <1>2 DEF gg

(* the invariant *)
FilesAre(ff, t) == ff \in FidFiles /\ Sound(t, Own(ff))

FidInv == FilesAre(fidfile, Tree)

(* SetTree sets all of the tree *)
LEMMA SetTreeSets ==
  ASSUME NEW t \in Trees, SetTree(t)
  PROVE  Tree' = t
<1>1. t = [ref |-> t.ref, name |-> t.name, parent |-> t.parent, child |-> t.child]
  BY DEF Trees
<1> QED BY <1>1 DEF SetTree, Tree

(* fid f at its File x, without which it is one of the owners too few *)
LEMMA Leaves ==
  ASSUME NEW ff, NEW t, FilesAre(ff, t), NEW f \in Fids, ff[f] # Nil, NEW x, x = ff[f]
  PROVE  /\ x \in Files
         /\ [ff EXCEPT ![f] = Nil] \in FidFiles
         /\ Sound(t, Plus(Own([ff EXCEPT ![f] = Nil]), x))
<1>1. ff \in FidFiles /\ Sound(t, Own(ff))
  BY DEF FilesAre
<1>2. x \in Files
  BY <1>1 DEF FidFiles
<1> QED BY <1>1, <1>2, OwnMinus

(* a fid that is taken out of the table gives its File back *)
LEMMA Clunked ==
  ASSUME NEW ff, NEW t, FilesAre(ff, t), NEW f \in Fids, ff[f] # Nil, NEW x, x = ff[f]
  PROVE  FilesAre([ff EXCEPT ![f] = Nil], FreeFile(t, x))
<1>1. /\ x \in Files
      /\ [ff EXCEPT ![f] = Nil] \in FidFiles
      /\ Sound(t, Plus(Own([ff EXCEPT ![f] = Nil]), x))
  BY Leaves
<1>2. Sound(FreeFile(t, x), Own([ff EXCEPT ![f] = Nil]))
  BY <1>1, OwnOwns, FreeFileSound
<1> QED BY <1>1, <1>2 DEF FilesAre

(* a fid that is put where a walk has come to *)
LEMMA Put ==
  ASSUME NEW ff \in FidFiles, NEW f \in Fids, NEW gg, gg = [ff EXCEPT ![f] = Nil],
         NEW r, Placed(r, Own(gg))
  PROVE  FilesAre([ff EXCEPT ![f] = r.file], r.tree) /\ r.tree \in Trees
<1> DEFINE x == r.file
<1>1. x \in Files /\ Sound(r.tree, Plus(Own(gg), x))
  BY DEF Placed
<1> HIDE DEF x
<1>2. gg \in FidFiles /\ gg[f] = Nil
  BY DEF FidFiles
<1>3. [gg EXCEPT ![f] = x] = [ff EXCEPT ![f] = x] /\ [ff EXCEPT ![f] = x] \in FidFiles
  BY <1>1 DEF FidFiles
<1>4. Own([gg EXCEPT ![f] = x]) = Plus(Own(gg), x)
  BY <1>1, <1>2, OwnPlus
<1>5. Sound(r.tree, Own([ff EXCEPT ![f] = x]))
  BY <1>1, <1>3, <1>4
<1> QED BY <1>3, <1>5 DEF x, FilesAre, Sound

(* a fid is known when it is at a File, which is then live *)
LEMMA FidLive ==
  ASSUME NEW ff, NEW t, FilesAre(ff, t), NEW f \in Fids, ff[f] # Nil, NEW x, x = ff[f]
  PROVE  x \in Live(t)
<1>1. /\ x \in Files
      /\ Sound(t, Plus(Own([ff EXCEPT ![f] = Nil]), x))
  BY Leaves
<1> DEFINE o == Own([ff EXCEPT ![f] = Nil])
<1>2. Owners(o)
  BY OwnOwns
<1> HIDE DEF o
<1>3. Plus(o, x)[x] > 0
  BY <1>1, <1>2 DEF Plus, Owners
<1>4. Sound(t, Plus(o, x))
  BY <1>1 DEF o
<1> QED BY <1>1, <1>3, <1>4, OwnedLive

(* Tattach *)
LEMMA AttachKeeps ==
  ASSUME FidInv, NEW f \in Fids, AttachFid(f)
  PROVE  FidInv'
<1>1. CASE Known(f) /\ UNCHANGED fidVars
  BY <1>1 DEF FidInv, FilesAre, Tree, fidVars, tree
<1>2. CASE /\ ~Known(f)
           /\ fidfile' = [fidfile EXCEPT ![f] = Root]
           /\ SetTree(AddRef(Tree, Root))
  <2>1. fidfile \in FidFiles /\ Sound(Tree, Own(fidfile)) /\ fidfile[f] = Nil
    BY <1>2 DEF FidInv, FilesAre, Known
  <2>2. Root \in Live(Tree)
    <3>1. Owners(Own(fidfile))
      BY OwnOwns
    <3>2. Own(fidfile)[Root] > 0
      BY <3>1 DEF Owners
    <3> QED BY <2>1, <3>2, RootIsFile, OwnedLive
  <2>3. Sound(AddRef(Tree, Root), Plus(Own(fidfile), Root))
    BY <2>1, <2>2, AddRefSound
  <2>4. Own([fidfile EXCEPT ![f] = Root]) = Plus(Own(fidfile), Root)
    BY <2>1, RootIsFile, OwnPlus
  <2>5. AddRef(Tree, Root) \in Trees
    BY <2>3 DEF Sound
  <2>6. Tree' = AddRef(Tree, Root)
    BY <1>2, <2>5, SetTreeSets
  <2>7. fidfile' \in FidFiles
    BY <1>2, <2>1, RootIsFile DEF FidFiles
  <2>8. Sound(Tree', Own(fidfile'))
    BY <1>2, <2>3, <2>4, <2>6
  <2> QED BY <2>7, <2>8 DEF FidInv, FilesAre
<1> QED BY <1>1, <1>2 DEF AttachFid

(* what a handler leaves in fidfile and in the tree *)
LEMMA Settles ==
  ASSUME NEW ff, NEW t, FilesAre(ff, t), fidfile' = ff, SetTree(t)
  PROVE  FidInv'
<1>1. t \in Trees
  BY DEF FilesAre, Sound
<1>2. Tree' = t
  BY <1>1, SetTreeSets
<1>3. FilesAre(fidfile', Tree')
  BY <1>2
<1> QED BY <1>3 DEF FidInv, FilesAre

(* a walk of path from the File that f is at *)
Way == Seq(Names \cup {".."})

(* Twalk of a fid to itself *)
LEMMA WalkKeeps ==
  ASSUME FidInv, NEW f \in Fids, NEW path \in Way, WalkFid(f, path)
  PROVE  FidInv'
<1> DEFINE gg == [fidfile EXCEPT ![f] = Nil]
<1>1. fidfile \in FidFiles /\ fidfile[f] # Nil /\ FilesAre(fidfile, Tree)
  BY DEF WalkFid, Known, FidInv, FilesAre
<1>2. fidfile[f] \in Files /\ Sound(Tree, Plus(Own(gg), fidfile[f]))
  BY <1>1, Leaves
<1>3. PICK r \in Walks(Tree, fidfile[f], path) :
         fidfile' = [fidfile EXCEPT ![f] = r.file] /\ SetTree(r.tree)
  BY DEF WalkFid
<1> HIDE DEF gg
<1>4. Placed(r, Own(gg))
  BY <1>2, <1>3, OwnOwns, WalksSound DEF Way
<1>5. FilesAre([fidfile EXCEPT ![f] = r.file], r.tree)
  BY <1>1, <1>4, Put DEF gg
<1> QED BY <1>3, <1>5, Settles

(* Twalk to another fid, which gives up its File first, if it has one, and *)
(* takes part in the walk; if that ends early, it gives up its File again  *)
LEMMA CloneWalkKeeps ==
  ASSUME FidInv, NEW f \in Fids, NEW nf \in Fids, NEW path \in Way, CloneWalkFid(f, nf, path)
  PROVE  FidInv'
<1> DEFINE gg == [fidfile EXCEPT ![nf] = Nil]
           x  == fidfile[f]
           u  == TakeFid(Tree, nf)
           t  == AddRef(u, x)
<1>1. /\ fidfile \in FidFiles /\ x # Nil /\ nf # f /\ FilesAre(fidfile, Tree)
      /\ \E r \in Walks(t, x, path) :
           /\ fidfile' = [fidfile EXCEPT ![nf] = IF r.ok THEN r.file ELSE Nil]
           /\ SetTree(IF r.ok THEN r.tree ELSE FreeFile(r.tree, r.file))
  BY DEF CloneWalkFid, Known, FidInv, FilesAre
<1>2. gg \in FidFiles /\ gg[f] = x /\ gg[nf] = Nil
  BY <1>1 DEF FidFiles
<1>3. FilesAre(gg, u)
  <2>1. CASE Known(nf)
    <3>1. FilesAre(gg, FreeFile(Tree, fidfile[nf]))
      BY <1>1, <2>1, Clunked DEF Known
    <3> QED BY <2>1, <3>1 DEF TakeFid
  <2>2. CASE ~Known(nf)
    <3>1. gg = fidfile
      BY <1>1, <2>2 DEF Known, FidFiles
    <3> QED BY <1>1, <2>2, <3>1 DEF TakeFid
  <2> QED BY <2>1, <2>2
<1> HIDE DEF x, u
<1>4. x \in Live(u) /\ x \in Files
  <2> HIDE DEF gg
  <2>1. x \in Live(u)
    BY <1>1, <1>2, <1>3, FidLive
  <2> QED BY <2>1 DEF Live
<1>5. Sound(t, Plus(Own(gg), x))
  <2> HIDE DEF gg
  <2> QED BY <1>3, <1>4, AddRefSound DEF FilesAre
<1> HIDE DEF t
<1>6. PICK r \in Walks(t, x, path) :
           /\ fidfile' = [fidfile EXCEPT ![nf] = IF r.ok THEN r.file ELSE Nil]
           /\ SetTree(IF r.ok THEN r.tree ELSE FreeFile(r.tree, r.file))
  BY <1>1
<1>7. Placed(r, Own(gg))
  <2> HIDE DEF gg
  <2> QED BY <1>4, <1>5, <1>6, OwnOwns, WalksSound DEF Way
<1>8. CASE r.ok
  <2>1. fidfile' = [fidfile EXCEPT ![nf] = r.file] /\ SetTree(r.tree)
    BY <1>6, <1>8
  <2>2. FilesAre([fidfile EXCEPT ![nf] = r.file], r.tree)
    BY <1>1, <1>7, Put
  <2> QED BY <2>1, <2>2, Settles
<1>9. CASE ~r.ok
  <2>1. fidfile' = gg /\ SetTree(FreeFile(r.tree, r.file))
    BY <1>6, <1>9
  <2> HIDE DEF gg
  <2>2. Sound(FreeFile(r.tree, r.file), Own(gg))
    BY <1>7, OwnOwns, FreeFileSound DEF Placed
  <2>3. FilesAre(gg, FreeFile(r.tree, r.file))
    BY <1>2, <2>2 DEF FilesAre
  <2> QED BY <2>1, <2>3, Settles
<1> QED BY <1>8, <1>9

(* Tclunk, Tremove *)
LEMMA ClunkKeeps ==
  ASSUME FidInv, NEW f \in Fids, ClunkFid(f)
  PROVE  FidInv'
<1>1. FilesAre([fidfile EXCEPT ![f] = Nil], FreeFile(Tree, fidfile[f]))
  BY Clunked DEF ClunkFid, Known, FidInv
<1> QED BY <1>1, Settles DEF ClunkFid

(* Tcreate *)
LEMMA CreateKeeps ==
  ASSUME FidInv, NEW f \in Fids, NEW s \in Names, CreateFid(f, s)
  PROVE  FidInv'
<1> DEFINE gg == [fidfile EXCEPT ![f] = Nil]
           x  == fidfile[f]
           r  == Accept(File(Tree, x, s), x)
<1>1. fidfile \in FidFiles /\ x # Nil /\ FilesAre(fidfile, Tree)
  BY DEF CreateFid, Known, FidInv, FilesAre
<1>2. CASE UNCHANGED <<fidfile, tree>>
  BY <1>2 DEF FidInv, FilesAre, Tree, tree
<1>3. CASE /\ Unused(Tree) # {}
           /\ fidfile' = [fidfile EXCEPT ![f] = r.file] /\ SetTree(r.tree)
  <2>1. x \in Files /\ x \in Live(Tree) /\ Sound(Tree, Plus(Own(gg), x))
    BY <1>1, Leaves, FidLive
  <2> HIDE DEF gg, x
  <2>2. Placed(File(Tree, x, s), Plus(Own(gg), x))
    BY <1>3, <2>1, FileSound
  <2>3. Placed(r, Own(gg))
    BY <2>1, <2>2, OwnOwns, AcceptSound
  <2> HIDE DEF r
  <2>4. FilesAre([fidfile EXCEPT ![f] = r.file], r.tree)
    BY <1>1, <2>3, Put DEF gg
  <2> QED BY <1>3, <2>4, Settles
<1> QED BY <1>2, <1>3 DEF CreateFid

(* Twstat *)
LEMMA RenameKeeps ==
  ASSUME FidInv, NEW f \in Fids, NEW s \in Names, RenameFid(f, s)
  PROVE  FidInv'
<1> DEFINE t == Tree
           u == [ref |-> ref, name |-> name', parent |-> parent, child |-> child]
<1>1. fidfile \in FidFiles /\ Sound(t, Own(fidfile))
  BY DEF FidInv, FilesAre
<1>2. /\ name' = [name EXCEPT ![fidfile[f]] = s]
      /\ fidfile' = fidfile /\ ref' = ref /\ parent' = parent /\ child' = child
  BY DEF RenameFid
<1>3. u \in Trees
  BY <1>1, <1>2 DEF Sound, Trees, Tree
<1>4. u.ref = t.ref /\ u.parent = t.parent /\ u.child = t.child
  BY DEF Tree
<1>5. Tree' = u
  BY <1>2 DEF Tree
<1> HIDE DEF t, u
<1>6. Sound(u, Own(fidfile))
  BY <1>1, <1>3, <1>4 DEF Sound, Children, Parents, Listed, Counts, Live
<1>7. FilesAre(fidfile', Tree')
  BY <1>1, <1>2, <1>5, <1>6 DEF FilesAre
<1> QED BY <1>7 DEF FidInv, FilesAre

(* main and the attaches before *)
LEMMA FidInitSound ==
  ASSUME NEW S \in SUBSET Fids, NEW o, FidInit(S, o)
  PROVE  FidInv
<1>1. fidfile \in FidFiles
  BY RootIsFile DEF FidInit, FidFiles
<1>2. /\ FidsAt(fidfile, Root) = S
      /\ \A x \in Files \ {Root} : FidsAt(fidfile, x) = {}
  BY NilIsNew, RootIsFile DEF FidInit, FidsAt
<1>3. IsFiniteSet(S) /\ Cardinality(S) \in Nat
  BY FiniteAre, FS_Subset, FS_CardinalityType
<1>4. \A x \in Files : Own(fidfile)[x] = ref[x] /\ ref[x] \in Nat
  <2>1. Own(fidfile)[Root] = Cardinality(S) + 1
    BY <1>2, RootIsFile DEF Own
  <2>2. \A x \in Files \ {Root} : Own(fidfile)[x] = 0
    BY <1>2, FS_EmptySet DEF Own
  <2>3. ref[Root] = 1 + Cardinality(S) /\ \A x \in Files \ {Root} : ref[x] = 0
    BY RootIsFile DEF FidInit
  <2> HIDE DEF Own
  <2> QED BY <2>1, <2>2, <2>3, <1>3
<1> DEFINE t == Tree
<1>5. t \in Trees
  BY <1>3 DEF FidInit, Tree, Trees
<1>6. /\ \A x \in Files : /\ t.ref[x] = ref[x] /\ t.parent[x] = Nil
                          /\ t.child[x] = <<>> /\ (x # Root => t.ref[x] = 0)
  BY DEF FidInit, Tree
<1> HIDE DEF t
<1>7. Children(t)
  BY <1>6 DEF Children
<1>8. Parents(t)
  BY <1>6, RootIsFile DEF Parents, Live
<1>9. Counts(t, Own(fidfile))
  BY <1>4, <1>6 DEF Counts
<1>10. Owners(Own(fidfile))
  BY OwnOwns
<1> QED BY <1>1, <1>5, <1>7, <1>8, <1>9, <1>10 DEF FidInv, FilesAre, Sound, t

(* what is counted *)
LEMMA FidInvCounts ==
  ASSUME FidInv
  PROVE  FilesAreCounted
<1> DEFINE t == Tree
<1>0. /\ t.ref = ref /\ t.parent = parent /\ t.child = child
      /\ Sound(t, Own(fidfile))
  BY DEF Tree, FidInv, FilesAre
<1> HIDE DEF t
<1>1. ref \in [Files -> Nat] /\ child \in [Files -> Seq(Files)] /\ parent \in [Files -> Files \cup {Nil}]
  BY <1>0 DEF Sound, Trees
<1>2. \A x \in Files : x \in Live(t) <=> ref[x] > 0
  BY <1>0 DEF Live
<1> SUFFICES ASSUME NEW x \in Files
    PROVE /\ ref[x] = Cardinality({f \in Fids : fidfile[f] = x}) + Len(child[x])
                      + (IF x = Root THEN 1 ELSE 0)
          /\ \A i \in DOMAIN child[x] : ref[child[x][i]] > 0 /\ parent[child[x][i]] = x
          /\ (ref[x] > 0 /\ x # Root) => parent[x] # Nil /\ ref[parent[x]] > 0 /\
               Cardinality({i \in DOMAIN child[parent[x]] : child[parent[x]][i] = x}) = 1
  BY DEF FilesAreCounted
<1>3. ref[x] = Cardinality({f \in Fids : fidfile[f] = x}) + Len(child[x])
               + (IF x = Root THEN 1 ELSE 0)
  <2>1. ref[x] = Own(fidfile)[x] + Len(child[x])
    BY <1>0 DEF Sound, Counts
  <2>2. Own(fidfile)[x] = IF x = Root THEN Cardinality(FidsAt(fidfile, x)) + 1
                          ELSE Cardinality(FidsAt(fidfile, x))
    BY DEF Own
  <2>3. Len(child[x]) \in Nat /\ Cardinality(FidsAt(fidfile, x)) \in Nat
    BY <1>1, FidsAtFinite
  <2>4. FidsAt(fidfile, x) = {f \in Fids : fidfile[f] = x}
    BY DEF FidsAt
  <2> DEFINE k == Cardinality(FidsAt(fidfile, x))
  <2> HIDE DEF k
  <2>5. ref[x] = k + Len(child[x]) + (IF x = Root THEN 1 ELSE 0)
    BY <2>1, <2>2, <2>3 DEF k
  <2> QED BY <2>4, <2>5 DEF k
<1>4. \A i \in DOMAIN child[x] : ref[child[x][i]] > 0 /\ parent[child[x][i]] = x
  <2>1. DOMAIN child[x] = 1 .. Len(child[x])
    BY <1>1
  <2> QED BY <2>1, <1>0 DEF Sound, Children, Live
<1>5. ASSUME ref[x] > 0, x # Root
      PROVE  parent[x] # Nil /\ ref[parent[x]] > 0 /\
             Cardinality({i \in DOMAIN child[parent[x]] : child[parent[x]][i] = x}) = 1
  <2> DEFINE p == parent[x]
  <2>1. p \in Files /\ \E i \in 1 .. Len(child[p]) : child[p][i] = x
    BY <1>0, <1>2, <1>5 DEF Sound, Parents, Listed
  <2>2. p # Nil /\ p \in Live(t)
    BY <1>0, <1>2, <1>5, <2>1, NilIsNew, ParentLive
  <2> HIDE DEF p
  <2>3. PICK e \in 1 .. Len(child[p]) : child[p][e] = x
    BY <2>1
  <2>4. DOMAIN child[p] = 1 .. Len(child[p])
    BY <1>1, <2>1
  <2>5. {i \in DOMAIN child[p] : child[p][i] = x} = {e}
    BY <1>0, <2>1, <2>3, <2>4 DEF Sound, Children
  <2>6. Cardinality({e}) = 1
    BY FS_Singleton
  <2> QED BY <1>2, <2>1, <2>2, <2>5, <2>6 DEF p
<1> QED BY <1>3, <1>4, <1>5

(* every step *)
LEMMA FidsStep ==
  ASSUME FidInv, [Next]_vars
  PROVE  FidInv'
<1>1. CASE UNCHANGED fidVars
  BY <1>1 DEF FidInv, FilesAre, Tree, fidVars, tree
<1>2. CASE UNCHANGED <<fidfile, tree>>
  BY <1>2 DEF FidInv, FilesAre, Tree, tree
<1>3. ASSUME NEW t \in Tags, Quick(t) PROVE FidInv'
  <2>1. PICK f \in Fids :
          \/ BadFid(f) \/ KeepFid(f) \/ AttachFid(f) \/ ClunkFid(f)
          \/ \E path \in Paths : WalkFid(f, path)
          \/ \E s \in Names : CreateFid(f, s) \/ RenameFid(f, s)
          \/ \E nf \in Fids, path \in Paths : CloneWalkFid(f, nf, path)
    BY <1>3 DEF Quick
  <2>2. Paths \subseteq Way
    <3>1. <<>> \in Way /\ \A s \in Names : <<s>> \in Way /\ <<"..", s>> \in Way
      BY DEF Way
    <3> QED BY <3>1 DEF Paths
  <2>3. CASE BadFid(f) \/ KeepFid(f)
    BY <1>1, <2>3 DEF BadFid, KeepFid
  <2>4. CASE AttachFid(f)
    BY <2>4, AttachKeeps
  <2>5. CASE ClunkFid(f)
    BY <2>5, ClunkKeeps
  <2>6. ASSUME NEW path \in Paths, WalkFid(f, path) PROVE FidInv'
    BY <2>2, <2>6, WalkKeeps
  <2>7. ASSUME NEW s \in Names, CreateFid(f, s) \/ RenameFid(f, s) PROVE FidInv'
    BY <2>7, CreateKeeps, RenameKeeps
  <2>8. ASSUME NEW nf \in Fids, NEW path \in Paths, CloneWalkFid(f, nf, path) PROVE FidInv'
    BY <2>2, <2>8, CloneWalkKeeps
  <2> QED BY <2>1, <2>3, <2>4, <2>5, <2>6, <2>7, <2>8
<1>4. CASE MasterReads
  <2>1. CASE \E t \in Tags : BadVersion(t) \/ Slow(t) \/ Flush(t)
    BY <1>1, <2>1 DEF BadVersion, Slow, Flush
  <2> QED BY <1>3, <1>4, <2>1 DEF MasterReads
<1>5. CASE MasterStep
  BY <1>1, <1>5 DEF MasterStep, SearchFound, SearchAgain, FlushSet, SlaveFound, SlaveNew,
       TooManyProcs, Rendezvous
<1>6. ASSUME NEW s \in Slaves, SlaveStep(s) PROVE FidInv'
  <2>1. CASE SlaveGetFid(s)
    BY <1>1, <1>2, <2>1 DEF SlaveGetFid, CloseFd
  <2>2. CASE SlaveReply(s)
    BY <1>1, <1>2, <2>2 DEF SlaveReply, OpenFd
  <2>3. CASE \/ Rendezvous(s) \/ SlaveStart(s) \/ SlaveCanInt(s) \/ SlaveTest(s)
             \/ SlaveRetag(s) \/ SlaveFlushMe(s) \/ SlaveGiveBack(s) \/ SlaveRest(s)
    BY <1>1, <2>3 DEF Rendezvous, SlaveStart, SlaveCanInt, SlaveTest, SlaveRetag, SlaveFlushMe,
         SlaveGiveBack, SlaveRest
  <2> QED BY <1>6, <2>1, <2>2, <2>3 DEF SlaveStep
<1>7. CASE \E p \in Procs : Spurious(p)
  BY <1>1, <1>7 DEF Spurious
<1>8. CASE ClientTakes
  BY <1>1, <1>8 DEF ClientTakes
<1>9. CASE UNCHANGED vars
  BY <1>1, <1>9 DEF vars
<1> QED BY <1>4, <1>5, <1>6, <1>7, <1>8, <1>9 DEF Next

(***************************************************************************)
(* However the fids are walked, cloned, taken over and clunked, and        *)
(* wherever a walk stops, each File is counted once for each fid at it and *)
(* once for each child: none is freed while anything leads to it, and none *)
(* is kept that nothing leads to (freefile and file, exportfs.c:273-345).  *)
(***************************************************************************)
THEOREM FilesAreKept == Spec => []FilesAreCounted
<1>1. Init => FidInv
  <2> SUFFICES ASSUME Init PROVE FidInv
    OBVIOUS
  <2>1. load.fids \in SUBSET Fids
    BY LoadsAre DEF Init
  <2>2. FidInit(load.fids, IF load.open THEN load.fids ELSE {})
    BY DEF Init
  <2> QED BY <2>1, <2>2, FidInitSound
<1>2. FidInv /\ [Next]_vars => FidInv'
  BY FidsStep
<1>3. FidInv => FilesAreCounted
  BY FidInvCounts
<1> QED BY <1>1, <1>2, <1>3, PTL DEF Spec
=============================================================================
