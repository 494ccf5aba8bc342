---------------------------- MODULE Locks_proofs ----------------------------
(***************************************************************************)
(* The locks of kern/qlock.c and kern/rwlock.c, for any number of          *)
(* processes and locks.                                                    *)
(*                                                                         *)
(* First qlock.c: the inductive invariant of QLocks, mutual exclusion, and *)
(* the step simulation of FifoMutex, so that a QLock may be thought of as  *)
(* the sequence of its holder and of those that will have it next.  Then   *)
(* rwlock.c, whose module thinks of its two QLocks in that way: the        *)
(* inductive invariant of RWLock, exclusion, and that readers do not       *)
(* overtake a waiting writer.                                              *)
(***************************************************************************)
EXTENDS QLocks, RWLock, TLAPS, FiniteSetTheorems

(* What queue() does to the elements of a line.                            *)
LEMMA AppendElements ==
  ASSUME NEW S, NEW s \in Seq(S), NEW e \in S
  PROVE  /\ DOMAIN Append(s, e) = DOMAIN s \cup {Len(s) + 1}
         /\ Len(s) + 1 \notin DOMAIN s
         /\ \A i \in DOMAIN s : Append(s, e)[i] = s[i]
         /\ Append(s, e)[Len(s) + 1] = e
OBVIOUS

(* What dequeue() does to the elements of a line.                          *)
LEMMA TailElements ==
  ASSUME NEW S, NEW s \in Seq(S), s # <<>>
  PROVE  /\ \A i \in DOMAIN Tail(s) : i + 1 \in DOMAIN s /\ i + 1 # 1 /\ Tail(s)[i] = s[i + 1]
         /\ \A i \in DOMAIN s : i # 1 => /\ i - 1 \in DOMAIN Tail(s)
                                         /\ Tail(s)[i - 1] = s[i]
         /\ DOMAIN s \subseteq Int /\ DOMAIN Tail(s) \subseteq Int
OBVIOUS

(***************************************************************************)
(* Every step of qlock, canqlock, qunlock and procsleep preserves the      *)
(* invariant.                                                              *)
(***************************************************************************)
LEMMA StepPreservesIInv == IInv /\ [Next]_vars => IInv'
<1> SUFFICES ASSUME IInv, [Next]_vars PROVE IInv'
  OBVIOUS
<1> USE NoneIsNil, LocksAreOrdered
    DEF IInv, PC, lockVars, oprocVars, OprocTypeOK, ThreadState, WaitOrReturn
<1>1. ASSUME NEW p \in Procs, NEW q \in Locks, QLockFree(p, q)
      PROVE  IInv'
  <2>1. TypeOK'
    BY <1>1 DEF QLockFree, TakeFree, TypeOK
  <2>2. Holders'
    BY <1>1 DEF QLockFree, TakeFree, TypeOK, Holders, Lines, InLine, Granted, Waiting
  <2>3. Lines'
    BY <1>1 DEF QLockFree, TakeFree, TypeOK, Holders, Lines, InLine, Granted, Waiting
  <2>4. Wakers'
    BY <1>1 DEF QLockFree, TakeFree, TypeOK, Holders, Wakers, Granted, Waiting
  <2>5. Credits'
    <3>1. UNCHANGED <<credit, thread, wait, pc, at, next>>
      BY <1>1 DEF QLockFree, TakeFree
    <3>2. QED
      BY <3>1 DEF Credits, InLine, BeingWoken, Waiting
  <2>6. QED
    BY <2>1, <2>2, <2>3, <2>4, <2>5
<1>2. ASSUME NEW p \in Procs, NEW q \in Locks, CanQLock(p, q)
      PROVE  IInv'
  <2>1. TypeOK'
    BY <1>2 DEF CanQLock, TakeFree, TypeOK
  <2>2. Holders'
    BY <1>2 DEF CanQLock, TakeFree, TypeOK, Holders, Lines, InLine, Granted, Waiting
  <2>3. Lines'
    BY <1>2 DEF CanQLock, TakeFree, TypeOK, Holders, Lines, InLine, Granted, Waiting
  <2>4. Wakers'
    BY <1>2 DEF CanQLock, TakeFree, TypeOK, Holders, Wakers, Granted, Waiting
  <2>5. Credits'
    <3>1. UNCHANGED <<credit, thread, wait, pc, at, next>>
      BY <1>2 DEF CanQLock, TakeFree
    <3>2. QED
      BY <3>1 DEF Credits, InLine, BeingWoken, Waiting
  <2>6. QED
    BY <2>1, <2>2, <2>3, <2>4, <2>5
<1>3. ASSUME NEW p \in Procs, NEW q \in Locks, QLockQueue(p, q)
      PROVE  IInv'
  <2>1. /\ pc[p] = "run" /\ hold[q] # None
        /\ wait' = [wait EXCEPT ![q] = Append(@, p)]
        /\ pc' = [pc EXCEPT ![p] = "queued"]
        /\ at' = [at EXCEPT ![p] = q]
        /\ UNCHANGED <<credit, thread, hold, held, next>>
    BY <1>3 DEF QLockQueue
  <2>2. TypeOK'
    BY <2>1 DEF TypeOK
  <2>3. \A z \in Procs, l \in Locks : InLine(z, l)' <=> InLine(z, l) \/ (z = p /\ l = q)
    <3> SUFFICES ASSUME NEW z \in Procs, NEW l \in Locks
                 PROVE  InLine(z, l)' <=> InLine(z, l) \/ (z = p /\ l = q)
      OBVIOUS
    <3>1. wait[l] \in Seq(Procs) /\ wait[q] \in Seq(Procs)
      BY DEF TypeOK
    <3>2. CASE l = q
      <4>1. wait'[l] = Append(wait[l], p)
        BY <2>1, <3>2 DEF TypeOK
      <4>2. QED
        BY <3>1, <3>2, <4>1, AppendElements DEF InLine
    <3>3. CASE l # q
      BY <2>1, <3>3 DEF InLine, TypeOK
    <3>4. QED
      BY <3>2, <3>3
  <2>4. ~ InLine(p, q) /\ ~ Waiting(p) /\ ~ Granted(p, q) /\ ~ BeingWoken(p)
    BY <2>1 DEF Waiting, Holders, Lines, Wakers, BeingWoken
  <2>5. \A z \in Procs : /\ Waiting(z)' <=> Waiting(z) \/ z = p
                         /\ BeingWoken(z)' <=> BeingWoken(z)
                         /\ \A l \in Locks : Granted(z, l)' <=> Granted(z, l)
    BY <2>1 DEF Waiting, BeingWoken, Granted, TypeOK
  <2>6. Holders'
    BY <2>1, <2>3, <2>4, <2>5 DEF Holders, TypeOK, Granted, Waiting
  <2>7. Lines'
    <3>1. \A z \in Procs, l \in Locks : InLine(z, l)' => Waiting(z)' /\ at'[z] = l
      BY <2>1, <2>3, <2>4, <2>5 DEF Lines, TypeOK
    <3>2. ASSUME NEW z \in Procs, Waiting(z)'
          PROVE  Granted(z, at[z])' \/ InLine(z, at[z])'
      <4>1. CASE z = p
        <5>1. at'[z] = q
          BY <2>1, <4>1 DEF TypeOK
        <5>2. InLine(z, q)'
          BY <2>3, <4>1
        <5>3. QED
          BY <5>1, <5>2 DEF InLine
      <4>2. CASE z # p
        <5>1. Waiting(z) /\ at'[z] = at[z] /\ at[z] \in Locks
          BY <2>1, <2>5, <3>2, <4>2 DEF Waiting, TypeOK
        <5>2. InLine(z, at[z])' <=> InLine(z, at[z])
          BY <2>1, <2>3, <4>2, <5>1 DEF InLine
        <5>3. Granted(z, at[z])' <=> Granted(z, at[z])
          BY <2>1, <5>1 DEF Granted
        <5>4. QED
          BY <5>1, <5>2, <5>3 DEF Lines
      <4>3. QED
        BY <4>1, <4>2
    <3>3. ASSUME NEW l \in Locks, NEW i \in DOMAIN wait'[l], NEW j \in DOMAIN wait'[l],
                 wait'[l][i] = wait'[l][j]
          PROVE  i = j
      <4>1. wait[l] \in Seq(Procs)
        BY DEF TypeOK
      <4>2. CASE l = q
        <5>1. wait'[l] = Append(wait[l], p)
          BY <2>1, <4>2 DEF TypeOK
        <5>2. \A n \in DOMAIN wait[l] : wait[l][n] # p
          BY <2>4, <4>2 DEF InLine
        <5>3. QED
          BY <3>3, <4>1, <4>2, <5>1, <5>2, AppendElements DEF Lines
      <4>3. CASE l # q
        BY <2>1, <3>3, <4>3 DEF Lines, TypeOK
      <4>4. QED
        BY <4>2, <4>3
    <3>4. QED
      BY <3>1, <3>2, <3>3 DEF Lines
  <2>8. Wakers'
    BY <2>1, <2>4, <2>5 DEF Wakers, TypeOK, Waiting, Granted
  <2>9. Credits'
    BY <2>1, <2>3, <2>4, <2>5 DEF Credits, TypeOK, Waiting
  <2>10. QED
    BY <2>2, <2>6, <2>7, <2>8, <2>9
<1>4. ASSUME NEW p \in Procs, NEW q \in Locks, QUnlockGive(p, q)
      PROVE  IInv'
  <2> DEFINE h == Head(wait[q])
  <2>1. /\ pc[p] = "run" /\ q \in held[p]
        /\ held' = [held EXCEPT ![p] = @ \ {q}]
        /\ hold' = [hold EXCEPT ![q] = h]
        /\ wait' = [wait EXCEPT ![q] = Tail(@)]
        /\ next' = [next EXCEPT ![p] = h]
        /\ pc' = [pc EXCEPT ![p] = "giving"]
        /\ UNCHANGED <<credit, thread, at>>
    BY <1>4 DEF QUnlockGive
  <2>2. /\ wait[q] \in Seq(Procs) /\ wait[q] # <<>>
        /\ h \in Procs /\ h = wait[q][1] /\ 1 \in DOMAIN wait[q]
        /\ Tail(wait[q]) \in Seq(Procs)
    BY <1>4 DEF QUnlockGive, TypeOK
  <2>3. TypeOK'
    BY <2>1, <2>2 DEF TypeOK
  <2>4. InLine(h, q) /\ Waiting(h) /\ at[h] = q /\ hold[q] = p /\ h # p
    BY <2>1, <2>2 DEF InLine, Lines, Waiting, Holders
  <2>5. \A z \in Procs, l \in Locks : InLine(z, l)' <=> InLine(z, l) /\ ~(z = h /\ l = q)
    <3> SUFFICES ASSUME NEW z \in Procs, NEW l \in Locks
                 PROVE  InLine(z, l)' <=> InLine(z, l) /\ ~(z = h /\ l = q)
      OBVIOUS
    <3>1. CASE l = q
      <4>1. wait'[l] = Tail(wait[q])
        BY <2>1, <3>1 DEF TypeOK
      <4>2. \A i, j \in DOMAIN wait[q] : wait[q][i] = wait[q][j] => i = j
        BY DEF Lines
      <4>3. ASSUME InLine(z, l)'
            PROVE  InLine(z, l) /\ z # h
        <5>1. PICK i \in DOMAIN Tail(wait[q]) : Tail(wait[q])[i] = z
          BY <4>1, <4>3, <3>1 DEF InLine
        <5>2. i + 1 \in DOMAIN wait[q] /\ i + 1 # 1 /\ wait[q][i + 1] = z
          BY <2>2, <5>1, TailElements
        <5>3. QED
          BY <2>2, <3>1, <4>2, <5>2 DEF InLine
      <4>4. ASSUME InLine(z, l), z # h
            PROVE  InLine(z, l)'
        <5>1. PICK i \in DOMAIN wait[q] : wait[q][i] = z /\ i # 1
          BY <2>2, <3>1, <4>4 DEF InLine
        <5>2. i - 1 \in DOMAIN Tail(wait[q]) /\ Tail(wait[q])[i - 1] = z
          BY <2>2, <5>1, TailElements
        <5>3. QED
          BY <3>1, <4>1, <5>2 DEF InLine
      <4>5. QED
        BY <3>1, <4>3, <4>4
    <3>2. CASE l # q
      BY <2>1, <3>2 DEF InLine, TypeOK
    <3>3. QED
      BY <3>1, <3>2
  <2>6. \A z \in Procs : ~ BeingWoken(h) /\ (BeingWoken(z)' <=> BeingWoken(z) \/ z = h)
    <3>1. ~ BeingWoken(h)
      BY <2>1, <2>4 DEF BeingWoken, Wakers, Granted
    <3>2. QED
      BY <2>1, <2>2, <3>1 DEF BeingWoken, TypeOK
  <2>7. \A z \in Procs : /\ Waiting(z)' <=> Waiting(z)
                         /\ \A l \in Locks : Granted(z, l)' <=> Granted(z, l) \/ (z = h /\ l = q)
    <3>1. \A z \in Procs : Waiting(z)' <=> Waiting(z)
      BY <2>1 DEF Waiting, TypeOK
    <3>2. q \notin held[h] /\ ~ Granted(p, q)
      BY <2>1, <2>2, <2>4 DEF Holders, Granted
    <3>3. QED
      BY <2>1, <2>2, <2>4, <3>1, <3>2 DEF Granted, TypeOK
  <2>8. Holders'
    BY <2>1, <2>2, <2>4, <2>5, <2>7 DEF Holders, TypeOK
  <2>9. Lines'
    <3>1. \A z \in Procs, l \in Locks : InLine(z, l)' => Waiting(z)' /\ at'[z] = l
      BY <2>1, <2>5, <2>7 DEF Lines
    <3>2. \A z \in Procs : Waiting(z)' => Granted(z, at[z])' \/ InLine(z, at[z])'
      <4> SUFFICES ASSUME NEW z \in Procs, Waiting(z)'
                   PROVE  Granted(z, at[z])' \/ InLine(z, at[z])'
        OBVIOUS
      <4>1. Waiting(z) /\ at[z] \in Locks /\ at'[z] = at[z]
        BY <2>1, <2>7 DEF Waiting, TypeOK
      <4>2. Granted(z, at[z])' <=> Granted(z, at[z]) \/ (z = h /\ at[z] = q)
        BY <4>1, <2>1, <2>7 DEF Granted
      <4>3. InLine(z, at[z])' <=> InLine(z, at[z]) /\ ~(z = h /\ at[z] = q)
        BY <4>1, <2>1, <2>5 DEF InLine
      <4>4. QED
        BY <4>1, <4>2, <4>3 DEF Lines
    <3>3. ASSUME NEW l \in Locks, NEW i \in DOMAIN wait'[l], NEW j \in DOMAIN wait'[l],
                 wait'[l][i] = wait'[l][j]
          PROVE  i = j
      <4>1. CASE l = q
        <5>1. wait'[l] = Tail(wait[q])
          BY <2>1, <4>1 DEF TypeOK
        <5>2. QED
          BY <2>2, <3>3, <4>1, <5>1, TailElements DEF Lines
      <4>2. CASE l # q
        BY <2>1, <3>3, <4>2 DEF Lines, TypeOK
      <4>3. QED
        BY <4>1, <4>2
    <3>4. QED
      BY <3>1, <3>2, <3>3 DEF Lines
  <2>10. Wakers'
    <3>1. \A w \in Procs : pc'[w] = "giving" =>
            Waiting(next[w])' /\ Granted(next[w], at[next[w]])'
      <4> SUFFICES ASSUME NEW w \in Procs, pc'[w] = "giving"
                   PROVE  Waiting(next[w])' /\ Granted(next[w], at[next[w]])'
        OBVIOUS
      <4>1. CASE w = p
        BY <2>1, <2>2, <2>3, <2>4, <2>7, <4>1 DEF Waiting, Granted, TypeOK
      <4>2. CASE w # p
        <5>1. pc[w] = "giving" /\ next'[w] = next[w] /\ next[w] \in Procs
          BY <2>1, <4>2 DEF TypeOK
        <5>2. Waiting(next[w]) /\ Granted(next[w], at[next[w]]) /\ at[next[w]] \in Locks
          BY <5>1 DEF Wakers, Waiting, TypeOK
        <5>3. QED
          BY <2>1, <2>7, <5>1, <5>2 DEF Waiting, Granted
      <4>3. QED
        BY <4>1, <4>2
    <3>2. \A w \in Procs : pc'[w] = "giving" /\ next'[w] = h => w = p
      BY <2>1, <2>6 DEF BeingWoken, TypeOK
    <3>3. QED
      BY <2>1, <3>1, <3>2 DEF Wakers, TypeOK
  <2>11. Credits'
    <3> SUFFICES ASSUME NEW z \in Procs
                 PROVE  /\ pc'[z] = "queued" => credit'[z] = IF (InLine(z, at[z]) \/ BeingWoken(z))' THEN 0 ELSE 1
                        /\ pc'[z] = "asleep" => credit'[z] = IF (InLine(z, at[z]) \/ BeingWoken(z))' THEN -1 ELSE 0
                        /\ ~Waiting(z)' => credit'[z] = 0
                        /\ thread'[z] # "runs" => pc'[z] = "asleep"
                        /\ thread'[z] = "waits" => credit'[z] < 0
                        /\ thread'[z] = "runs" => credit'[z] >= 0
      BY DEF Credits
    <3>1. pc'[z] \in {"queued", "asleep"} =>
             ((InLine(z, at[z]) \/ BeingWoken(z))' <=> InLine(z, at[z]) \/ BeingWoken(z))
      <4> SUFFICES ASSUME pc'[z] \in {"queued", "asleep"}
                   PROVE  (InLine(z, at[z]) \/ BeingWoken(z))' <=> InLine(z, at[z]) \/ BeingWoken(z)
        OBVIOUS
      <4>1. at[z] \in Locks /\ at'[z] = at[z]
        BY <2>1 DEF TypeOK
      <4>2. InLine(z, at[z])' <=> InLine(z, at[z]) /\ ~(z = h /\ at[z] = q)
        BY <4>1, <2>1, <2>5 DEF InLine
      <4>3. QED
        BY <4>2, <2>4, <2>6
    <3>2. QED
      BY <2>1, <2>7, <3>1 DEF Credits, TypeOK
  <2>12. QED
    BY <2>3, <2>8, <2>9, <2>10, <2>11
<1>5. ASSUME NEW p \in Procs, NEW q \in Locks, QUnlockFree(p, q)
      PROVE  IInv'
  <2>1. TypeOK'
    BY <1>5 DEF QUnlockFree, TypeOK
  <2>2. Holders'
    BY <1>5 DEF QUnlockFree, TypeOK, Holders, Lines, InLine, Granted, Waiting
  <2>3. Lines'
    BY <1>5 DEF QUnlockFree, TypeOK, Holders, Lines, InLine, Granted, Waiting
  <2>4. Wakers'
    BY <1>5 DEF QUnlockFree, TypeOK, Holders, Wakers, Granted, Waiting
  <2>5. Credits'
    <3>1. UNCHANGED <<credit, thread, wait, pc, at, next>>
      BY <1>5 DEF QUnlockFree
    <3>2. QED
      BY <3>1 DEF Credits, InLine, BeingWoken, Waiting
  <2>6. QED
    BY <2>1, <2>2, <2>3, <2>4, <2>5
<1>6. ASSUME NEW p \in Procs, QLockSleep(p)
      PROVE  IInv'
  <2>1. TypeOK'
    BY <1>6 DEF QLockSleep, ProcSleep, TypeOK
  <2>2. Holders'
    BY <1>6 DEF QLockSleep, ProcSleep, TypeOK, Holders, Lines, InLine, Granted, Waiting
  <2>3. Lines'
    BY <1>6 DEF QLockSleep, ProcSleep, TypeOK, Holders, Lines, InLine, Granted, Waiting
  <2>4. Wakers'
    BY <1>6 DEF QLockSleep, ProcSleep, TypeOK, Holders, Wakers, Granted, Waiting
  <2>5. Credits'
    BY <1>6 DEF QLockSleep, ProcSleep, TypeOK, Holders, Lines, Wakers, Credits, InLine, Granted, Waiting, BeingWoken
  <2>6. QED
    BY <2>1, <2>2, <2>3, <2>4, <2>5
<1>7. ASSUME NEW p \in Procs, QLockReturn(p)
      PROVE  IInv'
  <2>1. /\ pc[p] = "asleep" /\ thread[p] = "runs"
        /\ held' = [held EXCEPT ![p] = @ \cup {at[p]}]
        /\ pc' = [pc EXCEPT ![p] = "run"]
        /\ at' = [at EXCEPT ![p] = None]
        /\ UNCHANGED <<credit, thread, hold, wait, next>>
    BY <1>7 DEF QLockReturn
  <2>2. at[p] \in Locks /\ credit[p] = 0 /\ ~ InLine(p, at[p]) /\ ~ BeingWoken(p) /\ Waiting(p)
    BY <2>1 DEF Credits, TypeOK, Waiting
  <2>3. Granted(p, at[p])
    BY <2>2 DEF Lines
  <2>4. TypeOK'
    BY <2>1, <2>2 DEF TypeOK
  <2>5. /\ \A z \in Procs, l \in Locks : InLine(z, l)' <=> InLine(z, l)
        /\ \A z \in Procs : /\ Waiting(z)' <=> Waiting(z) /\ z # p
                            /\ BeingWoken(z)' <=> BeingWoken(z)
    BY <2>1 DEF InLine, Waiting, BeingWoken, TypeOK
  <2>6. \A z \in Procs, l \in Locks : Granted(z, l)' <=> Granted(z, l) /\ ~(z = p /\ l = at[p])
    BY <2>1, <2>2 DEF Granted, TypeOK
  <2>7. Holders'
    BY <2>1, <2>2, <2>3, <2>5, <2>6 DEF Holders, TypeOK, Granted
  <2>8. Lines'
    <3>1. \A l \in Locks : ~ InLine(p, l)
      BY <2>2 DEF Lines
    <3>2. \A z \in Procs : Waiting(z)' => Granted(z, at[z])' \/ InLine(z, at[z])'
      BY <2>1, <2>2, <2>5, <2>6 DEF Lines, Waiting, TypeOK, Granted, InLine
    <3>3. QED
      BY <2>1, <2>5, <3>1, <3>2 DEF Lines, TypeOK
  <2>9. Wakers'
    BY <2>1, <2>2, <2>5, <2>6 DEF Wakers, BeingWoken, TypeOK, Granted, Waiting
  <2>10. Credits'
    BY <2>1, <2>2, <2>5 DEF Credits, TypeOK, Waiting, InLine
  <2>11. QED
    BY <2>4, <2>7, <2>8, <2>9, <2>10
<1>8. ASSUME NEW p \in Procs, QUnlockWake(p)
      PROVE  IInv'
  <2> DEFINE t == next[p]
  <2>1. /\ pc[p] = "giving" /\ t \in Procs /\ t # p
        /\ credit' = [credit EXCEPT ![t] = @ + 1]
        /\ thread' = [thread EXCEPT ![t] =
                        IF @ = "waits" /\ credit[t] + 1 = 0 THEN "signalled" ELSE @]
        /\ next' = [next EXCEPT ![p] = None]
        /\ pc' = [pc EXCEPT ![p] = "run"]
        /\ UNCHANGED <<hold, wait, held, at>>
    BY <1>8 DEF QUnlockWake, ProcWakeup, TypeOK, Wakers, Waiting
  <2>2. Waiting(t) /\ Granted(t, at[t]) /\ at[t] \in Locks /\ ~ InLine(t, at[t]) /\ BeingWoken(t)
    BY <2>1 DEF Wakers, Holders, Waiting, TypeOK, BeingWoken
  <2>3. /\ \A z \in Procs, l \in Locks : /\ InLine(z, l)' <=> InLine(z, l)
                                         /\ Granted(z, l)' <=> Granted(z, l)
        /\ \A z \in Procs : Waiting(z)' <=> Waiting(z)
    BY <2>1 DEF InLine, Granted, Waiting, TypeOK
  <2>4. \A z \in Procs : BeingWoken(z)' <=> BeingWoken(z) /\ z # t
    BY <2>1 DEF BeingWoken, Wakers, TypeOK
  <2>5. TypeOK'
    BY <2>1 DEF TypeOK
  <2>6. Holders' /\ Lines'
    BY <2>1, <2>3 DEF Holders, Lines, TypeOK, InLine, Granted, Waiting
  <2>7. Wakers'
    BY <2>1, <2>3 DEF Wakers, TypeOK, Granted, Waiting
  <2>8. Credits'
    BY <2>1, <2>2, <2>3, <2>4 DEF Credits, TypeOK, Waiting, InLine
  <2>9. QED
    BY <2>5, <2>6, <2>7, <2>8
<1>9. ASSUME NEW p \in Procs, CondReturn(p)
      PROVE  IInv'
  <2>1. thread[p] # "runs" /\ credit' = credit /\ UNCHANGED <<lockVars, held, pc, at, next>>
    BY <1>9 DEF CondReturn, Retest, SpuriousReturn
  <2>2. thread' \in [Procs -> ThreadState] /\ \A z \in Procs \ {p} : thread'[z] = thread[z]
    BY <1>9 DEF CondReturn, Retest, SpuriousReturn, TypeOK
  <2>3. /\ thread'[p] = "waits" => credit[p] < 0
        /\ thread'[p] = "runs" => credit[p] >= 0
    BY <1>9, <2>1 DEF CondReturn, Retest, SpuriousReturn, TypeOK
  <2>4. TypeOK'
    BY <2>1, <2>2 DEF TypeOK
  <2>5. Holders' /\ Lines' /\ Wakers'
    BY <2>1 DEF Holders, Lines, Wakers, Granted, InLine, Waiting
  <2>6. Credits'
    BY <2>1, <2>2, <2>3 DEF Credits, InLine, BeingWoken, Waiting
  <2>7. QED
    BY <2>4, <2>5, <2>6
<1>10. CASE UNCHANGED vars
  BY <1>10 DEF vars, TypeOK, Holders, Lines, Wakers, Credits, InLine, Granted, Waiting, BeingWoken
<1>11. QED
  BY <1>1, <1>2, <1>3, <1>4, <1>5, <1>6, <1>7, <1>8, <1>9, <1>10 DEF Next, Step, QUnlock

(***************************************************************************)
(* The invariant holds in every reachable state.                           *)
(***************************************************************************)
THEOREM Invariance == Spec => []IInv
<1>1. Init => IInv
  BY NoneIsNil DEF Init, IInv, OprocInit, OprocTypeOK, ThreadState, PC, TypeOK, Holders, Lines,
     Wakers, Credits, InLine, Granted, Waiting, BeingWoken
<1>2. QED
  BY <1>1, StepPreservesIInv, PTL DEF Spec

(***************************************************************************)
(* qlock and canqlock never let two processes into one critical section.   *)
(***************************************************************************)
THEOREM QLockExcludes == Spec => []MutualExclusion
<1>1. IInv => MutualExclusion
  BY DEF IInv, TypeOK, Holders, MutualExclusion
<1>2. QED
  BY <1>1, Invariance, PTL

-----------------------------------------------------------------------------
(* The refinement of FifoMutex. *)

(* Facts about sequences the refinement mapping is built from.             *)
LEMMA ConsAppend ==
  ASSUME NEW S, NEW s \in Seq(S), NEW a \in S, NEW b \in S
  PROVE  <<a>> \o Append(s, b) = Append(<<a>> \o s, b)
OBVIOUS

LEMMA ConsHeadTail ==
  ASSUME NEW S, NEW s \in Seq(S), NEW a \in S
  PROVE  /\ <<a>> \o s # <<>>
         /\ Head(<<a>> \o s) = a
         /\ Tail(<<a>> \o s) = s
         /\ <<>> \o s = s
OBVIOUS

LEMMA HeadConsTail ==
  ASSUME NEW S, NEW s \in Seq(S), s # <<>>
  PROVE  <<Head(s)>> \o Tail(s) = s
OBVIOUS

(* The process inside a critical section is the owner, and the only one.   *)
LEMMA OwnerIsInside ==
  ASSUME IInv, NEW q \in Locks
  PROVE  /\ \A p \in Procs : (Owner(q) = p) <=> (q \in held[p])
         /\ (Owner(q) = None) <=> (\A p \in Procs : q \notin held[p])
         /\ Owner(q) # None => Owner(q) = hold[q]
         /\ Owner(q) \in Procs \cup {None}
<1>1. \A p, t \in Procs : q \in held[p] /\ q \in held[t] => p = t
  BY DEF IInv, Holders
<1>2. CASE \E p \in Procs : q \in held[p]
  <2>1. Owner(q) \in Procs /\ q \in held[Owner(q)]
    BY <1>2, Zenon DEF Owner
  <2>2. QED
    BY <1>1, <2>1, NoneIsNil DEF IInv, Holders
<1>3. CASE ~ \E p \in Procs : q \in held[p]
  BY <1>3, NoneIsNil DEF Owner
<1>4. QED
  BY <1>2, <1>3

(* What a step does to the abstract state of one lock decides what it does *)
(* to the abstract state as a whole.                                       *)
LEMMA MapsChangeAt ==
  ASSUME NEW q \in Locks, NEW o, NEW l,
         Owner(q)' = o, Line(q)' = l,
         \A n \in Locks \ {q} : Owner(n)' = Owner(n) /\ Line(n)' = Line(n)
  PROVE  /\ OwnerMap' = [OwnerMap EXCEPT ![q] = o]
         /\ LineMap' = [LineMap EXCEPT ![q] = l]
BY DEF OwnerMap, LineMap

LEMMA MapsUnchanged ==
  ASSUME \A n \in Locks : Owner(n)' = Owner(n) /\ Line(n)' = Line(n)
  PROVE  UNCHANGED <<OwnerMap, LineMap>>
BY DEF OwnerMap, LineMap

(* A lock whose fields and critical section a step leaves alone.           *)
LEMMA LockUntouched ==
  ASSUME NEW n \in Locks, hold'[n] = hold[n], wait'[n] = wait[n],
         \A p \in Procs : n \in held'[p] <=> n \in held[p]
  PROVE  Owner(n)' = Owner(n) /\ Line(n)' = Line(n)
<1>1. Owner(n)' = Owner(n)
  <2>1. (\E p \in Procs : n \in held'[p]) <=> (\E p \in Procs : n \in held[p])
    OBVIOUS
  <2>2. (CHOOSE p \in Procs : n \in held'[p]) = (CHOOSE p \in Procs : n \in held[p])
    OBVIOUS
  <2>3. QED
    BY <2>1, <2>2, Zenon DEF Owner
<1>2. QED
  BY <1>1 DEF Line

(***************************************************************************)
(* Every step of the code is a step of the abstract lock, or none.         *)
(***************************************************************************)
LEMMA StepSimulation ==
  IInv /\ IInv' /\ [Next]_vars => [Abstract!Next]_(Abstract!vars)
<1> SUFFICES ASSUME IInv, IInv', [Next]_vars
             PROVE  Abstract!Next \/ UNCHANGED Abstract!vars
  OBVIOUS
<1> USE NoneIsNil DEF lockVars, oprocVars
<1>t. TypeOK /\ TypeOK'
  BY DEF IInv
<1>a. ASSUME NEW p \in Procs, NEW q \in Locks, TakeFree(p, q)
      PROVE  Abstract!Next
  <2>1. /\ hold[q] = None /\ hold' = [hold EXCEPT ![q] = p] /\ wait' = wait
        /\ held' = [held EXCEPT ![p] = @ \cup {q}]
    BY <1>a DEF TakeFree
  <2>2. wait[q] = <<>> /\ Owner(q) = None
    BY <2>1, OwnerIsInside DEF IInv, Holders
  <2>3. Owner(q)' = p
    BY <2>1, <1>t, OwnerIsInside DEF TypeOK, IInv, Holders, Owner
  <2>4. Line(q) = <<>> /\ Line(q)' = <<>>
    BY <2>1, <2>2, <2>3 DEF Line
  <2>5. \A n \in Locks \ {q} : Owner(n)' = Owner(n) /\ Line(n)' = Line(n)
    BY <2>1, <1>t, LockUntouched DEF TypeOK
  <2>6. OwnerMap' = [OwnerMap EXCEPT ![q] = p] /\ LineMap' = [LineMap EXCEPT ![q] = <<>>]
    BY <2>3, <2>4, <2>5, MapsChangeAt
  <2>7. OwnerMap[q] = None /\ LineMap[q] = <<>> /\ LineMap' = LineMap
    BY <2>2, <2>4, <2>6 DEF OwnerMap, LineMap
  <2>8. QED
    BY <2>6, <2>7 DEF Abstract!Next, Abstract!Take
<1>1. ASSUME NEW p \in Procs, NEW q \in Locks, QLockFree(p, q)
      PROVE  Abstract!Next
  BY <1>1, <1>a DEF QLockFree
<1>2. ASSUME NEW p \in Procs, NEW q \in Locks, CanQLock(p, q)
      PROVE  Abstract!Next
  BY <1>2, <1>a DEF CanQLock
<1>3. ASSUME NEW p \in Procs, NEW q \in Locks, QLockQueue(p, q)
      PROVE  Abstract!Next
  <2>1. hold[q] # None /\ UNCHANGED <<hold, held>> /\ wait' = [wait EXCEPT ![q] = Append(@, p)]
    BY <1>3 DEF QLockQueue
  <2>2. wait[q] \in Seq(Procs) /\ hold[q] \in Procs /\ wait'[q] = Append(wait[q], p)
    BY <1>t, <2>1 DEF TypeOK
  <2>3. Owner(q)' = Owner(q)
    BY <2>1 DEF Owner
  <2>4. Line(q)' = Append(Line(q), p)
    <3>1. CASE Owner(q) = None
      <4>1. Line(q) = <<hold[q]>> \o wait[q]
        BY <2>1, <3>1 DEF Line
      <4>2. Line(q)' = <<hold[q]>> \o Append(wait[q], p)
        BY <2>1, <2>2, <2>3, <3>1 DEF Line
      <4>3. QED
        BY <2>2, <4>1, <4>2, ConsAppend
    <3>2. CASE Owner(q) # None
      BY <2>1, <2>2, <2>3, <3>2, ConsHeadTail DEF Line
    <3>3. QED
      BY <3>1, <3>2
  <2>5. Owner(q) # None \/ Line(q) # <<>>
    BY <2>1, <2>2, ConsHeadTail DEF Line
  <2>6. \A n \in Locks \ {q} : Owner(n)' = Owner(n) /\ Line(n)' = Line(n)
    BY <2>1, <1>t, LockUntouched DEF TypeOK
  <2>7. /\ OwnerMap' = [OwnerMap EXCEPT ![q] = Owner(q)]
        /\ LineMap' = [LineMap EXCEPT ![q] = Append(Line(q), p)]
    BY <2>3, <2>4, <2>6, MapsChangeAt
  <2>8. OwnerMap[q] = Owner(q) /\ LineMap[q] = Line(q) /\ OwnerMap' = OwnerMap
    BY <2>7 DEF OwnerMap, LineMap
  <2>9. QED
    BY <2>5, <2>7, <2>8 DEF Abstract!Next, Abstract!Arrive
<1>b. ASSUME NEW p \in Procs, NEW q \in Locks, q \in held[p],
             held' = [held EXCEPT ![p] = @ \ {q}], Line(q)' = Line(q),
             \A n \in Locks \ {q} : hold'[n] = hold[n] /\ wait'[n] = wait[n]
      PROVE  Abstract!Next
  <2>1. Owner(q) = p
    BY <1>b, OwnerIsInside
  <2>2. Owner(q)' = None
    BY <1>b, <1>t DEF IInv, Holders, TypeOK, Owner
  <2>3. \A n \in Locks \ {q} : Owner(n)' = Owner(n) /\ Line(n)' = Line(n)
    BY <1>b, <1>t, LockUntouched DEF TypeOK
  <2>4. /\ OwnerMap' = [OwnerMap EXCEPT ![q] = None]
        /\ LineMap' = [LineMap EXCEPT ![q] = Line(q)]
    BY <1>b, <2>2, <2>3, MapsChangeAt
  <2>5. OwnerMap[q] # None /\ LineMap' = LineMap
    BY <2>1, <2>4 DEF OwnerMap, LineMap
  <2>6. QED
    BY <2>4, <2>5 DEF Abstract!Next, Abstract!Leave
<1>4. ASSUME NEW p \in Procs, NEW q \in Locks, QUnlockGive(p, q)
      PROVE  Abstract!Next
  <2>1. /\ q \in held[p] /\ wait[q] # <<>>
        /\ held' = [held EXCEPT ![p] = @ \ {q}]
        /\ hold' = [hold EXCEPT ![q] = Head(wait[q])]
        /\ wait' = [wait EXCEPT ![q] = Tail(@)]
    BY <1>4 DEF QUnlockGive
  <2>2. Owner(q) = p /\ Owner(q)' = None
    BY <2>1, <1>t, OwnerIsInside DEF IInv, Holders, TypeOK, Owner
  <2>3. wait[q] \in Seq(Procs) /\ Head(wait[q]) \in Procs
    BY <2>1, <1>t DEF TypeOK
  <2>4. Line(q) = wait[q]
    BY <2>2, <2>3, ConsHeadTail DEF Line
  <2>5. Line(q)' = <<Head(wait[q])>> \o Tail(wait[q])
    BY <2>1, <2>2, <2>3, <1>t DEF Line, TypeOK
  <2>6. Line(q)' = Line(q)
    BY <2>1, <2>3, <2>4, <2>5, HeadConsTail
  <2>7. QED
    BY <1>b, <2>1, <2>6, <1>t DEF TypeOK
<1>5. ASSUME NEW p \in Procs, NEW q \in Locks, QUnlockFree(p, q)
      PROVE  Abstract!Next
  <2>1. /\ q \in held[p] /\ wait[q] = <<>> /\ wait' = wait
        /\ held' = [held EXCEPT ![p] = @ \ {q}]
        /\ hold' = [hold EXCEPT ![q] = None]
    BY <1>5 DEF QUnlockFree
  <2>2. Owner(q) = p /\ hold'[q] = None
    BY <2>1, <1>t, OwnerIsInside DEF TypeOK
  <2>3. Line(q)' = Line(q)
    BY <2>1, <2>2 DEF Line
  <2>4. QED
    BY <1>b, <2>1, <2>3, <1>t DEF TypeOK
<1>6. ASSUME NEW p \in Procs, QLockReturn(p)
      PROVE  Abstract!Next
  <2>a. PICK q \in Locks : q = at[p]
    BY <1>6, <1>t DEF QLockReturn, TypeOK
  <2>1. /\ pc[p] = "asleep" /\ thread[p] = "runs"
        /\ held' = [held EXCEPT ![p] = @ \cup {q}]
        /\ UNCHANGED <<hold, wait>>
    BY <1>6, <2>a DEF QLockReturn
  <2>2. q \in Locks /\ credit[p] >= 0 /\ Waiting(p) /\ ~ InLine(p, q)
    BY <2>a, <2>1, <1>t DEF IInv, TypeOK, Credits, OprocTypeOK, Waiting
  <2>3. hold[q] = p /\ q \notin held[p]
    BY <2>a, <2>2 DEF IInv, Lines, Granted
  <2>4. Owner(q) = None
    BY <2>2, <2>3, OwnerIsInside DEF IInv, Holders
  <2>5. Owner(q)' = p
    BY <2>1, <2>2, <2>3, <1>t DEF TypeOK, IInv, Holders, Owner
  <2>6. wait[q] \in Seq(Procs) /\ wait'[q] = wait[q]
    BY <2>1, <2>2, <1>t DEF TypeOK
  <2>7. Line(q) = <<p>> \o wait[q] /\ Line(q)' = wait[q]
    BY <2>1, <2>2, <2>3, <2>4, <2>5, <2>6, ConsHeadTail DEF Line
  <2>8. \A n \in Locks \ {q} : Owner(n)' = Owner(n) /\ Line(n)' = Line(n)
    BY <2>1, <2>2, <1>t, LockUntouched DEF TypeOK
  <2>9. Line(q) # <<>> /\ Head(Line(q)) = p /\ Tail(Line(q)) = wait[q]
    BY <2>6, <2>7, ConsHeadTail
  <2>10. /\ OwnerMap' = [OwnerMap EXCEPT ![q] = p]
         /\ LineMap' = [LineMap EXCEPT ![q] = wait[q]]
    BY <2>2, <2>5, <2>7, <2>8, MapsChangeAt
  <2>11. OwnerMap[q] = None /\ LineMap[q] = Line(q)
    BY <2>2, <2>4 DEF OwnerMap, LineMap
  <2>12. QED
    BY <2>2, <2>9, <2>10, <2>11 DEF Abstract!Next, Abstract!Enter
<1>7. ASSUME UNCHANGED <<hold, wait, held>>
      PROVE  UNCHANGED Abstract!vars
  <2>1. \A n \in Locks : Owner(n)' = Owner(n) /\ Line(n)' = Line(n)
    BY <1>7, LockUntouched
  <2>2. QED
    BY <2>1, MapsUnchanged DEF Abstract!vars
<1>8. ASSUME NEW p \in Procs, QLockSleep(p) \/ QUnlockWake(p) \/ CondReturn(p)
      PROVE  UNCHANGED <<hold, wait, held>>
  BY <1>8 DEF QLockSleep, QUnlockWake, CondReturn
<1>9. CASE UNCHANGED vars
  BY <1>7, <1>9 DEF vars
<1>10. QED
  BY <1>1, <1>2, <1>3, <1>4, <1>5, <1>6, <1>7, <1>8, <1>9 DEF Next, Step, QUnlock

(***************************************************************************)
(* The code of qlock.c implements the first-come-first-served mutex.       *)
(***************************************************************************)
THEOREM Refinement == Spec => ImplementsFifoMutex
<1>1. Init => Abstract!Init
  BY DEF Init, Abstract!Init, OwnerMap, LineMap, Owner, Line
<1>2. QED
  BY <1>1, Invariance, StepSimulation, PTL DEF Spec, ImplementsFifoMutex, Abstract!Spec

-----------------------------------------------------------------------------
(* The readers/writer lock of rwlock.c.                                    *)

(* those that l->readers counts *)
Counted == {p \in Users : rwpc[p] \in {"rk", "rux", "reading"}}

(* l->readers is their number *)
CountOK == IsFiniteSet(Counted) /\ readers = Cardinality(Counted)

(* Who is past qlock(&l->x) is the holder of x, and who is between         *)
(* lock(&l->lk) and unlock holds lk.                                       *)
Insiders ==
  \A p \in Users : /\ rwpc[p] \in {"rk", "rux", "wk", "writing", "wux"} => Holds(x, p)
                   /\ rwpc[p] \in {"rk", "uk"} => lk = p

(* Whether the readers have k.  The first of them has counted itself       *)
(* before it takes k, the last is not counted when it gives k back.        *)
ReadersHave ==
  \/ \E p \in Users : rwpc[p] = "uk"
  \/ readers > IF \E p \in Users : rwpc[p] = "rk" THEN 1 ELSE 0

Has(p) == rwpc[p] \in {"wk", "writing"}

(* In k there are the readers if they have it, and the one writer that     *)
(* waits for it, or has it if they have not.                               *)
LineOfK ==
  /\ \A p \in Users : Has(p) => k = IF ReadersHave THEN <<Readers, p>> ELSE <<p>>
  /\ (\A p \in Users : ~ Has(p)) => k = IF ReadersHave THEN <<Readers>> ELSE <<>>
  /\ \A p \in Users : rwpc[p] = "writing" => ~ ReadersHave

RWInv == RWTypeOK /\ CountOK /\ Insiders /\ LineOfK

-----------------------------------------------------------------------------
(* what qlock and qunlock do to the holder of x *)
LEMMA QueueHolder ==
  ASSUME NEW s \in Seq(Users), NEW p \in Users
  PROVE  /\ Append(s, p) \in Seq(Users)
         /\ s # <<>> => Append(s, p) # <<>> /\ Head(Append(s, p)) = Head(s)
         /\ s # <<>> => Tail(s) \in Seq(Users)
OBVIOUS

(* the lines that k can be *)
LEMMA LinesOfK ==
  ASSUME NEW p \in Users
  PROVE  /\ {<<Readers, p>>, <<Readers>>, <<p>>, <<>>} \subseteq Seq(Users \cup {Readers})
         /\ Tail(<<Readers, p>>) = <<p>> /\ Tail(<<Readers>>) = <<>>
<1> DEFINE S == Users \cup {Readers}
<1>1. <<Readers, p>> \in Seq(S)
  OBVIOUS
<1>2. <<Readers>> \in Seq(S)
  OBVIOUS
<1>3. <<p>> \in Seq(S)
  OBVIOUS
<1>4. <<>> \in Seq(S)
  OBVIOUS
<1>5. Tail(<<Readers, p>>) = <<p>>
  OBVIOUS
<1>6. Tail(<<Readers>>) = <<>>
  OBVIOUS
<1>7. QED
  BY <1>1, <1>2, <1>3, <1>4, <1>5, <1>6

(* the holder of x is one process, so at most one is past qlock(&l->x) *)
LEMMA OneInside ==
  ASSUME RWInv, NEW p \in Users, NEW t \in Users,
         rwpc[p] \in {"rk", "rux", "wk", "writing", "wux"},
         rwpc[t] \in {"rk", "rux", "wk", "writing", "wux"}
  PROVE  p = t
BY DEF RWInv, Insiders, Holds

(* what the readers' count says of one of them *)
LEMMA CountedOne ==
  ASSUME CountOK, NEW p \in Counted
  PROVE  readers >= 1
<1>1. Cardinality(Counted) \in Nat /\ (Cardinality(Counted) = 0 <=> Counted = {})
  BY FS_CardinalityType, FS_EmptySet DEF CountOK
<1>2. QED
  BY <1>1 DEF CountOK

(* RlockX and WlockX: qlock(&l->x) queues p *)
LEMMA RequestPreserves ==
  ASSUME RWInv, NEW p \in Users, RlockX(p) \/ WlockX(p)
  PROVE  RWInv'
<1>1. /\ rwpc[p] = "idle" /\ x' = Append(x, p)
      /\ \E to \in {"rx", "wx"} : rwpc' = [rwpc EXCEPT ![p] = to]
      /\ UNCHANGED <<k, lk, readers>>
  BY DEF RlockX, WlockX, Goto
<1>2. RWTypeOK'
  BY <1>1, QueueHolder DEF RWInv, RWTypeOK, RWPC
<1>3. \A t \in Users : \/ rwpc'[t] = rwpc[t]
                       \/ rwpc[t] = "idle" /\ rwpc'[t] \in {"rx", "wx"}
  BY <1>1 DEF RWInv, RWTypeOK
<1>4. Counted' = Counted
  BY <1>3 DEF Counted
<1>5. CountOK'
  BY <1>1, <1>4 DEF RWInv, CountOK
<1>6. Insiders'
  BY <1>1, <1>3, QueueHolder DEF RWInv, RWTypeOK, Insiders, Holds
<1>7. LineOfK'
  <2>1. ReadersHave' <=> ReadersHave
    BY <1>1, <1>3 DEF ReadersHave
  <2>2. QED
    BY <1>1, <1>3, <2>1 DEF RWInv, LineOfK, Has
<1>8. QED
  BY <1>2, <1>5, <1>6, <1>7 DEF RWInv

(* RlockCount: lock(&l->lk); l->readers++ *)
LEMMA RlockCountPreserves ==
  ASSUME RWInv, NEW p \in Users, RlockCount(p)
  PROVE  RWInv'
<1>1. /\ rwpc[p] = "rx" /\ Holds(x, p) /\ lk = Free /\ lk' = p
      /\ rwpc' = [rwpc EXCEPT ![p] = "rk"] /\ readers' = readers + 1
      /\ UNCHANGED <<x, k>>
  BY DEF RlockCount, Goto
<1>2. RWTypeOK'
  BY <1>1 DEF RWInv, RWTypeOK, RWPC
<1>3. \A t \in Users : rwpc'[t] = IF t = p THEN "rk" ELSE rwpc[t]
  BY <1>1 DEF RWInv, RWTypeOK
<1>4. CountOK'
  <2>1. Counted' = Counted \cup {p} /\ p \notin Counted
    BY <1>1, <1>3 DEF Counted
  <2>2. QED
    BY <1>1, <2>1, FS_AddElement DEF RWInv, CountOK
<1>5. \A t \in Users : rwpc[t] \notin {"rk", "uk"}
  BY <1>1, FreeIsNobody DEF RWInv, Insiders
<1>6. Insiders'
  BY <1>1, <1>3, <1>5 DEF RWInv, Insiders, Holds
<1>7. \A t \in Users : ~ Has(t) /\ ~ Has(t)'
  BY <1>1, <1>3 DEF RWInv, Insiders, Holds, Has
<1>8. LineOfK'
  <2>1. ReadersHave <=> readers > 0
    BY <1>5 DEF ReadersHave
  <2>2. ReadersHave' <=> readers' > 1
    BY <1>3, <1>5 DEF ReadersHave
  <2>3. ReadersHave' <=> ReadersHave
    BY <1>1, <2>1, <2>2 DEF RWInv, RWTypeOK
  <2>4. QED
    BY <1>1, <1>7, <2>3 DEF RWInv, LineOfK, Has
<1>9. QED
  BY <1>2, <1>4, <1>6, <1>8 DEF RWInv

(* RlockK: the first reader takes k; unlock(&l->lk) *)
LEMMA RlockKPreserves ==
  ASSUME RWInv, NEW p \in Users, RlockK(p)
  PROVE  RWInv'
<1>1. /\ rwpc[p] = "rk" /\ k' = (IF k = <<>> THEN <<Readers>> ELSE k)
      /\ rwpc' = [rwpc EXCEPT ![p] = "rux"] /\ lk' = Free
      /\ UNCHANGED <<x, readers>>
  BY DEF RlockK, Goto
<1>2. RWTypeOK'
  <2>1. k' \in Seq(Users \cup {Readers})
    BY <1>1, LinesOfK DEF RWInv, RWTypeOK
  <2>2. QED
    BY <1>1, <2>1 DEF RWInv, RWTypeOK, RWPC
<1>3. \A t \in Users : rwpc'[t] = IF t = p THEN "rux" ELSE rwpc[t]
  BY <1>1 DEF RWInv, RWTypeOK
<1>4. Counted' = Counted /\ p \in Counted
  BY <1>1, <1>3 DEF Counted
<1>5. \A t \in Users : t # p => rwpc[t] \notin {"rk", "uk", "wk", "writing"}
  BY <1>1 DEF RWInv, Insiders, Holds
<1>6. Insiders'
  BY <1>1, <1>3, <1>5 DEF RWInv, Insiders, Holds
<1>7. LineOfK'
  <2>1. \A t \in Users : ~ Has(t) /\ ~ Has(t)'
    BY <1>1, <1>3, <1>5 DEF Has
  <2>2. k' = <<Readers>>
    BY <1>1, <2>1 DEF RWInv, LineOfK
  <2>3. readers' >= 1
    BY <1>1, <1>4, CountedOne DEF RWInv
  <2>4. ReadersHave'
    BY <1>1, <1>3, <1>5, <2>3 DEF ReadersHave, RWInv, RWTypeOK
  <2>5. QED
    BY <2>1, <2>2, <2>4 DEF LineOfK, Has
<1>8. QED
  BY <1>1, <1>2, <1>4, <1>6, <1>7 DEF RWInv, CountOK

(* RlockUnlockX: qunlock(&l->x), and the reader is in *)
LEMMA RlockUnlockXPreserves ==
  ASSUME RWInv, NEW p \in Users, RlockUnlockX(p)
  PROVE  RWInv'
<1>1. /\ rwpc[p] = "rux" /\ x' = Tail(x) /\ rwpc' = [rwpc EXCEPT ![p] = "reading"]
      /\ UNCHANGED <<k, lk, readers>>
  BY DEF RlockUnlockX, Goto
<1>2. RWTypeOK'
  BY <1>1, QueueHolder DEF RWInv, RWTypeOK, RWPC, Insiders, Holds
<1>3. \A t \in Users : rwpc'[t] = IF t = p THEN "reading" ELSE rwpc[t]
  BY <1>1 DEF RWInv, RWTypeOK
<1>4. Counted' = Counted
  BY <1>1, <1>3 DEF Counted
<1>5. \A t \in Users : t # p => rwpc[t] \notin {"rk", "rux", "wk", "writing", "wux"}
  BY <1>1, OneInside
<1>6. Insiders'
  BY <1>1, <1>3, <1>5 DEF RWInv, Insiders
<1>7. LineOfK'
  <2>1. ReadersHave' <=> ReadersHave
    BY <1>1, <1>3 DEF ReadersHave
  <2>2. QED
    BY <1>1, <1>3, <2>1 DEF RWInv, LineOfK, Has
<1>8. QED
  BY <1>1, <1>2, <1>4, <1>6, <1>7 DEF RWInv, CountOK

(* RunlockCount: lock(&l->lk); --l->readers *)
LEMMA RunlockCountPreserves ==
  ASSUME RWInv, NEW p \in Users, RunlockCount(p)
  PROVE  RWInv'
<1>1. /\ rwpc[p] = "reading" /\ lk = Free /\ lk' = p
      /\ rwpc' = [rwpc EXCEPT ![p] = "uk"] /\ readers' = readers - 1
      /\ UNCHANGED <<x, k>>
  BY DEF RunlockCount, Goto
<1>2. \A t \in Users : rwpc'[t] = IF t = p THEN "uk" ELSE rwpc[t]
  BY <1>1 DEF RWInv, RWTypeOK
<1>3. p \in Counted /\ Counted' = Counted \ {p}
  BY <1>1, <1>2 DEF Counted
<1>4. readers >= 1
  BY <1>3, CountedOne DEF RWInv
<1>5. RWTypeOK'
  BY <1>1, <1>4 DEF RWInv, RWTypeOK, RWPC
<1>6. CountOK'
  BY <1>1, <1>3, FS_RemoveElement DEF RWInv, CountOK
<1>7. \A t \in Users : rwpc[t] \notin {"rk", "uk"}
  BY <1>1, FreeIsNobody DEF RWInv, Insiders
<1>8. Insiders'
  BY <1>1, <1>2, <1>7 DEF RWInv, Insiders, Holds
<1>9. LineOfK'
  <2>1. ReadersHave
    BY <1>4, <1>7 DEF ReadersHave, RWInv, RWTypeOK
  <2>2. ReadersHave'
    BY <1>2 DEF ReadersHave
  <2>3. \A t \in Users : /\ Has(t)' <=> Has(t)
                         /\ rwpc'[t] = "writing" => rwpc[t] = "writing"
    BY <1>1, <1>2 DEF Has
  <2>4. QED
    BY <1>1, <2>1, <2>2, <2>3 DEF RWInv, LineOfK
<1>10. QED
  BY <1>5, <1>6, <1>8, <1>9 DEF RWInv

(* RunlockK: the last reader allows writers; unlock(&l->lk) *)
LEMMA RunlockKPreserves ==
  ASSUME RWInv, NEW p \in Users, RunlockK(p)
  PROVE  RWInv'
<1>1. /\ rwpc[p] = "uk" /\ k' = (IF readers = 0 THEN Tail(k) ELSE k)
      /\ rwpc' = [rwpc EXCEPT ![p] = "idle"] /\ lk' = Free
      /\ UNCHANGED <<x, readers>>
  BY DEF RunlockK, Goto
<1>2. \A t \in Users : rwpc'[t] = IF t = p THEN "idle" ELSE rwpc[t]
  BY <1>1 DEF RWInv, RWTypeOK
<1>3. Counted' = Counted
  BY <1>1, <1>2 DEF Counted
<1>4. \A t \in Users : t # p => rwpc[t] \notin {"rk", "uk"}
  BY <1>1 DEF RWInv, Insiders
<1>5. Insiders'
  BY <1>1, <1>2, <1>4 DEF RWInv, Insiders, Holds
<1>6. ReadersHave /\ (ReadersHave' <=> readers # 0)
  BY <1>1, <1>2, <1>4 DEF ReadersHave, RWInv, RWTypeOK
<1>7. \A t \in Users : Has(t)' <=> Has(t)
  BY <1>1, <1>2 DEF Has
<1>8. \A t \in Users : rwpc[t] # "writing" /\ rwpc'[t] # "writing"
  BY <1>2, <1>6 DEF RWInv, LineOfK
<1>9. RWTypeOK' /\ LineOfK'
  <2>1. CASE \E t \in Users : Has(t)
    <3>1. PICK t \in Users : Has(t)
      BY <2>1
    <3>2. k = <<Readers, t>> /\ Tail(k) = <<t>>
      BY <1>6, <3>1, LinesOfK DEF RWInv, LineOfK
    <3>3. \A u \in Users : Has(u) => u = t
      BY <3>1, OneInside DEF Has
    <3>4. k' = IF ReadersHave' THEN <<Readers, t>> ELSE <<t>>
      BY <1>1, <1>6, <3>2
    <3>5. k' \in Seq(Users \cup {Readers})
      BY <3>4, LinesOfK
    <3>6. QED
      BY <1>1, <1>7, <1>8, <3>1, <3>3, <3>4, <3>5 DEF RWInv, RWTypeOK, RWPC, LineOfK
  <2>2. CASE ~ \E t \in Users : Has(t)
    <3>1. k = <<Readers>> /\ Tail(k) = <<>>
      BY <1>1, <1>6, <2>2, LinesOfK DEF RWInv, LineOfK
    <3>2. k' = IF ReadersHave' THEN <<Readers>> ELSE <<>>
      BY <1>1, <1>6, <3>1
    <3>3. k' \in Seq(Users \cup {Readers})
      BY <3>2, LinesOfK
    <3>4. QED
      BY <1>1, <1>7, <1>8, <2>2, <3>2, <3>3 DEF RWInv, RWTypeOK, RWPC, LineOfK
  <2>3. QED
    BY <2>1, <2>2
<1>10. QED
  BY <1>1, <1>3, <1>5, <1>9 DEF RWInv, CountOK

(* WlockK: qlock(&l->k) queues the writer *)
LEMMA WlockKPreserves ==
  ASSUME RWInv, NEW p \in Users, WlockK(p)
  PROVE  RWInv'
<1>1. /\ rwpc[p] = "wx" /\ Holds(x, p) /\ k' = Append(k, p)
      /\ rwpc' = [rwpc EXCEPT ![p] = "wk"]
      /\ UNCHANGED <<x, lk, readers>>
  BY DEF WlockK, Goto
<1>2. \A t \in Users : rwpc'[t] = IF t = p THEN "wk" ELSE rwpc[t]
  BY <1>1 DEF RWInv, RWTypeOK
<1>3. RWTypeOK'
  BY <1>1 DEF RWInv, RWTypeOK, RWPC
<1>4. Counted' = Counted
  BY <1>1, <1>2 DEF Counted
<1>5. Insiders'
  BY <1>1, <1>2 DEF RWInv, Insiders, Holds
<1>6. \A t \in Users : ~ Has(t)
  BY <1>1 DEF RWInv, Insiders, Holds, Has
<1>7. ReadersHave' <=> ReadersHave
  BY <1>1, <1>2 DEF ReadersHave
<1>8. LineOfK'
  <2>1. k = IF ReadersHave THEN <<Readers>> ELSE <<>>
    BY <1>6 DEF RWInv, LineOfK
  <2>2. k' = IF ReadersHave THEN <<Readers, p>> ELSE <<p>>
    BY <1>1, <2>1
  <2>3. Has(p)' /\ \A t \in Users : Has(t)' => t = p
    BY <1>2, <1>6 DEF Has
  <2>4. \A t \in Users : rwpc'[t] # "writing"
    BY <1>2, <1>6 DEF Has
  <2>5. QED
    BY <1>7, <2>2, <2>3, <2>4 DEF LineOfK
<1>9. QED
  BY <1>1, <1>3, <1>4, <1>5, <1>8 DEF RWInv, CountOK

(* WlockDone: qlock(&l->k) returns *)
LEMMA WlockDonePreserves ==
  ASSUME RWInv, NEW p \in Users, WlockDone(p)
  PROVE  RWInv'
<1>1. /\ rwpc[p] = "wk" /\ Holds(k, p) /\ rwpc' = [rwpc EXCEPT ![p] = "writing"]
      /\ UNCHANGED <<x, k, lk, readers>>
  BY DEF WlockDone, Goto
<1>2. \A t \in Users : rwpc'[t] = IF t = p THEN "writing" ELSE rwpc[t]
  BY <1>1 DEF RWInv, RWTypeOK
<1>3. RWTypeOK' /\ Counted' = Counted
  BY <1>1, <1>2 DEF RWInv, RWTypeOK, RWPC, Counted
<1>4. Insiders'
  BY <1>1, <1>2 DEF RWInv, Insiders, Holds
<1>5. ReadersHave' <=> ReadersHave
  BY <1>1, <1>2 DEF ReadersHave
<1>6. ~ ReadersHave
  BY <1>1, ReadersIsNoUser DEF RWInv, LineOfK, Has, Holds
<1>7. LineOfK'
  BY <1>1, <1>2, <1>5, <1>6 DEF RWInv, LineOfK, Has
<1>8. QED
  BY <1>1, <1>3, <1>4, <1>7 DEF RWInv, CountOK

(* WunlockK: qunlock(&l->k) *)
LEMMA WunlockKPreserves ==
  ASSUME RWInv, NEW p \in Users, WunlockK(p)
  PROVE  RWInv'
<1>1. /\ rwpc[p] = "writing" /\ k' = Tail(k) /\ rwpc' = [rwpc EXCEPT ![p] = "wux"]
      /\ UNCHANGED <<x, lk, readers>>
  BY DEF WunlockK, Goto
<1>2. \A t \in Users : rwpc'[t] = IF t = p THEN "wux" ELSE rwpc[t]
  BY <1>1 DEF RWInv, RWTypeOK
<1>3. Counted' = Counted
  BY <1>1, <1>2 DEF Counted
<1>4. Insiders'
  BY <1>1, <1>2 DEF RWInv, Insiders, Holds
<1>5. ~ ReadersHave /\ ~ ReadersHave'
  BY <1>1, <1>2 DEF RWInv, LineOfK, ReadersHave
<1>6. k' = <<>>
  BY <1>1, <1>5 DEF RWInv, LineOfK, Has
<1>7. \A t \in Users : ~ Has(t)'
  BY <1>1, <1>2, OneInside DEF Has
<1>8. RWTypeOK' /\ LineOfK'
  BY <1>1, <1>5, <1>6, <1>7, LinesOfK DEF RWInv, RWTypeOK, RWPC, LineOfK, Has
<1>9. QED
  BY <1>1, <1>3, <1>4, <1>8 DEF RWInv, CountOK

(* WunlockX: qunlock(&l->x) *)
LEMMA WunlockXPreserves ==
  ASSUME RWInv, NEW p \in Users, WunlockX(p)
  PROVE  RWInv'
<1>1. /\ rwpc[p] = "wux" /\ x' = Tail(x) /\ rwpc' = [rwpc EXCEPT ![p] = "idle"]
      /\ UNCHANGED <<k, lk, readers>>
  BY DEF WunlockX, Goto
<1>2. \A t \in Users : rwpc'[t] = IF t = p THEN "idle" ELSE rwpc[t]
  BY <1>1 DEF RWInv, RWTypeOK
<1>3. RWTypeOK'
  BY <1>1, QueueHolder DEF RWInv, RWTypeOK, RWPC, Insiders, Holds
<1>4. Counted' = Counted
  BY <1>1, <1>2 DEF Counted
<1>5. \A t \in Users : t # p => rwpc[t] \notin {"rk", "rux", "wk", "writing", "wux"}
  BY <1>1, OneInside
<1>6. Insiders'
  BY <1>1, <1>2, <1>5 DEF RWInv, Insiders
<1>7. LineOfK'
  <2>1. ReadersHave' <=> ReadersHave
    BY <1>1, <1>2 DEF ReadersHave
  <2>2. QED
    BY <1>1, <1>2, <2>1 DEF RWInv, LineOfK, Has
<1>8. QED
  BY <1>1, <1>3, <1>4, <1>6, <1>7 DEF RWInv, CountOK

-----------------------------------------------------------------------------
(* The invariant of rlock, runlock, wlock and wunlock, for any number of   *)
(* processes.                                                              *)
THEOREM RWInvariance == RWSpec => []RWInv
<1>1. RWInit => RWInv
  <2> SUFFICES ASSUME RWInit PROVE RWInv
    OBVIOUS
  <2>1. RWTypeOK
    BY DEF RWInit, RWTypeOK, RWPC
  <2>2. Counted = {}
    BY DEF RWInit, Counted
  <2>3. CountOK
    BY <2>2, FS_EmptySet DEF RWInit, CountOK
  <2>4. Insiders
    BY DEF RWInit, Insiders
  <2>5. ~ ReadersHave
    BY DEF RWInit, ReadersHave
  <2>6. LineOfK
    BY <2>5 DEF RWInit, LineOfK, Has
  <2>7. QED
    BY <2>1, <2>3, <2>4, <2>6 DEF RWInv
<1>2. RWInv /\ [RWNext]_rwVars => RWInv'
  <2> SUFFICES ASSUME RWInv, [RWNext]_rwVars PROVE RWInv'
    OBVIOUS
  <2>1. CASE RWNext
    <3>1. PICK p \in Users : Request(p) \/ Rlock(p) \/ Runlock(p) \/ Wlock(p) \/ Wunlock(p)
      BY <2>1 DEF RWNext
    <3>2. CASE Request(p)
      BY <3>2, RequestPreserves DEF Request
    <3>3. CASE Rlock(p)
      BY <3>3, RlockCountPreserves, RlockKPreserves, RlockUnlockXPreserves DEF Rlock
    <3>4. CASE Runlock(p)
      BY <3>4, RunlockCountPreserves, RunlockKPreserves DEF Runlock
    <3>5. CASE Wlock(p)
      BY <3>5, WlockKPreserves, WlockDonePreserves DEF Wlock
    <3>6. CASE Wunlock(p)
      BY <3>6, WunlockKPreserves, WunlockXPreserves DEF Wunlock
    <3>7. QED
      BY <3>1, <3>2, <3>3, <3>4, <3>5, <3>6
  <2>2. CASE UNCHANGED rwVars
    BY <2>2 DEF RWInv, RWTypeOK, CountOK, Counted, Insiders, Holds, LineOfK, ReadersHave, Has, rwVars
  <2>3. QED
    BY <2>1, <2>2
<1>3. QED
  BY <1>1, <1>2, PTL DEF RWSpec

(* A writer is alone: wlock returns with x and k, k is its own only when   *)
(* the readers have given it back, and none comes in without x.            *)
THEOREM WriterIsAlone == RWSpec => []RWExclusion
<1>1. RWInv => RWExclusion
  <2> SUFFICES ASSUME RWInv, NEW p \in Users, NEW t \in Users, rwpc[p] = "writing", t # p
               PROVE  rwpc[t] \notin {"reading", "writing"}
    BY DEF RWExclusion
  <2>1. rwpc[t] # "writing"
    BY OneInside
  <2>2. \A q \in Users : rwpc[q] # "rk"
    BY OneInside
  <2>3. readers < 1
    BY <2>2 DEF RWInv, RWTypeOK, LineOfK, ReadersHave
  <2>4. t \notin Counted
    BY <2>3, CountedOne DEF RWInv, RWTypeOK
  <2>5. QED
    BY <2>1, <2>4 DEF Counted
<1>2. QED
  BY <1>1, RWInvariance, PTL

(* While a writer waits for k no reader is counted: it has x, which rlock  *)
(* takes first.                                                            *)
THEOREM ReadersDoNotOvertake == RWSpec => WriterNotOvertaken
<1>1. RWInv /\ [RWNext]_rwVars => [(\E p \in Users : rwpc[p] = "wk") => readers' <= readers]_rwVars
  <2> SUFFICES ASSUME RWInv, [RWNext]_rwVars, NEW p \in Users, rwpc[p] = "wk"
               PROVE  readers' <= readers
    OBVIOUS
  <2>1. Holds(x, p) /\ readers \in Nat
    BY DEF RWInv, Insiders, RWTypeOK
  <2>2. CASE \E t \in Users : RlockCount(t)
    BY <2>1, <2>2 DEF RlockCount, Goto, Holds
  <2>3. CASE \E t \in Users : RunlockCount(t)
    BY <2>1, <2>3 DEF RunlockCount
  <2>4. CASE readers' = readers
    BY <2>1, <2>4
  <2>5. QED
    BY <2>2, <2>3, <2>4 DEF RWNext, Request, Rlock, Runlock, Wlock, Wunlock, rwVars, RlockX,
       RlockK, RlockUnlockX, RunlockK, WlockX, WlockK, WlockDone, WunlockK, WunlockX
<1>2. QED
  BY <1>1, RWInvariance, PTL DEF RWSpec, WriterNotOvertaken
=============================================================================
