------------------------------- MODULE QLocks -------------------------------
(***************************************************************************)
(* The queueing lock of kern/qlock.c: qlock, canqlock and qunlock over the *)
(* per-process semaphore of Oproc.  qunlock hands the lock to the first    *)
(* process in line by writing q->hold, then wakes that process after it    *)
(* has let go of the spin lock q->lk.                                      *)
(*                                                                         *)
(* A section under q->lk touches only fields of that lock (and the qnext   *)
(* of processes in its line), so each is one action.  Callers nest locks;  *)
(* they take blocking locks in increasing order, the usual discipline      *)
(* without which no lock can promise progress.                             *)
(***************************************************************************)
EXTENDS Oproc, Sequences

CONSTANTS
  Locks,      \* a set of numbers: the order in which callers nest locks
  None        \* 0

ASSUME NoneIsNil == None \notin Procs
ASSUME LocksAreOrdered == Locks \subseteq Nat

VARIABLES
  hold,       \* hold[q]: q->hold
  wait,       \* wait[q]: the list q->first .. q->last
  held,       \* held[p]: the locks whose qlock or canqlock has let p in
  pc,         \* "run", or where p is inside qlock or qunlock
  at,         \* at[p]: the lock p is waiting for
  next        \* next[p]: the process p's qunlock is about to wake

lockVars == <<hold, wait>>
vars == <<oprocVars, lockVars, held, pc, at, next>>

PC == {"run", "queued", "asleep", "giving"}

Init ==
  /\ OprocInit
  /\ hold = [q \in Locks |-> None]
  /\ wait = [q \in Locks |-> <<>>]
  /\ held = [p \in Procs |-> {}]
  /\ pc = [p \in Procs |-> "run"]
  /\ at = [p \in Procs |-> None]
  /\ next = [p \in Procs |-> None]

-----------------------------------------------------------------------------
(* The callers' discipline: locks nest in increasing order. *)
MayBlockOn(p, q) == \A h \in held[p] : h < q

TakeFree(p, q) ==
  /\ pc[p] = "run"
  /\ hold[q] = None
  /\ hold' = [hold EXCEPT ![q] = p]
  /\ held' = [held EXCEPT ![p] = @ \cup {q}]
  /\ UNCHANGED <<oprocVars, wait, pc, at, next>>

(* qlock of a free lock *)
QLockFree(p, q) == MayBlockOn(p, q) /\ TakeFree(p, q)

(* canqlock that succeeds; one that fails changes nothing *)
CanQLock(p, q) == TakeFree(p, q)

(* qlock of a held lock: queue() at the tail, then procsleep() *)
QLockQueue(p, q) ==
  /\ pc[p] = "run"
  /\ MayBlockOn(p, q)
  /\ hold[q] # None
  /\ wait' = [wait EXCEPT ![q] = Append(@, p)]
  /\ pc' = [pc EXCEPT ![p] = "queued"]
  /\ at' = [at EXCEPT ![p] = q]
  /\ UNCHANGED <<oprocVars, hold, held, next>>

QLockSleep(p) ==
  /\ pc[p] = "queued"
  /\ ProcSleep(p)
  /\ pc' = [pc EXCEPT ![p] = "asleep"]
  /\ UNCHANGED <<lockVars, held, at, next>>

(* procsleep has returned and qlock returns, without looking at q->hold *)
QLockReturn(p) ==
  /\ pc[p] = "asleep"
  /\ thread[p] = "runs"
  /\ held' = [held EXCEPT ![p] = @ \cup {at[p]}]
  /\ pc' = [pc EXCEPT ![p] = "run"]
  /\ at' = [at EXCEPT ![p] = None]
  /\ UNCHANGED <<oprocVars, lockVars, next>>

CondReturn(p) ==
  /\ Retest(p) \/ SpuriousReturn(p)
  /\ UNCHANGED <<lockVars, held, pc, at, next>>

(* Variant: the lock is marked free although a process in line is woken. *)
QUnlockNoHandoff(p, q) ==
  /\ pc[p] = "run"
  /\ q \in held[p]
  /\ held' = [held EXCEPT ![p] = @ \ {q}]
  /\ wait[q] # <<>>
  /\ hold' = [hold EXCEPT ![q] = None]
  /\ wait' = [wait EXCEPT ![q] = Tail(@)]
  /\ next' = [next EXCEPT ![p] = Head(wait[q])]
  /\ pc' = [pc EXCEPT ![p] = "giving"]
  /\ UNCHANGED <<oprocVars, at>>

(* Variant: the last in line goes first. *)
QUnlockLifo(p, q) ==
  /\ pc[p] = "run"
  /\ q \in held[p]
  /\ held' = [held EXCEPT ![p] = @ \ {q}]
  /\ wait[q] # <<>>
  /\ LET last == Len(wait[q]) IN
       /\ hold' = [hold EXCEPT ![q] = wait[q][last]]
       /\ wait' = [wait EXCEPT ![q] = SubSeq(@, 1, last - 1)]
       /\ next' = [next EXCEPT ![p] = wait[q][last]]
  /\ pc' = [pc EXCEPT ![p] = "giving"]
  /\ UNCHANGED <<oprocVars, at>>

(* qunlock with somebody in line: dequeue() and hand over *)
QUnlockGive(p, q) ==
  /\ pc[p] = "run"
  /\ q \in held[p]
  /\ held' = [held EXCEPT ![p] = @ \ {q}]
  /\ wait[q] # <<>>
  /\ hold' = [hold EXCEPT ![q] = Head(wait[q])]
  /\ wait' = [wait EXCEPT ![q] = Tail(@)]
  /\ next' = [next EXCEPT ![p] = Head(wait[q])]
  /\ pc' = [pc EXCEPT ![p] = "giving"]
  /\ UNCHANGED <<oprocVars, at>>

(* qunlock with nobody in line *)
QUnlockFree(p, q) ==
  /\ pc[p] = "run"
  /\ q \in held[p]
  /\ held' = [held EXCEPT ![p] = @ \ {q}]
  /\ wait[q] = <<>>
  /\ hold' = [hold EXCEPT ![q] = None]
  /\ UNCHANGED <<oprocVars, wait, pc, at, next>>

(* procwakeup(p), after unlock(&q->lk) *)
QUnlockWake(p) ==
  /\ pc[p] = "giving"
  /\ ProcWakeup(next[p])
  /\ next' = [next EXCEPT ![p] = None]
  /\ pc' = [pc EXCEPT ![p] = "run"]
  /\ UNCHANGED <<lockVars, held, at>>

-----------------------------------------------------------------------------
Step(p) == QLockSleep(p) \/ QLockReturn(p) \/ QUnlockWake(p)

QUnlock(p, q) == QUnlockGive(p, q) \/ QUnlockFree(p, q)

Next ==
  \E p \in Procs :
    \/ \E q \in Locks : QLockFree(p, q) \/ QLockQueue(p, q) \/ CanQLock(p, q) \/ QUnlock(p, q)
    \/ Step(p)
    \/ CondReturn(p)

Spec == Init /\ [][Next]_vars

(* Processes inside qlock and qunlock keep running, and every critical     *)
(* section ends: its process calls qunlock at the latest when it has been  *)
(* able to again and again.  The spin lock and the scheduler need not be   *)
(* fair.                                                                   *)
FairSpec ==
  /\ Spec
  /\ \A p \in Procs :
       /\ WF_vars(Step(p))
       /\ WF_vars(Retest(p) /\ CondReturn(p))
       /\ \A q \in Locks : SF_vars(QUnlock(p, q))

-----------------------------------------------------------------------------
TypeOK ==
  /\ OprocTypeOK
  /\ hold \in [Locks -> Procs \cup {None}]
  /\ wait \in [Locks -> Seq(Procs)]
  /\ held \in [Procs -> SUBSET Locks]
  /\ pc \in [Procs -> PC]
  /\ at \in [Procs -> Locks \cup {None}]
  /\ next \in [Procs -> Procs \cup {None}]
  /\ \A p \in Procs : pc[p] \in {"queued", "asleep"} => at[p] \in Locks
  /\ \A p \in Procs : pc[p] = "giving" => next[p] \in Procs

(* p is in the list of q *)
InLine(p, q) == \E i \in DOMAIN wait[q] : wait[q][i] = p

(* p has been made q's holder and has not yet returned from qlock *)
Granted(p, q) == hold[q] = p /\ q \notin held[p]

(* a process that made p the holder has yet to call procwakeup(p) *)
BeingWoken(p) == \E w \in Procs : pc[w] = "giving" /\ next[w] = p

Waiting(p) == pc[p] \in {"queued", "asleep"}

Holders ==
  /\ \A p \in Procs : \A q \in held[p] : hold[q] = p
  /\ \A p \in Procs, q \in Locks :
       Granted(p, q) => Waiting(p) /\ at[p] = q /\ ~InLine(p, q)
  /\ \A q \in Locks : hold[q] = None => wait[q] = <<>>

Lines ==
  /\ \A p \in Procs, q \in Locks : InLine(p, q) => Waiting(p) /\ at[p] = q
  /\ \A p \in Procs : Waiting(p) => Granted(p, at[p]) \/ InLine(p, at[p])
  /\ \A q \in Locks : \A i, j \in DOMAIN wait[q] : wait[q][i] = wait[q][j] => i = j

Wakers ==
  /\ \A w \in Procs : pc[w] = "giving" =>
       LET t == next[w] IN Waiting(t) /\ Granted(t, at[t])
  /\ \A v, w \in Procs : pc[v] = "giving" /\ pc[w] = "giving" /\ next[v] = next[w] => v = w

Credits ==
  \A p \in Procs :
    LET due == IF InLine(p, at[p]) \/ BeingWoken(p) THEN 0 ELSE 1 IN
    /\ pc[p] = "queued" => credit[p] = due
    /\ pc[p] = "asleep" => credit[p] = due - 1
    /\ ~Waiting(p) => credit[p] = 0
    /\ thread[p] # "runs" => pc[p] = "asleep"
    /\ thread[p] = "waits" => credit[p] < 0
    /\ thread[p] = "runs" => credit[p] >= 0

(***************************************************************************)
(* The inductive invariant: a process that waits is in the list of exactly *)
(* the lock it waits for or has been made its holder, and its semaphore    *)
(* owes it one wakeup until then.                                          *)
(***************************************************************************)
IInv == TypeOK /\ Holders /\ Lines /\ Wakers /\ Credits

(***************************************************************************)
(* No two processes are inside one lock's critical section, although       *)
(* qlock.c:53-54 returns from procsleep without testing q->hold again: a   *)
(* wakeup that was not meant for this wait would let a second one in.      *)
(***************************************************************************)
MutualExclusion ==
  \A p, t \in Procs : p # t => held[p] \cap held[t] = {}

(* The abstract state: who is inside, and who waits in which order.        *)
Owner(q) == IF \E p \in Procs : q \in held[p] THEN CHOOSE p \in Procs : q \in held[p] ELSE None

Line(q) == (IF hold[q] # None /\ Owner(q) = None THEN <<hold[q]>> ELSE <<>>) \o wait[q]

OwnerMap == [q \in Locks |-> Owner(q)]

LineMap == [q \in Locks |-> Line(q)]

Abstract == INSTANCE FifoMutex WITH owner <- OwnerMap, line <- LineMap

(***************************************************************************)
(* qlock.c implements FifoMutex: the lock passes in the order of qlock's   *)
(* critical sections, however late the chosen process gets to run, and     *)
(* nobody takes it from under the process it was handed to.                *)
(***************************************************************************)
ImplementsFifoMutex == Abstract!Spec

(***************************************************************************)
(* Whoever waits for a lock gets it, when critical sections end.           *)
(***************************************************************************)
NobodyWaitsForever ==
  \A p \in Procs : (pc[p] = "queued") ~> (pc[p] = "run")
=============================================================================
