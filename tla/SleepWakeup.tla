---------------------------- MODULE SleepWakeup ----------------------------
(***************************************************************************)
(* sleep() and wakeup() on a Rendez (kern/sleep.c), over the semaphore of  *)
(* Oproc, driven the way every caller in kern/ drives them: a process that *)
(* waits for a condition first takes the lock that serialises sleepers     *)
(* (q->rlock and q->wlock of qio.c, tr->in.seclock ... ), tests, and       *)
(* sleeps in a loop; a process that makes the condition true does so       *)
(* before it calls wakeup and without any of the locks of sleep.           *)
(***************************************************************************)
EXTENDS Oproc

CONSTANTS
  Rendezs,    \* the rendezvous points
  None        \* nil

ASSUME NoneIsNil == None \notin Procs \cup Rendezs

VARIABLES
  lk,         \* lk[r]: holder of the spin lock r->lk
  rlock,      \* rlock[p]: holder of the spin lock p->rlock
  rp,         \* rp[r]: r->p, the process committed to sleep on r
  pr,         \* pr[p]: p->r
  wakeme,     \* wakeme[p]: p->state = Wakeme
  cond,       \* cond[r]: what f(arg) reads
  user,       \* user[r]: the process the callers' lock lets sleep on r
  pc,         \* where each process is
  at          \* at[p]: the rendezvous point p works on

sleepVars == <<lk, rlock, rp, pr, wakeme>>
vars == <<oprocVars, sleepVars, cond, user, pc, at>>

OrNone(S) == S \cup {None}

Init ==
  /\ OprocInit
  /\ lk = [r \in Rendezs |-> None]
  /\ rlock = [p \in Procs |-> None]
  /\ rp = [r \in Rendezs |-> None]
  /\ pr = [p \in Procs |-> None]
  /\ wakeme = [p \in Procs |-> FALSE]
  /\ cond = [r \in Rendezs |-> FALSE]
  /\ user = [r \in Rendezs |-> None]
  /\ pc = [p \in Procs |-> "idle"]
  /\ at = [p \in Procs |-> None]

Goto(p, l) == pc' = [pc EXCEPT ![p] = l]

-----------------------------------------------------------------------------
(* The sleeping side. *)

(* Variant: a caller that does not serialise the sleepers. *)
EnterUnlocked(p, r) ==
  /\ pc[p] = "idle"
  /\ user' = [user EXCEPT ![r] = p]
  /\ at' = [at EXCEPT ![p] = r]
  /\ Goto(p, "test")
  /\ UNCHANGED <<oprocVars, sleepVars, cond>>

(* The caller takes the lock that lets it wait on r. *)
Enter(p, r) ==
  /\ pc[p] = "idle"
  /\ user[r] = None
  /\ user' = [user EXCEPT ![r] = p]
  /\ at' = [at EXCEPT ![p] = r]
  /\ Goto(p, "test")
  /\ UNCHANGED <<oprocVars, sleepVars, cond>>

(* The caller's loop: consume what it waited for, or go to sleep. *)
Consume(p) ==
  /\ pc[p] = "test"
  /\ cond[at[p]]
  /\ cond' = [cond EXCEPT ![at[p]] = FALSE]
  /\ user' = [user EXCEPT ![at[p]] = None]
  /\ at' = [at EXCEPT ![p] = None]
  /\ Goto(p, "idle")
  /\ UNCHANGED <<oprocVars, sleepVars>>

CallSleep(p) ==
  /\ pc[p] = "test"
  /\ ~cond[at[p]]
  /\ Goto(p, "slock")
  /\ UNCHANGED <<oprocVars, sleepVars, cond, user, at>>

(* lock(&r->lk); lock(&up->rlock) *)
SleepLockRendez(p) ==
  /\ pc[p] = "slock"
  /\ lk[at[p]] = None
  /\ lk' = [lk EXCEPT ![at[p]] = p]
  /\ Goto(p, "srlock")
  /\ UNCHANGED <<oprocVars, rlock, rp, pr, wakeme, cond, user, at>>

SleepLockSelf(p) ==
  /\ pc[p] = "srlock"
  /\ rlock[p] = None
  /\ rlock' = [rlock EXCEPT ![p] = p]
  /\ Goto(p, "sfirst")
  /\ UNCHANGED <<oprocVars, lk, rp, pr, wakeme, cond, user, at>>

(* r->p = up, before f is called *)
SleepAnnounce(p) ==
  /\ pc[p] = "sfirst"
  /\ rp' = [rp EXCEPT ![at[p]] = p]
  /\ Goto(p, "stest")
  /\ UNCHANGED <<oprocVars, lk, rlock, pr, wakeme, cond, user, at>>

(* Variant: r->p is left behind when the sleep does not happen. *)
SleepNeverHooked(p) ==
  /\ pc[p] = "stest"
  /\ cond[at[p]]
  /\ rlock' = [rlock EXCEPT ![p] = None]
  /\ lk' = [lk EXCEPT ![at[p]] = None]
  /\ Goto(p, "test")
  /\ UNCHANGED <<oprocVars, rp, pr, wakeme, cond, user, at>>

(* f(arg) holds (no note is ever posted): never mind *)
SleepNever(p) ==
  /\ pc[p] = "stest"
  /\ cond[at[p]]
  /\ rp' = [rp EXCEPT ![at[p]] = None]
  /\ rlock' = [rlock EXCEPT ![p] = None]
  /\ lk' = [lk EXCEPT ![at[p]] = None]
  /\ Goto(p, "test")
  /\ UNCHANGED <<oprocVars, pr, wakeme, cond, user, at>>

(* Variant: the condition is not tested again under r->lk. *)
SleepTestUnchecked(p) ==
  /\ pc[p] = "stest"
  /\ Goto(p, "scommit")
  /\ UNCHANGED <<oprocVars, sleepVars, cond, user, at>>

(* committed to sleep: f(arg) was false when it was called *)
SleepTest(p) ==
  /\ pc[p] = "stest"
  /\ ~cond[at[p]]
  /\ Goto(p, "scommit")
  /\ UNCHANGED <<oprocVars, sleepVars, cond, user, at>>

SleepCommit(p) ==
  /\ pc[p] = "scommit"
  /\ wakeme' = [wakeme EXCEPT ![p] = TRUE]
  /\ pr' = [pr EXCEPT ![p] = at[p]]
  /\ rlock' = [rlock EXCEPT ![p] = None]
  /\ lk' = [lk EXCEPT ![at[p]] = None]
  /\ Goto(p, "sproc")
  /\ UNCHANGED <<oprocVars, rp, cond, user, at>>

SleepProc(p) ==
  /\ pc[p] = "sproc"
  /\ ProcSleep(p)
  /\ Goto(p, "asleep")
  /\ UNCHANGED <<sleepVars, cond, user, at>>

SleepReturn(p) ==
  /\ pc[p] = "asleep"
  /\ thread[p] = "runs"
  /\ Goto(p, "test")
  /\ UNCHANGED <<oprocVars, sleepVars, cond, user, at>>

(* The pthread condition variable, inside procsleep. *)
CondReturn(p) ==
  /\ Retest(p) \/ SpuriousReturn(p)
  /\ UNCHANGED <<sleepVars, cond, user, pc, at>>

-----------------------------------------------------------------------------
(* The waking side. *)

(* The caller makes the condition true and calls wakeup(r). *)
Signal(p, r) ==
  /\ pc[p] = "idle"
  /\ cond' = [cond EXCEPT ![r] = TRUE]
  /\ at' = [at EXCEPT ![p] = r]
  /\ Goto(p, "wlock")
  /\ UNCHANGED <<oprocVars, sleepVars, user>>

(* lock(&r->lk); p = r->p *)
WakeLockRendez(p) ==
  /\ pc[p] = "wlock"
  /\ lk[at[p]] = None
  /\ lk' = [lk EXCEPT ![at[p]] = p]
  /\ Goto(p, IF rp[at[p]] = None THEN "wunlock" ELSE "wrlock")
  /\ UNCHANGED <<oprocVars, rlock, rp, pr, wakeme, cond, user, at>>

(* lock(&p->rlock), check its state, unhook it; panic has no successor *)
WakeUnhook(p) ==
  /\ pc[p] = "wrlock"
  /\ LET t == rp[at[p]] IN
       /\ rlock[t] = None
       /\ wakeme[t]
       /\ pr[t] = at[p]
       /\ rlock' = [rlock EXCEPT ![t] = p]
       /\ pr' = [pr EXCEPT ![t] = None]
       /\ wakeme' = [wakeme EXCEPT ![t] = FALSE]
  /\ rp' = [rp EXCEPT ![at[p]] = None]
  /\ Goto(p, "wproc")
  /\ UNCHANGED <<oprocVars, lk, cond, user, at>>

(* procwakeup(p), then unlock(&p->rlock) *)
WakeProc(p, t) ==
  /\ pc[p] = "wproc"
  /\ rlock[t] = p
  /\ ProcWakeup(t)
  /\ rlock' = [rlock EXCEPT ![t] = None]
  /\ Goto(p, "wunlock")
  /\ UNCHANGED <<lk, rp, pr, wakeme, cond, user, at>>

WakeUnlock(p) ==
  /\ pc[p] = "wunlock"
  /\ lk' = [lk EXCEPT ![at[p]] = None]
  /\ at' = [at EXCEPT ![p] = None]
  /\ Goto(p, "idle")
  /\ UNCHANGED <<oprocVars, rlock, rp, pr, wakeme, cond, user>>

-----------------------------------------------------------------------------
Sleeping(p) ==
  \/ Consume(p) \/ CallSleep(p)
  \/ SleepLockRendez(p) \/ SleepLockSelf(p) \/ SleepAnnounce(p)
  \/ SleepNever(p) \/ SleepTest(p) \/ SleepCommit(p)
  \/ SleepProc(p) \/ SleepReturn(p)

Waking(p) ==
  \/ WakeLockRendez(p)
  \/ WakeUnhook(p)
  \/ \E t \in Procs : WakeProc(p, t)
  \/ WakeUnlock(p)

Next ==
  \E p \in Procs :
    \/ \E r \in Rendezs : Enter(p, r) \/ Signal(p, r)
    \/ Sleeping(p)
    \/ Waking(p)
    \/ CondReturn(p)

Spec == Init /\ [][Next]_vars

(* A process inside sleep or wakeup keeps running, and a signalled thread  *)
(* leaves pthread_cond_wait.  Nobody has to start a sleep or a wakeup, and *)
(* no lock is assumed to be fair.                                          *)
FairSpec ==
  /\ Spec
  /\ \A p \in Procs :
       /\ WF_vars(Sleeping(p))
       /\ WF_vars(Waking(p))
       /\ WF_vars(Retest(p) /\ CondReturn(p))

-----------------------------------------------------------------------------
SleepPC == {"test", "slock", "srlock", "sfirst", "stest", "scommit", "sproc", "asleep"}
WakePC == {"wlock", "wrlock", "wproc", "wunlock"}

TypeOK ==
  /\ OprocTypeOK
  /\ lk \in [Rendezs -> OrNone(Procs)]
  /\ rlock \in [Procs -> OrNone(Procs)]
  /\ rp \in [Rendezs -> OrNone(Procs)]
  /\ pr \in [Procs -> OrNone(Rendezs)]
  /\ wakeme \in [Procs -> BOOLEAN]
  /\ cond \in [Rendezs -> BOOLEAN]
  /\ user \in [Rendezs -> OrNone(Procs)]
  /\ pc \in [Procs -> {"idle"} \cup SleepPC \cup WakePC]
  /\ at \in [Procs -> OrNone(Rendezs)]
  /\ \A p \in Procs : (at[p] = None) <=> (pc[p] = "idle")

(* w has unhooked t and has yet to call procwakeup(t). *)
BeingWoken(t) == \E w \in Procs : pc[w] = "wproc" /\ rlock[t] = w

(* t has committed to sleep and nobody has unhooked it yet. *)
Hooked(t) == wakeme[t]

(* w is between making r's condition true and looking at r->p's process. *)
OnItsWay(w, r) == at[w] = r /\ pc[w] \in {"wlock", "wrlock"}

LocksHeld ==
  /\ \A r \in Rendezs, p \in Procs :
       (lk[r] = p) <=> /\ at[p] = r
                       /\ pc[p] \in {"srlock", "sfirst", "stest", "scommit",
                                     "wrlock", "wproc", "wunlock"}
  /\ \A p \in Procs : pc[p] \in {"sfirst", "stest", "scommit"} <=> rlock[p] = p
  /\ \A t, w \in Procs :
       rlock[t] = w /\ w # t => /\ pc[w] = "wproc"
                                /\ pc[t] \in {"sproc", "asleep"}
                                /\ at[t] = at[w]
                                /\ ~Hooked(t)
  /\ \A w \in Procs : pc[w] = "wproc" => \E t \in Procs : rlock[t] = w
  /\ \A r \in Rendezs, p \in Procs :
       (user[r] = p) <=> (at[p] = r /\ pc[p] \in SleepPC)

Hooks ==
  /\ \A r \in Rendezs, t \in Procs :
       (rp[r] = t) <=> /\ at[t] = r
                       /\ \/ pc[t] \in {"stest", "scommit"}
                          \/ pc[t] \in {"sproc", "asleep"} /\ Hooked(t)
  /\ \A t \in Procs :
       /\ Hooked(t) => pc[t] \in {"sproc", "asleep"}
       /\ pr[t] = IF Hooked(t) THEN at[t] ELSE None
  /\ \A w \in Procs : pc[w] = "wrlock" => rp[at[w]] # None

Credits ==
  \A t \in Procs :
    LET due == IF Hooked(t) \/ BeingWoken(t) THEN 0 ELSE 1 IN
    /\ pc[t] = "sproc" => credit[t] = due
    /\ pc[t] = "asleep" => credit[t] = due - 1
    /\ pc[t] \notin {"sproc", "asleep"} => credit[t] = 0
    /\ thread[t] # "runs" => pc[t] = "asleep"
    /\ thread[t] = "waits" => credit[t] < 0
    /\ thread[t] = "runs" => credit[t] >= 0

WakerComing ==
  \A t \in Procs :
    (pc[t] = "scommit" \/ Hooked(t)) /\ cond[at[t]]
      => \E w \in Procs : OnItsWay(w, at[t])

(***************************************************************************)
(* The inductive invariant: who holds which lock, what a Rendez points at, *)
(* what each process's semaphore owes it, and that no condition is true    *)
(* behind the back of a sleeper.                                           *)
(***************************************************************************)
IInv == TypeOK /\ LocksHeld /\ Hooks /\ Credits /\ WakerComing

(***************************************************************************)
(* sleep.c:77-78: the check that ends in panic("wakeup: state") succeeds   *)
(* whenever wakeup gets to it, whatever the sleeper has done meanwhile.    *)
(***************************************************************************)
NoWakeupPanic ==
  \A w \in Procs : pc[w] = "wrlock" =>
    LET t == rp[at[w]] IN
      rlock[t] = None => wakeme[t] /\ pr[t] = at[w]

(***************************************************************************)
(* A process blocked in sleep whose condition holds is about to be woken:  *)
(* some process is inside wakeup for it.  This is what setting the         *)
(* condition before wakeup, and testing it under r->lk in sleep, buys.     *)
(***************************************************************************)
NoLostWakeup ==
  \A t \in Procs :
    pc[t] = "asleep" /\ credit[t] < 0 /\ cond[at[t]]
      => \E w \in Procs : OnItsWay(w, at[t]) \/ (pc[w] = "wproc" /\ rlock[t] = w)

(***************************************************************************)
(* A process that is not on its way into or out of procsleep has no wakeup *)
(* in the bank and owes none, so its next procsleep, in sleep, qlock or    *)
(* rendezvous alike, returns only for the wakeup that is meant for it.     *)
(***************************************************************************)
NoStrayWakeup ==
  \A t \in Procs : pc[t] \notin {"sproc", "asleep"} => credit[t] = 0

(***************************************************************************)
(* A process that has decided to sleep while its condition became true     *)
(* returns from sleep and consumes it.                                     *)
(***************************************************************************)
WokenEventually ==
  \A t \in Procs :
    (pc[t] \in {"scommit", "sproc", "asleep"} /\ cond[at[t]]) ~> (pc[t] = "idle")
=============================================================================
