------------------------------- MODULE Oproc -------------------------------
(***************************************************************************)
(* The per-process semaphore of kern/posix.c.  Every blocking primitive of *)
(* the kernel (sleep, qlock, rendezvous) ends in procsleep(), and every    *)
(* primitive that releases a process ends in procwakeup(p).  A wakeup that *)
(* arrives before the sleep it answers is remembered by the counters.      *)
(*                                                                         *)
(* The code compares two int counters, nsleep and nwakeup.  Both           *)
(* comparisons depend only on their difference, so the state keeps         *)
(* credit = nwakeup - nsleep; this is exact for fewer than 2^31 sleeps of  *)
(* one process (procsleep's signed increment is undefined beyond).         *)
(***************************************************************************)
EXTENDS Integers

CONSTANT Procs

VARIABLES
  credit,     \* credit[p] = op->nwakeup - op->nsleep
  thread      \* where p's thread is with respect to op->cond

oprocVars == <<credit, thread>>

(***************************************************************************)
(* "runs": not in procsleep; "waits": inside pthread_cond_wait;            *)
(* "signalled": returning from it, about to test the while condition.      *)
(***************************************************************************)
ThreadState == {"runs", "waits", "signalled"}

OprocInit ==
  /\ credit = [p \in Procs |-> 0]
  /\ thread = [p \in Procs |-> "runs"]

(* while(op->nsleep > op->nwakeup) pthread_cond_wait(...) *)
WaitOrReturn(p) ==
  thread' = [thread EXCEPT ![p] = IF credit'[p] < 0 THEN "waits" ELSE "runs"]

(* procsleep up to its first test of the loop condition, under op->mutex. *)
ProcSleep(p) ==
  /\ thread[p] = "runs"
  /\ credit' = [credit EXCEPT ![p] = @ - 1]
  /\ WaitOrReturn(p)

(* Variant: an if where the code has a while. *)
RetestOnce(p) ==
  /\ thread[p] = "signalled"
  /\ thread' = [thread EXCEPT ![p] = "runs"]
  /\ UNCHANGED credit

(* Back from pthread_cond_wait: the loop condition is tested again. *)
Retest(p) ==
  /\ thread[p] = "signalled"
  /\ UNCHANGED credit
  /\ WaitOrReturn(p)

(* POSIX lets pthread_cond_wait return without a signal. *)
SpuriousReturn(p) ==
  /\ thread[p] = "waits"
  /\ thread' = [thread EXCEPT ![p] = "signalled"]
  /\ UNCHANGED credit

(* Variant: the signal is sent one wakeup too late. *)
ProcWakeupLate(p) ==
  /\ credit' = [credit EXCEPT ![p] = @ + 1]
  /\ thread' = [thread EXCEPT ![p] =
                  IF @ = "waits" /\ credit[p] + 1 > 0 THEN "signalled" ELSE @]

(* procwakeup: count the wakeup, signal only when it catches up. *)
ProcWakeup(p) ==
  /\ credit' = [credit EXCEPT ![p] = @ + 1]
  /\ thread' = [thread EXCEPT ![p] =
                  IF @ = "waits" /\ credit[p] + 1 = 0 THEN "signalled" ELSE @]

OprocTypeOK ==
  /\ credit \in [Procs -> Int]
  /\ thread \in [Procs -> ThreadState]
=============================================================================
