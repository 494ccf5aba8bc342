------------------------ MODULE SleepWakeup_proofs ------------------------
(***************************************************************************)
(* sleep/wakeup for any number of processes and rendezvous points: the     *)
(* inductive invariant of SleepWakeup, and the three promises it implies.  *)
(***************************************************************************)
EXTENDS SleepWakeup, TLAPS

(***************************************************************************)
(* Every step of sleep, wakeup and procsleep preserves the invariant.  One *)
(* step per action, one substep per part of the invariant.                 *)
(***************************************************************************)
LEMMA StepPreservesIInv == IInv /\ [Next]_vars => IInv'
<1> SUFFICES ASSUME IInv, [Next]_vars PROVE IInv'
  OBVIOUS
<1> USE NoneIsNil DEF IInv, OrNone, SleepPC, WakePC, Goto, sleepVars, oprocVars,
                      OprocTypeOK, ThreadState, WaitOrReturn
<1>1. ASSUME NEW p \in Procs, NEW r \in Rendezs, Enter(p, r)
      PROVE  IInv'
  <2>1. TypeOK'
    BY <1>1 DEF Enter, TypeOK
  <2>2. LocksHeld'
    BY <1>1 DEF Enter, TypeOK, LocksHeld, Hooked
  <2>3. Hooks'
    BY <1>1 DEF Enter, TypeOK, LocksHeld, Hooks, Hooked
  <2>4. Credits'
    BY <1>1 DEF Enter, TypeOK, LocksHeld, Hooks, Credits, Hooked, BeingWoken
  <2>5. WakerComing'
    BY <1>1 DEF Enter, TypeOK, LocksHeld, Hooks, WakerComing, Hooked, OnItsWay
  <2>6. QED
    BY <2>1, <2>2, <2>3, <2>4, <2>5
<1>2. ASSUME NEW p \in Procs, NEW r \in Rendezs, Signal(p, r)
      PROVE  IInv'
  <2>1. TypeOK'
    BY <1>2 DEF Signal, TypeOK
  <2>2. LocksHeld'
    BY <1>2 DEF Signal, TypeOK, LocksHeld, Hooked
  <2>3. Hooks'
    BY <1>2 DEF Signal, TypeOK, LocksHeld, Hooks, Hooked
  <2>4. Credits'
    BY <1>2 DEF Signal, TypeOK, LocksHeld, Hooks, Credits, Hooked, BeingWoken
  <2>5. WakerComing'
    BY <1>2 DEF Signal, TypeOK, LocksHeld, Hooks, WakerComing, Hooked, OnItsWay
  <2>6. QED
    BY <2>1, <2>2, <2>3, <2>4, <2>5
<1>3. ASSUME NEW p \in Procs, Consume(p)
      PROVE  IInv'
  <2>1. TypeOK'
    BY <1>3 DEF Consume, TypeOK
  <2>2. LocksHeld'
    BY <1>3 DEF Consume, TypeOK, LocksHeld, Hooked
  <2>3. Hooks'
    BY <1>3 DEF Consume, TypeOK, LocksHeld, Hooks, Hooked
  <2>4. Credits'
    BY <1>3 DEF Consume, TypeOK, LocksHeld, Hooks, Credits, Hooked, BeingWoken
  <2>5. WakerComing'
    BY <1>3 DEF Consume, TypeOK, LocksHeld, Hooks, WakerComing, Hooked, OnItsWay
  <2>6. QED
    BY <2>1, <2>2, <2>3, <2>4, <2>5
<1>4. ASSUME NEW p \in Procs, CallSleep(p)
      PROVE  IInv'
  <2>1. TypeOK'
    BY <1>4 DEF CallSleep, TypeOK
  <2>2. LocksHeld'
    BY <1>4 DEF CallSleep, TypeOK, LocksHeld, Hooked
  <2>3. Hooks'
    BY <1>4 DEF CallSleep, TypeOK, LocksHeld, Hooks, Hooked
  <2>4. Credits'
    BY <1>4 DEF CallSleep, TypeOK, LocksHeld, Hooks, Credits, Hooked, BeingWoken
  <2>5. WakerComing'
    BY <1>4 DEF CallSleep, TypeOK, LocksHeld, Hooks, WakerComing, Hooked, OnItsWay
  <2>6. QED
    BY <2>1, <2>2, <2>3, <2>4, <2>5
<1>5. ASSUME NEW p \in Procs, SleepLockRendez(p)
      PROVE  IInv'
  <2>1. TypeOK'
    BY <1>5 DEF SleepLockRendez, TypeOK
  <2>2. LocksHeld'
    BY <1>5 DEF SleepLockRendez, TypeOK, LocksHeld, Hooked
  <2>3. Hooks'
    BY <1>5 DEF SleepLockRendez, TypeOK, LocksHeld, Hooks, Hooked
  <2>4. Credits'
    BY <1>5 DEF SleepLockRendez, TypeOK, LocksHeld, Hooks, Credits, Hooked, BeingWoken
  <2>5. WakerComing'
    BY <1>5 DEF SleepLockRendez, TypeOK, LocksHeld, Hooks, WakerComing, Hooked, OnItsWay
  <2>6. QED
    BY <2>1, <2>2, <2>3, <2>4, <2>5
<1>6. ASSUME NEW p \in Procs, SleepLockSelf(p)
      PROVE  IInv'
  <2>1. TypeOK'
    BY <1>6 DEF SleepLockSelf, TypeOK
  <2>2. LocksHeld'
    BY <1>6 DEF SleepLockSelf, TypeOK, LocksHeld, Hooked
  <2>3. Hooks'
    BY <1>6 DEF SleepLockSelf, TypeOK, LocksHeld, Hooks, Hooked
  <2>4. Credits'
    BY <1>6 DEF SleepLockSelf, TypeOK, LocksHeld, Hooks, Credits, Hooked, BeingWoken
  <2>5. WakerComing'
    BY <1>6 DEF SleepLockSelf, TypeOK, LocksHeld, Hooks, WakerComing, Hooked, OnItsWay
  <2>6. QED
    BY <2>1, <2>2, <2>3, <2>4, <2>5
<1>7. ASSUME NEW p \in Procs, SleepAnnounce(p)
      PROVE  IInv'
  <2>1. TypeOK'
    BY <1>7 DEF SleepAnnounce, TypeOK
  <2>2. LocksHeld'
    BY <1>7 DEF SleepAnnounce, TypeOK, LocksHeld, Hooked
  <2>3. Hooks'
    BY <1>7 DEF SleepAnnounce, TypeOK, LocksHeld, Hooks, Hooked
  <2>4. Credits'
    BY <1>7 DEF SleepAnnounce, TypeOK, LocksHeld, Hooks, Credits, Hooked, BeingWoken
  <2>5. WakerComing'
    BY <1>7 DEF SleepAnnounce, TypeOK, LocksHeld, Hooks, WakerComing, Hooked, OnItsWay
  <2>6. QED
    BY <2>1, <2>2, <2>3, <2>4, <2>5
<1>8. ASSUME NEW p \in Procs, SleepNever(p)
      PROVE  IInv'
  <2>1. TypeOK'
    BY <1>8 DEF SleepNever, TypeOK
  <2>2. LocksHeld'
    BY <1>8 DEF SleepNever, TypeOK, LocksHeld, Hooked
  <2>3. Hooks'
    BY <1>8 DEF SleepNever, TypeOK, LocksHeld, Hooks, Hooked
  <2>4. Credits'
    BY <1>8 DEF SleepNever, TypeOK, LocksHeld, Hooks, Credits, Hooked, BeingWoken
  <2>5. WakerComing'
    BY <1>8 DEF SleepNever, TypeOK, LocksHeld, Hooks, WakerComing, Hooked, OnItsWay
  <2>6. QED
    BY <2>1, <2>2, <2>3, <2>4, <2>5
<1>9. ASSUME NEW p \in Procs, SleepTest(p)
      PROVE  IInv'
  <2>1. TypeOK'
    BY <1>9 DEF SleepTest, TypeOK
  <2>2. LocksHeld'
    BY <1>9 DEF SleepTest, TypeOK, LocksHeld, Hooked
  <2>3. Hooks'
    BY <1>9 DEF SleepTest, TypeOK, LocksHeld, Hooks, Hooked
  <2>4. Credits'
    BY <1>9 DEF SleepTest, TypeOK, LocksHeld, Hooks, Credits, Hooked, BeingWoken
  <2>5. WakerComing'
    BY <1>9 DEF SleepTest, TypeOK, LocksHeld, Hooks, WakerComing, Hooked, OnItsWay
  <2>6. QED
    BY <2>1, <2>2, <2>3, <2>4, <2>5
<1>10. ASSUME NEW p \in Procs, SleepCommit(p)
      PROVE  IInv'
  <2>1. TypeOK'
    BY <1>10 DEF SleepCommit, TypeOK
  <2>2. LocksHeld'
    BY <1>10 DEF SleepCommit, TypeOK, LocksHeld, Hooked
  <2>3. Hooks'
    BY <1>10 DEF SleepCommit, TypeOK, LocksHeld, Hooks, Hooked
  <2>4. Credits'
    BY <1>10 DEF SleepCommit, TypeOK, LocksHeld, Hooks, Credits, Hooked, BeingWoken
  <2>5. WakerComing'
    BY <1>10 DEF SleepCommit, TypeOK, LocksHeld, Hooks, WakerComing, Hooked, OnItsWay
  <2>6. QED
    BY <2>1, <2>2, <2>3, <2>4, <2>5
<1>11. ASSUME NEW p \in Procs, SleepProc(p)
      PROVE  IInv'
  <2>1. TypeOK'
    BY <1>11 DEF SleepProc, ProcSleep, TypeOK
  <2>2. LocksHeld'
    BY <1>11 DEF SleepProc, ProcSleep, TypeOK, LocksHeld, Hooked
  <2>3. Hooks'
    BY <1>11 DEF SleepProc, ProcSleep, TypeOK, LocksHeld, Hooks, Hooked
  <2>4. Credits'
    BY <1>11 DEF SleepProc, ProcSleep, TypeOK, LocksHeld, Hooks, Credits, Hooked, BeingWoken
  <2>5. WakerComing'
    BY <1>11 DEF SleepProc, ProcSleep, TypeOK, LocksHeld, Hooks, WakerComing, Hooked, OnItsWay
  <2>6. QED
    BY <2>1, <2>2, <2>3, <2>4, <2>5
<1>12. ASSUME NEW p \in Procs, SleepReturn(p)
      PROVE  IInv'
  <2>1. TypeOK'
    BY <1>12 DEF SleepReturn, TypeOK
  <2>2. LocksHeld'
    BY <1>12 DEF SleepReturn, TypeOK, LocksHeld, Hooks, Credits, Hooked, BeingWoken
  <2>3. Hooks'
    BY <1>12 DEF SleepReturn, TypeOK, LocksHeld, Hooks, Credits, Hooked, BeingWoken
  <2>4. Credits'
    BY <1>12 DEF SleepReturn, TypeOK, LocksHeld, Hooks, Credits, Hooked, BeingWoken
  <2>5. WakerComing'
    BY <1>12 DEF SleepReturn, TypeOK, LocksHeld, Hooks, WakerComing, Hooked, OnItsWay
  <2>6. QED
    BY <2>1, <2>2, <2>3, <2>4, <2>5
<1>13. ASSUME NEW p \in Procs, WakeLockRendez(p)
      PROVE  IInv'
  <2>1. TypeOK'
    BY <1>13 DEF WakeLockRendez, TypeOK
  <2>2. LocksHeld'
    BY <1>13 DEF WakeLockRendez, TypeOK, LocksHeld, Hooked
  <2>3. Hooks'
    BY <1>13 DEF WakeLockRendez, TypeOK, LocksHeld, Hooks, Hooked
  <2>4. Credits'
    BY <1>13 DEF WakeLockRendez, TypeOK, LocksHeld, Hooks, Credits, Hooked, BeingWoken
  <2>5. WakerComing'
    BY <1>13 DEF WakeLockRendez, TypeOK, LocksHeld, Hooks, WakerComing, Hooked, OnItsWay
  <2>6. QED
    BY <2>1, <2>2, <2>3, <2>4, <2>5
<1>14. ASSUME NEW p \in Procs, WakeUnhook(p)
      PROVE  IInv'
  <2>1. TypeOK'
    BY <1>14 DEF WakeUnhook, TypeOK
  <2>2. LocksHeld'
    BY <1>14 DEF WakeUnhook, TypeOK, LocksHeld, Hooks, Hooked
  <2>3. Hooks'
    BY <1>14 DEF WakeUnhook, TypeOK, LocksHeld, Hooks, Hooked
  <2>4. Credits'
    BY <1>14 DEF WakeUnhook, TypeOK, LocksHeld, Hooks, Credits, Hooked, BeingWoken
  <2>5. WakerComing'
    BY <1>14 DEF WakeUnhook, TypeOK, LocksHeld, Hooks, WakerComing, Hooked, OnItsWay
  <2>6. QED
    BY <2>1, <2>2, <2>3, <2>4, <2>5
<1>15. ASSUME NEW p \in Procs, NEW t \in Procs, WakeProc(p, t)
      PROVE  IInv'
  <2>1. TypeOK'
    BY <1>15 DEF WakeProc, ProcWakeup, TypeOK
  <2>2. LocksHeld'
    BY <1>15 DEF WakeProc, ProcWakeup, TypeOK, LocksHeld, Hooked
  <2>3. Hooks'
    BY <1>15 DEF WakeProc, ProcWakeup, TypeOK, LocksHeld, Hooks, Hooked
  <2>4. Credits'
    BY <1>15 DEF WakeProc, ProcWakeup, TypeOK, LocksHeld, Hooks, Credits, Hooked, BeingWoken
  <2>5. WakerComing'
    BY <1>15 DEF WakeProc, ProcWakeup, TypeOK, LocksHeld, Hooks, WakerComing, Hooked, OnItsWay
  <2>6. QED
    BY <2>1, <2>2, <2>3, <2>4, <2>5
<1>16. ASSUME NEW p \in Procs, WakeUnlock(p)
      PROVE  IInv'
  <2>1. TypeOK'
    BY <1>16 DEF WakeUnlock, TypeOK
  <2>2. LocksHeld'
    BY <1>16 DEF WakeUnlock, TypeOK, LocksHeld, Hooked
  <2>3. Hooks'
    BY <1>16 DEF WakeUnlock, TypeOK, LocksHeld, Hooks, Hooked
  <2>4. Credits'
    BY <1>16 DEF WakeUnlock, TypeOK, LocksHeld, Hooks, Credits, Hooked, BeingWoken
  <2>5. WakerComing'
    BY <1>16 DEF WakeUnlock, TypeOK, LocksHeld, Hooks, WakerComing, Hooked, OnItsWay
  <2>6. QED
    BY <2>1, <2>2, <2>3, <2>4, <2>5
<1>17. ASSUME NEW p \in Procs, CondReturn(p)
      PROVE  IInv'
  <2>1. TypeOK'
    BY <1>17 DEF CondReturn, Retest, SpuriousReturn, TypeOK
  <2>2. LocksHeld'
    BY <1>17 DEF CondReturn, Retest, SpuriousReturn, TypeOK, LocksHeld, Hooked
  <2>3. Hooks'
    BY <1>17 DEF CondReturn, Retest, SpuriousReturn, TypeOK, LocksHeld, Hooks, Hooked
  <2>4. Credits'
    BY <1>17 DEF CondReturn, Retest, SpuriousReturn, TypeOK, LocksHeld, Hooks, Credits, Hooked, BeingWoken
  <2>5. WakerComing'
    BY <1>17 DEF CondReturn, Retest, SpuriousReturn, TypeOK, LocksHeld, Hooks, WakerComing, Hooked, OnItsWay
  <2>6. QED
    BY <2>1, <2>2, <2>3, <2>4, <2>5
<1>18. CASE UNCHANGED vars
  BY <1>18 DEF vars, TypeOK, LocksHeld, Hooks, Credits, WakerComing, Hooked, BeingWoken, OnItsWay
<1>19. QED
  BY <1>1, <1>2, <1>3, <1>4, <1>5, <1>6, <1>7, <1>8, <1>9, <1>10, <1>11, <1>12, <1>13, <1>14, <1>15, <1>16, <1>17, <1>18 DEF Next, Sleeping, Waking

(***************************************************************************)
(* The invariant holds in every reachable state (SleepWakeup's IInv).      *)
(***************************************************************************)
THEOREM Invariance == Spec => []IInv
<1>1. Init => IInv
  BY NoneIsNil DEF Init, IInv, OprocInit, OprocTypeOK, ThreadState, OrNone, SleepPC, WakePC,
     TypeOK, LocksHeld, Hooks, Credits, WakerComing, Hooked, BeingWoken, OnItsWay
<1>2. QED
  BY <1>1, StepPreservesIInv, PTL DEF Spec

(***************************************************************************)
(* wakeup never meets the process it finds in r->p in a state it would     *)
(* panic about.                                                            *)
(***************************************************************************)
THEOREM WakeupNeverPanics == Spec => []NoWakeupPanic
<1>1. IInv => NoWakeupPanic
  BY NoneIsNil DEF IInv, TypeOK, OrNone, LocksHeld, Hooks, Hooked, NoWakeupPanic, SleepPC
<1>2. QED
  BY <1>1, Invariance, PTL

(***************************************************************************)
(* No process stays asleep on a condition that holds, unless its waker is  *)
(* already inside wakeup.                                                  *)
(***************************************************************************)
THEOREM WakeupsAreNotLost == Spec => []NoLostWakeup
<1>1. IInv => NoLostWakeup
  <2> SUFFICES ASSUME IInv, NEW t \in Procs,
                      pc[t] = "asleep", credit[t] < 0, cond[at[t]]
               PROVE  \E w \in Procs : OnItsWay(w, at[t]) \/ (pc[w] = "wproc" /\ rlock[t] = w)
    BY DEF NoLostWakeup
  <2>1. Hooked(t) \/ BeingWoken(t)
    BY DEF IInv, Credits, TypeOK, OprocTypeOK
  <2>2. CASE Hooked(t)
    BY <2>2 DEF IInv, WakerComing
  <2>3. CASE BeingWoken(t)
    BY <2>3 DEF BeingWoken
  <2>4. QED
    BY <2>1, <2>2, <2>3
<1>2. QED
  BY <1>1, Invariance, PTL

(***************************************************************************)
(* A process outside procsleep has no wakeup in the bank.                  *)
(***************************************************************************)
THEOREM NoWakeupIsBanked == Spec => []NoStrayWakeup
<1>1. IInv => NoStrayWakeup
  BY DEF IInv, Credits, NoStrayWakeup
<1>2. QED
  BY <1>1, Invariance, PTL
============================================================================
