------------------------------- MODULE RWLock -------------------------------
(***************************************************************************)
(* The readers/writer lock of kern/rwlock.c: two QLocks x and k, a count   *)
(* of readers, and a spin lock lk for the count.  Whoever wants in takes x *)
(* first; a writer keeps x until it leaves.  The first reader takes k for  *)
(* all readers with a canqlock whose result is ignored, and the last one   *)
(* out, often another process, unlocks it.                                 *)
(*                                                                         *)
(* A QLock is the sequence of its holder and those it will be handed to in *)
(* turn, which is what module QLocks shows qlock.c to implement.  The      *)
(* reader that locked k may leave, and even come back as a writer, before  *)
(* k is unlocked, so the readers' hold on k names no process.              *)
(*                                                                         *)
(* Names that module QLocks has as well begin with RW here.                *)
(***************************************************************************)
EXTENDS Naturals, Sequences

CONSTANTS
  Users,      \* the processes that use the lock
  Free,       \* what l->lk is when nobody has it
  Readers     \* stands in k for the readers as a group

ASSUME FreeIsNobody == Free \notin Users
ASSUME ReadersIsNoUser == Readers \notin Users

VARIABLES
  x, k,       \* l->x and l->k: holder first, then the line
  lk,         \* holder of the spin lock l->lk
  readers,    \* l->readers
  rwpc

rwVars == <<x, k, lk, readers, rwpc>>

RWInit ==
  /\ x = <<>>
  /\ k = <<>>
  /\ lk = Free
  /\ readers = 0
  /\ rwpc = [p \in Users |-> "idle"]

Holds(q, p) == q # <<>> /\ Head(q) = p

Goto(p, from, to) ==
  /\ rwpc[p] = from
  /\ rwpc' = [rwpc EXCEPT ![p] = to]

-----------------------------------------------------------------------------
(* rlock *)

RlockX(p) ==
  /\ Goto(p, "idle", "rx")
  /\ x' = Append(x, p)
  /\ UNCHANGED <<k, lk, readers>>

RlockCount(p) ==
  /\ Goto(p, "rx", "rk")
  /\ Holds(x, p)
  /\ lk = Free
  /\ lk' = p
  /\ readers' = readers + 1
  /\ UNCHANGED <<x, k>>

(* canqlock(&l->k); unlock(&l->lk) *)
RlockK(p) ==
  /\ Goto(p, "rk", "rux")
  /\ k' = IF k = <<>> THEN <<Readers>> ELSE k
  /\ lk' = Free
  /\ UNCHANGED <<x, readers>>

RlockUnlockX(p) ==
  /\ Goto(p, "rux", "reading")
  /\ x' = Tail(x)
  /\ UNCHANGED <<k, lk, readers>>

(* runlock *)

RunlockCount(p) ==
  /\ Goto(p, "reading", "uk")
  /\ lk = Free
  /\ lk' = p
  /\ readers' = readers - 1
  /\ UNCHANGED <<x, k>>

(* Variant: the count is tested before it is decremented. *)
RunlockPostDecrement(p) ==
  /\ Goto(p, "uk", "idle")
  /\ k' = IF readers + 1 = 0 THEN Tail(k) ELSE k
  /\ lk' = Free
  /\ UNCHANGED <<x, readers>>

(* Variant: the first reader out allows writers. *)
RunlockFirst(p) ==
  /\ Goto(p, "uk", "idle")
  /\ k' = IF k # <<>> THEN Tail(k) ELSE k
  /\ lk' = Free
  /\ UNCHANGED <<x, readers>>

(* the last reader out allows writers; unlock(&l->lk) *)
RunlockK(p) ==
  /\ Goto(p, "uk", "idle")
  /\ k' = IF readers = 0 THEN Tail(k) ELSE k
  /\ lk' = Free
  /\ UNCHANGED <<x, readers>>

-----------------------------------------------------------------------------
(* wlock and wunlock *)

WlockX(p) ==
  /\ Goto(p, "idle", "wx")
  /\ x' = Append(x, p)
  /\ UNCHANGED <<k, lk, readers>>

(* Variant: the writer waits for k with x free for others. *)
WlockReleasesX(p) ==
  /\ Goto(p, "wx", "wk")
  /\ Holds(x, p)
  /\ k' = Append(k, p)
  /\ x' = Tail(x)
  /\ UNCHANGED <<lk, readers>>

WlockK(p) ==
  /\ Goto(p, "wx", "wk")
  /\ Holds(x, p)
  /\ k' = Append(k, p)
  /\ UNCHANGED <<x, lk, readers>>

WlockDone(p) ==
  /\ Goto(p, "wk", "writing")
  /\ Holds(k, p)
  /\ UNCHANGED <<x, k, lk, readers>>

WunlockK(p) ==
  /\ Goto(p, "writing", "wux")
  /\ k' = Tail(k)
  /\ UNCHANGED <<x, lk, readers>>

WunlockX(p) ==
  /\ Goto(p, "wux", "idle")
  /\ x' = Tail(x)
  /\ UNCHANGED <<k, lk, readers>>

-----------------------------------------------------------------------------
Rlock(p) == RlockCount(p) \/ RlockK(p) \/ RlockUnlockX(p)

Runlock(p) == RunlockCount(p) \/ RunlockK(p)

Wlock(p) == WlockK(p) \/ WlockDone(p)

Wunlock(p) == WunlockK(p) \/ WunlockX(p)

Request(p) == RlockX(p) \/ WlockX(p)

RWNext == \E p \in Users : Request(p) \/ Rlock(p) \/ Runlock(p) \/ Wlock(p) \/ Wunlock(p)

RWSpec == RWInit /\ [][RWNext]_rwVars

(* Nobody has to ask for the lock; whoever has it gives it back.  The spin *)
(* lock l->lk is not assumed to be fair.                                   *)
RWFairSpec ==
  /\ RWSpec
  /\ \A p \in Users : WF_rwVars(Rlock(p) \/ Runlock(p) \/ Wlock(p) \/ Wunlock(p))

-----------------------------------------------------------------------------
RWPC == {"idle", "rx", "rk", "rux", "reading", "uk", "wx", "wk", "writing", "wux"}

RWTypeOK ==
  /\ x \in Seq(Users)
  /\ k \in Seq(Users \cup {Readers})
  /\ lk \in Users \cup {Free}
  /\ readers \in Nat
  /\ rwpc \in [Users -> RWPC]

(***************************************************************************)
(* A writer is alone.  Nothing in rlock looks at k: a reader that missed   *)
(* it with canqlock relies on another reader holding it.                   *)
(***************************************************************************)
RWExclusion ==
  \A p, t \in Users :
    rwpc[p] = "writing" /\ t # p => rwpc[t] \notin {"reading", "writing"}

(***************************************************************************)
(* Readers do not overtake: from the moment a writer waits for the readers *)
(* to leave, their number only falls.                                      *)
(***************************************************************************)
WriterNotOvertaken ==
  [][(\E p \in Users : rwpc[p] = "wk") => readers' <= readers]_rwVars

(***************************************************************************)
(* Readers and writers all get in, if those inside leave.                  *)
(***************************************************************************)
EverybodyGetsIn ==
  \A p \in Users :
    /\ (rwpc[p] = "rx") ~> (rwpc[p] = "reading")
    /\ (rwpc[p] = "wx") ~> (rwpc[p] = "writing")
=============================================================================
