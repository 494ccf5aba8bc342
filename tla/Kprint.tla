------------------------------- MODULE Kprint -------------------------------
(***************************************************************************)
(* /dev/kprint (kern/devcons.c): a process that opens it reads what the    *)
(* kernel prints and what is written to /dev/cons from a queue that is     *)
(* made by the first open, hung up by each close and reopened by the next  *)
(* open.  putstrn0 looks whether the queue is open without a lock, and     *)
(* writes to it with qiwrite (print) or qwrite (writes to the console).    *)
(***************************************************************************)
EXTENDS Qio

CONSTANT Printers       \* those of Writers that print

ASSUME KprintCoalesces == Coalesce /\ Printers \subseteq Writers

VARIABLES
  kprintinuse,  \* kprintinuse
  made,         \* kprintoq is not nil
  has,          \* the processes that have /dev/kprint open
  putting       \* the processes that found the queue open in putstrn0

kvars == <<kprintinuse, made, has, putting>>
vars == <<qvars, kvars>>

Init ==
  /\ QInit
  /\ noblock = FALSE
  /\ kprintinuse = FALSE
  /\ made = FALSE
  /\ has = {}
  /\ putting = {}

-----------------------------------------------------------------------------
(* consopen: the test and set, under kprintlock *)
KprintOpen(p) ==
  /\ p \in Readers \ has /\ At(p, "idle")
  /\ ~kprintinuse
  /\ kprintinuse' = TRUE
  /\ Goto(p, "kopen")
  /\ UNCHANGED <<data, state, rlock, wlock, sleepers, n, left, hand, calls, made, has, putting>>

(* the first open: kprintoq = qopen(...); all writers see it at once *)
KprintMake(p) ==
  /\ At(p, "kopen") /\ ~made
  /\ made' = TRUE
  /\ Goto(p, "knoblock")
  /\ UNCHANGED <<data, state, rlock, wlock, sleepers, n, left, hand, calls, kprintinuse, has, putting>>

KprintNoblock(p) ==
  /\ At(p, "knoblock")
  /\ noblock' = TRUE
  /\ has' = has \cup {p}
  /\ Goto(p, "idle")
  /\ UNCHANGED <<data, closed, flow, starve, rlock, wlock, sleepers, n, left, hand, calls,
                 kprintinuse, made, putting>>

KprintReopen(p) ==
  /\ At(p, "kopen") /\ made
  /\ QReopen
  /\ has' = has \cup {p}
  /\ Goto(p, "idle")
  /\ UNCHANGED <<kprintinuse, made, putting>>

KprintRead(p) ==
  /\ p \in has
  /\ \E k \in ReadSizes : QRead(p, k)
  /\ UNCHANGED kvars

(* consclose: kprintinuse = 0, and then the hangup *)
KprintClose(p) ==
  /\ p \in has /\ At(p, "idle")
  /\ kprintinuse' = FALSE
  /\ has' = has \ {p}
  /\ Goto(p, "khangup")
  /\ UNCHANGED <<data, state, rlock, wlock, sleepers, n, left, hand, calls, made, putting>>

KprintHangup(p) ==
  /\ At(p, "khangup")
  /\ QHangupMark(p)
  /\ UNCHANGED kvars

KprintClosed(p) ==
  /\ At(p, "cdone")
  /\ Goto(p, "idle")
  /\ UNCHANGED <<data, state, rlock, wlock, sleepers, n, left, hand, calls, kvars>>

(* putstrn0: a text goes to the queue if there is an open one *)
Putstrn(p) ==
  /\ p \in Writers \ putting /\ At(p, "idle")
  /\ calls < MaxCalls
  /\ made /\ ~closed
  /\ putting' = putting \cup {p}
  /\ UNCHANGED <<qvars, kprintinuse, made, has>>

PutWrite(p) ==
  /\ p \in putting
  /\ putting' = putting \ {p}
  /\ \E k \in WriteSizes : IF p \in Printers THEN QIWrite(p, k) ELSE QWrite(p, k)
  /\ UNCHANGED <<kprintinuse, made, has>>

Next ==
  \E p \in Procs :
    \/ KprintOpen(p) \/ KprintMake(p) \/ KprintNoblock(p) \/ KprintReopen(p)
    \/ KprintRead(p) \/ KprintClose(p) \/ KprintHangup(p) \/ KprintClosed(p)
    \/ Putstrn(p) \/ PutWrite(p)
    \/ (ReadStep(p) \/ WriteStep(p) \/ IWriteStep(p) \/ CloseStep(p)) /\ UNCHANGED kvars

Spec == Init /\ [][Next]_vars

-----------------------------------------------------------------------------
TypeOK ==
  /\ QTypeOK
  /\ pc \in [Procs -> PC \cup {"kopen", "knoblock", "khangup"}]
  /\ {kprintinuse, made} \subseteq BOOLEAN
  /\ has \subseteq Readers
  /\ putting \subseteq Writers

(***************************************************************************)
(* "close of kprint allows other opens" (devcons.c:639): whoever has       *)
(* opened /dev/kprint and not begun to close it reads from an open queue.  *)
(***************************************************************************)
OpenKprintIsOpen == has # {} => ~closed
=============================================================================
