------------------------------ MODULE DevPipe ------------------------------
(***************************************************************************)
(* One direction of a pipe (kern/devpipe.c): the queue q that the          *)
(* processes with the reading end open read and those with the other end   *)
(* open write.  When the last process closes an end, pipeclose hangs the   *)
(* queue up or closes it, and when both ends are closed it reopens it.     *)
(* Those who have the pipe open do so one channel each.  The opposite      *)
(* direction is the same with the roles exchanged.                         *)
(***************************************************************************)
EXTENDS Qio

ASSUME PipeQueues == ~Coalesce

VARIABLES
  open,     \* the processes that have their end of the pipe open
  plk       \* p->lk: the process closing, or None

vars == <<qvars, open, plk>>

Init ==
  /\ QInit
  /\ noblock = FALSE
  /\ open = {}
  /\ plk = None

(* p->qref[...] of the end that p uses is the size of this set *)
SameEnd(p) == open \cap (IF p \in Readers THEN Readers ELSE Writers)

PipeOpen(p) ==
  /\ plk = None /\ At(p, "idle")
  /\ p \notin open
  /\ open' = open \cup {p}
  /\ UNCHANGED <<qvars, plk>>

PipeRead(p) ==
  /\ p \in open /\ plk # p
  /\ \E k \in ReadSizes : QRead(p, k)
  /\ UNCHANGED <<open, plk>>

PipeWrite(p) ==
  /\ p \in open /\ plk # p
  /\ \E k \in WriteSizes : QWrite(p, k)
  /\ UNCHANGED <<open, plk>>

(* pipeclose by one of several *)
PipeCloseOne(p) ==
  /\ plk = None /\ At(p, "idle")
  /\ p \in open /\ SameEnd(p) # {p}
  /\ open' = open \ {p}
  /\ UNCHANGED <<qvars, plk>>

(* pipeclose by the last one: readers close the queue, writers hang it up *)
PipeCloseLast(p) ==
  /\ plk = None /\ At(p, "idle")
  /\ p \in open /\ SameEnd(p) = {p}
  /\ open' = open \ {p}
  /\ plk' = p
  /\ IF p \in Readers THEN QCloseMark(p) ELSE QHangupMark(p)

(* if both sides are closed, they are reusable *)
PipeClosed(p) ==
  /\ plk = p /\ At(p, "cdone")
  /\ Goto(p, "idle")
  /\ IF open = {} THEN QReopen
     ELSE UNCHANGED <<data, state, rlock, wlock, sleepers, n, left, hand, calls>>
  /\ plk' = None
  /\ UNCHANGED open

Step(p) ==
  \/ (ReadStep(p) \/ WriteStep(p) \/ CloseStep(p)) /\ UNCHANGED <<open, plk>>
  \/ PipeClosed(p)

Next ==
  \E p \in Procs :
    \/ PipeOpen(p) \/ PipeRead(p) \/ PipeWrite(p)
    \/ PipeCloseOne(p) \/ PipeCloseLast(p)
    \/ Step(p)

Spec == Init /\ [][Next]_vars

(* Processes inside the queue and pipe code keep running.  Whoever has the *)
(* reading end open reads again and again; nobody has to write or close.   *)
FairSpec ==
  /\ Spec
  /\ \A p \in Procs : WF_vars(Step(p))
  /\ \A p \in Readers : SF_vars(PipeRead(p))

-----------------------------------------------------------------------------
TypeOK ==
  /\ QTypeOK
  /\ pc \in [Procs -> PC]
  /\ open \subseteq Procs
  /\ plk \in Procs \cup {None}

(***************************************************************************)
(* Flow control bounds the queue although a writer queues first and waits  *)
(* afterwards: beyond the limit there is at most one block that a writer   *)
(* has added and one that a reader has put back.                           *)
(***************************************************************************)
Bounded == len < Limit + 2 * (MaxAtomic + Hdr)

(* What has been written and not read, block by block: first the block a   *)
(* reader is copying, which it may put back.                               *)
Chunks == [i \in DOMAIN (hand \o blocks) |-> (hand \o blocks)[i].data]

Channel == INSTANCE PipeChannel WITH put <- sent, chunks <- Chunks, MaxChunk <- MaxAtomic

(***************************************************************************)
(* A pipe keeps the bytes of a write of up to Maxatomic together and in    *)
(* order, a read takes bytes of one write only, and closing or reopening   *)
(* an end loses or revives nothing but what PipeChannel allows, although a *)
(* reader has a block off the queue while writers add to it.               *)
(***************************************************************************)
ImplementsPipeChannel == Channel!Spec

(***************************************************************************)
(* A writer that waits for room gets on, if somebody reads or the reading  *)
(* end is closed.                                                          *)
(***************************************************************************)
WriterGetsOn ==
  \A p \in Writers :
    (pc[p] = "wslept" /\ open \cap Readers # {}) ~> (pc[p] # "wslept" \/ open \cap Readers = {})

(***************************************************************************)
(* A reader notices that the writers are gone.                             *)
(***************************************************************************)
HangupIsNoticed ==
  \A p \in Procs : (closed /\ pc[p] \in {"rslept", "wslept"}) ~> (pc[p] \notin {"rslept", "wslept"})
=============================================================================
