-------------------------------- MODULE Qio --------------------------------
(***************************************************************************)
(* The byte queues of kern/qio.c.  Each section under q->lk is one action, *)
(* and so is each step between two of them: a reader copies to user space, *)
(* and every wakeup comes, with the queue unlocked, so that blocks, close  *)
(* and other wakeups get in between.                                       *)
(*                                                                         *)
(* The locks q->rlock and q->wlock are the lines that module QLocks shows  *)
(* qlock.c to be (holder first).  sleep tests its condition and commits in *)
(* one step, and wakeup releases whoever is committed, which is what       *)
(* module SleepWakeup shows of sleep.c.  No queue of the program has a     *)
(* kick or bypass function or is opened with Qmsg or Qkick.                *)
(*                                                                         *)
(* This module has the operations; those that use a queue extend it.       *)
(***************************************************************************)
EXTENDS Naturals, Sequences, SequencesExt

CONSTANTS
  Readers,      \* processes that call qread or qbread
  BReaders,     \* those of them that call qbread
  Writers,      \* processes that call qwrite or qbwrite
  None,         \* nil
  Coalesce,     \* opened with Qcoalesce
  Limit,        \* q->limit
  High,         \* the 16*1024 of qiwrite
  MaxAtomic,    \* Maxatomic
  Hdr,          \* what allocb adds to the size it is asked for
  ReadSizes,    \* the len of qread and qbread
  WriteSizes,   \* the len of qwrite and qiwrite
  MaxCalls      \* bound: calls that write or produce

Procs == Readers \cup Writers

ASSUME NoneIsNil == None \notin Procs
ASSUME SizesAreNat ==
  /\ {Limit, High, MaxAtomic, Hdr, MaxCalls} \subseteq Nat
  /\ MaxAtomic > 0
  /\ ReadSizes \subseteq Nat
  /\ WriteSizes \subseteq Nat
ASSUME RolesDiffer == Readers \cap Writers = {} /\ BReaders \subseteq Readers
ASSUME CoalesceIsBool == Coalesce \in BOOLEAN

VARIABLES
  blocks,       \* q->bfirst ...: records of a block's data and BALLOC
  len, dlen,    \* q->len, q->dlen
  closed, flow, starve,   \* Qclosed, Qflow and Qstarve in q->state
  noblock,      \* q->noblock
  rlock, wlock, \* q->rlock, q->wlock: holder first, then the line
  rr, wr,       \* the process asleep on q->rr, on q->wr
  pc,
  n,            \* the len of p's read; the size of the block p writes next
  left,         \* what p's write still has to do, that block included
  hand,         \* blocks a qread has taken and is copying
  sent,         \* history: data bytes ever queued; byte i is the number i
  gone,         \* history: bytes up to this one were read or freed by qclose
  calls         \* bound: writing calls made

state == <<closed, flow, starve, noblock>>
data == <<blocks, len, dlen, sent, gone>>
sleepers == <<rr, wr>>
qvars == <<data, state, rlock, wlock, sleepers, pc, n, left, hand, calls>>

QInit ==
  /\ blocks = <<>> /\ len = 0 /\ dlen = 0
  /\ closed = FALSE /\ flow = FALSE /\ starve = TRUE
  /\ rlock = <<>> /\ wlock = <<>>
  /\ rr = None /\ wr = None
  /\ pc = [p \in Procs |-> "idle"]
  /\ n = [p \in Procs |-> 0]
  /\ left = [p \in Procs |-> 0]
  /\ hand = <<>>
  /\ sent = 0 /\ gone = 0 /\ calls = 0

-----------------------------------------------------------------------------
Holds(lock, p) == lock # <<>> /\ Head(lock) = p

At(p, l) == pc[p] = l

Goto(p, l) == pc' = [pc EXCEPT ![p] = l]

(* wakeup(r): the process asleep there goes on at l1, the caller at l *)
WakeAndGoto(r, l1, p, l) ==
  pc' = [q \in Procs |-> IF q = p THEN l ELSE IF q = r THEN l1 ELSE pc[q]]

WakeReader(p, l) ==
  /\ rr' = None
  /\ WakeAndGoto(rr, "rwait", p, l)
  /\ UNCHANGED <<data, state, rlock, wlock, wr, n, left, hand, calls>>

WakeWriter(p, l) ==
  /\ wr' = None
  /\ WakeAndGoto(wr, "wflow", p, l)
  /\ UNCHANGED <<data, state, rlock, wlock, rr, n, left, hand, calls>>

Bytes(bs) == FlattenSeq([i \in DOMAIN bs |-> bs[i].data])

Alloc(bs) == FoldLeft(LAMBDA s, b : s + b.alloc, 0, bs)

LeastOf(i, j) == IF i < j THEN i ELSE j

(* notempty and qnotfull, which sleep and the callers evaluate unlocked *)
NotEmpty == closed \/ blocks # <<>>

QNotFull == len < Limit \/ closed

-----------------------------------------------------------------------------
(* qread and qbread *)

QRead(p, k) ==
  /\ p \in Readers /\ At(p, "idle")
  /\ rlock' = Append(rlock, p)
  /\ n' = [n EXCEPT ![p] = k]
  /\ Goto(p, "rwait")
  /\ UNCHANGED <<data, state, wlock, sleepers, left, hand, calls>>

(* qwait under q->lk *)
InQWait(p) == At(p, "rwait") /\ Holds(rlock, p)

(* the queue is empty and closed: return 0, or raise q->err the fourth     *)
(* time (q->eof); the queue is left alone either way                       *)
QWaitClosed(p) ==
  /\ InQWait(p) /\ blocks = <<>> /\ closed
  /\ rlock' = Tail(rlock)
  /\ n' = [n EXCEPT ![p] = 0]
  /\ Goto(p, "idle")
  /\ UNCHANGED <<data, state, wlock, sleepers, left, hand, calls>>

(* Variant: the producer is not asked to wake the reader. *)
QWaitUnflagged(p) ==
  /\ InQWait(p) /\ blocks = <<>> /\ ~closed
  /\ Goto(p, "rsleep")
  /\ UNCHANGED <<data, state, rlock, wlock, sleepers, n, left, hand, calls>>

QWaitStarve(p) ==
  /\ InQWait(p) /\ blocks = <<>> /\ ~closed
  /\ starve' = TRUE
  /\ Goto(p, "rsleep")
  /\ UNCHANGED <<data, closed, flow, noblock, rlock, wlock, sleepers, n, left, hand, calls>>

(* sleep(&q->rr, notempty, q) *)
RSleep(p) ==
  /\ At(p, "rsleep")
  /\ IF NotEmpty THEN Goto(p, "rwait") /\ UNCHANGED rr
                 ELSE Goto(p, "rslept") /\ rr' = p
  /\ UNCHANGED <<data, state, rlock, wlock, wr, n, left, hand, calls>>

(* qread with Qcoalesce: an empty first block goes away (the code keeps    *)
(* q->lk until it has found a block with data)                              *)
QReadDrop(p) ==
  /\ InQWait(p) /\ p \notin BReaders
  /\ Coalesce /\ blocks # <<>> /\ Head(blocks).data = <<>>
  /\ blocks' = Tail(blocks)
  /\ len' = len - Head(blocks).alloc
  /\ UNCHANGED <<dlen, sent, gone, state, rlock, wlock, sleepers, pc, n, left, hand, calls>>

(* Variant: takes what is queued, whether or not it fits. *)
GrabsAll(p) == IF ~Coalesce THEN 1 ELSE Len(blocks)

(* how many blocks qread takes: the first, and with Qcoalesce those that   *)
(* fit as well                                                             *)
Grabs(p) ==
  IF ~Coalesce THEN 1
  ELSE CHOOSE k \in DOMAIN blocks :
         /\ k = 1 \/ Len(Bytes(SubSeq(blocks, 1, k))) <= n[p]
         /\ k = Len(blocks) \/ Len(Bytes(SubSeq(blocks, 1, k + 1))) > n[p]

QReadGrab(p) ==
  /\ InQWait(p) /\ p \notin BReaders
  /\ blocks # <<>> /\ ~(Coalesce /\ Head(blocks).data = <<>>)
  /\ LET k == Grabs(p) IN
       /\ hand' = SubSeq(blocks, 1, k)
       /\ blocks' = SubSeq(blocks, k + 1, Len(blocks))
  /\ len' = len - Alloc(hand')
  /\ dlen' = dlen - Len(Bytes(hand'))
  /\ Goto(p, "rcopy")
  /\ UNCHANGED <<sent, gone, state, rlock, wlock, sleepers, n, left, calls>>

(* qwakeup_iunlock, the queue being len1 bytes long *)
RestartWriter(p, len1) ==
  IF flow /\ len1 < Limit \div 2 THEN flow' = FALSE /\ Goto(p, "rwake")
                                 ELSE UNCHANGED flow /\ Goto(p, "rdone")

(* bl2mem copies the first k bytes of a list of blocks; the block it stops *)
(* in is returned without what was copied, those after it are lost         *)
Bl2mem(bs, k) ==
  IF Len(Bytes(bs)) <= k THEN <<>>
  ELSE LET i == CHOOSE i \in DOMAIN bs :
                  /\ Len(Bytes(SubSeq(bs, 1, i - 1))) <= k
                  /\ Len(Bytes(SubSeq(bs, 1, i))) > k
           skip == k - Len(Bytes(SubSeq(bs, 1, i - 1))) IN
       <<[bs[i] EXCEPT !.data = SubSeq(@, skip + 1, Len(@))]>>

(* Variant: what was not read is put back with its size before the read. *)
QReadFinishSize(p) ==
  /\ At(p, "rcopy")
  /\ LET rest == Bl2mem(hand, n[p]) IN
       /\ blocks' = rest \o blocks
       /\ len' = len + Alloc(rest)
       /\ dlen' = dlen + (IF rest = <<>> THEN 0 ELSE Len(Bytes(hand)))
  /\ gone' = gone + LeastOf(Len(Bytes(hand)), n[p])
  /\ hand' = <<>>
  /\ RestartWriter(p, len')
  /\ UNCHANGED <<sent, closed, starve, noblock, rlock, wlock, sleepers, n, left, calls>>

(* Variant: what was not read goes to the end of the queue. *)
QReadFinishBack(p) ==
  /\ At(p, "rcopy")
  /\ LET rest == Bl2mem(hand, n[p]) IN
       /\ blocks' = blocks \o rest
       /\ len' = len + Alloc(rest)
       /\ dlen' = dlen + Len(Bytes(rest))
  /\ gone' = gone + LeastOf(Len(Bytes(hand)), n[p])
  /\ hand' = <<>>
  /\ RestartWriter(p, len')
  /\ UNCHANGED <<sent, closed, starve, noblock, rlock, wlock, sleepers, n, left, calls>>

(* the copy is made; what did not fit is put back at the front *)
QReadFinish(p) ==
  /\ At(p, "rcopy")
  /\ LET rest == Bl2mem(hand, n[p]) IN
       /\ blocks' = rest \o blocks
       /\ len' = len + Alloc(rest)
       /\ dlen' = dlen + Len(Bytes(rest))
  /\ gone' = gone + LeastOf(Len(Bytes(hand)), n[p])
  /\ hand' = <<>>
  /\ RestartWriter(p, len')
  /\ UNCHANGED <<sent, closed, starve, noblock, rlock, wlock, sleepers, n, left, calls>>

(* qbread: one block; what is too long of it is put back in a new block *)
QBRead(p) ==
  /\ InQWait(p) /\ p \in BReaders /\ blocks # <<>>
  /\ LET b == Head(blocks).data
         got == LeastOf(Len(b), n[p])
         rest == [data |-> SubSeq(b, got + 1, Len(b)), alloc |-> Len(b) - got + Hdr] IN
       /\ gone' = gone + got
       /\ dlen' = dlen - got
       /\ IF got = Len(b)
            THEN /\ blocks' = Tail(blocks)
                 /\ len' = len - Head(blocks).alloc
            ELSE /\ blocks' = <<rest>> \o Tail(blocks)
                 /\ len' = len - Head(blocks).alloc + rest.alloc
  /\ RestartWriter(p, len')
  /\ UNCHANGED <<sent, closed, starve, noblock, rlock, wlock, sleepers, n, left, hand, calls>>

RWake(p) == At(p, "rwake") /\ WakeWriter(p, "rdone")

QReadReturn(p) ==
  /\ At(p, "rdone")
  /\ rlock' = Tail(rlock)
  /\ n' = [n EXCEPT ![p] = 0]
  /\ Goto(p, "idle")
  /\ UNCHANGED <<data, state, wlock, sleepers, left, hand, calls>>

ReadStep(p) ==
  \/ QWaitClosed(p) \/ QWaitStarve(p) \/ RSleep(p)
  \/ QReadDrop(p) \/ QReadGrab(p) \/ QReadFinish(p) \/ QBRead(p)
  \/ RWake(p) \/ QReadReturn(p)

-----------------------------------------------------------------------------
(* qwrite and qbwrite; a qbwrite is a qwrite of one block *)

Queue(k) ==
  /\ blocks' = Append(blocks, [data |-> [i \in 1..k |-> sent + i], alloc |-> k + Hdr])
  /\ len' = len + k + Hdr
  /\ dlen' = dlen + k
  /\ sent' = sent + k
  /\ UNCHANGED gone

StartWrite(p, k) ==
  /\ p \in Writers /\ At(p, "idle")
  /\ calls < MaxCalls
  /\ calls' = calls + 1
  /\ left' = [left EXCEPT ![p] = k]
  /\ n' = [n EXCEPT ![p] = LeastOf(k, MaxAtomic)]

QWrite(p, k) ==
  /\ StartWrite(p, k)
  /\ wlock' = Append(wlock, p)
  /\ Goto(p, "wq")
  /\ UNCHANGED <<data, state, rlock, sleepers, hand>>

InQBWrite(p) == At(p, "wq") /\ Holds(wlock, p)

(* error(q->err) goes through qbwrite and qwrite to their caller *)
QBWriteClosed(p) ==
  /\ InQBWrite(p) /\ closed
  /\ wlock' = Tail(wlock)
  /\ left' = [left EXCEPT ![p] = 0]
  /\ n' = [n EXCEPT ![p] = 0]
  /\ Goto(p, "idle")
  /\ UNCHANGED <<data, state, rlock, sleepers, hand, calls>>

(* nonblocking and over the limit: the block is dropped *)
QBWriteDrop(p) ==
  /\ InQBWrite(p) /\ ~closed /\ noblock /\ len >= Limit
  /\ left' = [left EXCEPT ![p] = @ - n[p]]
  /\ Goto(p, "wout")
  /\ UNCHANGED <<data, state, rlock, wlock, sleepers, n, hand, calls>>

QBWriteQueue(p) ==
  /\ InQBWrite(p) /\ ~closed /\ ~(noblock /\ len >= Limit)
  /\ Queue(n[p])
  /\ starve' = FALSE
  /\ left' = [left EXCEPT ![p] = @ - n[p]]
  /\ Goto(p, IF starve THEN "wwake" ELSE "wflow")
  /\ UNCHANGED <<closed, flow, noblock, rlock, wlock, sleepers, n, hand, calls>>

WWake(p) == At(p, "wwake") /\ WakeReader(p, "wflow")

(* Variant: the writer goes on without regard to the limit. *)
WFlowFree(p) ==
  /\ At(p, "wflow")
  /\ Goto(p, "wout")
  /\ UNCHANGED <<data, state, rlock, wlock, sleepers, n, left, hand, calls>>

(* the test at the head of the flow control loop, unlocked *)
WFlow(p) ==
  /\ At(p, "wflow")
  /\ Goto(p, IF noblock \/ QNotFull THEN "wout" ELSE "wset")
  /\ UNCHANGED <<data, state, rlock, wlock, sleepers, n, left, hand, calls>>

WSetFlow(p) ==
  /\ At(p, "wset")
  /\ flow' = TRUE
  /\ Goto(p, "wsleep")
  /\ UNCHANGED <<data, closed, starve, noblock, rlock, wlock, sleepers, n, left, hand, calls>>

(* Variant: sleep without the test under the rendezvous lock. *)
WSleepUntested(p) ==
  /\ At(p, "wsleep")
  /\ Goto(p, "wslept") /\ wr' = p
  /\ UNCHANGED <<data, state, rlock, wlock, rr, n, left, hand, calls>>

(* sleep(&q->wr, qnotfull, q) *)
WSleep(p) ==
  /\ At(p, "wsleep")
  /\ IF QNotFull THEN Goto(p, "wflow") /\ UNCHANGED wr
                 ELSE Goto(p, "wslept") /\ wr' = p
  /\ UNCHANGED <<data, state, rlock, wlock, rr, n, left, hand, calls>>

(* qunlock(&q->wlock); qwrite goes round for the next Maxatomic bytes *)
QBWriteReturn(p) ==
  /\ At(p, "wout")
  /\ wlock' = IF left[p] > 0 THEN Append(Tail(wlock), p) ELSE Tail(wlock)
  /\ n' = [n EXCEPT ![p] = LeastOf(left[p], MaxAtomic)]
  /\ Goto(p, IF left[p] > 0 THEN "wq" ELSE "idle")
  /\ UNCHANGED <<data, state, rlock, sleepers, left, hand, calls>>

WriteStep(p) ==
  \/ QBWriteClosed(p) \/ QBWriteDrop(p) \/ QBWriteQueue(p) \/ WWake(p)
  \/ WFlow(p) \/ WSetFlow(p) \/ WSleep(p) \/ QBWriteReturn(p)

-----------------------------------------------------------------------------
(* qiwrite, which takes no lock and does not look at Qclosed *)

QIWrite(p, k) ==
  /\ StartWrite(p, k)
  /\ Goto(p, "iq")
  /\ UNCHANGED <<data, state, rlock, wlock, sleepers, hand>>

(* 16K are queued, or iallocb has nothing: the rest is not written *)
QIWriteBreak(p) ==
  /\ pc[p] \in {"iq", "iqw"}
  /\ left' = [left EXCEPT ![p] = 0]
  /\ n' = [n EXCEPT ![p] = 0]
  /\ Goto(p, "idle")
  /\ UNCHANGED <<data, state, rlock, wlock, sleepers, hand, calls>>

(* dowakeup, once set, stays set for the blocks that follow ("iqw") *)
QIWriteQueue(p) ==
  /\ pc[p] \in {"iq", "iqw"}
  /\ dlen < High
  /\ Queue(n[p])
  /\ starve' = FALSE
  /\ left' = [left EXCEPT ![p] = @ - n[p]]
  /\ n' = [n EXCEPT ![p] = LeastOf(left'[p], MaxAtomic)]
  /\ Goto(p, IF starve \/ At(p, "iqw") THEN "iwake" ELSE IF left'[p] > 0 THEN "iq" ELSE "idle")
  /\ UNCHANGED <<closed, flow, noblock, rlock, wlock, sleepers, hand, calls>>

IWake(p) ==
  /\ At(p, "iwake")
  /\ WakeReader(p, IF left[p] > 0 THEN "iqw" ELSE "idle")

IWriteStep(p) == QIWriteBreak(p) \/ QIWriteQueue(p) \/ IWake(p)

-----------------------------------------------------------------------------
(* qproduce, for threads that must not wait *)

(* there is no room, or no memory: nothing is queued *)
QProduceNone(p) ==
  /\ p \in Writers /\ At(p, "idle")
  /\ calls < MaxCalls
  /\ calls' = calls + 1
  /\ flow' = (flow \/ len >= Limit)
  /\ UNCHANGED <<data, closed, starve, noblock, rlock, wlock, sleepers, pc, n, left, hand>>

QProduce(p, k) ==
  /\ p \in Writers /\ At(p, "idle")
  /\ calls < MaxCalls
  /\ calls' = calls + 1
  /\ len < Limit
  /\ Queue(k)
  /\ starve' = FALSE
  /\ flow' = (flow \/ len' >= Limit)
  /\ Goto(p, IF starve THEN "iwake" ELSE "idle")
  /\ UNCHANGED <<closed, noblock, rlock, wlock, sleepers, n, left, hand>>

-----------------------------------------------------------------------------
(* qclose, qhangup and qreopen; p then wakes the readers and the writers *)

QCloseMark(p) ==
  /\ closed' = TRUE
  /\ flow' = FALSE
  /\ starve' = FALSE
  /\ noblock' = FALSE
  /\ blocks' = <<>>
  /\ len' = 0
  /\ dlen' = 0
  /\ gone' = sent
  /\ Goto(p, "crr")
  /\ UNCHANGED <<sent, rlock, wlock, sleepers, n, left, hand, calls>>

QHangupMark(p) ==
  /\ closed' = TRUE
  /\ Goto(p, "crr")
  /\ UNCHANGED <<data, flow, starve, noblock, rlock, wlock, sleepers, n, left, hand, calls>>

CloseWakesReader(p) == At(p, "crr") /\ WakeReader(p, "cwr")

(* Variant: qclose and qhangup wake readers only. *)
CloseForgetsWriter(p) ==
  /\ At(p, "cwr")
  /\ Goto(p, "cdone")
  /\ UNCHANGED <<data, state, rlock, wlock, sleepers, n, left, hand, calls>>

CloseWakesWriter(p) == At(p, "cwr") /\ WakeWriter(p, "cdone")

CloseStep(p) == CloseWakesReader(p) \/ CloseWakesWriter(p)

QReopen ==
  /\ closed' = FALSE
  /\ starve' = TRUE
  /\ UNCHANGED <<data, flow, noblock, rlock, wlock, sleepers, n, left, hand, calls>>

-----------------------------------------------------------------------------
PC == {"idle", "rwait", "rsleep", "rslept", "rcopy", "rwake", "rdone",
       "wq", "wwake", "wflow", "wset", "wsleep", "wslept", "wout",
       "iq", "iqw", "iwake", "crr", "cwr", "cdone"}

QTypeOK ==
  /\ blocks \in Seq([data : Seq(Nat), alloc : Nat])
  /\ hand \in Seq([data : Seq(Nat), alloc : Nat])
  /\ {len, dlen, sent, gone} \subseteq Nat
  /\ {closed, flow, starve, noblock} \subseteq BOOLEAN
  /\ rlock \in Seq(Readers) /\ wlock \in Seq(Writers)
  /\ rr \in Readers \cup {None} /\ wr \in Writers \cup {None}
  /\ n \in [Procs -> Nat] /\ left \in [Procs -> Nat]
  /\ calls \in 0..MaxCalls

(***************************************************************************)
(* Every byte queued is read exactly once and in order, or freed by the    *)
(* qclose of a queue nobody reads: what a reader is copying, then what is  *)
(* queued, is exactly the bytes not yet read.                              *)
(***************************************************************************)
InOrder == Bytes(hand) \o Bytes(blocks) = [i \in 1 .. sent - gone |-> gone + i]

(***************************************************************************)
(* The queue's counts agree with its blocks; flow control relies on them.  *)
(***************************************************************************)
Accounting == len = Alloc(blocks) /\ dlen = Len(Bytes(blocks))

Waking(ls) == \E p \in Procs : pc[p] \in ls

(***************************************************************************)
(* No wakeup is lost.  A process asleep on q->rr is about to be woken, or  *)
(* there is nothing to read and the next writer will find Qstarve set.     *)
(***************************************************************************)
ReaderIsRemembered ==
  rr # None => \/ Waking({"wwake", "iwake", "crr"})
               \/ starve /\ ~NotEmpty

(***************************************************************************)
(* One asleep on q->wr is about to be woken, or will be by the reader that *)
(* brings the queue below half its limit, because Qflow is set; while the  *)
(* queue is that short already, such a reader is at work.                  *)
(***************************************************************************)
WriterIsRemembered ==
  wr # None => \/ Waking({"rwake", "crr", "cwr"})
               \/ flow /\ ~closed /\ (len >= Limit \div 2 \/ Waking({"rcopy"}))
=============================================================================
