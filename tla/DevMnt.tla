------------------------------- MODULE DevMnt -------------------------------
(***************************************************************************)
(* The mount driver (kern/devmnt.c): processes share one connection to a   *)
(* 9P server.  Each sends its request under a tag of its own and waits;    *)
(* one of them at a time, m->rip, reads replies for all.  A process whose  *)
(* transport says "interrupted" sends a Tflush and waits for its answer    *)
(* before it gives its request up.                                         *)
(*                                                                         *)
(* A section under m->lk or mntalloc.lk is one action.  A Mntrpc has the   *)
(* same tag from mntralloc's malloc to mntfree's free, so the two are one  *)
(* thing here.  sleep and wakeup are as module SleepWakeup shows sleep.c   *)
(* to be: a test and commitment in one step, and the release of whoever is *)
(* committed.  The server is any that keeps to flush(5): it answers in any *)
(* order, drops the flushed request when it answers a Tflush, and answers  *)
(* the Tflushes of one request in order.                                   *)
(***************************************************************************)
EXTENDS Naturals, Sequences, SequencesExt

CONSTANTS
  Procs,        \* processes that make calls
  Tags,         \* a set of numbers: the tags of mntalloc.tagmask
  None,         \* nil
  MaxFree,      \* how many Mntrpc are kept free (10)
  MaxCalls,     \* bound: calls made
  MaxIntr,      \* bound: times the transport is interrupted
  Lucky,        \* bound: processes that make no calls when there are interrupts
                \* or the server goes away
  MayHangUp     \* whether the server may go away

ASSUME NoneIsNil == None \notin Procs \cup Tags /\ None \notin {"intr", "dead"}
ASSUME TagsAreNat == Tags \subseteq Nat /\ {MaxFree, MaxCalls, MaxIntr} \subseteq Nat
ASSUME HangupIsBool == MayHangUp \in BOOLEAN
ASSUME LuckyProcs == Lucky \subseteq Procs

VARIABLES
  used,         \* tags allocated: those in use and those kept free
  rpcfree,      \* mntalloc.rpcfree, last freed first
  queue,        \* m->queue, last sent first
  rip,          \* m->rip
  done,         \* done[t]: r->done
  flushed,      \* flushed[t]: r->flushed, the Mntrpc that t is to flush
  oldtag,       \* oldtag[t]: None, or what the Tflush t names
  id,           \* history, id[t]: the call or flush t stands for, 0 if free
  late,         \* history: the tags given out since link is "down"
  reply,        \* reply[t]: the id that r->reply answers, None if Rflush or none
  pc,
  cur,          \* cur[p]: the r of mountio
  msg,          \* msg[p]: what mntrpcread has read; then whom to wake
  why,          \* why[p]: the error being raised: "intr" or "dead"
  srv, in,      \* requests at the server (a set), replies on the way back
  link,         \* "up"; the server gone, unnoticed by writes; or "down"
  ids, intrs    \* ids given out; interrupts so far

rpcs == <<used, rpcfree, flushed, oldtag, id, late, ids>>
net == <<srv, in, link>>
vars == <<rpcs, queue, rip, done, reply, pc, cur, msg, why, net, intrs>>

Init ==
  /\ used = {} /\ rpcfree = <<>> /\ queue = <<>> /\ rip = None
  /\ done = [t \in Tags |-> FALSE]
  /\ flushed = [t \in Tags |-> None]
  /\ oldtag = [t \in Tags |-> None]
  /\ id = [t \in Tags |-> 0] /\ late = {}
  /\ reply = [t \in Tags |-> None]
  /\ pc = [p \in Procs |-> "idle"]
  /\ cur = [p \in Procs |-> None]
  /\ msg = [p \in Procs |-> None]
  /\ why = [p \in Procs |-> None]
  /\ srv = {} /\ in = <<>> /\ link = "up"
  /\ ids = 0 /\ intrs = 0

-----------------------------------------------------------------------------
Goto(p, from, to) ==
  /\ pc[p] = from
  /\ pc' = [pc EXCEPT ![p] = to]

(* wakeup(&t->r) by p, which goes on at l *)
Wakeup(t, p, from, l) ==
  /\ pc[p] = from
  /\ pc' = [q \in Procs |-> IF q = p THEN l
                            ELSE IF pc[q] = "asleep" /\ cur[q] = t THEN "awake" ELSE pc[q]]

(* mntralloc gives out t, of the Mntrpc freed last, or else the lowest tag  *)
(* that is free                                                            *)
AllocTag(t) ==
  IF rpcfree # <<>> THEN t = Head(rpcfree)
  ELSE t \in Tags \ used /\ \A u \in Tags \ used : t <= u

SetRpc(t, fl, old, i) ==
  /\ done' = [done EXCEPT ![t] = FALSE]
  /\ flushed' = [flushed EXCEPT ![t] = fl]
  /\ oldtag' = [oldtag EXCEPT ![t] = old]
  /\ id' = [id EXCEPT ![t] = i]
  /\ reply' = [reply EXCEPT ![t] = None]

Mntralloc(t, fl, old) ==
  /\ AllocTag(t)
  /\ rpcfree' = IF rpcfree # <<>> THEN Tail(rpcfree) ELSE rpcfree
  /\ used' = used \cup {t}
  /\ ids' = ids + 1
  /\ late' = IF link = "down" THEN late \cup {t} ELSE late
  /\ SetRpc(t, fl, old, ids + 1)

(* the fields of a free Mntrpc, which nobody reads, are cleared *)
Mntfree(t) ==
  /\ SetRpc(t, None, None, 0)
  /\ late' = late \ {t}
  /\ IF Len(rpcfree) >= MaxFree
       THEN used' = used \ {t} /\ UNCHANGED rpcfree
       ELSE rpcfree' = <<t>> \o rpcfree /\ UNCHANGED used
  /\ UNCHANGED ids

Trouble == \A p \in Lucky : pc[p] = "idle"

(* an operation on a file: mntralloc, and mountrpc down to mountio *)
Call(p) ==
  /\ Goto(p, "idle", "enqueue")
  /\ ids < MaxCalls + intrs
  /\ p \in Lucky => intrs = 0 /\ link = "up"
  /\ \E t \in Tags :
       /\ Mntralloc(t, None, None)
       /\ cur' = [cur EXCEPT ![p] = t]
  /\ UNCHANGED <<queue, rip, msg, why, net, intrs>>

Enqueue(p) ==
  /\ Goto(p, "enqueue", "send")
  /\ queue' = <<cur[p]>> \o queue
  /\ UNCHANGED <<rpcs, rip, done, reply, cur, msg, why, net, intrs>>

Request(t) == [tag |-> t, id |-> id[t], old |-> oldtag[t]]

(* the transport takes the request *)
Send(p) ==
  /\ link # "down"
  /\ Goto(p, "send", "gate")
  /\ srv' = IF link = "up" THEN srv \cup {Request(cur[p])} ELSE srv
  /\ UNCHANGED <<rpcs, queue, rip, done, reply, cur, msg, why, in, link, intrs>>

Raise(p, from, e) ==
  /\ Goto(p, from, "error")
  /\ why' = [why EXCEPT ![p] = e]
  /\ UNCHANGED <<rpcs, queue, rip, done, reply, cur, msg, in, link>>

SendFails(p) ==
  /\ link = "down"
  /\ Raise(p, "send", "dead")
  /\ UNCHANGED <<srv, intrs>>

(* a write that is interrupted may have been sent or not *)
SendInterrupted(p) ==
  /\ intrs < MaxIntr /\ Trouble
  /\ intrs' = intrs + 1
  /\ Raise(p, "send", "intr")
  /\ srv' \in {srv, IF link = "up" THEN srv \cup {Request(cur[p])} ELSE srv}

-----------------------------------------------------------------------------
(* mountio: gate readers onto the mount point one at a time *)

(* Variant: nobody waits for the reader before. *)
GateOpen(p) ==
  /\ Goto(p, "gate", IF done[cur[p]] THEN "gateout" ELSE "read")
  /\ rip' = p
  /\ UNCHANGED <<rpcs, queue, done, reply, cur, msg, why, net, intrs>>

GateEnter(p) ==
  /\ rip = None
  /\ Goto(p, "gate", IF done[cur[p]] THEN "gateout" ELSE "read")
  /\ rip' = p
  /\ UNCHANGED <<rpcs, queue, done, reply, cur, msg, why, net, intrs>>

GateShut(p) ==
  /\ rip # None
  /\ Goto(p, "gate", "sleep")
  /\ UNCHANGED <<rpcs, queue, rip, done, reply, cur, msg, why, net, intrs>>

(* Variant: rpcattn does not look at the gate. *)
SleepForReply(p) ==
  /\ Goto(p, "sleep", IF done[cur[p]] THEN "awake" ELSE "asleep")
  /\ UNCHANGED <<rpcs, queue, rip, done, reply, cur, msg, why, net, intrs>>

(* sleep(&r->r, rpcattn, r) *)
Sleep(p) ==
  /\ Goto(p, "sleep", IF done[cur[p]] \/ rip = None THEN "awake" ELSE "asleep")
  /\ UNCHANGED <<rpcs, queue, rip, done, reply, cur, msg, why, net, intrs>>

Awake(p) ==
  /\ Goto(p, "awake", IF done[cur[p]] THEN "free" ELSE "gate")
  /\ UNCHANGED <<rpcs, queue, rip, done, reply, cur, msg, why, net, intrs>>

(* mntrpcread: the next message *)
Read(p) ==
  /\ Goto(p, "read", "mux")
  /\ in # <<>>
  /\ msg' = [msg EXCEPT ![p] = Head(in)]
  /\ in' = Tail(in)
  /\ UNCHANGED <<rpcs, queue, rip, done, reply, cur, why, srv, link, intrs>>

(* end of file; error(Emountrpc) *)
ReadFails(p) ==
  /\ link # "up" /\ in = <<>>
  /\ Raise(p, "read", "dead")
  /\ UNCHANGED <<srv, intrs>>

ReadInterrupted(p) ==
  /\ intrs < MaxIntr /\ Trouble
  /\ intrs' = intrs + 1
  /\ Raise(p, "read", "intr")
  /\ UNCHANGED srv

InQueue(t) == \E i \in DOMAIN queue : queue[i] = t

(* the Mntrpc of t leaves the queue, if it is there *)
Unlink(t) ==
  IF InQueue(t) THEN \E i \in DOMAIN queue : queue[i] = t /\ queue' = RemoveAt(queue, i)
  ELSE UNCHANGED queue

(* Variant: the reply is taken for the reader's own. *)
MuxOwn(p) ==
  /\ Goto(p, "mux", "gateout")
  /\ Unlink(cur[p])
  /\ done' = [done EXCEPT ![cur[p]] = TRUE]
  /\ reply' = [reply EXCEPT ![cur[p]] = IF oldtag[cur[p]] = None THEN msg[p].id ELSE None]
  /\ msg' = [msg EXCEPT ![p] = None]
  /\ UNCHANGED <<rpcs, rip, cur, why, net, intrs>>

(* mountmux: the reply is for the reader, for another (to be woken when    *)
(* m->lk is free), or for nobody                                           *)
Mux(p) ==
  LET t == msg[p].tag IN
  /\ Goto(p, "mux", IF ~InQueue(t) THEN "read" ELSE IF t = cur[p] THEN "gateout" ELSE "muxwake")
  /\ Unlink(t)
  /\ IF InQueue(t)
       THEN /\ done' = [done EXCEPT ![t] = TRUE]
            /\ reply' = [reply EXCEPT ![t] = IF msg[p].old = None THEN msg[p].id ELSE None]
       ELSE UNCHANGED <<done, reply>>
  /\ msg' = [msg EXCEPT ![p] = IF InQueue(t) /\ t # cur[p] THEN @ ELSE None]
  /\ UNCHANGED <<rpcs, rip, cur, why, net, intrs>>

(* Variant: mountmux does not wake the process it has answered. *)
MuxQuiet(p) ==
  /\ Goto(p, "muxwake", "read")
  /\ msg' = [msg EXCEPT ![p] = None]
  /\ UNCHANGED <<rpcs, queue, rip, done, reply, cur, why, net, intrs>>

(* by now the Mntrpc may be free, or in use for another call *)
MuxWake(p) ==
  /\ Wakeup(msg[p].tag, p, "muxwake", "read")
  /\ msg' = [msg EXCEPT ![p] = None]
  /\ UNCHANGED <<rpcs, queue, rip, done, reply, cur, why, net, intrs>>

(* mntgate: the next reader is the first in the queue that sleeps *)
Gate(p, from, to) ==
  LET waits(i) == ~done[queue[i]] /\ \E q \in Procs : pc[q] = "asleep" /\ cur[q] = queue[i] IN
  /\ rip' = None
  /\ IF \E i \in DOMAIN queue : waits(i)
       THEN \E i \in DOMAIN queue : /\ waits(i) /\ \A j \in 1 .. i - 1 : ~waits(j)
                                    /\ Wakeup(queue[i], p, from, to)
       ELSE Goto(p, from, to)
  /\ UNCHANGED <<rpcs, queue, done, reply, cur, msg, net, intrs>>

GateOut(p) == Gate(p, "gateout", "free") /\ UNCHANGED why

-----------------------------------------------------------------------------
(* the waserror loop of mountio *)

ErrorGate(p) == rip = p /\ Gate(p, "error", "error") /\ UNCHANGED why

(* Variant: an interrupted request is given up without a flush. *)
GiveUp(p) ==
  /\ rip # p /\ why[p] = "intr"
  /\ Goto(p, "error", "free")
  /\ UNCHANGED <<rpcs, queue, rip, done, reply, cur, msg, why, net, intrs>>

(* a Tflush of the first request, chained to what it replaces *)
ErrorFlush(p) ==
  /\ rip # p /\ why[p] = "intr"
  /\ Goto(p, "error", "enqueue")
  /\ LET r == cur[p]
         old == IF oldtag[r] = None THEN r ELSE oldtag[r] IN
     \E t \in Tags :
       /\ Mntralloc(t, r, old)
       /\ cur' = [cur EXCEPT ![p] = t]
  /\ why' = [why EXCEPT ![p] = None]
  /\ UNCHANGED <<queue, rip, msg, net, intrs>>

ErrorDead(p) ==
  /\ rip # p /\ why[p] = "dead"
  /\ Goto(p, "error", "free")
  /\ UNCHANGED <<rpcs, queue, rip, done, reply, cur, msg, why, net, intrs>>

(* mntflushfree: r->done is tested without m->lk *)
FreeTest(p) ==
  /\ Goto(p, "free", IF done[cur[p]] THEN "freenext" ELSE "freerm")
  /\ UNCHANGED <<rpcs, queue, rip, done, reply, cur, msg, why, net, intrs>>

(* r->reply becomes Rflush, before or after a mountmux that comes between; *)
(* then mntqrm                                                             *)
FreeRemove(p) ==
  /\ Goto(p, "freerm", "freenext")
  /\ reply' \in {reply, [reply EXCEPT ![cur[p]] = None]}
  /\ done' = [done EXCEPT ![cur[p]] = TRUE]
  /\ Unlink(cur[p])
  /\ UNCHANGED <<rpcs, rip, cur, msg, why, net, intrs>>

(* a flush is freed and what it flushed is next *)
FreeNext(p) ==
  /\ Goto(p, "freenext", "free")
  /\ flushed[cur[p]] # None
  /\ Mntfree(cur[p])
  /\ cur' = [cur EXCEPT ![p] = flushed[cur[p]]]
  /\ UNCHANGED <<queue, rip, msg, why, net, intrs>>

(* mountrpc takes the reply or raises an error; mntfree by its caller *)
Return(p) ==
  /\ Goto(p, "freenext", "idle")
  /\ flushed[cur[p]] = None
  /\ Mntfree(cur[p])
  /\ cur' = [cur EXCEPT ![p] = None]
  /\ why' = [why EXCEPT ![p] = None]
  /\ UNCHANGED <<queue, rip, msg, net, intrs>>

-----------------------------------------------------------------------------
(* the server and the connection *)

Answer(m) ==
  /\ m.old = None
  /\ in' = Append(in, m)
  /\ srv' = srv \ {m}
  /\ UNCHANGED <<rpcs, queue, rip, done, reply, pc, cur, msg, why, link, intrs>>

AnswerFlush(m) ==
  /\ m.old # None
  /\ \A n \in srv : n.old = m.old => n.id >= m.id
  /\ in' = Append(in, m)
  /\ srv' = {n \in srv : n # m /\ n.tag # m.old}
  /\ UNCHANGED <<rpcs, queue, rip, done, reply, pc, cur, msg, why, link, intrs>>

(* the server goes away; replies on the way may be lost *)
HangUp ==
  /\ MayHangUp /\ link = "up" /\ Trouble
  /\ link' \in {"silent", "down"}
  /\ srv' = {}
  /\ in' \in {in, <<>>}
  /\ UNCHANGED <<rpcs, queue, rip, done, reply, pc, cur, msg, why, intrs>>

(* the transport has noticed *)
Down ==
  /\ link = "silent"
  /\ link' = "down"
  /\ UNCHANGED <<rpcs, queue, rip, done, reply, pc, cur, msg, why, srv, in, intrs>>

Serve == \E m \in srv : Answer(m) \/ AnswerFlush(m)

Step(p) ==
  \/ Enqueue(p) \/ Send(p) \/ SendFails(p)
  \/ GateEnter(p) \/ GateShut(p) \/ Sleep(p) \/ Awake(p)
  \/ Read(p) \/ ReadFails(p) \/ Mux(p) \/ MuxWake(p) \/ GateOut(p)
  \/ ErrorGate(p) \/ ErrorFlush(p) \/ ErrorDead(p)
  \/ FreeTest(p) \/ FreeRemove(p) \/ FreeNext(p) \/ Return(p)

Next ==
  \/ \E p \in Procs : Call(p) \/ Step(p) \/ SendInterrupted(p) \/ ReadInterrupted(p)
  \/ Serve
  \/ HangUp \/ Down

Spec == Init /\ [][Next]_vars

(* Processes inside the driver keep running, and the server answers every  *)
(* request or goes away.  Nobody has to call or to be interrupted.         *)
FairSpec ==
  /\ Spec
  /\ \A p \in Procs : WF_vars(Step(p))
  /\ WF_vars(Serve)

-----------------------------------------------------------------------------
PC == {"idle", "enqueue", "send", "gate", "sleep", "asleep", "awake", "read", "mux",
       "muxwake", "gateout", "error", "free", "freerm", "freenext"}

Requests == [tag : Tags, id : Nat, old : Tags \cup {None}]

TypeOK ==
  /\ used \subseteq Tags
  /\ rpcfree \in Seq(Tags) /\ queue \in Seq(Tags)
  /\ rip \in Procs \cup {None}
  /\ done \in [Tags -> BOOLEAN]
  /\ flushed \in [Tags -> Tags \cup {None}]
  /\ oldtag \in [Tags -> Tags \cup {None}]
  /\ id \in [Tags -> Nat] /\ ids \in Nat /\ late \subseteq used
  /\ reply \in [Tags -> Nat \cup {None}]
  /\ pc \in [Procs -> PC]
  /\ cur \in [Procs -> Tags \cup {None}]
  /\ msg \in [Procs -> Requests \cup {None}]
  /\ \A p \in Procs : pc[p] = "mux" => msg[p] \in Requests
  /\ why \in [Procs -> {"intr", "dead", None}]
  /\ srv \subseteq Requests /\ in \in Seq(Requests)
  /\ link \in {"up", "silent", "down"}

(***************************************************************************)
(* The reply that a call returns with answers its own request, whoever     *)
(* read it, even though tags and Mntrpcs are reused as soon as a call has  *)
(* returned, with answers to it, to its flushes and wakeups for it still   *)
(* on the way.  (A call whose write fails may have been given the reply to *)
(* an earlier one that failed; it returns the error.)                      *)
(***************************************************************************)
ReplyIsOwn ==
  \A p \in Procs : pc[p] \in {"gateout", "free", "freerm", "freenext"} /\ why[p] # "dead" =>
    reply[cur[p]] \in {id[cur[p]], None}

(***************************************************************************)
(* What the server still owes an answer to, or has answered, is what the   *)
(* tag stands for now: mntflushfree frees a request that was interrupted   *)
(* only after an answer that lets no other follow.                         *)
(***************************************************************************)
NoStaleTag ==
  link = "up" => /\ \A m \in srv : id[m.tag] = m.id
                 /\ \A i \in DOMAIN in : id[in[i].tag] = in[i].id

(***************************************************************************)
(* m->q is read without a lock: one process at a time takes messages apart *)
(* and it is m->rip.                                                       *)
(***************************************************************************)
OneReader ==
  \A p \in Procs : pc[p] \in {"read", "mux", "muxwake", "gateout"} => rip = p

(***************************************************************************)
(* While processes sleep for replies somebody reads, or is about to look   *)
(* at the open gate again; and whoever has been answered is about to be    *)
(* woken.  mntgate wakes one process only, and that one may find that it   *)
(* has been answered or overtaken.                                         *)
(***************************************************************************)
SleepersAreAttended ==
  \A p \in Procs : pc[p] = "asleep" =>
    /\ rip # None \/ \E q \in Procs : \/ pc[q] = "gate"
                                      \/ pc[q] \in {"sleep", "awake"} /\ ~done[cur[q]]
    /\ done[cur[p]] => \E q \in Procs : pc[q] = "muxwake" /\ msg[q].tag = cur[p]

(***************************************************************************)
(* Every call returns, if the server answers or goes away.                 *)
(***************************************************************************)
EveryCallReturns ==
  \A p \in Procs : (pc[p] = "enqueue") ~> (pc[p] = "idle")
=============================================================================
