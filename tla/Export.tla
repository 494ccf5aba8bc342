------------------------------- MODULE Export -------------------------------
(***************************************************************************)
(* The 9P server that exports the local files (exportfs).  One master      *)
(* process takes requests from the connection into work buffers.  It       *)
(* answers most of them itself (module ExportFids); open, read and write   *)
(* may block, and it hands them to slave processes, each by a rendezvous   *)
(* under the slave's pid (module Rendezvous).  There are no locks: master  *)
(* and slaves share the work buffers, and every step of a slave that       *)
(* reads or writes one is an action of its own.                            *)
(*                                                                         *)
(* The client is any that keeps to flush(5): a tag is in use until its     *)
(* request is answered and, if that was flushed, the flush is answered.    *)
(* It learns of replies late.  A request exists from when the master reads *)
(* it; since the client may not have seen what has been replied by then,   *)
(* this loses no behaviour.  Left out: notes that interrupt a rendezvous,  *)
(* a read-only server, and what the host answers.                          *)
(***************************************************************************)
EXTENDS Rendezvous, ExportFids

CONSTANTS
  Master, Slaves,       \* Slaves: as many as MAXPROC
  Nr_workbufs,
  Tags,
  NOTAG,
  Rounds,               \* how often getsbuf looks for a buffer
  Loads                 \* bound: how many requests of each kind a behaviour
                        \* has, and the fids that are open in it at first

ASSUME ProcsAre == Procs = {Master} \cup Slaves /\ Master \notin Slaves
ASSUME Values == None = Nil /\ NOTAG \notin Tags /\ Nr_workbufs \in Nat \ {0} /\ Rounds \in Nat
ASSUME NoneIsNothing == None \notin Nat \cup Tags \cup Procs
ASSUME LoadsAre == Loads \subseteq [quick : Nat, slow : Nat, flush : Nat, fids : SUBSET Fids, open : BOOLEAN]

Bufs == 0 .. Nr_workbufs - 1

VARIABLES
  busy, bufpid, flushtag,   \* of each work buffer
  hit,          \* the buffer that Xflush has found
  tag, rid,     \* work.tag, and the request that the buffer stands for
  proclist, pbusy,          \* the slaves created, newest first; m->busy
  pc,
  buf,          \* the buffer that a process works on
  rounds,       \* of getsbuf
  back,         \* replies written, not received
  want,         \* the client's: the request under each tag, None if it is free
  req,          \* history: the requests made; a request is its index
  answered,     \* history: the requests replied to
  again,        \* history: those replied to more than once
  load          \* bound: what may still be made

work == <<busy, bufpid, flushtag, hit, tag, rid>>
slaves == <<proclist, pbusy>>
client == <<want, req, load>>
replies == <<back, answered, again>>
vars == <<work, slaves, pc, buf, rounds, client, replies, rendVars, fidVars>>

Init ==
  /\ load \in Loads
  /\ RendInit
  /\ FidInit(load.fids, IF load.open THEN load.fids ELSE {})
  /\ busy = [w \in Bufs |-> FALSE] /\ bufpid = [w \in Bufs |-> None]
  /\ flushtag = [w \in Bufs |-> NOTAG]
  /\ tag = [w \in Bufs |-> NOTAG] /\ rid = [w \in Bufs |-> 0]
  /\ proclist = <<>> /\ pbusy = {}
  /\ pc = [p \in Procs |-> IF p = Master THEN "search" ELSE "none"]
  /\ buf = [p \in Procs |-> None] /\ hit = None
  /\ rounds = 0
  /\ back = <<>>
  /\ want = [t \in Tags |-> None]
  /\ req = <<>> /\ answered = {} /\ again = {}

Goto(p, from, to) == pc[p] = from /\ pc' = [pc EXCEPT ![p] = to]

(* reply(&w->work, ...), the reply to request r *)
Reply(t, r) ==
  /\ back' = Append(back, [tag |-> t, id |-> r])
  /\ answered' = answered \cup {r}
  /\ again' = again \cup ({r} \cap answered)

-----------------------------------------------------------------------------
(* getsbuf *)

(* a search begins with buffer 1 and ends with buffer 0 *)
Order(w) == IF w = 0 THEN Nr_workbufs ELSE w

FreeBufs == {w \in Bufs : ~busy[w]}

(* Variant: the flush of the request before is still recorded. *)
SearchStale ==
  /\ Goto(Master, "search", "read")
  /\ \E w \in FreeBufs :
       /\ \A v \in FreeBufs : Order(w) <= Order(v)
       /\ bufpid' = [bufpid EXCEPT ![w] = None]
       /\ busy' = [busy EXCEPT ![w] = TRUE]
       /\ buf' = [buf EXCEPT ![Master] = w]
  /\ rounds' = 0
  /\ UNCHANGED <<flushtag, hit, tag, rid, slaves, client, replies, rendVars, fidVars>>

SearchFound ==
  /\ Goto(Master, "search", "read")
  /\ \E w \in FreeBufs :
       /\ \A v \in FreeBufs : Order(w) <= Order(v)
       /\ bufpid' = [bufpid EXCEPT ![w] = None]
       /\ flushtag' = [flushtag EXCEPT ![w] = NOTAG]
       /\ busy' = [busy EXCEPT ![w] = TRUE]
       /\ buf' = [buf EXCEPT ![Master] = w]
  /\ rounds' = 0
  /\ UNCHANGED <<hit, tag, rid, slaves, client, replies, rendVars, fidVars>>

(* "No more work buffers" is fatal in the last round *)
SearchAgain ==
  /\ FreeBufs = {}
  /\ Goto(Master, "search", IF rounds + 1 = Rounds THEN "fatal" ELSE "search")
  /\ rounds' = rounds + 1
  /\ UNCHANGED <<work, slaves, buf, client, replies, rendVars, fidVars>>

-----------------------------------------------------------------------------
(* requests, as the master reads them *)

Outstanding(t) == want[t] # None

FreeTags == {t \in Tags : ~Outstanding(t)}

(* the fids that slaves may be working on *)
InUse == {req[want[t]].fid : t \in {u \in Tags : Outstanding(u)}} \cap Fids

Request(t, kind, f, old) == [tag |-> t, kind |-> kind, fid |-> f, old |-> old, astray |-> FALSE]

FlushesOf(t) == {u \in Tags : Outstanding(u) /\ req[want[u]].old = t}

(* a slave is about to reply to a flush of the request under old *)
BeingFlushed(old) == \E s \in Slaves : pc[s] = "rflush" /\ tag[buf[s]] \in FlushesOf(old)

(* a Tflush; it goes astray if Xflush finds another request under old, or  *)
(* comes while an earlier flush of the request is replied to               *)
FlushOf(t, old, found) ==
  [Request(t, "flush", None, old) EXCEPT
     !.astray = found \notin {0, want[old]} \/ BeingFlushed(old)]

(* a request of the client, read into the buffer; tags are used again as   *)
(* soon as they may be                                                     *)
Receive(what, r) ==
  /\ pc[Master] = "read"
  /\ r.tag \in FreeTags /\ \A t \in FreeTags : r.tag <= t
  /\ load[what] > 0
  /\ load' = [load EXCEPT ![what] = @ - 1]
  /\ req' = Append(req, r)
  /\ want' = [want EXCEPT ![r.tag] = Len(req) + 1]
  /\ tag' = [tag EXCEPT ![buf[Master]] = r.tag]
  /\ rid' = [rid EXCEPT ![buf[Master]] = Len(req) + 1]

(* the master has done with its buffer *)
Done(from) ==
  /\ Goto(Master, from, "search")
  /\ busy' = [busy EXCEPT ![buf[Master]] = FALSE]
  /\ buf' = [buf EXCEPT ![Master] = None]

Paths == {<<>>} \cup {<<s>> : s \in Names} \cup {<<"..", s>> : s \in Names}

(* the handlers that the master runs *)
Quick(t) ==
  /\ Receive("quick", Request(t, "quick", None, None))
  /\ Reply(t, Len(req) + 1)
  /\ Done("read")
  /\ UNCHANGED <<bufpid, flushtag, hit, slaves, rounds, rendVars>>
  /\ \E f \in Fids :
       \/ BadFid(f) \/ KeepFid(f)
       \/ AttachFid(f)
       \/ /\ f \notin InUse
          /\ \/ ClunkFid(f)
             \/ \E path \in Paths : WalkFid(f, path)
             \/ \E s \in Names : CreateFid(f, s) \/ RenameFid(f, s)
       \/ \E nf \in Fids \ InUse, path \in Paths : CloneWalkFid(f, nf, path)

(* Xversion of a version it does not know: the buffer stays busy *)
BadVersion(t) ==
  /\ req = <<>>
  /\ Receive("quick", Request(t, "quick", None, None))
  /\ Reply(t, Len(req) + 1)
  /\ Goto(Master, "read", "search")
  /\ UNCHANGED <<busy, bufpid, flushtag, hit, slaves, buf, rounds, rendVars, fidVars>>

(* Tread or Twrite of an open fid, or Topen of one that nothing is asked of *)
Slow(t) ==
  /\ \E f \in Fids : \/ fd[f] /\ Receive("slow", Request(t, "io", f, None))
                     \/ Known(f) /\ ~fd[f] /\ f \notin InUse
                          /\ Receive("slow", Request(t, "open", f, None))
  /\ Goto(Master, "read", "slave")
  /\ UNCHANGED <<busy, bufpid, flushtag, hit, slaves, buf, rounds, replies, rendVars, fidVars>>

(* the buffers that Xflush looks for, of which it takes the first *)
Flushable(old) == {w \in Bufs : tag[w] = old /\ busy[w] /\ bufpid[w] # None}

(* Xflush of a slow request: nothing in progress has that tag, or w has *)
Flush(t) ==
  /\ \E old \in Tags \ {t} :
       /\ Outstanding(old) /\ req[want[old]].kind \in {"io", "open"}
       /\ \/ /\ Flushable(old) = {}
             /\ Receive("flush", FlushOf(t, old, 0))
             /\ Reply(t, Len(req) + 1)
             /\ Done("read")
             /\ UNCHANGED hit
          \/ \E w \in Flushable(old) :
               /\ \A v \in Flushable(old) : w <= v
               /\ Receive("flush", FlushOf(t, old, rid[w]))
               /\ hit' = w
               /\ Goto(Master, "read", "setflush")
               /\ UNCHANGED <<busy, buf, replies>>
  /\ UNCHANGED <<bufpid, flushtag, slaves, rounds, rendVars, fidVars>>

FlushSet ==
  /\ Done("setflush")
  /\ flushtag' = [flushtag EXCEPT ![hit] = tag[buf[Master]]]
  /\ hit' = None
  /\ UNCHANGED <<bufpid, tag, rid, slaves, rounds, client, replies, rendVars, fidVars>>

-----------------------------------------------------------------------------
(* slave(), by the master *)

Idle == {i \in DOMAIN proclist : proclist[i] \notin pbusy}

SlaveFound ==
  /\ Goto(Master, "slave", "hand")
  /\ \E i \in Idle :
       /\ \A j \in Idle : i <= j
       /\ bufpid' = [bufpid EXCEPT ![buf[Master]] = proclist[i]]
       /\ pbusy' = pbusy \cup {proclist[i]}
  /\ UNCHANGED <<busy, flushtag, hit, tag, rid, proclist, buf, rounds, client, replies,
                 rendVars, fidVars>>

(* kproc; the new slave is put on Proclist *)
SlaveNew ==
  /\ Idle = {}
  /\ \E s \in Slaves :
       /\ pc[s] = "none" /\ pc[Master] = "slave"
       /\ pc' = [pc EXCEPT ![s] = "hello", ![Master] = "greet"]
       /\ proclist' = <<s>> \o proclist
  /\ UNCHANGED <<work, pbusy, buf, rounds, client, replies, rendVars, fidVars>>

TooManyProcs ==
  /\ Idle = {} /\ \A s \in Slaves : pc[s] # "none"
  /\ Goto(Master, "slave", "fatal")
  /\ UNCHANGED <<work, slaves, buf, rounds, client, replies, rendVars, fidVars>>

-----------------------------------------------------------------------------
(* rendezvous, where p is: the tag and what p gives *)

Tag(p) == CASE pc[p] = "greet" -> Head(proclist)
            [] pc[p] = "hand"  -> bufpid[buf[p]]
            [] OTHER           -> p

Gives(p) == CASE pc[p] = "greet" -> Head(proclist)
              [] pc[p] = "hand"  -> buf[p]
              [] pc[p] = "hello" -> None
              [] pc[p] = "take"  -> p

(* where p goes on with what it got *)
GoesOn(p, got) ==
  CASE pc[p] = "greet" -> Goto(p, "greet", "slave") /\ UNCHANGED buf
    [] pc[p] = "hand"  -> /\ Goto(p, "hand", IF got = Tag(p) THEN "search" ELSE "syncfail")
                          /\ buf' = [buf EXCEPT ![p] = None]
    [] pc[p] = "hello" -> Goto(p, "hello", "take") /\ UNCHANGED buf
    [] pc[p] = "take"  -> Goto(p, "take", "start") /\ buf' = [buf EXCEPT ![p] = got]

Rendezvous(p) ==
  /\ pc[p] \in {"greet", "hand", "hello", "take"}
  /\ \/ Await(p, Tag(p), Gives(p)) /\ UNCHANGED <<pc, buf>>
     \/ \E i \in Partners(Tag(p)) :
          Meet(p, Tag(p), Gives(p), rendval[rend[i]]) /\ GoesOn(p, rendval[rend[i]])
     \/ (RendSleep(p) \/ CondTest(p)) /\ UNCHANGED <<pc, buf>>
     \/ Woken(p, rendval[p]) /\ GoesOn(p, rendval[p])
  /\ UNCHANGED <<work, slaves, rounds, client, replies, fidVars>>

-----------------------------------------------------------------------------
(* blockingslave, by slave s with the buffer it was given *)

Kind(s) == req[rid[buf[s]]].kind
Fid(s) == req[rid[buf[s]]].fid
ToBeFlushed(s) == flushtag[buf[s]] # NOTAG

SlaveStart(s) ==
  /\ Goto(s, "start", IF ToBeFlushed(s) THEN "flushme" ELSE "getfid")
  /\ UNCHANGED <<work, slaves, buf, rounds, client, replies, rendVars, fidVars>>

(* slaveread, slavewrite, slaveopen: getfid; an open closes the fid first *)
SlaveGetFid(s) ==
  /\ Goto(s, "getfid", IF Known(Fid(s)) THEN "canint" ELSE "test")
  /\ IF Known(Fid(s)) THEN UNCHANGED replies ELSE Reply(tag[buf[s]], rid[buf[s]])
  /\ IF Known(Fid(s)) /\ Kind(s) = "open" THEN CloseFd(Fid(s)) ELSE UNCHANGED fidVars
  /\ UNCHANGED <<work, slaves, buf, rounds, client, rendVars>>

(* canint = 1, and the last look at flushtag before the host is asked *)
SlaveCanInt(s) ==
  /\ Goto(s, "canint", IF ToBeFlushed(s) THEN "test" ELSE "host")
  /\ UNCHANGED <<work, slaves, buf, rounds, client, replies, rendVars, fidVars>>

(* the host's open, pread or pwrite returns, and is replied *)
SlaveReply(s) ==
  /\ Goto(s, "host", "test")
  /\ Reply(tag[buf[s]], rid[buf[s]])
  /\ IF Kind(s) = "open" THEN OpenFd(Fid(s)) ELSE UNCHANGED fidVars
  /\ UNCHANGED <<work, slaves, buf, rounds, client, rendVars>>

SlaveTest(s) ==
  /\ Goto(s, "test", IF ToBeFlushed(s) THEN "flushme" ELSE "giveback")
  /\ UNCHANGED <<work, slaves, buf, rounds, client, replies, rendVars, fidVars>>

(* work.tag = flushtag: the buffer now stands for the flush, and Xflush no  *)
(* longer finds the request in it                                          *)
SlaveRetag(s) ==
  LET w == buf[s] IN
  /\ Goto(s, "flushme", "rflush")
  /\ tag' = [tag EXCEPT ![w] = flushtag[w]]
  /\ rid' = [rid EXCEPT ![w] = want[flushtag[w]]]
  /\ UNCHANGED <<busy, bufpid, flushtag, hit, slaves, buf, rounds, client, replies, rendVars,
                 fidVars>>

(* the Rflush *)
SlaveFlushMe(s) ==
  /\ Goto(s, "rflush", "giveback")
  /\ Reply(tag[buf[s]], rid[buf[s]])
  /\ UNCHANGED <<work, slaves, buf, rounds, client, rendVars, fidVars>>

(* what nobody reads of a free buffer is cleared *)
SlaveGiveBack(s) ==
  /\ Goto(s, "giveback", "rest")
  /\ busy' = [busy EXCEPT ![buf[s]] = FALSE]
  /\ tag' = [tag EXCEPT ![buf[s]] = NOTAG]
  /\ rid' = [rid EXCEPT ![buf[s]] = 0]
  /\ buf' = [buf EXCEPT ![s] = None]
  /\ UNCHANGED <<bufpid, flushtag, hit, slaves, rounds, client, replies, rendVars,
                 fidVars>>

(* m->busy = 0 *)
SlaveRest(s) ==
  /\ Goto(s, "rest", "take")
  /\ pbusy' = pbusy \ {s}
  /\ UNCHANGED <<work, proclist, buf, rounds, client, replies, rendVars, fidVars>>

-----------------------------------------------------------------------------
(* the client takes a reply *)

(* an Rflush answers all flushes of the same request up to its own *)
ClientTakes ==
  /\ back # <<>>
  /\ back' = Tail(back)
  /\ LET t    == Head(back).tag
         old  == IF Outstanding(t) THEN req[want[t]].old ELSE None
         upto == {u \in FlushesOf(old) : want[u] <= want[t]}
         free == IF old # None THEN upto \cup {u \in {old} : FlushesOf(old) = upto}
                 ELSE {u \in {t} : FlushesOf(t) = {}}
     IN want' = [u \in Tags |-> IF u \in free THEN None ELSE want[u]]
  /\ UNCHANGED <<work, slaves, pc, buf, rounds, req, load, answered, again, rendVars, fidVars>>

-----------------------------------------------------------------------------
MasterStep ==
  \/ SearchFound \/ SearchAgain \/ FlushSet
  \/ SlaveFound \/ SlaveNew \/ TooManyProcs
  \/ Rendezvous(Master)

(* fatal ends the whole program *)
SlaveStep(s) ==
  /\ pc[Master] # "fatal"
  /\ \/ Rendezvous(s)
     \/ SlaveStart(s) \/ SlaveGetFid(s) \/ SlaveCanInt(s) \/ SlaveReply(s)
     \/ SlaveTest(s) \/ SlaveRetag(s) \/ SlaveFlushMe(s) \/ SlaveGiveBack(s) \/ SlaveRest(s)

(* a condition variable may return, but need not *)
Spurious(p) == CondReturn(p) /\ UNCHANGED <<work, slaves, pc, buf, rounds, client, replies, fidVars>>

MasterReads == \E t \in Tags : Quick(t) \/ BadVersion(t) \/ Slow(t) \/ Flush(t)

Next ==
  \/ MasterReads \/ MasterStep
  \/ \E s \in Slaves : SlaveStep(s)
  \/ \E p \in Procs : Spurious(p)
  \/ ClientTakes

Spec == Init /\ [][Next]_vars

(* Master and slaves keep running, and what is asked of the host returns. *)
(* The client need not ask, nor take replies.                              *)
FairSpec ==
  /\ Spec
  /\ WF_vars(MasterStep)
  /\ \A s \in Slaves : WF_vars(SlaveStep(s))

-----------------------------------------------------------------------------
TypeOK ==
  /\ FidTypeOK /\ OprocTypeOK
  /\ busy \in [Bufs -> BOOLEAN]
  /\ bufpid \in [Bufs -> Slaves \cup {None}]
  /\ {flushtag[w] : w \in Bufs} \cup {tag[w] : w \in Bufs} \subseteq Tags \cup {NOTAG}
  /\ rid \in [Bufs -> Nat \cup {None}]     \* None: the client has given the flush up
  /\ proclist \in Seq(Slaves) /\ pbusy \subseteq Slaves
  /\ buf \in [Procs -> Bufs \cup {None}] /\ hit \in Bufs \cup {None}
  /\ want \in [Tags -> 1 .. Len(req) \cup {None}]
  /\ again \subseteq answered /\ answered \subseteq 1 .. Len(req) \cup {None}

Working == {s \in Slaves : pc[s] \in {"start", "getfid", "canint", "host", "test", "flushme",
                                      "rflush", "giveback"}}

(***************************************************************************)
(* A slave works on the buffer that was handed to it and to no other; the  *)
(* buffer is not free, not being filled, and not flushed behind its back.  *)
(* So "rendezvous sync fail" never happens.                                *)
(***************************************************************************)
SlavesWorkApart ==
  /\ \A s \in Working : /\ buf[s] \in Bufs
                        /\ busy[buf[s]] /\ bufpid[buf[s]] = s /\ s \in pbusy
                        /\ \A p \in Working \ {s} : buf[p] # buf[s]
                        /\ pc[Master] \in {"read", "slave", "setflush"} => buf[Master] # buf[s]
  /\ pc[Master] # "syncfail"

(***************************************************************************)
(* No request is answered twice, whatever was flushed, and every reply on  *)
(* the way is to the request that the client has under its tag.  That is   *)
(* so until a flush goes astray: Xflush takes for its request one that had *)
(* the tag before, or does not find it, since a slave that replies to an   *)
(* earlier flush has changed the tag and not replied yet.  In that case    *)
(* the second flush is answered before the first, and the first's Rflush   *)
(* comes when its tag may be in use again.                                 *)
(***************************************************************************)
Astray == \E f \in DOMAIN req : req[f].astray

AnsweredOnce ==
  ~Astray => /\ again = {}
             /\ \A i \in DOMAIN back : /\ req[back[i].id].tag = back[i].tag
                                       /\ want[back[i].tag] = back[i].id

(***************************************************************************)
(* A request that is not flushed is answered, if the server does not die.  *)
(***************************************************************************)
Flushed(r) == \E f \in DOMAIN req : req[f].kind = "flush" /\ f > r /\ req[f].old = req[r].tag

IsAnswered ==
  \A r \in 1..3 :
    (r <= Len(req) /\ req[r].kind # "flush") ~>
      (r \in answered \/ Flushed(r) \/ pc[Master] = "fatal")

(***************************************************************************)
(* "Tag on which to reply to flush" (exportfs.h): a flush that the client  *)
(* waits for is answered, or recorded in a buffer whose slave will answer. *)
(* (flush(5) lets a server answer only the last of several.)               *)
(***************************************************************************)
LastFlush(t) == \E old \in Tags : t \in FlushesOf(old) /\ \A u \in FlushesOf(old) : want[u] <= want[t]

FlushIsKept ==
  \A t \in Tags : LastFlush(t) =>
    \/ want[t] \in answered
    \/ pc[Master] = "setflush" /\ tag[buf[Master]] = t
    \/ \E w \in Bufs : busy[w] /\ flushtag[w] = t
=============================================================================
