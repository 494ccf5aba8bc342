----------------------------- MODULE Rendezvous -----------------------------
(***************************************************************************)
(* rendezvous (kern/sysfile.c): two processes that name the same tag       *)
(* exchange a value.  The first to come queues in a hash bucket of its     *)
(* process group and sleeps; the second takes it out, swaps values with it *)
(* and wakes it.  Both happen under rgrp->ref.lk.  All tags are in one     *)
(* bucket here, the case in which its search matters.                      *)
(***************************************************************************)
EXTENDS Oproc, Sequences, SequencesExt

CONSTANT None   \* nil; also what a process holds that has been given nothing

VARIABLES
  rend,         \* the bucket: the processes in it, first come first
  rendtag,      \* rendtag[p]: p->rendtag
  rendval,      \* rendval[p]: p->rendval
  rendpc        \* "out" of rendezvous, "queued", or "slept": in procsleep

rendVars == <<rend, rendtag, rendval, rendpc, oprocVars>>

RendInit ==
  /\ OprocInit
  /\ rend = <<>>
  /\ rendtag = [p \in Procs |-> None]
  /\ rendval = [p \in Procs |-> None]
  /\ rendpc = [p \in Procs |-> "out"]

Matching(tag) == {i \in DOMAIN rend : rendtag[rend[i]] = tag}

(* Variant: whoever is first in the bucket. *)
PartnersAny(tag) == IF rend = <<>> THEN {} ELSE {1}

(* where the first that waits under tag is in the bucket, if there is one *)
Partners(tag) == {i \in Matching(tag) : \A j \in Matching(tag) : i <= j}

(* p finds a partner, takes it out, wakes it and goes on with its value *)
Meet(p, tag, val, got) ==
  /\ rendpc[p] = "out"
  /\ \E i \in Partners(tag) :
       LET q == rend[i] IN
       /\ got = rendval[q]
       /\ rend' = RemoveAt(rend, i)
       /\ rendval' = [rendval EXCEPT ![p] = None, ![q] = val]
       /\ rendtag' = [rendtag EXCEPT ![q] = None]
       /\ ProcWakeup(q)
  /\ UNCHANGED rendpc

(* p is the first *)
Await(p, tag, val) ==
  /\ rendpc[p] = "out" /\ Partners(tag) = {}
  /\ rend' = Append(rend, p)
  /\ rendtag' = [rendtag EXCEPT ![p] = tag]
  /\ rendval' = [rendval EXCEPT ![p] = val]
  /\ rendpc' = [rendpc EXCEPT ![p] = "queued"]
  /\ UNCHANGED oprocVars

RendSleep(p) ==
  /\ rendpc[p] = "queued"
  /\ rendpc' = [rendpc EXCEPT ![p] = "slept"]
  /\ ProcSleep(p)
  /\ UNCHANGED <<rend, rendtag, rendval>>

(* in procsleep: the condition variable returns, and is tested *)
CondReturn(p) == SpuriousReturn(p) /\ UNCHANGED <<rend, rendtag, rendval, rendpc>>

CondTest(p) == Retest(p) /\ UNCHANGED <<rend, rendtag, rendval, rendpc>>

(* p is back from procsleep and takes what it got *)
Woken(p, got) ==
  /\ rendpc[p] = "slept" /\ thread[p] = "runs"
  /\ rendpc' = [rendpc EXCEPT ![p] = "out"]
  /\ got = rendval[p]
  /\ rendval' = [rendval EXCEPT ![p] = None]
  /\ UNCHANGED <<rend, rendtag, oprocVars>>
=============================================================================
