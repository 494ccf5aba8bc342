-------------------------------- MODULE Chan --------------------------------
(***************************************************************************)
(* Channels and the mount table (kern/chan.c).  A channel stands for a     *)
(* file; it is counted by all that keep it, and what the last cclose frees *)
(* goes to a list from which newchan takes it again.  A Mhead is a place   *)
(* in the name space where other files are mounted; it is counted too, and *)
(* it keeps the channel it is the place of (from) and those mounted there. *)
(* A path remembers the place of each mount that it crosses.               *)
(*                                                                         *)
(* Freeing one channel may free others, so all tables are one record that  *)
(* is passed through the calls.  Paths are values here: one that is copied *)
(* counts its channels again, where the code counts the path.              *)
(***************************************************************************)
EXTENDS Integers, Sequences, FiniteSets, SequencesExt

CONSTANTS
  Chans, Mheads,    \* bound: the channels and Mheads there may be at a time
  None

ASSUME ChansAre == /\ Chans \subseteq Nat /\ 0 \in Chans /\ IsFiniteSet(Chans)
                   /\ IsFiniteSet(Mheads) /\ None \notin Chans /\ None \notin Mheads

VARIABLE t          \* the tables

(***************************************************************************)
(* ref, file, offset, path, umh of each channel, and those flagged CFREE;  *)
(* mref, from, mount of each Mhead, and those in the hash table of the     *)
(* pgrp.  History: stale, a channel was used that was free; moved, the     *)
(* channels whose offset was set back since they are open.                 *)
(***************************************************************************)
Tables == [ref   |-> [c \in Chans |-> 0],
           file  |-> [c \in Chans |-> None],
           offset |-> [c \in Chans |-> 0],
           path  |-> [c \in Chans |-> <<>>],
           umh   |-> [c \in Chans |-> None],
           free  |-> Chans,
           mref  |-> [m \in Mheads |-> 0],
           from  |-> [m \in Mheads |-> None],
           mount |-> [m \in Mheads |-> <<>>],
           hashed |-> {},
           stale |-> FALSE,
           moved |-> {}]

(* where c is in the sequence q, and how often *)
At(c, q) == {i \in DOMAIN q : q[i] = c}
Times(c, q) == Cardinality(At(c, q))

(* a family of sets, as one *)
Pairs(F) == UNION {{x} \X F[x] : x \in DOMAIN F}

Incref(k, c) == [k EXCEPT !.ref[c] = @ + 1, !.stale = @ \/ c \in k.free]

(* the path q is copied *)
IncrefAll(k, q) == [k EXCEPT !.ref = [c \in Chans |-> @[c] + Times(c, q)],
                             !.stale = @ \/ \E i \in DOMAIN q : q[i] \in k.free]

(* putmhead, and the end of a Mhead *)
PutMhead(k, m) ==
  IF m = None THEN k
  ELSE [k EXCEPT !.mref[m] = @ - 1, !.from[m] = IF k.mref[m] = 1 THEN None ELSE @]

(* chanfree, but for the path *)
ChanFree(k, c) ==
  PutMhead([k EXCEPT !.ref[c] = 0, !.free = @ \cup {c}, !.file[c] = None, !.path[c] = <<>>,
                     !.umh[c] = None], k.umh[c])

(* cclose of the next of x.todo; those in the path of a channel that it    *)
(* frees are closed before the others (pathclose)                          *)
CloseOne(x) ==
  LET k == x.tabs
      c == Head(x.todo)
      rest == Tail(x.todo)
  IN IF x.todo = <<>> THEN x
     ELSE IF c = None THEN [tabs |-> k, todo |-> rest]
     ELSE IF c \in k.free THEN [tabs |-> [k EXCEPT !.stale = TRUE], todo |-> rest]  \* panic
     ELSE IF k.ref[c] > 1 THEN [tabs |-> [k EXCEPT !.ref[c] = @ - 1], todo |-> rest]
     ELSE [tabs |-> ChanFree(k, c), todo |-> k.path[c] \o rest]

(* the places in paths: all that cclose may come to, besides what it is    *)
(* called for, as a path that is closed is gone                            *)
InPaths(k) == Pairs([c \in Chans |-> DOMAIN k.path[c]])

(* cclose of each channel of q, with all that it frees *)
CClose(k, q) ==
  LET most == Len(q) + Cardinality(InPaths(k))
      close[n \in 0..most] == IF n = 0 THEN [tabs |-> k, todo |-> q] ELSE CloseOne(close[n - 1])
  IN close[most].tabs

Least(S) == CHOOSE x \in S : \A y \in S : x <= y

(* newchan for file f, by attach or walk: the channel, and the tables *)
NewChan(k, f) ==
  LET c == Least(k.free) IN
  [chan |-> c,
   tabs |-> [k EXCEPT !.ref[c] = 1, !.free = @ \ {c}, !.file[c] = f, !.path[c] = <<>>,
                      !.umh[c] = None, !.offset[c] = 0, !.moved = @ \ {c}]]

(* cunique, of a channel that is about to get a path of its own *)
CUnique(k, c) ==
  IF k.ref[c] = 1 THEN [chan |-> c, tabs |-> k]
  ELSE LET n == NewChan(k, k.file[c]) IN
       [chan |-> n.chan,
        tabs |-> CClose([IncrefAll(n.tabs, k.path[c]) EXCEPT !.path[n.chan] = k.path[c]], <<c>>)]

(* pathclose(c->path); c->path = p, which the caller had *)
SetPath(k, c, p) == CClose([k EXCEPT !.path[c] = p], k.path[c])

-----------------------------------------------------------------------------
(* the mount table; each of these is done with the locks it needs held *)

(* where in the table file f is *)
MountedOn(k, f) == {m \in k.hashed : k.file[k.from[m]] = f}

(* findmount: from channel c, and Mhead mh if there is one, to what is     *)
(* mounted there and its Mhead                                             *)
FindMount(k, c, mh, m) ==
  LET put == PutMhead([k EXCEPT !.mref[m] = @ + 1], mh)
      old == IF c = None THEN put ELSE CClose(put, <<c>>)
  IN Incref(old, Head(k.mount[m]))

(* a Mhead for old; in a union, old is the first that is mounted there *)
NewMhead(k, old, order) ==
  LET m == CHOOSE m \in Mheads : k.mref[m] = 0
      u == [Incref(k, old) EXCEPT !.mref[m] = 1, !.from[m] = old, !.hashed = @ \cup {m}]
  IN IF order = "repl" THEN u ELSE [Incref(u, old) EXCEPT !.mount[m] = <<old>>]

(* cmount *)
CMount(k, new, old, order) ==
  LET u == IF MountedOn(k, k.file[old]) = {} THEN NewMhead(k, old, order) ELSE k
      m == CHOOSE m \in MountedOn(u, k.file[old]) : TRUE
      n == Incref(u, new)
  IN CASE order = "repl"   -> CClose([n EXCEPT !.mount[m] = <<new>>], u.mount[m])
       [] order = "after"  -> [n EXCEPT !.mount[m] = Append(@, new)]
       [] order = "before" -> [n EXCEPT !.mount[m] = <<new>> \o @]

(* a Mhead leaves the table *)
Unhash(k, m) == PutMhead(CClose([k EXCEPT !.hashed = @ \ {m}], <<k.from[m]>>), m)

(* where in the union m file f is mounted *)
MountsOf(k, m, f) == {i \in DOMAIN k.mount[m] : k.file[k.mount[m][i]] = f}

(* cunmount of all that is mounted at m, f = None, or of file f *)
CUnmount(k, m, f) ==
  IF f = None THEN Unhash(CClose([k EXCEPT !.mount[m] = <<>>], k.mount[m]), m)
  ELSE LET i == Least(MountsOf(k, m, f))
           u == CClose([k EXCEPT !.mount[m] = RemoveAt(@, i)], <<k.mount[m][i]>>)
       IN IF u.mount[m] = <<>> THEN Unhash(u, m) ELSE u
=============================================================================
