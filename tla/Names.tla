------------------------------- MODULE Names -------------------------------
(***************************************************************************)
(* How a name becomes a channel: namec and walk (kern/chan.c), run by      *)
(* several processes in one name space, while others mount and unmount in  *)
(* it.  What is done under a lock is one step.  The channel that a Mhead   *)
(* is the place of is counted after the locks are gone, in a step of its   *)
(* own: an unmount may come in between.                                    *)
(*                                                                         *)
(* A file is the path to it in the tree of its device; the device walks it *)
(* at once.  All processes keep one channel for their slash, where a clone *)
(* of it is kept by each; no step changes it.                              *)
(***************************************************************************)
EXTENDS Chan

CONSTANTS Procs, Files, Dirs

VARIABLE w       \* what each process is doing, and all it holds

ASSUME FilesAre == Dirs \subseteq Files /\ \A f \in Files : Len(f) = 1 \/ Front(f) \in Dirs

(***************************************************************************)
(* name, mode: of the namec; start, c, path, mh, nc, nmh: of the walk;     *)
(* rest: the elements still to be walked, n of them just now; didmount.    *)
(* got: the channels of the namecs before, in the same system call.        *)
(* History: calm, the mount table is what it was when the namec began.     *)
(***************************************************************************)
Resting == [pc |-> "idle", name |-> <<>>, mode |-> None, start |-> None, c |-> None,
            path |-> <<>>, mh |-> None, nc |-> None, nmh |-> None, rest |-> <<>>, n |-> 0,
            didmount |-> FALSE, got |-> <<>>, calm |-> TRUE]

Slash == 0

NamesInit ==
  /\ t = LET n == NewChan(Tables, <<"/">>) IN [n.tabs EXCEPT !.path[n.chan] = <<None>>]
  /\ w = [p \in Procs |-> Resting]

(* w[p] after: its fields f[DOMAIN f], the others as they were *)
Does(p, f) == w' = [w EXCEPT ![p] = [x \in DOMAIN @ |-> IF x \in DOMAIN f THEN f[x] ELSE @[x]]]

(* the walk of a name from its start, which the tables k count once *)
WalkFor(p, k, start, got, name, mode) ==
  /\ t' = IncrefAll(Incref(k, start), k.path[start])
  /\ Does(p, [pc |-> "walk", name |-> name, mode |-> mode, start |-> start, c |-> start,
              path |-> k.path[start], rest |-> Tail(name), didmount |-> FALSE,
              calm |-> TRUE, got |-> got])

(* namec: its first element is the slash or a device, #x *)
Namec(p, got, name, mode) ==
  IF Head(name) = "/" THEN WalkFor(p, Incref(t, Slash), Slash, got, name, mode)
  ELSE /\ t.free # {}
       /\ LET n == NewChan(t, <<Head(name)>>)
          IN WalkFor(p, [n.tabs EXCEPT !.path[n.chan] = <<None>>], n.chan, got, name, mode)

Nomount(p) == Head(w[p].name) # "/"

(* the elements before the first "..", or "..": what is walked at once *)
Prefix(s) ==
  LET up == {i \in DOMAIN s : s[i] = ".."}
  IN IF up = {} THEN s ELSE IF Head(s) = ".." THEN <<"..">> ELSE SubSeq(s, 1, Least(up) - 1)

(* how many elements of q the device of file f walks from it *)
Walked(f, q) == Cardinality({i \in DOMAIN q : f \o SubSeq(q, 1, i) \in Files})

(* walk or namec gives up what it holds *)
Undo(p, k) ==
  /\ t' = CClose(PutMhead(k, w[p].mh), <<w[p].c>> \o w[p].path \o <<w[p].start>>)
  /\ Does(p, [Resting EXCEPT !.pc = "failed", !.name = w[p].name, !.mode = w[p].mode,
                             !.got = w[p].got, !.calm = w[p].calm])

(* before the walk from a directory: the mount there, if it is not the far *)
(* side of one already (domount)                                           *)
WalkOn(p) ==
  /\ w[p].pc = "walk" /\ w[p].rest # <<>>
  /\ IF t.file[w[p].c] \notin Dirs THEN Undo(p, t)
     ELSE LET at == IF Head(w[p].rest) = ".." \/ Nomount(p) \/ w[p].didmount THEN {}
                    ELSE MountedOn(t, t.file[w[p].c])
          IN IF at = {} THEN Does(p, [pc |-> "ewalk"]) /\ UNCHANGED t
             ELSE \E m \in at :
                  /\ t' = FindMount(t, w[p].c, w[p].mh, m)
                  /\ Does(p, [c |-> Head(t.mount[m]), mh |-> m, pc |-> "cross"])

(* domount's end: the path remembers the place, the locks are gone *)
Cross(p) ==
  /\ w[p].pc = "cross"
  /\ LET from == t.from[w[p].mh] IN
     /\ t' = CClose(Incref(t, from), <<Last(w[p].path)>>)
     /\ Does(p, [path |-> Append(Front(w[p].path), from),
                 pc |-> IF w[p].rest # <<>> THEN "ewalk" ELSE "open"])

(* Variant: the tree that is mounted is not left. *)
UndomountNot(k, c, path) == [tabs |-> k, chan |-> c, path |-> path]

(* up one directory: from a tree that is mounted to the place of it *)
Undomount(k, c, path) ==
  IF Last(path) = None THEN [tabs |-> k, chan |-> c, path |-> path]
  ELSE [tabs |-> CClose(k, <<c>>), chan |-> Last(path), path |-> Append(Front(path), None)]

EWalkUp(p) ==
  /\ w[p].pc = "ewalk" /\ Head(w[p].rest) = ".." /\ t.free # {}
  /\ LET f == t.file[w[p].c]
         n == NewChan(t, IF Len(f) = 1 THEN f ELSE Front(f))
         top == Len(w[p].path) = 1
         k == IF top THEN n.tabs ELSE CClose(n.tabs, <<Last(w[p].path)>>)
         u == Undomount(k, n.chan, IF top THEN w[p].path ELSE Front(w[p].path))
     IN /\ t' = PutMhead(CClose(u.tabs, <<w[p].c>>), w[p].mh)
        /\ Does(p, [c |-> u.chan, path |-> u.path, mh |-> None, rest |-> Tail(w[p].rest),
                    didmount |-> FALSE, pc |-> "walk"])

(* the file to walk from: of c, or of a later one of its union *)
WalkFrom(p, q) ==
  LET union == IF w[p].mh = None \/ Nomount(p) \/ t.mount[w[p].mh] = <<>> THEN <<>>
               ELSE Tail(t.mount[w[p].mh])
  IN SelectSeq([i \in 1..Len(union) + 1 |-> t.file[(<<w[p].c>> \o union)[i]]],
               LAMBDA f : Walked(f, q) > 0)

(* the first elements, up to where something is mounted *)
EWalk(p) ==
  /\ w[p].pc = "ewalk" /\ Head(w[p].rest) # ".."
  /\ LET q == Prefix(w[p].rest)
         from == WalkFrom(p, q)
         f == Head(from)
         at(i) == IF Nomount(p) THEN {} ELSE MountedOn(t, f \o SubSeq(q, 1, i))
         stops == {i \in 1..Walked(f, q) : i < Len(q) /\ at(i) # {}}
     IN IF from = <<>> THEN Undo(p, t)
        ELSE IF stops # {} THEN
          \E m \in at(Least(stops)) :
            /\ t' = FindMount(t, None, None, m)
            /\ Does(p, [nc |-> Head(t.mount[m]), nmh |-> m, n |-> Least(stops),
                        didmount |-> TRUE, pc |-> "elem"])
        ELSE IF Walked(f, q) < Len(q) THEN Undo(p, t)
        ELSE LET n == NewChan(t, f \o q) IN
             /\ t.free # {}
             /\ t' = n.tabs
             /\ Does(p, [nc |-> n.chan, n |-> Len(q), didmount |-> FALSE, pc |-> "elem"])

(* addelem of these, the last with the place of the mount that was met *)
Elem(p) ==
  /\ w[p].pc = "elem"
  /\ LET from == IF w[p].nmh = None THEN None ELSE t.from[w[p].nmh]
     IN /\ t' = PutMhead(CClose(IncrefAll(t, <<from>>), <<w[p].c>>), w[p].mh)
        /\ Does(p, [path |-> w[p].path \o [i \in 1..w[p].n |-> IF i = w[p].n THEN from ELSE None],
                    rest |-> SubSeq(w[p].rest, w[p].n + 1, Len(w[p].rest)),
                    c |-> w[p].nc, mh |-> w[p].nmh, nc |-> None, nmh |-> None, pc |-> "walk"])

(* The channel's own copy takes the path.  Amount, and Abind of a device,  *)
(* have it then; an open keeps the path for what follows.                  *)
WalkEnd(p) ==
  /\ w[p].pc = "walk" /\ w[p].rest = <<>> /\ t.free # {}
  /\ LET u == CUnique(PutMhead(t, w[p].mh), w[p].c)
         k == CClose(SetPath(u.tabs, u.chan, w[p].path), <<w[p].start>>)
         open == w[p].mode = "Aopen"
     IN /\ t' = IF open THEN IncrefAll(k, w[p].path) ELSE k
        /\ Does(p, [c |-> u.chan, start |-> None, mh |-> None,
                    path |-> IF open THEN w[p].path ELSE <<>>,
                    pc |-> IF open THEN "domount" ELSE "back"])

(* Aopen: what is mounted on the file is opened, not the file *)
OpenDomount(p) ==
  /\ w[p].pc = "domount"
  /\ LET at == IF Nomount(p) THEN {} ELSE MountedOn(t, t.file[w[p].c])
     IN IF at = {} THEN Does(p, [pc |-> "open"]) /\ UNCHANGED t
        ELSE \E m \in at :
             /\ t' = FindMount(t, w[p].c, None, m)
             /\ Does(p, [c |-> Head(t.mount[m]), mh |-> m, pc |-> "cross"])

(* A copy of its own gets the path, and keeps the Mhead of a union for     *)
(* unionread; then the device opens it, or does not.                       *)
Open(p) ==
  /\ w[p].pc = "open" /\ t.free # {}
  /\ LET u == CUnique(t, w[p].c)
         k == SetPath(u.tabs, u.chan, w[p].path)
         union == w[p].mh # None /\ Len(t.mount[w[p].mh]) > 1
         v == IF union THEN [k EXCEPT !.umh[u.chan] = w[p].mh] ELSE PutMhead(k, w[p].mh)
     IN \/ /\ t' = v
           /\ Does(p, [c |-> u.chan, path |-> <<>>, mh |-> None, pc |-> "back"])
        \/ /\ t' = CClose(v, <<u.chan>>)
           /\ Does(p, [c |-> None, path |-> <<>>, mh |-> None, calm |-> FALSE, pc |-> "failed"])

NamecStep(p) ==
  WalkOn(p) \/ Cross(p) \/ EWalkUp(p) \/ EWalk(p) \/ Elem(p) \/ WalkEnd(p) \/ OpenDomount(p)
    \/ Open(p)

-----------------------------------------------------------------------------
(***************************************************************************)
(* What a name means, in a mount table that does not change: a stack of    *)
(* places, one of each directory on the way down, each looked for in the   *)
(* first member of the union at the place above it that has it.            *)
(***************************************************************************)
Union(f) ==
  LET ms == MountedOn(t, f)
  IN IF ms = {} THEN <<f>>
     ELSE LET m == CHOOSE m \in ms : TRUE IN [i \in DOMAIN t.mount[m] |-> t.file[t.mount[m][i]]]

Step(places, e) ==
  IF places = <<>> THEN <<>>
  ELSE IF e = ".." THEN (IF Len(places) = 1 THEN places ELSE Front(places))
  ELSE LET has == SelectSeq(Union(Last(places)), LAMBDA f : Append(f, e) \in Files)
       IN IF has = <<>> \/ Last(places) \notin Dirs THEN <<>>
          ELSE Append(places, Append(Head(has), e))

Places(name) == FoldLeft(Step, <<<<Head(name)>>>>, Tail(name))
=============================================================================
