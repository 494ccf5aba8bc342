------------------------------ MODULE SysFile ------------------------------
(***************************************************************************)
(* System calls on names and descriptors (kern/sysfile.c), by processes    *)
(* that share one descriptor group and one name space, as those that kproc *)
(* makes do.  The group's lock makes one step of each use of the table; a  *)
(* channel found there is counted before the lock goes.  The offset of a   *)
(* channel belongs to all who use it: a write takes its part of the file   *)
(* at once, and gives back what it does not write.                         *)
(*                                                                         *)
(* A directory is mounted from its device (bind of "#x"); files are plain, *)
(* and what is in them is left out, and so are the modes of descriptors.   *)
(***************************************************************************)
EXTENDS Names

CONSTANTS
  Loads,            \* bound: the calls that each process makes, in turn
  DELTAFD, FdLimit, \* the table grows by so many, while it is smaller than that
  WriteSize         \* bound: how much is written

(* the calls *)
FileNames == Seq(STRING) \ {<<>>}
Calls ==
  [call : {"open"}, name : FileNames]
    \cup [call : {"close", "read", "write"}, fd : Int]
    \cup [call : {"dup"}, fd : Int, to : Int]
    \cup [call : {"bind"}, from : STRING, name : FileNames, order : {"repl", "before", "after"}]
    \cup [call : {"unmount"}, from : {None} \cup STRING, name : FileNames]

ASSUME CallsAre == IsFiniteSet(Procs) /\ \A l \in Loads : l \in [Procs -> Seq(Calls)]
ASSUME TableIs == DELTAFD \in Nat \ {0} /\ FdLimit \in Nat /\ WriteSize \in Nat

VARIABLES
  g,                \* the group: fd, nfd, maxfd
  s,                \* of each process, its calls to come and the one it is in
  uncrossed         \* history: a place left the table as a path crossed to it

vars == <<t, w, g, s, uncrossed>>

Call(p) == Head(s[p].load)
CallsOf(load) == [load |-> load, chan |-> None, off |-> 0, n |-> 0]

Init ==
  /\ NamesInit
  /\ g = [fd |-> [i \in 0..DELTAFD - 1 |-> None], nfd |-> DELTAFD, maxfd |-> 0]
  /\ \E l \in Loads : s = [p \in Procs |-> CallsOf(l[p])]
  /\ uncrossed = FALSE

(* s[p] after: its fields f[DOMAIN f], the others as they were *)
Has(p, f) == s' = [s EXCEPT ![p] = [x \in DOMAIN @ |-> IF x \in DOMAIN f THEN f[x] ELSE @[x]]]

Returns(p) ==
  /\ s' = [s EXCEPT ![p] = CallsOf(Tail(s[p].load))]
  /\ w' = [w EXCEPT ![p] = Resting]
Is(p, pc) == w[p].pc = pc /\ s[p].load # <<>>
In(p, pc, call) == Is(p, pc) /\ Call(p).call = call

-----------------------------------------------------------------------------
(* growfd: the group with a slot fd, or the same group *)
GrowFd(h, fd) ==
  IF fd < h.nfd \/ fd >= h.nfd + DELTAFD \/ h.nfd >= FdLimit THEN h
  ELSE [fd |-> [i \in 0..h.nfd + DELTAFD - 1 |-> IF i < h.nfd THEN h.fd[i] ELSE None],
        nfd |-> h.nfd + DELTAFD, maxfd |-> IF fd > h.maxfd THEN fd ELSE h.maxfd]

(* findfreefd from 0, of a group that may have no slot for it *)
FreeFd(h) == Least({i \in DOMAIN h.fd : h.fd[i] = None} \cup {h.nfd})

(* f->fd[fd] = c, and maxfd with it *)
PutFd(h, fd, c) == [h EXCEPT !.fd[fd] = c, !.maxfd = IF fd > @ THEN fd ELSE @]

(* newfd, or error with the channel closed *)
NewFd(k, c) ==
  LET fd == FreeFd(g)
      h == GrowFd(g, fd)
  IN IF fd < h.nfd THEN t' = k /\ g' = PutFd(h, fd, c)
     ELSE t' = CClose(k, <<c>>) /\ UNCHANGED g

(* fdtochan: the channel of fd, or None *)
ChanOf(fd) == IF fd \in 0..g.nfd - 1 THEN g.fd[fd] ELSE None

(* the group without fd, as fdclose leaves it *)
DropFd(fd) ==
  LET below == {i \in 0..fd - 1 : \A j \in i..fd - 1 : g.fd[j] = None}
  IN [g EXCEPT !.fd[fd] = None,
               !.maxfd = IF fd = @ /\ below # {} THEN Least(below) ELSE @]

-----------------------------------------------------------------------------
(* _sysopen *)
SysOpen(p) ==
  /\ In(p, "idle", "open")
  /\ Namec(p, <<>>, Call(p).name, "Aopen")
  /\ UNCHANGED <<g, s, uncrossed>>

SysOpenEnd(p) ==
  /\ In(p, "back", "open")
  /\ NewFd(t, w[p].c)
  /\ Returns(p) /\ UNCHANGED uncrossed

(* _sysclose looks whether fd is open, and lets the lock go *)
SysClose(p) ==
  /\ In(p, "idle", "close")
  /\ IF ChanOf(Call(p).fd) = None THEN Returns(p)
     ELSE Does(p, [pc |-> "fdclose"]) /\ Has(p, [chan |-> ChanOf(Call(p).fd)])
  /\ UNCHANGED <<t, g, uncrossed>>

(* Variant: the channel that was found open is closed. *)
ClosedFound(p) == s[p].chan

(* the channel that fdclose finds *)
Closed(p) == g.fd[Call(p).fd]

(* fdclose: another may have closed it, or used it again *)
FdClose(p) ==
  /\ In(p, "fdclose", "close")
  /\ IF Closed(p) = None THEN UNCHANGED <<t, g>>
     ELSE g' = DropFd(Call(p).fd) /\ t' = CClose(t, <<Closed(p)>>)
  /\ Returns(p) /\ UNCHANGED uncrossed

(* _sysdup: fdtochan *)
SysDup(p) ==
  /\ In(p, "idle", "dup")
  /\ LET c == ChanOf(Call(p).fd)
     IN IF c = None THEN Returns(p) /\ UNCHANGED t
        ELSE t' = Incref(t, c) /\ Does(p, [pc |-> "dup"]) /\ Has(p, [chan |-> c])
  /\ UNCHANGED <<g, uncrossed>>

(* _sysdup: to any descriptor, or to one that is given, which it replaces *)
SysDupEnd(p) ==
  /\ In(p, "dup", "dup")
  /\ LET to == Call(p).to
         h == GrowFd(g, to)
     IN IF to = -1 THEN NewFd(t, s[p].chan)
        ELSE IF to \notin 0..h.nfd - 1 THEN t' = CClose(t, <<s[p].chan>>) /\ g' = h
        ELSE /\ t' = CClose(t, <<h.fd[to]>>)
             /\ g' = PutFd(h, to, s[p].chan)
  /\ Returns(p) /\ UNCHANGED uncrossed

-----------------------------------------------------------------------------
(* kread, kwrite: fdtochan *)
SysIo(p) ==
  /\ Is(p, "idle") /\ Call(p).call \in {"read", "write"}
  /\ LET c == ChanOf(Call(p).fd)
     IN IF c = None THEN Returns(p) /\ UNCHANGED t
        ELSE t' = Incref(t, c) /\ Does(p, [pc |-> Call(p).call]) /\ Has(p, [chan |-> c])
  /\ UNCHANGED <<g, uncrossed>>

(* Variant: the offset stays where it is. *)
ReserveLater(k, c, n) == k

(* the part of the file that a write takes *)
Reserve(k, c, n) == [k EXCEPT !.offset[c] = @ + n]

(* kwrite: a directory is not written *)
WriteStart(p) ==
  /\ In(p, "write", "write")
  /\ LET c == s[p].chan
     IN IF t.file[c] \in Dirs THEN t' = CClose(t, <<c>>) /\ Returns(p)
        ELSE /\ t' = Reserve(t, c, WriteSize)
             /\ Has(p, [off |-> t.offset[c], n |-> WriteSize])
             /\ Does(p, [pc |-> "devwrite"])
  /\ UNCHANGED <<g, uncrossed>>

(* The device writes some of it, and the rest is given back.  When it      *)
(* fails, or the offset was below 0, all is, or nothing: n is a local that *)
(* was set after setjmp, and what it is after longjmp is that or 0.        *)
WriteEnd(p) ==
  /\ In(p, "devwrite", "write")
  /\ \E back \in 0..s[p].n :
       LET c == s[p].chan
           k == [t EXCEPT !.offset[c] = @ - back,
                          !.moved = IF back > 0 THEN @ \cup {c} ELSE @]
       IN t' = CClose(k, <<c>>)
  /\ Returns(p) /\ UNCHANGED <<g, uncrossed>>

(* kread takes the offset, with no lock *)
ReadStart(p) ==
  /\ In(p, "read", "read")
  /\ LET c == s[p].chan
     IN IF t.offset[c] < 0 THEN t' = CClose(t, <<c>>) /\ Returns(p)
        ELSE /\ Does(p, [pc |-> IF t.offset[c] = 0 THEN "rewind" ELSE "devread"])
             /\ UNCHANGED <<t, s>>
  /\ UNCHANGED <<g, uncrossed>>

(* at the start, it sets it again *)
ReadRewind(p) ==
  /\ In(p, "rewind", "read")
  /\ LET c == s[p].chan
     IN t' = [t EXCEPT !.offset[c] = 0,
                       !.moved = IF t.offset[c] # 0 THEN @ \cup {c} ELSE @]
  /\ Does(p, [pc |-> "devread"])
  /\ UNCHANGED <<g, s, uncrossed>>

(* what the device gave, nothing when it fails, moves it on *)
ReadEnd(p) ==
  /\ In(p, "devread", "read")
  /\ \E m \in 0..1 : t' = CClose([t EXCEPT !.offset[s[p].chan] = @ + m], <<s[p].chan>>)
  /\ Returns(p) /\ UNCHANGED <<g, uncrossed>>

-----------------------------------------------------------------------------
(* the mount table changed: nobody else's walk is calm *)
Disturb(p) == w' = [q \in Procs |-> IF q = p THEN Resting ELSE [w[q] EXCEPT !.calm = FALSE]]
Done(p) == s' = [s EXCEPT ![p] = CallsOf(Tail(s[p].load))] /\ Disturb(p)

(* one that crossed to the place of Mhead m has not counted it yet *)
Crossing(m) == \E p \in Procs : \/ w[p].pc = "cross" /\ w[p].mh = m
                                \/ w[p].pc = "elem" /\ w[p].nmh = m

(* bindmount, of a device *)
SysBind(p) ==
  /\ In(p, "idle", "bind")
  /\ Namec(p, <<>>, <<Call(p).from>>, "Abind")
  /\ UNCHANGED <<g, s, uncrossed>>

(* _sysunmount *)
SysUnmount(p) ==
  /\ In(p, "idle", "unmount")
  /\ Namec(p, <<>>, Call(p).name, "Amount")
  /\ UNCHANGED <<g, s, uncrossed>>

(* the second name of either *)
SecondName(p) ==
  /\ Is(p, "back") /\ w[p].got = <<>>
  /\ \/ Call(p).call = "bind" /\ Namec(p, <<w[p].c>>, Call(p).name, "Amount")
     \/ Call(p).call = "unmount" /\ Call(p).from # None
        /\ Namec(p, <<w[p].c>>, <<Call(p).from>>, "Aopen")
  /\ UNCHANGED <<g, s, uncrossed>>

SysBindEnd(p) ==
  /\ In(p, "back", "bind") /\ w[p].got # <<>>
  /\ \E m \in Mheads : t.mref[m] = 0
  /\ LET new == w[p].got[1]
         old == w[p].c
         fits == /\ t.file[old] \in Dirs <=> t.file[new] \in Dirs
                 /\ t.file[old] \in Dirs \/ Call(p).order = "repl"
         k == IF fits THEN CMount(t, new, old, Call(p).order) ELSE t
     IN t' = CClose(k, <<old, new>>)
  /\ Done(p) /\ UNCHANGED <<g, uncrossed>>

SysUnmountEnd(p) ==
  /\ In(p, "back", "unmount")
  /\ (Call(p).from = None) = (w[p].got = <<>>)
  /\ LET old == IF w[p].got = <<>> THEN w[p].c ELSE w[p].got[1]
         f == IF w[p].got = <<>> THEN None ELSE t.file[w[p].c]
         at == {m \in MountedOn(t, t.file[old]) : f = None \/ MountsOf(t, m, f) # {}}
     IN IF at = {} THEN t' = CClose(t, w[p].got \o <<w[p].c>>) /\ UNCHANGED uncrossed
        ELSE \E m \in at :
             LET k == CUnmount(t, m, f) IN
             /\ t' = CClose(k, w[p].got \o <<w[p].c>>)
             /\ uncrossed' = (uncrossed \/ (m \notin k.hashed /\ Crossing(m)))
  /\ Done(p) /\ UNCHANGED g

(* a namec gave up *)
NamecFailed(p) ==
  /\ Is(p, "failed")
  /\ t' = CClose(t, w[p].got)
  /\ Returns(p) /\ UNCHANGED <<g, uncrossed>>

Terminated == (\A p \in Procs : s[p].load = <<>>) /\ UNCHANGED vars

Next ==
  \/ \E p \in Procs :
       \/ NamecStep(p) /\ UNCHANGED <<g, s, uncrossed>>
       \/ SysOpen(p) \/ SysOpenEnd(p) \/ SysClose(p) \/ FdClose(p) \/ SysDup(p) \/ SysDupEnd(p)
       \/ SysIo(p) \/ WriteStart(p) \/ WriteEnd(p) \/ ReadStart(p) \/ ReadRewind(p) \/ ReadEnd(p)
       \/ SysBind(p) \/ SysUnmount(p) \/ SecondName(p) \/ SysBindEnd(p) \/ SysUnmountEnd(p)
       \/ NamecFailed(p)
  \/ Terminated

Spec == Init /\ [][Next]_vars

-----------------------------------------------------------------------------
(* how often c is in the sequences F[x] *)
Uses(F, c) == Cardinality(Pairs([x \in DOMAIN F |-> At(c, F[x])]))

(* who keeps channel c in the tables: places, mounts, paths of channels; *)
(* and who keeps Mhead m there: the hash table, channels of unions       *)
InTables(k, c) ==
  Uses([m \in k.hashed |-> <<k.from[m]>>], c) + Uses(k.mount, c) + Uses(k.path, c)
MInTables(k, m) ==
  (IF m \in k.hashed THEN 1 ELSE 0) + Uses([c \in Chans |-> <<k.umh[c]>>], m)

(* the channels that the call of p has counted *)
Held(p) == <<w[p].c, w[p].start, w[p].nc>> \o w[p].path \o w[p].got
             \o (IF w[p].pc = "fdclose" THEN <<>> ELSE <<s[p].chan>>)

(* who keeps them besides: the slash, descriptors, and calls *)
InCalls(c) == (IF c = Slash THEN 1 ELSE 0) + Uses([i \in DOMAIN g.fd |-> <<g.fd[i]>>], c)
                + Uses([p \in Procs |-> Held(p)], c)
MInCalls(m) == Uses([p \in Procs |-> <<w[p].mh, w[p].nmh>>], m)

(* A channel, and a Mhead, is counted once by each that keeps it, so that  *)
(* none is freed that is in use (the panic in cclose) and none is lost.    *)
(* But when a place leaves the table between findmount and the incref of   *)
(* its channel, that channel may be gone, and after that all is possible.  *)
ChansAreCounted ==
  uncrossed \/ /\ ~t.stale
               /\ \A c \in Chans : t.ref[c] = InTables(t, c) + InCalls(c)
               /\ \A m \in Mheads : t.mref[m] = MInTables(t, m) + MInCalls(m)

(* While nobody mounts or unmounts, a name is the file that the mount      *)
(* table makes it (namec, walk): each directory is looked for in the       *)
(* union at its place, and ".." from a mounted tree goes to the place it   *)
(* is mounted on, however the name is cut up for the devices.              *)
NamesResolve ==
  \A p \in Procs :
    w[p].calm /\ ~uncrossed /\ w[p].name # <<>> /\ ~Nomount(p) =>
      LET places == Places(w[p].name) IN
      /\ w[p].pc = "failed" => places = <<>>
      /\ w[p].pc = "back" =>
           /\ places # <<>>
           /\ t.file[w[p].c] = IF w[p].mode = "Aopen" THEN Head(Union(Last(places)))
                               ELSE Last(places)

(* Two writes through one channel's offset go to parts of the file that do *)
(* not overlap (kwrite), while no write gave back what it took and no read *)
(* set the offset back to the start.  The loads that are checked do not    *)
(* bring it about, but once a channel may be gone (uncrossed) a writer's   *)
(* channel may be another file: the theorem is about what comes before.    *)
WritesApart ==
  \A p, q \in Procs :
    p # q /\ w[p].pc = "devwrite" /\ w[q].pc = "devwrite" /\ s[p].chan = s[q].chan
      /\ s[p].chan \notin t.moved =>
        s[p].off + s[p].n <= s[q].off \/ s[q].off + s[q].n <= s[p].off
=============================================================================
