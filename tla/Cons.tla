-------------------------------- MODULE Cons --------------------------------
(***************************************************************************)
(* The console (kern/devcons.c).  The window system's thread puts keys     *)
(* into kbdq, a nonblocking byte queue of module Qio.  Processes read      *)
(* /dev/cons one at a time, under kbd.lk: in raw mode they get the bytes   *)
(* of kbdq; otherwise they edit a line in kbd.line, append it to lineq     *)
(* and read that.  /dev/consctl switches raw mode.                         *)
(*                                                                         *)
(* lineq is used only under kbd.lk, so that a call on it is one step; the  *)
(* lock is the line that module QLocks shows a QLock to be.  Echo, the     *)
(* compose key and the ^T commands decide which bytes are queued or shown, *)
(* and are left out.                                                       *)
(***************************************************************************)
EXTENDS Qio, FiniteSets

CONSTANTS
  CtlUsers,     \* the Readers that use /dev/consctl
  Keys,         \* kinds of keys: "char", "rune", "bs", "kill", "nl", "eof"
  LineMax,      \* sizeof(kbd.line)
  CtlKeys       \* bound: /dev/consctl is called until this many keys are typed

ASSUME ConsQueues == ~Coalesce /\ BReaders = {} /\ 0 \notin ReadSizes
ASSUME KeysAreKinds == Keys \subseteq {"char", "rune", "bs", "kill", "nl", "eof"}
ASSUME LineMaxPos == LineMax \in Nat \ {0} /\ CtlKeys \in Nat

VARIABLES
  kbdlk,    \* kbd.lk: holder first, then the line
  raw, ctl, \* kbd.raw, kbd.ctl
  line,     \* kbd.line[0 .. kbd.x-1]
  lineq,    \* the blocks of lineq
  job,      \* what p does in the console
  want,     \* what p's read has still room for
  hasctl,   \* the processes that have /dev/consctl open
  buf,      \* what a raw read has put into its caller's buffer
  used,     \* bytes of kbdq the console has dealt with
  key,      \* history: the kind of each byte of kbdq
  rawly,    \* history: the bytes read in raw mode
  ends,     \* history: the bytes that completed a line
  got       \* history: what each read returned

kbd == <<kbdlk, raw, ctl, line, lineq>>
history == <<used, key, rawly, ends, got>>
cvars == <<kbd, job, want, hasctl, buf, history>>
vars == <<qvars, cvars>>

Init ==
  /\ QInit
  /\ noblock = TRUE
  /\ kbdlk = <<>> /\ raw = FALSE /\ ctl = 0
  /\ line = <<>> /\ lineq = <<>>
  /\ job = [p \in Readers |-> "out"]
  /\ want = [p \in Readers |-> 0]
  /\ hasctl = {}
  /\ buf = <<>>
  /\ used = 0 /\ key = <<>> /\ rawly = {} /\ ends = {} /\ got = <<>>

-----------------------------------------------------------------------------
(* kbdputc and echo: the bytes of a rune are queued together, or dropped *)
Size(k) == IF k = "rune" THEN 2 ELSE 1

Kbdputc(p) ==
  /\ UNCHANGED <<kbd, job, want, hasctl, buf, used, rawly, ends, got>>
  /\ \/ QProduceNone(p) /\ UNCHANGED key
     \/ \E k \in Keys :
          /\ QProduce(p, Size(k))
          /\ key' = key \o [i \in 1..Size(k) |-> k]

-----------------------------------------------------------------------------
Call(p, j) ==
  /\ p \in Readers /\ job[p] = "out"
  /\ job' = [job EXCEPT ![p] = j]
  /\ kbdlk' = Append(kbdlk, p)

Doing(p, j) == Holds(kbdlk, p) /\ At(p, "idle") /\ job[p] = j

(* qunlock(&kbd.lk), and back to the caller *)
Leave(p) ==
  /\ kbdlk' = Tail(kbdlk)
  /\ job' = [job EXCEPT ![p] = "out"]

(* consread of /dev/cons *)
ConsRead(p) ==
  /\ Call(p, "read")
  /\ \E k \in ReadSizes : want' = [want EXCEPT ![p] = k]
  /\ UNCHANGED <<qvars, raw, ctl, line, lineq, hasctl, buf, history>>

(* n = qread(lineq, buf, n); what does not fit stays in front *)
ConsTakeLine(p) ==
  /\ Doing(p, "read") /\ lineq # <<>>
  /\ LET b == Head(lineq) IN
       /\ got' = Append(got, SubSeq(b, 1, LeastOf(Len(b), want[p])))
       /\ lineq' = (IF Len(b) > want[p] THEN <<SubSeq(b, want[p] + 1, Len(b))>> ELSE <<>>)
                     \o Tail(lineq)
  /\ want' = [want EXCEPT ![p] = 0]
  /\ Leave(p)
  /\ UNCHANGED <<qvars, raw, ctl, line, hasctl, buf, used, key, rawly, ends>>

(* there is no line: qread(kbdq, ...), in raw mode for all there is room   *)
(* for, else for the next byte                                             *)
ConsWaitKey(p) ==
  /\ Doing(p, "read") /\ lineq = <<>>
  /\ QRead(p, IF raw THEN want[p] ELSE 1)
  /\ job' = [job EXCEPT ![p] = IF raw THEN "raw" ELSE "key"]
  /\ UNCHANGED <<kbd, want, hasctl, buf, history>>

(* that qread has returned bytes used+1 to gone: "read as much as possible" *)
ConsRawRead(p) ==
  /\ Doing(p, "raw")
  /\ LET read == [i \in 1 .. gone - used |-> used + i] IN
       /\ rawly' = rawly \cup (used + 1 .. gone)
       /\ want' = [want EXCEPT ![p] = @ - Len(read)]
       /\ IF want'[p] > 0 /\ blocks # <<>>
            THEN /\ QRead(p, want'[p])
                 /\ buf' = buf \o read
                 /\ UNCHANGED <<got, job, kbdlk>>
            ELSE /\ got' = Append(got, buf \o read)
                 /\ buf' = <<>>
                 /\ Leave(p)
                 /\ UNCHANGED qvars
  /\ used' = gone
  /\ UNCHANGED <<raw, ctl, line, lineq, hasctl, key, ends>>

(* Variant: does not take back the first byte. *)
EditOne(i) ==
  CASE key[i] = "bs"   -> IF Len(line) <= 1 THEN line ELSE Front(line)
    [] key[i] = "kill" -> <<>>
    [] OTHER           -> Append(line, i)

(***************************************************************************)
(* The next byte of a line.  Backspace and kill work on kbd.line; newline  *)
(* and ^D complete the line, as does the byte that fills it; ^D itself is  *)
(* not part of it.                                                         *)
(***************************************************************************)
Edit(i) ==
  CASE key[i] = "bs"   -> IF line = <<>> THEN line ELSE Front(line)
    [] key[i] = "kill" -> <<>>
    [] OTHER           -> Append(line, i)

(* Variant: takes ^D for text. *)
CompleteNl(l, i) == Len(l) = LineMax \/ key[i] = "nl"

Complete(l, i) == Len(l) = LineMax \/ key[i] \in {"nl", "eof"}

(* Variant: an empty line is not worth queueing. *)
LineqWriteText(l) == lineq' = (IF l = <<>> THEN lineq ELSE Append(lineq, l))

LineqWrite(l) == lineq' = Append(lineq, l)

(* Variant: does not wait for keys. *)
NextKeyIfAny(p) ==
  IF blocks = <<>>
    THEN Leave(p) /\ got' = Append(got, <<>>) /\ UNCHANGED qvars
    ELSE QRead(p, 1) /\ UNCHANGED <<job, kbdlk, got>>

NextKey(p) == QRead(p, 1) /\ UNCHANGED <<job, kbdlk, got>>

ConsKey(p) ==
  /\ Doing(p, "key")
  /\ LET l == Edit(gone) IN
       \/ /\ Complete(l, gone)
          /\ LineqWrite(IF key[gone] = "eof" THEN Front(l) ELSE l)
          /\ line' = <<>>
          /\ ends' = ends \cup {gone}
          /\ job' = [job EXCEPT ![p] = "read"]
          /\ UNCHANGED <<qvars, kbdlk, got>>
       \/ /\ ~Complete(l, gone)
          /\ line' = l
          /\ NextKey(p)
          /\ UNCHANGED <<lineq, ends>>
  /\ used' = gone
  /\ UNCHANGED <<raw, ctl, want, hasctl, buf, key, rawly>>

-----------------------------------------------------------------------------
(* /dev/consctl *)

CtlCall(p) ==
  /\ p \in CtlUsers /\ calls <= CtlKeys
  /\ \/ p \notin hasctl /\ Call(p, "open")
     \/ p \in hasctl /\ \E j \in {"close", "rawon", "rawoff"} : Call(p, j)
  /\ UNCHANGED <<qvars, raw, ctl, line, lineq, want, hasctl, buf, history>>

CtlOpen(p) ==
  /\ Doing(p, "open")
  /\ ctl' = ctl + 1
  /\ hasctl' = hasctl \cup {p}
  /\ Leave(p)
  /\ UNCHANGED <<qvars, raw, line, lineq, want, buf, history>>

(* Variant: tests the count before it is decremented. *)
CtlCloseLate(p) ==
  /\ Doing(p, "close")
  /\ ctl' = ctl - 1
  /\ hasctl' = hasctl \ {p}
  /\ raw' = (raw /\ ctl # 0)
  /\ Leave(p)
  /\ UNCHANGED <<qvars, line, lineq, want, buf, history>>

CtlClose(p) ==
  /\ Doing(p, "close")
  /\ ctl' = ctl - 1
  /\ hasctl' = hasctl \ {p}
  /\ raw' = (raw /\ ctl' # 0)
  /\ Leave(p)
  /\ UNCHANGED <<qvars, line, lineq, want, buf, history>>

(* what is in kbd.line would go back to kbdq; NoPartialLine shows that     *)
(* nothing ever is, and Delivered would fail if this lost any of it        *)
RawOn(p) ==
  /\ Doing(p, "rawon")
  /\ raw' = TRUE
  /\ line' = <<>>
  /\ Leave(p)
  /\ UNCHANGED <<qvars, ctl, lineq, want, hasctl, buf, history>>

RawOff(p) ==
  /\ Doing(p, "rawoff")
  /\ raw' = FALSE
  /\ line' = <<>>
  /\ Leave(p)
  /\ UNCHANGED <<qvars, ctl, lineq, want, hasctl, buf, history>>

-----------------------------------------------------------------------------
ConsStep(p) ==
  \/ ConsTakeLine(p) \/ ConsWaitKey(p) \/ ConsRawRead(p) \/ ConsKey(p)
  \/ CtlOpen(p) \/ CtlClose(p) \/ RawOn(p) \/ RawOff(p)
  \/ (ReadStep(p) \/ IWake(p)) /\ UNCHANGED cvars

Next == \E p \in Procs : Kbdputc(p) \/ ConsRead(p) \/ CtlCall(p) \/ ConsStep(p)

Spec == Init /\ [][Next]_vars

(* Calls that have begun go on; nobody has to type, to read or to call. *)
FairSpec == Spec /\ \A p \in Procs : WF_vars(ConsStep(p))

-----------------------------------------------------------------------------
(* kbd.line has room for the byte that is read next *)
TypeOK ==
  /\ QTypeOK
  /\ Len(line) < LineMax
  /\ pc \in [Procs -> PC]
  /\ kbdlk \in Seq(Readers) /\ raw \in BOOLEAN /\ ctl \in Nat
  /\ line \in Seq(1..sent) /\ lineq \in Seq(Seq(1..sent))
  /\ job \in [Readers -> {"out", "read", "key", "raw", "open", "close", "rawon", "rawoff"}]
  /\ want \in [Readers -> Nat]
  /\ hasctl \subseteq Readers
  /\ buf \in Seq(1..sent) /\ used <= gone /\ key \in Seq(Keys) /\ Len(key) = sent
  /\ rawly \cup ends \subseteq 1..used /\ got \in Seq(Seq(1..sent))

-----------------------------------------------------------------------------
(* What the line discipline promises, said without kbd.line *)

LastOfLine(i) ==
  IF \E e \in ends : e >= i THEN CHOOSE e \in ends : e >= i /\ \A f \in ends : f >= i => f >= e
                            ELSE used

Text(S) == {i \in S : key[i] \in {"char", "rune", "nl"}}

Backspaces(S) == {i \in S : key[i] = "bs"}

(* byte i is text that no kill and no excess of backspaces up to byte z    *)
(* removes                                                                 *)
Stays(i, z) ==
  /\ i \in Text({i})
  /\ \A j \in i + 1 .. z :
       /\ key[j] # "kill"
       /\ Cardinality(Backspaces(i+1..j)) <= Cardinality(Text(i+1..j))

(* it is read if it was read raw, or if nothing in its line removes it *)
Survives(i) == i \in rawly \/ Stays(i, LastOfLine(i))

(***************************************************************************)
(* What reads have returned, what raw reads and lineq hold, and the line   *)
(* in the making are together exactly the bytes typed that survive, each   *)
(* once, in the order typed, across changes of mode and of reader.         *)
(***************************************************************************)
Delivered ==
  LET out == FlattenSeq(got) \o buf \o FlattenSeq(lineq) \o line IN
    /\ Range(out) = {i \in 1..used : Survives(i)}
    /\ \A j, k \in DOMAIN out : j < k => out[j] < out[k]

(***************************************************************************)
(* "current input line": there is an unfinished line only while a process  *)
(* is reading keys.  So no change of mode meets one, and the branch of     *)
(* rawon that would queue the line behind keys typed later is dead.        *)
(***************************************************************************)
NoPartialLine == line # <<>> => \E p \in Readers : Holds(kbdlk, p) /\ job[p] = "key"

(***************************************************************************)
(* A read returns bytes of one line at most, and nothing only for a ^D     *)
(* typed on an empty line, once for each.                                  *)
(***************************************************************************)
Empties(s) == {k \in DOMAIN s : s[k] = <<>>}

(* s has no bytes from both sides of the end of a line *)
Whole(s) == \A e \in ends : ~\E i, j \in DOMAIN s : s[i] <= e /\ e < s[j]

(* the line that byte e ends is empty *)
Bare(e) == ~\E i \in 1..e : LastOfLine(i) = e /\ i \notin rawly /\ Survives(i)

OneLineARead ==
  /\ \A k \in DOMAIN got : Whole(got[k])
  /\ Cardinality(Empties(got)) + Cardinality(Empties(lineq)) =
       Cardinality({e \in ends : Bare(e)})

(***************************************************************************)
(* "last close of control file turns off raw" (devcons.c:629).             *)
(***************************************************************************)
RawNeedsCtl == raw => hasctl # {}

(***************************************************************************)
(* A process editing a line returns once the end of a line is in kbdq.     *)
(***************************************************************************)
LineIsRead ==
  \A p \in Readers :
    (job[p] = "key" /\ \E i \in used + 1 .. sent : key[i] \in {"nl", "eof"}) ~> job[p] = "out"
=============================================================================
