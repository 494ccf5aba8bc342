# Drawterm: TLA+ specifications, checks and proofs

Drawterm is a Plan 9 terminal: a C program that carries a small Plan 9 kernel
in user space (`src/kern`), runs its "processes" as threads of the host, draws
in a window of the host, and exports the host's files over 9P to a cpu server
(`src/exportfs`).  What is hard in it is the machinery for threads that wait
for each other and share things: sleep and wakeup, queueing locks, byte queues
with flow control, pipes, the console, the mount driver, where many processes
share one connection, the channels and the mount table, where everything is
counted by hand, the file server, whose slaves share buffers with their master
without a lock, and TLS, where two directions change keys at moments of their
own.  This directory holds TLA+ modules for that machinery, TLC configurations
that check them, and TLAPS proofs.

The reference is the source.  Paths below are relative to `src/`.
`PROJECT.json` maps each definition to the lines it models, and lists hazards,
runs, mutants and theorems.

## How the modules stack

```
Oproc            procsleep/procwakeup: one semaphore per thread   (posix.c)
  ├─ SleepWakeup   sleep/wakeup on a Rendez                       (sleep.c)
  │    └─ SleepWakeup_proofs
  ├─ QLocks        qlock/canqlock/qunlock                         (qlock.c)
  │    ├─ refines FifoMutex (the abstract promise)
  │    └─ Locks_proofs (with RWLock)
  └─ Rendezvous    rendezvous                                     (sysfile.c)
       └─ Export     master, slaves, work buffers, flush          (exportsrv.c)
            ├─ ExportFids  fids and Files                         (exportfs.c)
            ├─ MCExport    loads
            └─ Export_proofs
RWLock           rlock/wlock over two QLocks                      (rwlock.c)
  └─ Locks_proofs (with QLocks)
Qio              byte queues: an operation per critical section   (qio.c)
  ├─ DevPipe       one direction of a pipe                        (devpipe.c)
  │    ├─ refines PipeChannel (the abstract promise)
  │    └─ DevPipe_proofs
  ├─ Kprint        /dev/kprint                                    (devcons.c)
  └─ Cons          keyboard, line discipline, /dev/consctl        (devcons.c)
       └─ Cons_proofs
DevMnt           9P calls over one shared connection              (devmnt.c)
  └─ DevMnt_proofs
Chan             channels, mount table and their counts           (chan.c)
  └─ Names         namec, walk, "..", unions                      (chan.c)
       └─ SysFile    open, dup, close, read, write, bind, unmount (sysfile.c)
            ├─ MCSysFile  trees and loads
            └─ SysFile_proofs
Tls              handshake and records, both ends                 (devtls.c, tlshand.c)
  └─ Tls_proofs
```

The lower layers are modelled step by step, with every lock of the code.
`Export` stands on `Rendezvous` and that on `Oproc` with all their steps.  The
others use what the lower ones were shown to provide: a QLock is the
sequence of its holder and the processes it will be handed to (what `QLocks`
refines to), and `sleep` tests its condition and commits in one step while
`wakeup` releases whoever is committed (what `IInv`, `NoLostWakeup` and
`NoStrayWakeup` of `SleepWakeup` say).  These two abstractions are stated at
the head of each module that relies on them; they are arguments from those
results, not INSTANCEs.

## Inventory

| component | state | operations | what is hard |
|---|---|---|---|
| process semaphore, `kern/posix.c` | `nsleep`, `nwakeup`, a pthread condition | `procsleep`, `procwakeup` | wakeup before sleep, spurious returns, one semaphore for three kinds of waiting |
| rendezvous points, `kern/sleep.c` | `r->p`, `p->r`, `p->state`, two spin locks | `sleep`, `wakeup` | a wakeup between test and commitment; the panic in `wakeup` |
| queueing locks, `kern/qlock.c` | `hold`, the line `first..last` | `qlock`, `canqlock`, `qunlock` | hand-off: the new holder is woken after the spin lock is free |
| readers/writer locks, `kern/rwlock.c` | QLocks `x`, `k`, a count | `rlock`, `runlock`, `wlock`, `wunlock` | `k` is taken by the first reader and given back by the last, another process |
| byte queues, `kern/qio.c`, `kern/allocb.c` | list of blocks, `len`, `dlen`, flags, two locks, two Rendez | `qread`, `qbread`, `qwrite`, `qbwrite`, `qiwrite`, `qproduce`, `qclose`, `qhangup`, `qreopen` | unlocked copies and tests, put-back, flow control, close against everything |
| pipes, `kern/devpipe.c` | two queues, a count per end | open, read, write, close | last close of an end while others sleep in both queues |
| `/dev/kprint`, `kern/devcons.c` | a queue, `kprintinuse` | open, read, close, `putstrn0` | writers that look unlocked whether the queue is open |
| console, `kern/devcons.c` | `kbdq`, `lineq`, `kbd.line`, `raw`, `ctl` | keys, reads, consctl | mode changes between keys, half a line edited, half a line read |
| mount driver, `kern/devmnt.c` | tags, `m->queue`, `m->rip`, one `Mntrpc` per call | calls, flush, demultiplexing | one caller reads for all; interruption, flush, reuse of tags |
| channels, mounts, name spaces, `kern/chan.c`, `kern/pgrp.c` | counts of channels, Mheads, Paths; the mount table; where each path crossed a mount | open, walk, `..`, clone, close, mount, unmount | a channel freed and reused while a walk, a path or a union holds it; an unmount in the middle of a walk |
| system calls, `kern/sysfile.c` ... | descriptor groups, offsets, rendezvous table | `open`, `dup`, `close`, `read`, `write`, `bind`, `unmount`, `rendezvous` | two processes on one descriptor or one offset; the rendezvous value |
| file export, `exportfs/` | fids, Files and their counts, work buffers, slaves | one 9P message each | buffers shared without locks; flush against a slave that is finishing; a walk that stops half way |
| TLS, SSL, `kern/devtls.c`, `libsec/port/tlshand.c`, `kern/devssl.c` | per-direction keys, sequence numbers and locks; the connection's state; handshake queue | handshake, records in and out, alerts, close | keys change in each direction at another moment; alerts of the reader against data of the writer; a read interrupted half way |
| mouse, `kern/devmouse.c` | ring of events | `mousetrack`, read | written by the host's thread without the reader's lock |
| draw, graphics libraries | images, screens | draw messages | geometry under one lock |
| host devices, window systems, programs, vendored libraries | the host's | thin translations, start-up, library code | little that interleaves |

Interaction: the host's window thread calls `kbdputc` and `mousetrack`; every
other thread is a kernel process that enters the kernel through `sysfile.c`,
goes through `chan.c` to a device, and blocks only in `procsleep`: through
`sleep` (queues, mount driver, TLS), `qlock`, or `rendezvous`.

## What each module models

**Oproc.**  The two counters of a process are kept as their difference,
`credit`; `ProcSleep`, `Retest` and `ProcWakeup` are the three critical
sections under `op->mutex`, `SpuriousReturn` is what POSIX allows
`pthread_cond_wait`.  Exact for fewer than 2^31 sleeps of a process.

**SleepWakeup.**  Every lock, test and assignment of `sleep` and `wakeup` is an
action of its own, in the order of the code, so that a waker comes between any
two.  `Enter`, `Consume` and `Signal` are the callers: all of them in `kern/`
take a lock of their own before they sleep on a Rendez (one process at a time,
as `q->rlock` does), test again after it, and make the condition true before
`wakeup`.  `notepending` is never set anywhere in the program, so the
`error(Eintr)` exit of `sleep` has no action.

**QLocks.**  A section under `q->lk` is one action (it touches only that lock
and the processes in its line); what follows the unlock, `procsleep` or
`procwakeup`, is another.  Processes nest locks in increasing order and take
others with `canqlock` at will.  `FifoMutex` is what the callers count on.

**RWLock.**  The steps between the locks of `rwlock.c`, with the ignored result
of `canqlock(&l->k)` and the last reader, whoever it is, unlocking `k`.

**Qio.**  One action per section under `q->lk` and per step between two of
them: the copy to user space of `qread` (blocks are in `hand` meanwhile), each
`wakeup`, the unlocked test at the head of the flow control loop, the setting
of `Qflow`, the sleep.  A block is its bytes and its allocated size, `Hdr` more
than asked for, which is what `BALLOC` counts.  Bytes are numbered in the order
they are queued; `sent` and `gone` are history.  Left out: `kick`, `bypass`,
`Qmsg` and `Qkick`, which no queue of the program uses, and `qget`, `qpass`,
`qconsume`, `qdiscard`, `qcopy`, which no concurrent code calls.

**DevPipe** and **Kprint.**  What opens, closes, hangs up and reopens a queue
while it is in use, over the operations of `Qio`.  The two directions of a
pipe are independent but for the moment of the last close; one is modelled.
**PipeChannel** is what the users of a pipe count on: a line of chunks, one for
each write of up to `Maxatomic` bytes, from which a reader takes the front of the
first.  The channel is closed from when an end loses its last user until nobody
has it open, and only the last reader's close throws anything away.  `DevPipe`
refines it: the line is the block a reader is copying, then the queue.  It also
shows what is not promised: bytes written and closed before any reader came stay
in the reopened pipe, and then nothing tells a later reader of the hangup.

**Cons.**  Keys enter `kbdq` by `qproduce` (dropped when it is full, a rune at
a time); processes read the console one at a time under `kbd.lk`, raw or by
lines; `/dev/consctl` is opened, closed and written under the same lock.
`lineq` is used only under `kbd.lk`, so a call on it is one step.  The compose
key, the `^T` commands and the echo only choose which bytes are queued or
shown.  Which bytes survive the line discipline is also defined a second time,
declaratively (`Survives`), and `Delivered` compares the two.

**DevMnt.**  A call from `mntralloc` to `mntfree`, one action per section under
`m->lk` or `mntalloc.lk` and per step between: the gate, the read, `mountmux`
and the wakeup after it, the `waserror` loop, `mntflushalloc`, and
`mntflushfree` with its unlocked test of `r->done`.  The `Mntrpc` and its tag
are one thing (the tag lives as long as the memory).  The server and the
transport are external: any server that keeps to flush(5) answers in any order,
may stop answering, and may lose what is on the way when it does.

**Rendezvous.**  The bucket of a tag, what each process in it waits for and
gives; the meeting under `rgrp->ref.lk` is one action, `procsleep` and the
return from it are others.  All tags are in one bucket, which is the case where
its search matters.  A note that takes a process out of the bucket is left out.

**ExportFids.**  Fids and Files with their counts and the tree of Files; one
operator per request that changes them (attach, walk, clone and walk, open,
create, rename, clunk and remove), with every way it can stop half way.  Only
the master runs them, one at a time; what the host says of a name is open.

**Export.**  The master: `getsbuf`, the handlers it runs itself, `Xflush` in
its two halves (find the buffer, set `flushtag`), `slave()` with the search for
an idle slave, the making of a new one, and both rendezvous.  The slaves:
`blockingslave` with every look at `flushtag`, the reply, the change of tag of
a flushed request, and the two separate steps that give buffer and slave back.
The client is any that keeps to flush(5) about tags; it learns of replies late.
A request exists from when the master reads it, which loses no behaviour,
because a client may always not have seen what was replied by then.

**Chan.**  The counts of channels and Mheads, `cclose` with all that it frees
in turn, `newchan`'s reuse of what is free (of several, which one it is does not
matter), `findmount`, `cmount` and `cunmount`.  A Path is a value, and its copy
counts its channels again, where the code counts the Path: the same channels
live equally long.  `cclose` calls `pathclose` and that `cclose`: `CClose` is a
recursive function that closes one channel a step (`CloseOne`) and puts those
of its path before the rest, in the order in which the code comes to them.  It
makes as many steps as there are channels to close and places in paths
(`InPaths`), which is enough, for a path that is closed is gone.

**Names.**  `namec` and `walk`, one action per section under a lock: the mount
at a directory, the step in which the path takes the place it was crossed at
(after the locks are gone, `chan.c:915`, `1109`), a device's walk of several
elements up to a mount, the search of a union, `..` with `undomount`, the open
of what is mounted.  `Places` says what a name means in a second, declarative
way (a stack of places), and `NamesResolve` compares the two.

**SysFile.**  Descriptors (`growfd`, `newfd`, `fdclose`, `dup`), reads and
writes with the shared offset, `bind` and `unmount`, over `Names`: each process
runs through a list of calls.  `InTables` and `InCalls` say declaratively how
often a channel is kept, by places, mounts and paths, and by the slash,
descriptors and calls; `MInTables` and `MInCalls` say it of Mheads.

**Tls.**  The scripts of `tlsClient2` and `tlsServer2`, and at each end three
processes over one `TlsRec`: `tlsrecwrite` (state test and sealing under
`out.io`, then `bwrite`), `tlsbread` and `tlsrecread` (header, rest, what the
record does), `sendAlert` in its steps, `rcvError`, `tlsError`, `tlsclosed` and
the error handler of `tlsrecread` that follows it, the last close.  Consumption of the connection is counted in half records, so
that a read that is interrupted after the header must give it back.

## The runs

All of them finish within about three minutes with two workers.

| run | module | states | asks |
|---|---|---|---|
| `sleep` | SleepWakeup | 19 184 | inductive invariant, no panic, no lost and no stray wakeup, the woken return |
| `qlocks` | QLocks | 3 517 | inductive invariant, exclusion, refinement of `FifoMutex`, no starvation |
| `rwlock` | RWLock | 4 200 | writers alone, readers do not overtake a waiting writer, everybody gets in |
| `pipe` | DevPipe | 167 060 | refinement of `PipeChannel` (byte order, chunks kept whole); counts, bound of the queue, sleepers remembered; a blocked writer gets on; hangup wakes both kinds of sleeper |
| `kprint` | Kprint | 810 040 | order with coalescing reads, `qiwrite`, hangup and reopening |
| `kprint_race` | Kprint | (violation) | an open `/dev/kprint` has an open queue: **refuted**, see below |
| `cons` | Cons | 1 142 163 | the line discipline delivers what should survive, a line at a time; raw mode ends with the last close; a typed line is read |
| `devmnt` | DevMnt | 563 368 | replies, tags, gate, flush, hangup: every call gets its own reply and returns |
| `export` | MCExport | 467 128 | buffers apart, one answer each, Files counted, requests answered |
| `export_flush` | MCExport | (violation) | a Tflush is answered or remembered: **refuted**, see below |
| `tls` | Tls | 133 599 | both ends change keys together, nothing follows an alert, the handshake ends |
| `chans` | MCSysFile | 645 768 | channels and Mheads counted exactly, names mean what the mount table says, writes apart |

Bounds, each a CONSTANT of its module:

- `sleep`: three processes and two rendezvous points, so that a sleeper, the
  sleeper after it and a waker of each can meet.  Nothing else is bounded.
- `qlocks`: three processes (holder, next, one more to overtake), two locks
  (nesting).  Nothing else is bounded.
- `rwlock`: four processes: two readers, a writer, and one more of either kind.
- `pipe`: `Limit = 4` with blocks of 2 or 3 counted bytes makes two blocks fill
  the queue, so flow control, put-back beyond the limit and the half-limit test
  all happen; writes of 3 are two blocks (`MaxAtomic = 2`), so that `qwrite`
  gives up the lock in between; one reader uses `qbread`.  `MaxCalls = 2`
  writes; opens, reads and closes are unbounded.
- `kprint`: empty writes (blocks without data), writes of two blocks and reads
  that take part of a block, all of one, or two; `High = 3` stands for the 16K
  of `qiwrite`.
- `cons`: any three keys of the five kinds, a rune being two bytes;
  `LineMax = 3` lets a rune and a byte fill a line; `kbdq` is full after two
  keys; both readers open, write and close
  `/dev/consctl` until one key has been typed (`CtlKeys`).
- `devmnt`: three processes, three calls, one interruption, three tags, of
  which two `Mntrpc` are kept free (10 in the code), so that tags are both
  reused and released.  The third process calls only while nothing has gone
  wrong (`Lucky`).  One run beyond the bounds (two processes that are
  interrupted three times, four tags, 15.8 million states) found nothing more;
  with it a flush races a second flush.
- `export`: two slaves, two buffers, two rounds of `getsbuf`, three tags, two
  fids, three Files, and five loads (`MCExport`): what the master answers on an
  empty table; more slow requests than buffers; a flush; two flushes of one
  request; an open and what follows.  `Once`, the invariant of the proof, was run with
  three buffers (a flush that goes astray needs its own besides two of one tag)
  and loads of 9.7 and 12.5 million states before it was proved.
- `tls`: two writes of data at each end, one damaged record; reads, interrupts,
  failures of the connection and closes are unbounded.
- `chans`: two processes, nine channels, two Mheads; 27 x 3 loads of binds,
  unions and unmounts against a walk, and 100 of opens, writes, dups and closes
  on one table that grows by one (`DELTAFD`) up to `FdLimit = 2`.

`CHECK_DEADLOCK FALSE` stands where the system may really stop: a bound on
calls is used up, or every reader waits for bytes that nobody has to send.

The type invariants are not listed in the runs, but each was checked with its
run's constants (and those of the proofs are part of `IInv` or `Inv`).

Every property of a passing run has a mutant in `PROJECT.json`: a definition of
the model changed as a plausible bug would change the code (an operator
"Variant" beside it), under which TLC finds the property violated.

### Fairness

Weak fairness of each process's own steps inside the code modelled: a thread
that can run, runs.  Nobody is obliged to start an operation: to read, write,
type, signal or call.  The exceptions, and why:

- a process inside a critical section of `QLocks` or `RWLock` leaves it; a lock
  cannot promise anything otherwise;
- `pthread_cond_wait` returns after a signal (POSIX); spurious returns need no
  fairness, and have none;
- in `pipe`, for `WriterGetsOn`, whoever has the reading end open reads again
  and again (strong fairness): the property is about writers whose reader goes
  on reading;
- in `devmnt`, the server answers every request or goes away;
- in `export`, what is asked of the host returns.  The client need not take its
  replies, nor ask for more;
- in `tls`, the connection delivers what was written, or fails.  The users of
  the data file need do nothing.

Spin locks (`l->lk`, `r->lk`) are not assumed fair.

### The violations

`consclose` of `/dev/kprint` clears `kprintinuse` (`kern/devcons.c:642`) and
only then hangs the queue up (643).  An open that falls in between finds the
device free, reopens the queue and returns; the hangup of the old close then
closes the queue under the new owner, who reads end of file while `putstrn0`
discards what it should get.  "close of kprint allows other opens" (639) is
meant to be the other way round.  The run `kprint_race` shows it in eight
steps.

`blockingslave` looks at `flushtag` (`exportfs/exportsrv.c:556`) and clears
`busy` later (562).  An `Xflush` in between finds the buffer busy with a slave,
stores its tag there and says nothing, because the slave will; but the slave
does not look again.  The Tflush is never answered, though `flushtag` is the
"Tag on which to reply to flush" (`exportfs/exportfs.h:22`).  The run
`export_flush` shows it.

### Noted, not counted as violations

- `domount` and `walk` count the channel of a mount point after `findmount` has
  let its locks go (`chan.c:915`, `1109`).  When that very mount is unmounted in
  between, the channel may have been freed, and even be another's; `Incref`
  then revives it.  `SysFile` has the step, its history variable `uncrossed`
  says that it has happened, and `ChansAreCounted` and `NamesResolve` are
  claimed of behaviours in which it has not.  Without that excuse TLC finds the
  panic of `cclose` in 27 steps.
- `blockingslave` also replies before it clears `busy`.  By then the client may
  have the reply, have used its tag again for a request that another slave has,
  and have flushed that one: `Xflush` takes the first buffer that is `busy`, has
  a `pid` and has the tag (`exportsrv.c:59-62`), and so finds the buffer of the
  *older* request.  The flush goes astray: it is lost, or it is answered while
  its request is still being served, whose late reply comes under a tag that
  the client may have used again.  `AnsweredOnce` is claimed of behaviours in
  which that has not happened (`Astray`); with three work buffers, two slow
  requests and a flush TLC finds one in 30 steps.  Clearing `tag` or `pid`
  together with `busy`, after one more look at `flushtag`, would mend this and
  the violation above.
- A slave that answers a flush puts the flush's tag into its buffer
  (`exportsrv.c:559`) and replies in the next line.  A second Tflush of the same
  request that the master reads in between finds nothing in progress and is
  answered at once.  The client may take that for the answer to both and use
  their tags again; the Rflush to the first then comes under a tag that may
  stand for another request.  `Astray` names this case too; without it TLC
  violates `AnsweredOnce` in 22 steps, with one slow request and two flushes.
- A close notify that is received is never answered with one, although the last
  close tests for `SRClose` (`devtls.c:583`): after `tlsclosed` has set that
  state `tlsrecread` raises an error (856-860), which its own handler (786-790)
  takes for a "channel error", and `tlsError` follows.  So the state is
  `SError` when the read fails (`CloseIsNotAnswered`), and a later read says so
  instead of "tls hungup".
- A short write gives its rest of the offset back after another write has taken
  the part behind it, or a read has set the offset to 0: later writes overlap,
  and an offset can be negative, which `kread` and `kwrite` refuse.
  `WritesApart` excludes channels whose offset was set back.
- `Xversion` of an unknown version returns without clearing `busy`
  (`exportsrv.c:32-35`): its buffer is lost.
- A call of the mount driver that fails with another error than an interrupt is
  freed while its answer may still come (`mntflushfree`): a later call under
  its tag can be given that answer.  On a connection whose writes fail from then
  on, this later call fails too, and raises its error: `ReplyIsOwn` is about
  calls that do not.
- `kprintoq` is visible before `qnoblock` (`devcons.c:595-600`): a console write
  in between can block on flow control in a queue whose `qiwrite` and reader do
  not owe it a wakeup.
- `qiwrite` bounds `dlen` only; empty prints to a queue nobody reads grow
  `len` without limit.
- A console reader waits for keys with `kbd.lk` held, so opening, closing or
  writing `/dev/consctl` waits until it has its line.
- `if(kbd.x) qwrite(kbdq, ...)` in `rawon` (852) is dead code: `NoPartialLine`.
- A backspace takes back a byte, not a rune (694): `Edit` does the same.
- `nsleep` and `nwakeup` are signed and only grow (`posix.c:148`): after 2^31
  sleeps of one process the increment is undefined.  The model is exact below.

## What is proved

TLAPS checks these for any number of processes, locks, tags, slaves, buffers,
bytes, keys and records.  The only assumptions are those on constants: nil is
not a process, nor a tag, an error, a key or something to write; locks and tags
are numbers; the processes of `Export` are master and slaves, its fids and Files
finitely many; sizes and limits
are positive numbers; the keys of the console are of the six kinds that `Edit`
knows; processes, channels and Mheads of `SysFile` are finitely many, its
channels are numbers with 0, the slash's, among them, and its loads are lists of
its calls.

**SleepWakeup_proofs.**  `IInv` is inductive (`Invariance`):

- `LocksHeld`: who holds which spin lock, by program counter.  A waker that
  holds another's `rlock` has unhooked it and has yet to call `procwakeup`.
- `Hooks`: `r->p = t` exactly when `t` has announced itself on `r` and nobody
  has unhooked it; `p->r` and `p->state` say the same from the other side.
- `Credits`: what the semaphore of each process owes it: one wakeup less while
  it is hooked or being woken, nothing outside of `sleep`.
- `WakerComing`: a sleeper whose condition is true has a waker on its way.

`NoWakeupPanic` alone is not inductive: that `wakeup` finds the process still
committed depends on who may hold its `rlock` and on who has unhooked it.  From
`IInv`: `WakeupNeverPanics`, `WakeupsAreNotLost`, and `NoWakeupIsBanked`, which
is what lets `qlock` and `rendezvous` share the semaphore with `sleep`: their
`procsleep` is not followed by a test.

**Locks_proofs, qlock.c.**  `IInv` is inductive (`Invariance`): who is inside is
`q->hold` (`Holders`); who waits is in the line of exactly the lock it waits
for, once, or has been made its holder (`Lines`); one `qunlock` at most is
about to wake it (`Wakers`); its semaphore owes it one wakeup until then
(`Credits`).  Exclusion alone is not inductive, because `qlock` returns from
`procsleep` without looking at `q->hold`: only `Credits` rules out an early
return.  `QLockExcludes` follows, and so does `Refinement`: every step of
`qlock.c` is a step of `FifoMutex` or a stutter.  The mapping takes as owner
the process that has returned from `qlock`, and counts a chosen process that
has not yet run as the first in line.

**Locks_proofs, rwlock.c.**  The second half of the module (names of `RWLock`
that `QLocks` has too begin with RW, so that it extends both).  `RWInv` is
inductive (`RWInvariance`): `l->readers` is the number of those it counts
(`CountOK`, by the library's facts about cardinalities), who is past
`qlock(&l->x)` or in `lock(&l->lk)` holds it (`Insiders`), and in `k` stand the
readers, if they have it, and at most one writer (`LineOfK`).  Whether the
readers have `k` is not a variable of the code: it is `readers > 0`, but not between the first reader's
count and its `canqlock`, and still between the last one's count and its
`qunlock` (`ReadersHave`).  Exclusion alone is not inductive without it.
`WriterIsAlone` and `ReadersDoNotOvertake` follow.

**Export_proofs.**  `Inv` is inductive (`Invariance`) for any number of slaves
and buffers and any client:

- `Shape`: what is in `Proclist` is what was created, and who is where.
- `Meetings`: only those at a rendezvous wait in one, under their tag and with
  the value they came with.
- `Greetings`: a new slave says hello to the master that made it, so the slave
  cannot take this first meeting for a request.
- `Slaving`: a slave that works on a buffer, or has been handed one and has yet
  to wake up, is `busy`, and so is the buffer, which names it; the slave that
  the master is about to meet has none.
- `Mastering`: the buffer the master works on is nobody else's until it has met
  the slave for it.

`SlavesWorkApart` alone is not inductive: that the master's value reaches the
slave it chose, and not another that waits in the bucket, or the same slave at
its first rendezvous, is in the other conjuncts.  `NoBufferIsShared` follows.

Under `Meetings` is an invariant of rendezvous itself, `RendInv`, which the
module proves first, step by step: nobody is in the bucket twice, who is in it
is in `rendezvous`, and the semaphore of each owes it what its place says (one
wakeup for those in the bucket, none for those that have been met).  So
`procsleep` returns only to a process that was met, and what it finds in
`rendval` is its partner's value.

`AnswersAreOnce` is about the client too, which sees replies late, uses tags
again as soon as flush(5) lets it and may flush a request several times.  Its
invariant, `Once`, holds until a flush goes astray, which then stays so
(`StaysAstray`):

- `Pending`: a request whose buffer waits for the host has not been answered,
  and the client still has it under its tag.
- `Recorded`, `Unanswered`: a flush recorded where the slave has yet to look is
  of the request there and not answered, and neither is any other flush of it;
  only this makes it impossible for the client to free the tag meanwhile.
- `Replying`: a flush whose tag a slave has put into its buffer, and has yet to
  reply to, is still waited for, no flush of its request is answered, and no
  other buffer stands for that request.
- `Setting`: what `Xflush` is about to record between its two stores, and that
  no other buffer has that flush.
- `Olds`: a flush that is waited for is of a request that still has its tag.
- `Returning`: the replies on the way are in an order in which the client can
  take them one by one; taking one never frees the tag of a later one.

The proof is how the exception was found: the steps after which `Once` does not
hold again are an `Xflush` that finds an older request of the same tag, and one
that comes while `Replying` has a flush of its request.

`FilesAreKept` is about the tree (`FidInv`).  `Sound(t, own)` says that every
File is counted `own[x]` times besides once for each child, and what makes that
keep: children are live, know their parent and are listed once (`Children`),
every live File but the root is listed (`Parents`), and the root has an owner
that is not a fid, `main`.  `FilesAreCounted` follows with the fids as owners,
but between two calls of a handler it is false, and `own` says by how much:
`file`, and `wf->ref++` of a walk to "..", give the File an owner too many
(`FileSound`, `AddRefSound`), which `freefile` of the File that is left takes
away again (`AcceptSound`).  Each turn of `freefile`'s loop but the last frees a
live File whose one reference it takes, so the loop ends, never takes the root's
last reference, and finds each File it frees in its parent's list
(`FreeOneFrees`, `FreeFileSound`).  The walk is a loop too (`WalksSound`); both
are recursive functions, unfolded with `NatInd`.

**DevMnt_proofs.**  `Inv` is inductive (`Invariance`), for any number of
processes, tags, calls and interrupts, and a server that may go away:

- `TypeOK`, and the free list: a tag is in use, on `mntalloc.rpcfree` once, or
  not allocated (`FreeList`).
- `Owners`: a `Mntrpc` in use is the `r` of one process, or flushed by one other
  that is; never both (`Exclusive`).
- `OneReader`, and `Queued`: who waits and is not done is in `m->queue`.
- `SleepersAreAttended`.

That nobody is forgotten rests on the other two: `mntgate` finds who sleeps only
if that one is queued, and the sleepers it passes by as done are being woken by
a `mountmux`, which nobody but the reader can be in.

About tags, `Inv /\ TagInv` is inductive (`TagInvariance`):

- `Chains`: the flushes of one request form one chain, the youngest first, and
  the youngest is its process's `r`; so a Tflush goes out after what it flushes.
- `Net`, until the transport is down: what is on the way is what its tag stands
  for now, once (`Current`); nothing follows the answer to a flush that it was
  to stop (`Ordered`); nothing comes for a request that has yet to be sent
  (`Unsent`), nor for one that is done or given up (`Answered`).
- `Lateness`: after that a request may be given up with its answer on the way;
  but a call that takes its tag from then on (history variable `late`) does not
  get past its write.

`TagsAreNotStale` and `RepliesAreOwn` follow.  Neither property is inductive:
that `mntflushfree` may free the whole chain when its youngest flush is answered
depends on the order of the chain and on that of the replies, and is the reason
for the server's obligation to answer flushes of one request in order.

**DevPipe_proofs.**  `Inv` is inductive (`Invariance`), for any number of readers
and writers, any `Limit` and any sizes of reads and writes:

- `Shape`, `Lines`, `Known`: who is where; the line of `q->rlock` is exactly
  those in `qread`, that of `q->wlock` those in `qwrite`, each with one inside;
  `q->rr` and `q->wr` name exactly those asleep; who reads or writes has the
  end open, so that the last close meets nobody.
- `Data`: the block being copied and those queued are the bytes `gone+1` to
  `sent` in order, and `q->len` and `q->dlen` are their sums.
- `Sleeps`: who has decided to sleep, and not only who sleeps, is remembered: a
  reader in `Qstarve` or by what is queued; a writer in `Qflow`, or the queue can
  only become shorter than half its limit.
- `Bounds`: with what the reader will put back, the queue is less than one block
  over its limit while no writer is between queueing and sleeping, and less
  than two with one.

`BytesInOrder`, `CountsAgree`, `ReaderWillWake`, `WriterWillWake` and
`QueueIsBounded` follow.  None of the five properties is inductive by itself:
a put-back keeps the order only because one reader at a time holds a block, and
the sleepers are remembered only because of what was true when they tested
without the lock.  What `FlattenSeq` and the sum over blocks make of a longer
sequence is proved too: both are recursive functions, unfolded one step at a
time, and the induction is over a set of naturals (`NatInd`), obtained from the
library's theorem that strict inclusion of finite sets is well-founded.

`PipeIsChannel` is the refinement: under `Inv`, every step of the pipe is a step
of `PipeChannel` or a stutter (`StepMaps`, one lemma per kind of step).  `qread`
takes its block off the queue without a visible step (`GrabMaps`), because no
other reader holds one, and the abstract reader moves when the copy is done
(`FinishMaps`); what is put back is the rest of the chunk that was first.  The
last close can throw away what is queued only because nobody then reads.

**Cons_proofs.**  `Inv` is inductive (`Invariance`), for any number of readers
and any `LineMax`.  It has two parts:

- `Hands`, about who does what: the line of `kbd.lk` is exactly those with
  business in the console (`Standing`); only its holder is in `qread` of `kbdq`
  (`Places`); `kbd.ctl` is the number of those that have `/dev/consctl` open,
  and not 0 in raw mode (`Control`); `kbdq` holds the bytes `gone+1` to `sent`
  (`Typed`), of which the holder has taken at most the one that it is about to
  deal with, or what a raw read asked for (`Pace`).
- `Lines(b)`, about what became of the bytes.  Up to byte `b` they are of
  finished lines or were read raw, and those that survive are in what reads have
  returned, `buf` and `lineq`, in order (`Finished`).  `kbd.line` holds what is
  left of the bytes after `b`, and has the n-th byte from its end followed by n
  more bytes of text than backspaces (`EditingIn`).  `line`, `buf` and `lineq`
  are used one at a time (`Order`); reads have kept to lines (`Reads`).

`KeysAreDelivered`, `ReadsKeepToLines`, `LinesHaveReaders`, `LastCloseEndsRaw`
follow, and `LineHasRoom`: the store of a byte into `kbd.line` is within the
array.  `Delivered` is not inductive: it compares the line with what survives,
which a later backspace changes for bytes typed long before, and only the count
in `EditingIn` says that it changes it for exactly the last byte of the line.

**Tls_proofs.**  Two invariants, for any number of records written and damaged,
interrupts and failures.  `Inv` is about each end by itself (`Invariance`):

- `Placed`, `JobOk`: where the three processes of an end may be together, and
  that each has a job exactly where it writes.
- `Building`: who holds `out.io` has a record made for its job.
- `Alarmed`: from the decision to send a fatal alert on, the state refuses what
  is not an alert.
- `Quiet`: an alert is the last record, and after it nobody is writing and
  whoever comes is refused.
- `Halves`: an end has consumed half of a record exactly while somebody is
  between its header and its rest.

`NothingFollowsAnAlert` follows; by itself it is not inductive, for a writer
that tested the state before the alert may be about to write.  `Closes` says
that `SRClose` lasts only while the read that took a close notify is about to
fail, and with `Inv` gives `CloseIsNotAnswered`.  `Agree` is about
both ends (`EndsAgree`): unless a key was wrong or a record damaged, each
direction's key and sequence number at either end are what the number of
records sealed, or consumed, says by the two scripts (`OutOk`, `InOk`), every
record is sealed as its position demands (`RecordsOk`), and the places in the
scripts agree with the counts (`Reads`, `Writes`).  `BothEndsUnderstand` follows:
no record is refused.

**SysFile_proofs.**  `IInv` is inductive (`Invariance`), for any number of
processes, any calls, files, mounts and unions.  It says: a place has left the
table while a path crossed to it (`uncrossed`), after which a count may be
wrong, or all of this holds.

- `Bal`, the balance of the tables: the count of each channel is the number of
  times that the tables keep it (`InTables`: places of mounts, what is mounted
  there, paths of channels) and that others do, and so for Mheads; a channel is
  free exactly when its count is 0, and then it has no path and no Mhead; a
  Mhead that has left the table has no mounts; only a channel that no table
  keeps keeps a Mhead; the slash stays.
- `Control`: what each process holds at each point of `namec` and `walk` and of
  the calls (the channel it has come to, the one it started at, the one that a
  device's walk gave, its copy of the path, its Mhead, the first channel of a
  `bind`), and where it holds nothing.
- `Plain`: of what a process holds, only what it has opened may be the channel
  of a union (`c->umh`).
- `Mounted`: a Mhead of the table has a mount.
- `WritesOK`: the parts of the file that writers took lie apart, and below the
  offset of their channel, while nothing set it back.

`ChansAreCounted` alone is not inductive.  `cclose` frees what its channel kept,
and those channels what they kept, so that the balance must be kept by a `cclose`
that has not come to its end: the proof counts what remains to be closed among
the others that keep channels, and shows that each step of `CloseOne` keeps that
balance and that the steps suffice, by the number of places in paths
(`Bal`, `CloseOne`, `CClose` and lemmas on `Uses`, which are sums over finite
sets).  `Plain` is needed because what a process holds goes into paths and
mounts, which only channels without a Mhead may do; `Control` because each call
gives back exactly what it holds.  `Counting` follows, that is
`ChansAreCounted`, and `Writing`: `WritesApart` unless `uncrossed`.  The run
checks `WritesApart` without that exception, and its loads do not need it; in
general they do, because a channel that is gone may be another's, with another
offset, under a writer.

**Model-checked only.**  Liveness (every `~>` property) and ENABLED are out of
the prover's reach.  Safety, for the bounds above: `Qio` as `Kprint` uses it
(coalescing reads, `qiwrite`, a queue that is reopened); the types of `Cons`
beyond what `Inv` says of them.  `NamesResolve` too: `Places` says what a name
means by a fold over its elements, and what a fold computes for every list is
by induction on the list, for which the library's theorems take an operator as a
parameter.

## What is not modelled

- Names and descriptors: `create`, `bind` of a name (rather than a device) and
  the union it may bring along, `mount` of a connection, `chdir`, `pipe`, the
  reading of union directories, descriptor modes, the copying of groups
  (`dupfgrp`, `pgrpcpy`), Path names as text.
- `exportfs`: notes that interrupt a rendezvous or a host call, the read-only
  option, patterns, message contents, statistics.
- `devtls`: versions and cipher suites, renegotiation, which neither end asks
  for, and with it the limit of `handq`; interrupts of writers; alerts written
  to `ctl`.  Cryptography is data: a record carries the key and number it was
  sealed with.
- Session setup of the mount driver (`mntversion`, `mntauth`, `mntattach`) and
  `muxclose`; message formats; memory: a `Mntrpc` freed to the heap while
  `mountmux` still wakes it (`devmnt.c:960`) is a value here and not an
  address.
- `devmouse` (in the plan), `devssl`, the draw device and the graphics
  libraries, host devices, window systems, the `cpu` dialogues, vendored
  libraries (most of the source): sequential or pure I/O.
- `kern/exportfs.c`, `kern/rendez.c`, `kern/syscall.c`: not in the build.

## Plan

Done, in the order of importance: the two primitives with their proofs, the
abstract mutex, readers/writer locks with theirs, byte queues and their three
users with proofs for pipes (the channel a pipe implements among them) and the
console, the mount driver with its proofs, rendezvous and the file server with
their proofs, channels and names and descriptors with proofs of their counts,
TLS with its proofs.  Next:

1. `dupfgrp`, `pgrpcpy`, `closefgrp`, `closepgrp`: counts across groups.
2. The mouse ring between the host's thread and a reader.
3. Session setup of `DevMnt`.
