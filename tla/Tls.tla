--------------------------------- MODULE Tls ---------------------------------
(***************************************************************************)
(* TLS between two programs: the handshake of libsec/port/tlshand.c on top *)
(* of the record layer of kern/devtls.c, at both ends of a connection.     *)
(*                                                                         *)
(* At each end up to three processes work on one TlsRec: the one that did  *)
(* the handshake and will close the connection, and after it a reader and  *)
(* a writer of the data file.  Whoever reads records does so under in.io,  *)
(* and may have to write an alert; whoever writes does so under out.io.    *)
(* So alerts, data and the change of keys compete for the output side, and *)
(* the state that permits a record is tested before it is written.         *)
(*                                                                         *)
(* A record is its type, the key and sequence number that it is protected  *)
(* by, and what it says.  The connection below is reliable and in order,   *)
(* but it may fail, or damage a record, which its mac reveals.             *)
(*                                                                         *)
(* Left out: versions and cipher suites, of which both ends have the same; *)
(* interrupts of a process that does not wait for input; renegotiation,    *)
(* which neither end asks for, and with it the limit of handq; and alerts  *)
(* by the program (ctl's alert), except those of the handshake.            *)
(***************************************************************************)
EXTENDS Naturals, Sequences

CONSTANTS
  None,
  MaxWrites,      \* bound: records that each writer writes
  MaxDamages      \* bound: records that are damaged

ASSUME TlsBounds == MaxWrites \in Nat /\ MaxDamages \in Nat

Ends == {"client", "server"}
Peer(e) == IF e = "client" THEN "server" ELSE "client"
Procs == {"hand", "reader", "writer"}

ASSUME NoneIsNothing ==
  None \notin Procs \cup {"k", "other", "damaged"} \cup [type : {"alert", "tlsError"}, body : {"fatal", None}]

VARIABLES
  link,           \* link[e]: every record that e has written
  got,            \* got[e]: how much of its peer's e has consumed: two for a
                  \* record, its header and the rest
  hungup,         \* the ends that have closed the connection, or lost it
  damages,
  state, opened,  \* tr->state, tr->opened
  in, out,        \* [sec, new, seq] of each direction
  inio, outio,    \* who holds in.io and out.io
  handq,          \* the messages that wait for the handshaker; None once hand
                  \* is closed
  processed,      \* whether data waits for the reader
  next,           \* where the handshaker is in its script
  pc,
  job,            \* the record that a process is writing, None if it is not
  built,          \* ... as it goes on the connection, in bwrite
  written,        \* records written to data
  wrongkey,       \* history: the server could not decrypt the client's secret
  puzzled         \* history: the ends that have called rcvError

conn == <<link, got, hungup, damages>>
sides == <<in, out, inio, outio>>
vars == <<conn, state, opened, sides, handq, processed, next, pc, job, built, written,
          wrongkey, puzzled>>

-----------------------------------------------------------------------------
(* tlsClient2 and tlsServer2: what is sent, received and written to ctl    *)

Send(msgs) == [op |-> "send", msgs |-> msgs]
Recv(m) == [op |-> "recv", msg |-> m]
Ctl(cmd) == [op |-> cmd]

tlsClient2 ==
  <<Send(<<"ClientHello">>), Recv("ServerHello"), Recv("Certificate"), Recv("ServerHelloDone"),
    Ctl("secret"), Send(<<"ClientKeyExchange">>), Ctl("changecipher"), Send(<<"Finished">>),
    Recv("Finished"), Ctl("opened")>>

(* Variant: ServerHelloDone is queued, and not flushed. *)
ServerDoesNotFlush ==
  <<Recv("ClientHello"), Recv("ClientKeyExchange"), Ctl("secret"), Recv("Finished"),
    Ctl("changecipher"),
    Send(<<"ServerHello", "Certificate", "ServerHelloDone", "Finished">>), Ctl("opened")>>

(* ServerHello and Certificate are queued, and flushed with the third *)
tlsServer2 ==
  <<Recv("ClientHello"), Send(<<"ServerHello", "Certificate", "ServerHelloDone">>),
    Recv("ClientKeyExchange"), Ctl("secret"), Recv("Finished"), Ctl("changecipher"),
    Send(<<"Finished">>), Ctl("opened")>>

Script(e) == IF e = "client" THEN tlsClient2 ELSE tlsServer2
Op(e) == Script(e)[next[e]]

-----------------------------------------------------------------------------
OneWay == [sec |-> None, new |-> None, seq |-> 0]

Init ==
  /\ link = [e \in Ends |-> <<>>] /\ got = [e \in Ends |-> 0]
  /\ hungup = {} /\ damages = 0
  /\ state = [e \in Ends |-> "handshake"]
  /\ opened = [e \in Ends |-> FALSE]
  /\ in = [e \in Ends |-> OneWay] /\ out = [e \in Ends |-> OneWay]
  /\ inio = [e \in Ends |-> None] /\ outio = [e \in Ends |-> None]
  /\ handq = [e \in Ends |-> <<>>]
  /\ processed = [e \in Ends |-> FALSE]
  /\ next = [e \in Ends |-> 1]
  /\ pc = [e \in Ends |-> [u \in Procs |-> IF u = "hand" THEN "script" ELSE "idle"]]
  /\ job = [e \in Ends |-> [u \in Procs |-> None]]
  /\ built = [e \in Ends |-> None]
  /\ written = [e \in Ends |-> 0]
  /\ wrongkey = FALSE /\ puzzled = {}

Goto(e, u, to) == pc' = [pc EXCEPT ![e][u] = to]

At(e, u, where) == pc[e][u] = where /\ job[e][u] = None

Job(type, body) == [type |-> type, body |-> body]

(* tlsError, and alertHand of the first error *)
tlsError(e) ==
  /\ state' = [state EXCEPT ![e] = "error"]
  /\ handq' = IF state[e] # "error" /\ handq[e] # None
              THEN [handq EXCEPT ![e] = Append(@, "Alert")] ELSE handq

(* Variant: the state is left to tlsError, which comes after the alert. *)
sendAlertFirst(e, u, level) ==
  /\ job' = [job EXCEPT ![e][u] = Job("alert", level)]
  /\ UNCHANGED state

(* sendAlert begins; a fatal one stops everybody else first *)
sendAlert(e, u, level) ==
  /\ job' = [job EXCEPT ![e][u] = Job("alert", level)]
  /\ state' = IF level = "fatal" /\ state[e] \in {"open", "handshake", "rclose"}
              THEN [state EXCEPT ![e] = "alert"] ELSE state

-----------------------------------------------------------------------------
(* tlsrecwrite *)

IsFatal(j) == j.type = "alert" /\ j.body = "fatal"

(* what the caller of tlsrecwrite does next *)
Returns(e, u, ok) ==
  IF IsFatal(job[e][u])
  THEN job' = [job EXCEPT ![e][u] = Job("tlsError", None)] /\ UNCHANGED <<next, pc>>
  ELSE
  /\ job' = [job EXCEPT ![e][u] = None]
  /\ CASE pc[e][u] = "script" -> /\ next' = [next EXCEPT ![e] = IF ok THEN @ + 1 ELSE @]
                                 /\ Goto(e, u, IF ok THEN "script" ELSE "err")
       [] pc[e][u] = "alert"    -> Goto(e, u, "err") /\ UNCHANGED next
       [] pc[e][u] = "rcvError" -> Goto(e, u, "unlock") /\ UNCHANGED next
       [] pc[e][u] = "closing"  -> Goto(e, u, "hangup") /\ UNCHANGED next
       [] pc[e][u] = "write"    -> Goto(e, u, IF ok THEN "idle" ELSE "done") /\ UNCHANGED next

Permits(s, type) == s \in {"handshake", "open", "rclose"} \/ (s = "alert" /\ type = "alert")

(* Variant: the sequence number goes on when the key changes. *)
SealedOn(o, type) ==
  IF type = "ccs" THEN [sec |-> o.new, new |-> None, seq |-> o.seq + 1]
  ELSE [o EXCEPT !.seq = IF o.sec = None THEN @ ELSE @ + 1]

(* the output side after a record is built *)
Sealed(o, type) ==
  IF type = "ccs" THEN [sec |-> o.new, new |-> None, seq |-> 0]
  ELSE [o EXCEPT !.seq = IF o.sec = None THEN @ ELSE @ + 1]

(* under out.io: checkstate, and the record is built and encrypted *)
RecBuild(e, u) ==
  LET j == job[e][u] IN
  /\ j # None /\ j.type # "tlsError" /\ outio[e] = None
  /\ Permits(state[e], j.type)
  /\ outio' = [outio EXCEPT ![e] = u]
  /\ built' = [built EXCEPT ![e] = [type |-> j.type, body |-> j.body, key |-> out[e].sec,
                                    seq |-> out[e].seq]]
  /\ out' = [out EXCEPT ![e] = Sealed(@, j.type)]
  /\ UNCHANGED <<conn, state, opened, in, inio, handq, processed, next, pc, job, written,
                 wrongkey, puzzled>>

RecRefused(e, u) ==
  LET j == job[e][u] IN
  /\ j # None /\ j.type # "tlsError" /\ outio[e] = None
  /\ ~Permits(state[e], j.type)
  /\ Returns(e, u, FALSE)
  /\ UNCHANGED <<conn, state, opened, handq, sides, processed, built, written, wrongkey, puzzled>>

(* bwrite, and out.io is released; what is encrypted may be damaged *)
RecWrite(e, u) ==
  /\ outio[e] = u
  /\ \E damage \in 0 .. (IF built[e].key = None THEN 0 ELSE 1) :
       /\ damages + damage <= MaxDamages
       /\ damages' = damages + damage
       /\ link' = [link EXCEPT ![e] =
                     Append(@, IF damage = 0 THEN built[e] ELSE [built[e] EXCEPT !.key = "damaged"])]
  /\ Returns(e, u, TRUE)
  /\ outio' = [outio EXCEPT ![e] = None]
  /\ built' = [built EXCEPT ![e] = None]
  /\ UNCHANGED <<got, hungup, state, opened, handq, in, out, inio, processed, written, wrongkey, puzzled>>

(* bwrite to a connection that the peer has closed fails *)
RecWriteFails(e, u) ==
  /\ outio[e] = u /\ Peer(e) \in hungup
  /\ tlsError(e)
  /\ Returns(e, u, FALSE)
  /\ outio' = [outio EXCEPT ![e] = None]
  /\ built' = [built EXCEPT ![e] = None]
  /\ UNCHANGED <<conn, opened, in, out, inio, processed, written, wrongkey, puzzled>>

(* the end of a fatal sendAlert *)
AlertSent(e, u) ==
  /\ job[e][u] = Job("tlsError", None)
  /\ tlsError(e)
  /\ Returns(e, u, TRUE)
  /\ UNCHANGED <<conn, opened, sides, processed, built, written, wrongkey, puzzled>>

-----------------------------------------------------------------------------
(* tlsbread and tlsrecread *)

(* A read has failed.  The client alerts the server if that was the read   *)
(* of its certificate or finished message.                                 *)
NoMessage(e, u) ==
  IF u = "reader" THEN Goto(e, u, "idle") /\ UNCHANGED <<state, job>>
  ELSE IF e = "client" /\ Op(e).msg \in {"Certificate", "Finished"}
  THEN Goto(e, u, "alert") /\ sendAlert(e, u, "fatal")
  ELSE Goto(e, u, "err") /\ UNCHANGED <<state, job>>

(* qlock(&tr->in.io) and checkstate *)
LockRead(e, u, ok) ==
  /\ inio[e] = None
  /\ IF state[e] \in ok
     THEN /\ inio' = [inio EXCEPT ![e] = u]
          /\ Goto(e, u, "read")
          /\ UNCHANGED <<state, job>>
     ELSE UNCHANGED inio /\ NoMessage(e, u)
  /\ UNCHANGED <<conn, opened, in, out, outio, handq, processed, next, built, written,
                 wrongkey, puzzled>>

(* whether the one who reads needs another record *)
NeedsRecord(e, u) ==
  IF u = "reader" THEN ~processed[e] ELSE ~opened[e] /\ handq[e] = <<>>

More(e) == got[e] < 2 * Len(link[Peer(e)])

HeaderRead(e, u) ==
  /\ At(e, u, "read") /\ NeedsRecord(e, u) /\ More(e)
  /\ got' = [got EXCEPT ![e] = @ + 1]
  /\ Goto(e, u, "body")
  /\ UNCHANGED <<link, hungup, damages, state, opened, sides, handq, processed, next, job,
                 built, written, wrongkey, puzzled>>

(* an interrupt while the rest of the record is waited for: regurgitate *)
Interrupted(e, u) ==
  /\ At(e, u, "body")
  /\ got' = [got EXCEPT ![e] = @ - 1]
  /\ Goto(e, u, "unlock")
  /\ UNCHANGED <<link, hungup, damages, state, opened, sides, handq, processed, next, job,
                 built, written, wrongkey, puzzled>>

Arrived(e) == link[Peer(e)][(got[e] \div 2) + 1]

Understood(e) ==
  LET r == Arrived(e) IN
  /\ got[e] % 2 = 1                     \* what was taken for the header was one
  /\ r.key = in[e].sec
  /\ r.key = None \/ r.seq = in[e].seq
  /\ r.type = "ccs" => in[e].new # None
  /\ r.type = "data" => opened[e]

Consume(e, u) ==
  /\ At(e, u, "body") /\ More(e)
  /\ got' = [got EXCEPT ![e] = @ + 1]
  /\ UNCHANGED <<link, hungup, damages, opened, out, inio, outio, next, built, written,
                 wrongkey>>

Opened(i) == [i EXCEPT !.seq = IF i.sec = None THEN @ ELSE @ + 1]

(* rcvError: a fatal alert is sent, then the read fails *)
RecPuzzled(e, u) ==
  /\ Consume(e, u) /\ ~Understood(e)
  /\ puzzled' = puzzled \cup {e}
  /\ in' = [in EXCEPT ![e] = Opened(@)]
  /\ sendAlert(e, u, "fatal")
  /\ Goto(e, u, "rcvError")
  /\ UNCHANGED <<handq, processed>>

RecRead(e, u) ==
  /\ Consume(e, u) /\ Understood(e)
  /\ LET r == Arrived(e) IN
     \/ /\ r.type = "ccs"
        /\ in' = [in EXCEPT ![e] = [sec |-> in[e].new, new |-> None, seq |-> 0]]
        /\ Goto(e, u, "read")
        /\ UNCHANGED <<state, handq, processed>>
     \/ /\ r.type # "ccs"
        /\ in' = [in EXCEPT ![e] = Opened(@)]
        /\ \/ /\ r.type = "handshake"
              /\ handq' = [handq EXCEPT ![e] = @ \o r.body]
              /\ Goto(e, u, "read")
              /\ UNCHANGED <<state, processed>>
           \/ /\ r.type = "data"
              /\ processed' = [processed EXCEPT ![e] = TRUE]
              /\ Goto(e, u, "read")
              /\ UNCHANGED <<state, handq>>
           \/ /\ r.type = "alert" /\ r.body = "fatal"
              /\ tlsError(e)
              /\ Goto(e, u, "unlock")
              /\ UNCHANGED processed
           \/ /\ r.type = "alert" /\ r.body = "close"       \* tlsclosed(tr, SRClose)
              /\ state' = [state EXCEPT ![e] = IF @ \in {"open", "handshake"} THEN "rclose" ELSE @]
              /\ handq' = IF handq[e] = None THEN handq
                          ELSE [handq EXCEPT ![e] = Append(@, "Alert")]
              /\ Goto(e, u, "rcvClose")
              /\ UNCHANGED processed
  /\ UNCHANGED <<job, puzzled>>

(* the error() after tlsclosed reaches the handler of tlsrecread *)
RecClosed(e, u) ==
  /\ At(e, u, "rcvClose")
  /\ tlsError(e)
  /\ Goto(e, u, "unlock")
  /\ UNCHANGED <<conn, opened, sides, processed, next, job, built, written, wrongkey, puzzled>>

(* ensure() finds the connection closed *)
RecHungup(e, u) ==
  /\ At(e, u, "read") /\ NeedsRecord(e, u)
  /\ ~More(e) /\ Peer(e) \in hungup
  /\ tlsError(e)
  /\ Goto(e, u, "unlock")
  /\ UNCHANGED <<conn, opened, sides, processed, next, job, built, written, wrongkey, puzzled>>

(* an error leaves tlsbread *)
ReadFails(e, u) ==
  /\ At(e, u, "unlock")
  /\ inio' = [inio EXCEPT ![e] = None]
  /\ NoMessage(e, u)
  /\ UNCHANGED <<conn, opened, in, out, outio, handq, processed, next, built, written,
                 wrongkey, puzzled>>

-----------------------------------------------------------------------------
(* the handshaker *)

HandSend(e) ==
  /\ At(e, "hand", "script") /\ Op(e).op \in {"send", "changecipher"}
  /\ job' = [job EXCEPT ![e]["hand"] =
               IF Op(e).op = "send" THEN Job("handshake", Op(e).msgs) ELSE Job("ccs", None)]
  /\ UNCHANGED <<conn, state, opened, sides, handq, processed, next, pc, built, written,
                 wrongkey, puzzled>>

HandRead(e) ==
  /\ At(e, "hand", "script") /\ Op(e).op = "recv"
  /\ LockRead(e, "hand", {"open", "handshake", "lclose"})

(* In.io is released, and the next message taken from handq.  An alert is  *)
(* not taken: it comes with a state in which hand is not read.             *)
HandTake(e) ==
  /\ At(e, "hand", "read") /\ ~NeedsRecord(e, "hand")
  /\ inio' = [inio EXCEPT ![e] = None]
  /\ handq' = [handq EXCEPT ![e] = Tail(@)]
  /\ \/ /\ Head(handq[e]) = Op(e).msg
        /\ next' = [next EXCEPT ![e] = @ + 1]
        /\ Goto(e, "hand", "script")
        /\ UNCHANGED <<state, job>>
     \/ /\ Head(handq[e]) # "Alert"       \* unexpected, or not acceptable
        /\ Goto(e, "hand", "alert")
        /\ sendAlert(e, "hand", "fatal")
        /\ UNCHANGED next
  /\ UNCHANGED <<conn, opened, in, out, outio, processed, built, written, wrongkey, puzzled>>

(* a server that cannot decrypt the secret goes on with another *)
HandSecret(e) ==
  /\ At(e, "hand", "script") /\ Op(e).op = "secret"
  /\ \E key \in {"k"} \cup (IF e = "server" THEN {"other"} ELSE {}) :
       /\ in' = [in EXCEPT ![e].new = key]
       /\ out' = [out EXCEPT ![e].new = key]
       /\ wrongkey' = (wrongkey \/ key = "other")
  /\ next' = [next EXCEPT ![e] = @ + 1]
  /\ UNCHANGED <<conn, state, opened, inio, outio, handq, processed, pc, job, built, written,
                 puzzled>>

(* opened, after which hand is closed *)
HandOpened(e) ==
  /\ At(e, "hand", "script") /\ Op(e).op = "opened"
  /\ IF in[e].sec # None /\ out[e].sec # None /\ state[e] \in {"handshake", "open"}
     THEN /\ state' = [state EXCEPT ![e] = "open"]
          /\ opened' = [opened EXCEPT ![e] = TRUE]
          /\ Goto(e, "hand", "open")
     ELSE UNCHANGED <<state, opened>> /\ Goto(e, "hand", "err")
  /\ handq' = [handq EXCEPT ![e] = None]
  /\ UNCHANGED <<conn, sides, processed, next, job, built, written, wrongkey, puzzled>>

(* the last close: after a handshake that failed, or when no call is left *)
HandClose(e) ==
  /\ \/ At(e, "hand", "err")
     \/ At(e, "hand", "open") /\ pc[e]["reader"] = "idle"
                              /\ pc[e]["writer"] \in {"idle", "done"}
  /\ handq' = [handq EXCEPT ![e] = None]
  /\ IF state[e] \in {"open", "handshake", "rclose"}
     THEN sendAlert(e, "hand", "close") /\ Goto(e, "hand", "closing")
     ELSE Goto(e, "hand", "hangup") /\ UNCHANGED <<state, job>>
  /\ UNCHANGED <<conn, opened, sides, processed, next, built, written, wrongkey, puzzled>>

HandHangup(e) ==
  /\ At(e, "hand", "hangup")
  /\ Goto(e, "hand", "closed")
  /\ state' = [state EXCEPT ![e] = "closed"]
  /\ processed' = [processed EXCEPT ![e] = FALSE]
  /\ hungup' = hungup \cup {e}
  /\ UNCHANGED <<link, got, damages, opened, sides, handq, next, job, built, written,
                 wrongkey, puzzled>>

-----------------------------------------------------------------------------
(* reads and writes of data *)

DataRead(e) ==
  /\ pc[e]["hand"] = "open" /\ At(e, "reader", "idle")
  /\ LockRead(e, "reader", {"open"})

DataTake(e) ==
  /\ At(e, "reader", "read") /\ processed[e]
  /\ processed' = [processed EXCEPT ![e] = FALSE]
  /\ inio' = [inio EXCEPT ![e] = None]
  /\ Goto(e, "reader", "idle")
  /\ UNCHANGED <<conn, state, opened, in, out, outio, handq, next, job, built, written,
                 wrongkey, puzzled>>

DataWrite(e) ==
  /\ pc[e]["hand"] = "open" /\ At(e, "writer", "idle")
  /\ written[e] < MaxWrites
  /\ IF state[e] = "open"
     THEN /\ job' = [job EXCEPT ![e]["writer"] = Job("data", None)]
          /\ written' = [written EXCEPT ![e] = @ + 1]
          /\ Goto(e, "writer", "write")
     ELSE Goto(e, "writer", "done") /\ UNCHANGED <<job, written>>
  /\ UNCHANGED <<conn, state, opened, sides, handq, processed, next, built, wrongkey, puzzled>>

-----------------------------------------------------------------------------
(* the network fails: what has been written may still be read *)
Disconnect ==
  /\ hungup = {} /\ hungup' = Ends
  /\ UNCHANGED <<link, got, damages, state, opened, sides, handq, processed, next, pc, job,
                 built, written, wrongkey, puzzled>>

Working(e, u) ==
  \/ RecBuild(e, u) \/ RecRefused(e, u) \/ RecWrite(e, u) \/ RecWriteFails(e, u)
  \/ AlertSent(e, u)
  \/ HeaderRead(e, u) \/ RecPuzzled(e, u) \/ RecRead(e, u) \/ RecClosed(e, u)
  \/ RecHungup(e, u) \/ ReadFails(e, u)

Shaking(e) ==
  \/ Working(e, "hand")
  \/ HandSend(e) \/ HandRead(e) \/ HandTake(e) \/ HandSecret(e) \/ HandOpened(e)
  \/ pc[e]["hand"] = "err" /\ HandClose(e)
  \/ HandHangup(e)

(* what the users of the data file choose to do *)
Using(e) == DataRead(e) \/ DataWrite(e) \/ (pc[e]["hand"] = "open" /\ HandClose(e))

Next ==
  \/ Disconnect
  \/ \E e \in Ends :
    \/ Shaking(e) \/ Using(e) \/ DataTake(e)
    \/ Working(e, "reader") \/ Working(e, "writer")
    \/ \E u \in Procs : Interrupted(e, u)

Spec == Init /\ [][Next]_vars

(* A process that has begun a call goes on with it: all are ready to run,  *)
(* and the connection delivers.                                            *)
FairSpec ==
  /\ Spec
  /\ \A e \in Ends : /\ WF_vars(Shaking(e))
                     /\ WF_vars(Working(e, "reader") \/ DataTake(e))
                     /\ WF_vars(Working(e, "writer"))

-----------------------------------------------------------------------------
Keys == {None, "k", "other"}
States == {"handshake", "open", "rclose", "alert", "error", "closed"}

TypeOK ==
  /\ \A e \in Ends : got[e] \in 0 .. 2 * Len(link[Peer(e)])
  /\ hungup \subseteq Ends /\ puzzled \subseteq Ends
  /\ state \in [Ends -> States] /\ opened \in [Ends -> BOOLEAN]
  /\ in \in [Ends -> [sec : Keys, new : Keys, seq : Nat]]
  /\ out \in [Ends -> [sec : Keys, new : Keys, seq : Nat]]
  /\ inio \in [Ends -> Procs \cup {None}] /\ outio \in [Ends -> Procs \cup {None}]

(***************************************************************************)
(* Between two ends that derived the same keys, over a connection that     *)
(* damages nothing, nothing is received that makes no sense: each record   *)
(* is read with the key and the sequence number it was written with, the   *)
(* change of keys is announced to a receiver that has the new one, and no  *)
(* data comes before the receiver is open.                                 *)
(***************************************************************************)
EndsUnderstand == puzzled # {} => wrongkey \/ damages > 0

(***************************************************************************)
(* A fatal alert and a close notify are the last that an end writes, even  *)
(* if the reader has to send it while the writer is writing.               *)
(***************************************************************************)
AlertIsLast ==
  \A e \in Ends : \A i \in 1 .. Len(link[e]) : link[e][i].type = "alert" => i = Len(link[e])

(***************************************************************************)
(* A handshake ends, open or failed, and a read of data that waits for the *)
(* peer ends when the peer has closed.                                     *)
(***************************************************************************)
HandshakeEnds ==
  \A e \in Ends :
    /\ <>(pc[e]["hand"] \in {"open", "err", "closing", "hangup", "closed"})
    /\ (pc[e]["reader"] = "read" /\ Peer(e) \in hungup) ~> (pc[e]["reader"] = "idle")
=============================================================================
