----------------------------- MODULE Tls_proofs -----------------------------
(***************************************************************************)
(* Two ends of TLS, for any number of data records and of damages: nothing *)
(* follows an alert, and ends with the same keys over a connection that    *)
(* damages nothing understand every record.                                *)
(*                                                                         *)
(* The first invariant, Inv, is about each end by itself: who may be where *)
(* while others are elsewhere, who has a record to write, and what the     *)
(* state permits from an alert on.                                         *)
(*                                                                         *)
(* The second, Agree, is about both.  A record is counted by its position  *)
(* on the connection; tables say which records the scripts plan, and with  *)
(* which key and sequence number; and each side of each end is what its    *)
(* count makes of it.  It has to hold only while keys agree and nothing    *)
(* is damaged, which no step restores (SoundBack).                         *)
(***************************************************************************)
EXTENDS Tls, TLAPS, SequenceTheorems

(* where the three processes can be: the handshaker, the reader, the writer *)
HandPC == {"script", "read", "body", "unlock", "rcvError", "rcvClose", "alert", "err", "open",
           "closing", "hangup", "closed"}
ReadPC == {"idle", "read", "body", "unlock", "rcvError", "rcvClose"}
WritePC == {"idle", "write", "done"}
(* ... and where the handshaker is before hand is opened or given up *)
Shaken == {"script", "read", "body", "unlock", "rcvError", "rcvClose", "alert", "err"}

(* what a handshake record carries, and an alert that waits for the handshaker *)
Messages == {"ClientHello", "ServerHello", "Certificate", "ServerHelloDone",
             "ClientKeyExchange", "Finished", "Alert"}
(* what a record says, its type, a record, and one direction of a TlsRec *)
Bodies == {None, "fatal", "close"} \cup Seq(Messages)
Types == {"handshake", "ccs", "data", "alert"}
Records == [type : Types, body : Bodies, key : Keys \cup {"damaged"}, seq : Nat]
Sides == [sec : Keys, new : Keys, seq : Nat]

(* the job of a process that sends a fatal alert, before and after the record *)
Fatal == Job("alert", "fatal")
Stop == Job("tlsError", None)

(* the length of an end's script *)
Last(e) == IF e = "client" THEN 10 ELSE 8

(* a process of e has consumed a header and not the rest of the record *)
InBody(e) == pc[e]["hand"] = "body" \/ pc[e]["reader"] = "body"

(* the type of every variable *)
Shape ==
  /\ link \in [Ends -> Seq(Records)]
  /\ got \in [Ends -> Nat]
  /\ hungup \subseteq Ends /\ puzzled \subseteq Ends
  /\ damages \in Nat /\ wrongkey \in BOOLEAN
  /\ state \in [Ends -> States] /\ opened \in [Ends -> BOOLEAN]
  /\ processed \in [Ends -> BOOLEAN]
  /\ in \in [Ends -> Sides] /\ out \in [Ends -> Sides]
  /\ inio \in [Ends -> Procs \cup {None}] /\ outio \in [Ends -> Procs \cup {None}]
  /\ DOMAIN handq = Ends /\ handq = [f \in Ends |-> handq[f]]
  /\ next \in [Ends -> Nat]
  /\ pc \in [Ends -> [Procs -> HandPC \cup ReadPC \cup WritePC]]
  /\ job \in [Ends -> [Procs -> [type : Types \cup {"tlsError"}, body : Bodies] \cup {None}]]
  /\ built \in [Ends -> Records \cup {None}]
  /\ written \in [Ends -> Nat]

(* While e shakes hands, and after it has closed, nobody uses the data file. *)
Placed(e) ==
  /\ pc[e]["hand"] \in HandPC
  /\ pc[e]["hand"] \in Shaken =>
       pc[e]["reader"] = "idle" /\ pc[e]["writer"] = "idle"
  /\ pc[e]["hand"] \in {"closing", "hangup", "closed"} =>
       pc[e]["reader"] = "idle" /\ pc[e]["writer"] \in {"idle", "done"}
  /\ pc[e]["reader"] \in ReadPC
  /\ pc[e]["writer"] \in WritePC

(* j is the record that e's script asks for now *)
Scripted(e, j) ==
  \/ Op(e).op = "send" /\ j = Job("handshake", Op(e).msgs)
  \/ Op(e).op = "changecipher" /\ j = Job("ccs", None)

(* A process has a job exactly where tlsrecwrite is called, and it is the job of
   that call; a handshaker that reads is at a recv of its script. *)
JobOk(e, u) ==
  /\ pc[e][u] = "script" => job[e][u] = None \/ Scripted(e, job[e][u])
  /\ pc[e][u] \in {"alert", "rcvError"} => job[e][u] \in {Fatal, Stop}
  /\ pc[e][u] = "closing" => job[e][u] = Job("alert", "close")
  /\ pc[e][u] = "write" => job[e][u] = Job("data", None)
  /\ pc[e][u] \notin {"script", "alert", "rcvError", "closing", "write"} => job[e][u] = None
  /\ u = "hand" /\ pc[e][u] \in {"read", "body"} => Op(e).op = "recv"

(* Who holds out.io has a job, and built is a record of that job. *)
Building(e) ==
  /\ outio[e] # None =>
       /\ job[e][outio[e]] # None /\ job[e][outio[e]] # Stop
       /\ built[e] \in Records
       /\ built[e].type = job[e][outio[e]].type /\ built[e].body = job[e][outio[e]].body

(* From the start of a fatal alert the state refuses what is not an alert. *)
Alarmed(e) ==
  (\E u \in Procs : job[e][u] \in {Fatal, Stop}) => state[e] \in {"alert", "error", "closed"}

(* an alert has gone out *)
HasAlert(e) == \E i \in 1 .. Len(link[e]) : link[e][i].type = "alert"

(* nothing will be written: nobody writes, and the state, or the place of the one
   who closes, refuses whoever wants to *)
Silent(e) ==
  /\ outio[e] = None
  /\ \/ state[e] \in {"error", "closed"}
     \/ pc[e]["hand"] \in {"hangup", "closed"}
     \/ state[e] = "alert" /\ \E u \in Procs : job[e][u] = Stop

(* An alert is the last record, and from then on e is silent. *)
Quiet(e) ==
  /\ HasAlert(e) => Silent(e)
  /\ \A i \in 1 .. Len(link[e]) : link[e][i].type = "alert" => i = Len(link[e])

(* got is odd exactly in the middle of a record, and never ahead of the sender. *)
Halves(e) ==
  /\ got[e] <= 2 * Len(link[Peer(e)])
  /\ got[e] % 2 = (IF InBody(e) THEN 1 ELSE 0)
  /\ next[e] \in 1 .. Last(e)

(* what holds at each end by itself *)
Local(e) ==
  /\ Placed(e)
  /\ \A u \in Procs : JobOk(e, u)
  /\ Building(e)
  /\ Alarmed(e)
  /\ Quiet(e)

(* the inductive invariant *)
Inv == Shape /\ \A e \in Ends : Local(e) /\ Halves(e)

(* The flights of the scripts are sequences of messages. *)
LEMMA Flights ==
  /\ <<"ClientHello">> \in Seq(Messages)
  /\ <<"ClientKeyExchange">> \in Seq(Messages)
  /\ <<"Finished">> \in Seq(Messages)
  /\ <<"ServerHello", "Certificate", "ServerHelloDone">> \in Seq(Messages)
<1>1. {"ClientHello", "ClientKeyExchange", "Finished", "ServerHello", "Certificate", "ServerHelloDone"}
        \subseteq Messages
  BY DEF Messages
<1>2. QED
  BY <1>1

(* Every entry of a script is one of five operations, and only the last is opened. *)
LEMMA ScriptFacts ==
  ASSUME NEW e \in Ends, NEW i \in 1 .. Last(e)
  PROVE  /\ Script(e)[i].op \in {"send", "recv", "secret", "changecipher", "opened"}
         /\ Script(e)[i].op = "send" => Script(e)[i].msgs \in Seq(Messages)
         /\ Script(e)[i].op # "opened" => i < Last(e)
<1>1. CASE e = "client"
  <2>1. i \in {1, 2, 3, 4, 5, 6, 7, 8, 9, 10}
    BY <1>1 DEF Last
  <2>2. CASE i = 1
    <3>1. \E m \in Seq(Messages) : Script(e)[1] = Send(m)
      BY <1>1, Flights DEF Script, tlsClient2
    <3>2. QED
      BY <1>1, <2>2, <3>1 DEF Send, Last
  <2>3. CASE i \in {2, 3, 4, 9}
    BY <1>1, <2>3 DEF Script, tlsClient2, Recv, Last
  <2>4. CASE i \in {5, 7, 10}
    BY <1>1, <2>4 DEF Script, tlsClient2, Ctl, Last
  <2>5. CASE i \in {6, 8}
    <3>1. /\ \E m \in Seq(Messages) : Script(e)[6] = Send(m)
          /\ \E m \in Seq(Messages) : Script(e)[8] = Send(m)
      BY <1>1, Flights DEF Script, tlsClient2
    <3>2. QED
      BY <1>1, <2>5, <3>1 DEF Send, Last
  <2>6. QED
    BY <2>1, <2>2, <2>3, <2>4, <2>5
<1>2. CASE e = "server"
  <2>1. i \in {1, 2, 3, 4, 5, 6, 7, 8}
    BY <1>2 DEF Last
  <2>2. CASE i \in {1, 3, 5}
    BY <1>2, <2>2 DEF Script, tlsServer2, Recv, Last
  <2>3. CASE i \in {2, 7}
    <3>1. /\ \E m \in Seq(Messages) : Script(e)[2] = Send(m)
          /\ \E m \in Seq(Messages) : Script(e)[7] = Send(m)
      BY <1>2, Flights DEF Script, tlsServer2
    <3>2. QED
      BY <1>2, <2>3, <3>1 DEF Send, Last
  <2>4. CASE i \in {4, 6, 8}
    BY <1>2, <2>4 DEF Script, tlsServer2, Ctl, Last
  <2>5. QED
    BY <2>1, <2>2, <2>3, <2>4
<1>3. QED
  BY <1>1, <1>2 DEF Ends

(* An end that a step leaves alone keeps its part of the invariant ... *)
LEMMA EndStays ==
  ASSUME Inv, NEW f \in Ends,
         link'[f] = link[f], state'[f] = state[f], outio'[f] = outio[f], built'[f] = built[f],
         pc'[f] = pc[f], job'[f] = job[f], next'[f] = next[f]
  PROVE  Local(f)'
BY DEF Inv, Local, Placed, JobOk, Scripted, Op, Building, Alarmed, Quiet, HasAlert, Silent

(* ... and its counts, also when its peer has written more. *)
LEMMA HalvesStay ==
  ASSUME Inv, NEW f \in Ends, Len(link'[Peer(f)]) >= Len(link[Peer(f)]),
         Len(link'[Peer(f)]) \in Nat,
         got'[f] = got[f], pc'[f] = pc[f], next'[f] = next[f]
  PROVE  Halves(f)'
<1>1. Peer(f) \in Ends
  BY DEF Peer, Ends
<1>2. got[f] \in Nat /\ Len(link[Peer(f)]) \in Nat
  BY <1>1, LenProperties DEF Inv, Shape
<1>3. Halves(f)
  BY DEF Inv
<1>4. QED
  BY <1>2, <1>3 DEF Halves, InBody

(* Sealed gives a direction of a TlsRec. *)
LEMMA SealedType ==
  ASSUME NEW o \in Sides, NEW type
  PROVE  Sealed(o, type) \in Sides
<1>1. CASE type = "ccs"
  BY <1>1 DEF Sealed, Sides, Keys
<1>2. CASE type # "ccs"
  <2>1. Sealed(o, type) = [o EXCEPT !.seq = IF o.sec = None THEN @ ELSE @ + 1]
    BY <1>2 DEF Sealed
  <2>2. QED
    BY <2>1 DEF Sides
<1>3. QED
  BY <1>1, <1>2

(* no alert has gone out at an end that may still build a record *)
LEMMA NothingAlarmed ==
  ASSUME Inv, NEW e \in Ends, NEW u \in Procs, RecBuild(e, u)
  PROVE  ~HasAlert(e)
<1>1. /\ job[e][u] # None /\ job[e][u].type # "tlsError" /\ outio[e] = None
      /\ Permits(state[e], job[e][u].type)
  BY DEF RecBuild
<1>2. Local(e)
  BY DEF Inv
<1>3. SUFFICES ASSUME HasAlert(e) PROVE FALSE
  OBVIOUS
<1>4. Silent(e)
  BY <1>2, <1>3 DEF Local, Quiet
<1>5. state[e] \notin {"error", "closed"}
  BY <1>1 DEF Permits
<1>6. CASE pc[e]["hand"] \in {"hangup", "closed"}
  BY <1>1, <1>2, <1>6 DEF Local, Placed, JobOk, Procs
<1>7. CASE state[e] = "alert" /\ \E v \in Procs : job[e][v] = Stop
  <2>1. job[e][u].type = "alert"
    BY <1>1, <1>7 DEF Permits
  <2>2. PICK v \in Procs : job[e][v] = Stop
    BY <1>7
  <2>3. v # u
    BY <1>1, <2>2 DEF Stop, Job
  <2>4. Stop # None /\ Stop.type = "tlsError"
    BY NoneIsNothing DEF Stop, Job
  <2>5. QED
    BY <1>1, <1>2, <2>1, <2>2, <2>3, <2>4 DEF Local, Placed, JobOk, Scripted, Job, Procs, HandPC, ReadPC, WritePC, Shaken, Fatal
<1>8. QED
  BY <1>4, <1>5, <1>6, <1>7 DEF Silent

(* RecBuild keeps the invariant: the builder has a job that the state permits. *)
LEMMA RecBuildKeeps ==
  ASSUME Inv, NEW e \in Ends, NEW u \in Procs, RecBuild(e, u)
  PROVE  Inv'
<1>1. /\ job[e][u] # None /\ job[e][u].type # "tlsError" /\ outio[e] = None
      /\ Permits(state[e], job[e][u].type)
      /\ outio' = [outio EXCEPT ![e] = u]
      /\ built' = [built EXCEPT ![e] = [type |-> job[e][u].type, body |-> job[e][u].body,
                                        key |-> out[e].sec, seq |-> out[e].seq]]
      /\ out' = [out EXCEPT ![e] = Sealed(@, job[e][u].type)]
      /\ UNCHANGED <<conn, state, opened, in, inio, handq, processed, next, pc, job, written,
                     wrongkey, puzzled>>
  BY DEF RecBuild
<1>2. Shape
  BY DEF Inv
<1>3. job[e][u] \in [type : Types \cup {"tlsError"}, body : Bodies]
  BY <1>1, <1>2 DEF Shape
<1>4. [type |-> job[e][u].type, body |-> job[e][u].body, key |-> out[e].sec, seq |-> out[e].seq] \in Records
  BY <1>1, <1>2, <1>3 DEF Shape, Records, Sides
<1>5. Sealed(out[e], job[e][u].type) \in Sides
  BY <1>2, SealedType DEF Shape
<1>6. Shape'
  BY <1>1, <1>2, <1>4, <1>5 DEF Shape, conn
<1>7. ASSUME NEW f \in Ends PROVE Halves(f)'
  BY <1>1, <1>2 DEF Inv, Halves, conn, InBody
<1>8. ASSUME NEW f \in Ends, f # e PROVE Local(f)'
  BY <1>1, <1>2, <1>8, EndStays DEF Shape, conn
<1>9. Local(e)'
  <2>1. Local(e)
    BY DEF Inv
  <2>2. outio'[e] = u /\ built'[e].type = job[e][u].type /\ built'[e].body = job[e][u].body
        /\ built'[e] \in Records
    BY <1>1, <1>2, <1>4 DEF Shape
  <2>3. Building(e)'
    BY <1>1, <2>2 DEF Building, Stop, Job
  <2>4. \A v \in Procs : JobOk(e, v)'
    BY <1>1, <2>1 DEF Local, JobOk, Scripted, Op
  <2>5. ~HasAlert(e)
    BY NothingAlarmed
  <2>6. QED
    BY <1>1, <2>1, <2>3, <2>4, <2>5 DEF Local, Placed, Alarmed, Quiet, HasAlert, conn
<1>10. QED
  BY <1>6, <1>7, <1>8, <1>9 DEF Inv

(* where a process goes on when tlsrecwrite has returned *)
AfterJob(e, u, ok) ==
  IF IsFatal(job[e][u]) THEN pc[e][u]
  ELSE IF pc[e][u] = "script" THEN IF ok THEN "script" ELSE "err"
  ELSE IF pc[e][u] = "alert" THEN "err"
  ELSE IF pc[e][u] = "rcvError" THEN "unlock"
  ELSE IF pc[e][u] = "closing" THEN "hangup"
  ELSE IF ok THEN "idle" ELSE "done"

(* who can have a job, where, and of which kind *)
LEMMA JobPlace ==
  ASSUME Inv, NEW e \in Ends, NEW u \in Procs, job[e][u] # None
  PROVE  /\ pc[e][u] \in {"script", "alert", "rcvError", "closing", "write"}
         /\ pc[e][u] = "script" => u = "hand" /\ Scripted(e, job[e][u])
         /\ pc[e][u] \in {"alert", "closing"} => u = "hand"
         /\ pc[e][u] = "write" => u = "writer" /\ job[e][u] = Job("data", None) /\ pc[e]["hand"] = "open"
         /\ pc[e][u] = "rcvError" => u # "writer"
         /\ u = "reader" => pc[e]["hand"] = "open"
         /\ IsFatal(job[e][u]) => pc[e][u] \in {"alert", "rcvError"} /\ job[e][u] = Fatal
<1>1. Placed(e) /\ JobOk(e, u)
  BY DEF Inv, Local
<1>2. pc[e][u] \in {"script", "alert", "rcvError", "closing", "write"}
  BY <1>1 DEF JobOk
<1>3. IsFatal(job[e][u]) => pc[e][u] \in {"alert", "rcvError"} /\ job[e][u] = Fatal
  BY <1>1, <1>2 DEF JobOk, IsFatal, Job, Scripted, Fatal, Stop
<1>4. QED
  BY <1>1, <1>2, <1>3 DEF Placed, JobOk, Procs, HandPC, ReadPC, WritePC, Shaken

(* Returns, written as one change of job, one of pc and one of next *)
LEMMA JobEnds ==
  ASSUME Inv, NEW e \in Ends, NEW u \in Procs, NEW ok \in BOOLEAN, job[e][u] # None,
         Returns(e, u, ok)
  PROVE  /\ job' = [job EXCEPT ![e][u] = IF IsFatal(job[e][u]) THEN Stop ELSE None]
         /\ pc' = [pc EXCEPT ![e][u] = AfterJob(e, u, ok)]
         /\ next' = [next EXCEPT ![e] = IF pc[e][u] = "script" /\ ok THEN @ + 1 ELSE @]
<1>1. Shape
  BY DEF Inv
<1>2. CASE IsFatal(job[e][u])
  <2>1. job' = [job EXCEPT ![e][u] = Stop] /\ pc' = pc /\ next' = next
    BY <1>2 DEF Returns, Stop
  <2>2. pc[e][u] # "script"
    BY <1>2, JobPlace
  <2>3. pc = [pc EXCEPT ![e][u] = pc[e][u]]
    BY <1>1 DEF Shape
  <2>4. next = [next EXCEPT ![e] = next[e]]
    BY <1>1 DEF Shape
  <2>5. QED
    BY <1>2, <2>1, <2>2, <2>3, <2>4 DEF AfterJob
<1>3. CASE ~IsFatal(job[e][u])
  <2>1. job' = [job EXCEPT ![e][u] = None]
    BY <1>3 DEF Returns
  <2>2. next = [next EXCEPT ![e] = next[e]]
    BY <1>1 DEF Shape
  <2>3. pc[e][u] \in {"script", "alert", "rcvError", "closing", "write"}
    BY JobPlace
  <2>4. CASE pc[e][u] = "script"
    BY <1>3, <2>1, <2>2, <2>4 DEF Returns, AfterJob, Goto
  <2>5. CASE pc[e][u] = "alert"
    BY <1>3, <2>1, <2>2, <2>5 DEF Returns, AfterJob, Goto
  <2>6. CASE pc[e][u] = "rcvError"
    BY <1>3, <2>1, <2>2, <2>6 DEF Returns, AfterJob, Goto
  <2>7. CASE pc[e][u] = "closing"
    BY <1>3, <2>1, <2>2, <2>7 DEF Returns, AfterJob, Goto
  <2>8. CASE pc[e][u] = "write"
    BY <1>3, <2>1, <2>2, <2>8 DEF Returns, AfterJob, Goto
  <2>9. QED
    BY <2>3, <2>4, <2>5, <2>6, <2>7, <2>8
<1>4. QED
  BY <1>2, <1>3

(* Returns keeps the types, the places and the jobs. *)
LEMMA AfterJobIs ==
  ASSUME Inv, NEW e \in Ends, NEW u \in Procs, NEW ok \in BOOLEAN, job[e][u] # None,
         Returns(e, u, ok)
  PROVE  /\ pc' \in [Ends -> [Procs -> HandPC \cup ReadPC \cup WritePC]]
         /\ job' \in [Ends -> [Procs -> [type : Types \cup {"tlsError"}, body : Bodies] \cup {None}]]
         /\ next' \in [Ends -> Nat]
         /\ \A f \in Ends : f # e => pc'[f] = pc[f] /\ job'[f] = job[f] /\ next'[f] = next[f]
         /\ pc'[e][u] = AfterJob(e, u, ok)
         /\ \A v \in Procs : v # u => pc'[e][v] = pc[e][v] /\ job'[e][v] = job[e][v]
         /\ job'[e][u] = IF IsFatal(job[e][u]) THEN Stop ELSE None
         /\ next'[e] \in 1 .. Last(e)
         /\ \A f \in Ends : InBody(f)' = InBody(f)
         /\ Placed(e)'
         /\ \A v \in Procs : JobOk(e, v)'
<1>1. Shape /\ Placed(e) /\ \A v \in Procs : JobOk(e, v)
  BY DEF Inv, Local
<1>2. /\ job' = [job EXCEPT ![e][u] = IF IsFatal(job[e][u]) THEN Stop ELSE None]
      /\ pc' = [pc EXCEPT ![e][u] = AfterJob(e, u, ok)]
      /\ next' = [next EXCEPT ![e] = IF pc[e][u] = "script" /\ ok THEN @ + 1 ELSE @]
  BY JobEnds
<1>3. Stop \in [type : Types \cup {"tlsError"}, body : Bodies]
  BY DEF Stop, Job, Bodies
<1>4. pc[e][u] \in {"script", "alert", "rcvError", "closing", "write"}
  BY JobPlace
<1>5. AfterJob(e, u, ok) \in {"script", "err", "alert", "rcvError", "unlock", "hangup", "idle", "done"}
  BY <1>4, JobPlace DEF AfterJob
<1>6. pc' \in [Ends -> [Procs -> HandPC \cup ReadPC \cup WritePC]]
  BY <1>1, <1>2, <1>5 DEF Shape, HandPC, ReadPC, WritePC
<1>7. job' \in [Ends -> [Procs -> [type : Types \cup {"tlsError"}, body : Bodies] \cup {None}]]
  BY <1>1, <1>2, <1>3 DEF Shape
<1>8. next' \in [Ends -> Nat]
  BY <1>1, <1>2 DEF Shape
<1>9. \A f \in Ends : f # e => pc'[f] = pc[f] /\ job'[f] = job[f] /\ next'[f] = next[f]
  BY <1>1, <1>2 DEF Shape
<1>10. /\ pc'[e][u] = AfterJob(e, u, ok)
       /\ \A v \in Procs : v # u => pc'[e][v] = pc[e][v] /\ job'[e][v] = job[e][v]
       /\ job'[e][u] = IF IsFatal(job[e][u]) THEN Stop ELSE None
       /\ next'[e] = IF pc[e][u] = "script" /\ ok THEN next[e] + 1 ELSE next[e]
  BY <1>1, <1>2 DEF Shape
<1>11. next'[e] \in 1 .. Last(e)
  <2>1. next[e] \in 1 .. Last(e)
    BY DEF Inv, Halves
  <2>2. CASE pc[e][u] = "script"
    <3>1. Op(e).op # "opened"
      BY <2>2, JobPlace DEF Scripted
    <3>2. next[e] < Last(e)
      BY <2>1, <3>1, ScriptFacts DEF Op
    <3>3. Last(e) \in Nat
      BY DEF Last
    <3>4. QED
      BY <1>10, <2>1, <3>2, <3>3
  <2>3. QED
    BY <1>10, <2>1, <2>2
<1>12. \A f \in Ends : InBody(f)' = InBody(f)
  BY <1>4, <1>5, <1>9, <1>10 DEF InBody, Procs
<1>13. Placed(e)'
  <2>1. CASE u = "hand"
    BY <1>1, <1>10, <2>1, JobPlace DEF Placed, AfterJob, Procs, HandPC, ReadPC, WritePC, Shaken
  <2>2. CASE u = "reader"
    BY <1>1, <1>10, <2>2, JobPlace DEF Placed, AfterJob, Procs, HandPC, ReadPC, WritePC, Shaken
  <2>3. CASE u = "writer"
    BY <1>1, <1>10, <2>3, JobPlace DEF Placed, AfterJob, Procs, HandPC, ReadPC, WritePC, Shaken
  <2>4. QED
    BY <2>1, <2>2, <2>3 DEF Procs
<1>14. JobOk(e, u)'
  <2>1. CASE IsFatal(job[e][u])
    BY <1>10, <2>1, JobPlace DEF JobOk, AfterJob
  <2>2. CASE ~IsFatal(job[e][u])
    <3>1. job'[e][u] = None /\ pc'[e][u] \in {"script", "err", "unlock", "hangup", "idle", "done"}
      BY <1>4, <1>10, <2>2 DEF AfterJob
    <3>2. QED
      BY <3>1 DEF JobOk
  <2>3. QED
    BY <2>1, <2>2
<1>15. ASSUME NEW v \in Procs, v # u PROVE JobOk(e, v)'
  <2>1. pc[e][v] = "script" \/ v = "hand" => next'[e] = next[e]
    BY <1>1, <1>10, <1>15, JobPlace DEF Placed, HandPC, ReadPC, WritePC, Procs
  <2>2. QED
    BY <1>1, <1>10, <1>15, <2>1 DEF JobOk, Scripted, Op
<1>16. QED
  BY <1>6, <1>7, <1>8, <1>9, <1>10, <1>11, <1>12, <1>13, <1>14, <1>15

(* Returns keeps Alarmed: a fatal alert ends in the job that sets the error. *)
LEMMA AlarmedStays ==
  ASSUME Inv, NEW e \in Ends, NEW u \in Procs, NEW ok \in BOOLEAN, job[e][u] # None,
         Returns(e, u, ok), state'[e] = state[e] \/ state'[e] = "error"
  PROVE  Alarmed(e)'
<1>1. Alarmed(e)
  BY DEF Inv, Local
<1>2. IsFatal(job[e][u]) => job[e][u] = Fatal
  BY JobPlace
<1>3. /\ \A v \in Procs : v # u => job'[e][v] = job[e][v]
      /\ job'[e][u] = IF IsFatal(job[e][u]) THEN Stop ELSE None
  BY AfterJobIs
<1>4. None \notin {Fatal, Stop}
  BY NoneIsNothing DEF Stop, Fatal, Job
<1>5. QED
  BY <1>1, <1>2, <1>3, <1>4 DEF Alarmed

(* what tlsError changes *)
LEMMA tlsErrorIs ==
  ASSUME Inv, NEW e \in Ends, tlsError(e)
  PROVE  /\ state' \in [Ends -> States]
         /\ state'[e] = "error"
         /\ \A f \in Ends : f # e => state'[f] = state[f]
         /\ DOMAIN handq' = Ends /\ handq' = [f \in Ends |-> handq'[f]]
         /\ \A f \in Ends : f # e => handq'[f] = handq[f]
BY DEF tlsError, Inv, Shape, States

(* RecRefused keeps the invariant: no record goes out. *)
LEMMA RecRefusedKeeps ==
  ASSUME Inv, NEW e \in Ends, NEW u \in Procs, RecRefused(e, u)
  PROVE  Inv'
<1>1. /\ job[e][u] # None /\ outio[e] = None
      /\ Returns(e, u, FALSE)
      /\ UNCHANGED <<conn, state, opened, handq, sides, processed, built, written, wrongkey, puzzled>>
  BY DEF RecRefused
<1>2. Shape /\ Local(e) /\ FALSE \in BOOLEAN
  BY DEF Inv
<1>3. Shape'
  BY <1>1, <1>2, AfterJobIs DEF Shape, conn, sides
<1>4. ASSUME NEW f \in Ends PROVE Halves(f)'
  <2>1. InBody(f)' = InBody(f) /\ next'[f] \in 1 .. Last(f)
    BY <1>1, <1>2, AfterJobIs DEF Inv, Halves
  <2>2. QED
    BY <1>1, <2>1 DEF Inv, Halves, conn
<1>5. ASSUME NEW f \in Ends, f # e PROVE Local(f)'
  BY <1>1, <1>2, <1>5, EndStays, AfterJobIs DEF conn, sides
<1>6. Local(e)'
  <2>1. Placed(e)' /\ \A v \in Procs : JobOk(e, v)'
    BY <1>1, <1>2, AfterJobIs
  <2>2. Alarmed(e)'
    BY <1>1, <1>2, AlarmedStays
  <2>3. Building(e)'
    BY <1>1 DEF Building, sides
  <2>4. HasAlert(e) => Silent(e)'
    <3>1. SUFFICES ASSUME HasAlert(e) PROVE Silent(e)'
      OBVIOUS
    <3>2. Silent(e)
      BY <1>2, <3>1 DEF Local, Quiet
    <3>3. CASE pc[e]["hand"] \in {"hangup", "closed"}
      <4>1. u # "hand"
        BY <1>1, <3>3, JobPlace
      <4>2. pc'[e]["hand"] = pc[e]["hand"]
        BY <1>1, <1>2, <4>1, AfterJobIs DEF Procs
      <4>3. QED
        BY <1>1, <3>2, <3>3, <4>2 DEF Silent, sides
    <3>4. CASE state[e] = "alert" /\ \E v \in Procs : job[e][v] = Stop
      <4>1. PICK v \in Procs : job[e][v] = Stop
        BY <3>4
      <4>2. v # u
        BY <4>1 DEF RecRefused, Stop, Job
      <4>3. job'[e][v] = Stop
        BY <1>1, <1>2, <4>1, <4>2, AfterJobIs
      <4>4. QED
        BY <1>1, <3>2, <3>4, <4>3 DEF Silent, sides
    <3>5. QED
      BY <1>1, <3>2, <3>3, <3>4 DEF Silent, sides
  <2>5. Quiet(e)'
    BY <1>1, <1>2, <2>4 DEF Local, Quiet, HasAlert, conn
  <2>6. QED
    BY <2>1, <2>2, <2>3, <2>5 DEF Local
<1>7. QED
  BY <1>3, <1>4, <1>5, <1>6 DEF Inv

(* RecWrite keeps the invariant: before the record there was no alert, and if it is
   one, e is silent from now on. *)
LEMMA RecWriteKeeps ==
  ASSUME Inv, NEW e \in Ends, NEW u \in Procs, RecWrite(e, u)
  PROVE  Inv'
<1>1. PICK damage \in 0 .. (IF built[e].key = None THEN 0 ELSE 1) :
        /\ damages' = damages + damage
        /\ link' = [link EXCEPT ![e] =
              Append(@, IF damage = 0 THEN built[e] ELSE [built[e] EXCEPT !.key = "damaged"])]
  BY DEF RecWrite
<1>2. /\ outio[e] = u
      /\ Returns(e, u, TRUE)
      /\ outio' = [outio EXCEPT ![e] = None]
      /\ built' = [built EXCEPT ![e] = None]
      /\ UNCHANGED <<got, hungup, state, opened, handq, in, out, inio, processed, written,
                     wrongkey, puzzled>>
  BY DEF RecWrite
<1>3. Shape /\ Local(e) /\ TRUE \in BOOLEAN
  BY DEF Inv
<1>4. u # None
  BY NoneIsNothing
<1>5. /\ job[e][u] # None /\ job[e][u] # Stop
      /\ built[e] \in Records
      /\ built[e].type = job[e][u].type /\ built[e].body = job[e][u].body
  BY <1>2, <1>3, <1>4 DEF Local, Building
<1>6. PICK r \in Records : r.type = built[e].type /\ link' = [link EXCEPT ![e] = Append(@, r)]
  <2>1. built[e] \in Records /\ [built[e] EXCEPT !.key = "damaged"] \in Records
    BY <1>5 DEF Records
  <2>2. [built[e] EXCEPT !.key = "damaged"].type = built[e].type
    BY <1>5 DEF Records
  <2>3. QED
    BY <1>1, <2>1, <2>2
<1>7. /\ link'[e] = Append(link[e], r)
      /\ link[e] \in Seq(Records)
      /\ \A f \in Ends : f # e => link'[f] = link[f]
      /\ outio'[e] = None
      /\ \A f \in Ends : f # e => outio'[f] = outio[f] /\ built'[f] = built[f]
  BY <1>2, <1>3, <1>6 DEF Shape
<1>8. /\ Len(link'[e]) = Len(link[e]) + 1 /\ Len(link[e]) \in Nat
      /\ \A i \in 1 .. Len(link[e]) : link'[e][i] = link[e][i]
      /\ link'[e][Len(link[e]) + 1] = r
  BY <1>7
<1>9. Shape'
  <2>1. link' \in [Ends -> Seq(Records)]
    BY <1>3, <1>6 DEF Shape
  <2>2. damages' \in Nat
    BY <1>1, <1>3 DEF Shape
  <2>3. QED
    BY <1>2, <1>3, <2>1, <2>2, <1>5, AfterJobIs DEF Shape
<1>10. ASSUME NEW f \in Ends PROVE Halves(f)'
  <2>1. InBody(f)' = InBody(f) /\ next'[f] \in 1 .. Last(f)
    BY <1>2, <1>3, <1>5, AfterJobIs DEF Inv, Halves
  <2>2. Peer(f) \in Ends
    BY DEF Peer, Ends
  <2>3. Len(link'[Peer(f)]) >= Len(link[Peer(f)]) /\ Len(link'[Peer(f)]) \in Nat /\ Len(link[Peer(f)]) \in Nat
    <3>1. \A f1 \in Ends : Len(link[f1]) \in Nat
      BY <1>3 DEF Shape
    <3>2. CASE Peer(f) = e
      BY <1>8, <3>1, <3>2
    <3>3. CASE Peer(f) # e
      BY <1>7, <2>2, <3>1, <3>3
    <3>4. QED
      BY <3>2, <3>3
  <2>4. got[f] \in Nat /\ got'[f] = got[f]
    BY <1>2, <1>3 DEF Shape
  <2>5. QED
    BY <2>1, <2>3, <2>4 DEF Inv, Halves
<1>11. ASSUME NEW f \in Ends, f # e PROVE Local(f)'
  BY <1>2, <1>3, <1>5, <1>7, <1>11, EndStays, AfterJobIs
<1>12. Local(e)'
  <2>1. Placed(e)' /\ \A v \in Procs : JobOk(e, v)'
    BY <1>2, <1>3, <1>5, AfterJobIs
  <2>2. Alarmed(e)'
    BY <1>2, <1>3, <1>5, AlarmedStays
  <2>3. Building(e)'
    BY <1>7 DEF Building
  <2>4. ~HasAlert(e)
    BY <1>2, <1>3, <1>4 DEF Local, Quiet, Silent
  <2>5. \A i \in 1 .. Len(link'[e]) : link'[e][i].type = "alert" => i = Len(link'[e])
    BY <1>8, <2>4 DEF HasAlert
  <2>6. HasAlert(e)' => Silent(e)'
    <3>1. SUFFICES ASSUME HasAlert(e)' PROVE Silent(e)'
      OBVIOUS
    <3>2. job[e][u].type = "alert"
      BY <1>5, <1>6, <1>8, <2>4, <3>1 DEF HasAlert
    <3>3. CASE IsFatal(job[e][u])
      <4>1. job[e][u] = Fatal /\ job'[e][u] = Stop
        BY <1>2, <1>3, <1>5, <3>3, AfterJobIs, JobPlace
      <4>2. state[e] \in {"alert", "error", "closed"}
        BY <1>3, <4>1 DEF Local, Alarmed
      <4>3. QED
        BY <1>2, <1>7, <4>1, <4>2 DEF Silent
    <3>4. CASE ~IsFatal(job[e][u])
      <4>1. pc[e][u] = "closing" /\ u = "hand"
        BY <1>3, <1>5, <3>2, <3>4, JobPlace DEF Local, JobOk, Scripted, Job, Fatal, IsFatal
      <4>2. pc'[e]["hand"] = "hangup"
        <5>1. pc'[e][u] = AfterJob(e, u, TRUE)
          BY <1>2, <1>3, <1>5, AfterJobIs
        <5>2. AfterJob(e, u, TRUE) = "hangup"
          BY <3>4, <4>1 DEF AfterJob
        <5>3. QED
          BY <4>1, <5>1, <5>2
      <4>3. QED
        BY <1>7, <4>2 DEF Silent
    <3>5. QED
      BY <3>3, <3>4
  <2>7. QED
    BY <2>1, <2>2, <2>3, <2>5, <2>6 DEF Local, Quiet
<1>13. QED
  BY <1>9, <1>10, <1>11, <1>12 DEF Inv

(* RecWriteFails keeps the invariant: the state is error. *)
LEMMA RecWriteFailsKeeps ==
  ASSUME Inv, NEW e \in Ends, NEW u \in Procs, RecWriteFails(e, u)
  PROVE  Inv'
<1>1. /\ outio[e] = u
      /\ tlsError(e)
      /\ Returns(e, u, FALSE)
      /\ outio' = [outio EXCEPT ![e] = None]
      /\ built' = [built EXCEPT ![e] = None]
      /\ UNCHANGED <<conn, opened, in, out, inio, processed, written, wrongkey, puzzled>>
  BY DEF RecWriteFails
<1>2. Shape /\ Local(e) /\ FALSE \in BOOLEAN
  BY DEF Inv
<1>3. job[e][u] # None
  BY <1>1, <1>2, NoneIsNothing DEF Local, Building
<1>4. /\ state'[e] = "error" /\ outio'[e] = None
      /\ \A f \in Ends : f # e => state'[f] = state[f] /\ outio'[f] = outio[f] /\ built'[f] = built[f]
  BY <1>1, <1>2, tlsErrorIs DEF Shape
<1>5. Shape'
  BY <1>1, <1>2, <1>3, tlsErrorIs, AfterJobIs DEF Shape, conn
<1>6. ASSUME NEW f \in Ends PROVE Halves(f)'
  <2>1. InBody(f)' = InBody(f) /\ next'[f] \in 1 .. Last(f)
    BY <1>1, <1>2, <1>3, AfterJobIs DEF Inv, Halves
  <2>2. QED
    BY <1>1, <2>1 DEF Inv, Halves, conn
<1>7. ASSUME NEW f \in Ends, f # e PROVE Local(f)'
  BY <1>1, <1>2, <1>3, <1>4, <1>7, EndStays, AfterJobIs DEF conn
<1>8. Local(e)'
  <2>1. Placed(e)' /\ \A v \in Procs : JobOk(e, v)'
    BY <1>1, <1>2, <1>3, AfterJobIs
  <2>2. Alarmed(e)'
    BY <1>1, <1>2, <1>3, <1>4, AlarmedStays
  <2>3. QED
    BY <1>1, <1>2, <1>4, <2>1, <2>2 DEF Local, Quiet, HasAlert, Silent, Building, conn
<1>9. QED
  BY <1>5, <1>6, <1>7, <1>8 DEF Inv

(* AlertSent keeps the invariant: the state goes from alert to error. *)
LEMMA AlertSentKeeps ==
  ASSUME Inv, NEW e \in Ends, NEW u \in Procs, AlertSent(e, u)
  PROVE  Inv'
<1>1. /\ job[e][u] = Stop
      /\ tlsError(e)
      /\ Returns(e, u, TRUE)
      /\ UNCHANGED <<conn, opened, sides, processed, built, written, wrongkey, puzzled>>
  BY DEF AlertSent, Stop
<1>2. Shape /\ Local(e) /\ TRUE \in BOOLEAN
  BY DEF Inv
<1>3. job[e][u] # None
  BY <1>1, NoneIsNothing DEF Stop, Job
<1>4. /\ state'[e] = "error"
      /\ \A f \in Ends : f # e => state'[f] = state[f]
  BY <1>1, <1>2, tlsErrorIs DEF Shape
<1>5. Shape'
  BY <1>1, <1>2, <1>3, tlsErrorIs, AfterJobIs DEF Shape, conn, sides
<1>6. ASSUME NEW f \in Ends PROVE Halves(f)'
  <2>1. InBody(f)' = InBody(f) /\ next'[f] \in 1 .. Last(f)
    BY <1>1, <1>2, <1>3, AfterJobIs DEF Inv, Halves
  <2>2. QED
    BY <1>1, <2>1 DEF Inv, Halves, conn
<1>7. ASSUME NEW f \in Ends, f # e PROVE Local(f)'
  BY <1>1, <1>2, <1>3, <1>4, <1>7, EndStays, AfterJobIs DEF conn, sides
<1>8. Local(e)'
  <2>1. Placed(e)' /\ \A v \in Procs : JobOk(e, v)'
    BY <1>1, <1>2, <1>3, AfterJobIs
  <2>2. Alarmed(e)'
    BY <1>1, <1>2, <1>3, <1>4, AlarmedStays
  <2>3. Building(e)'
    <3>1. SUFFICES ASSUME outio[e] # None PROVE Building(e)'
      BY <1>1 DEF Building, sides
    <3>2. outio[e] \in Procs /\ outio[e] # u
      BY <1>1, <1>2, <3>1 DEF Shape, Local, Building
    <3>3. job'[e][outio[e]] = job[e][outio[e]]
      BY <1>1, <1>2, <1>3, <3>2, AfterJobIs
    <3>4. QED
      BY <1>1, <1>2, <3>3 DEF Local, Building, sides
  <2>4. QED
    BY <1>1, <1>2, <1>4, <2>1, <2>2, <2>3 DEF Local, Quiet, HasAlert, Silent, conn, sides
<1>9. QED
  BY <1>5, <1>6, <1>7, <1>8 DEF Inv

(* every place, and every value of job *)
PCs == HandPC \cup ReadPC \cup WritePC
AnyJob == [type : Types \cup {"tlsError"}, body : Bodies] \cup {None}

(* only the place of e's u changes, to to *)
Went(e, u, to) ==
  /\ pc' \in [Ends -> [Procs -> PCs]]
  /\ pc'[e][u] = to
  /\ \A v \in Procs : v # u => pc'[e][v] = pc[e][v]
  /\ \A f \in Ends : f # e => pc'[f] = pc[f]

(* only the job of e's u changes, to j *)
Got(e, u, j) ==
  /\ job' \in [Ends -> [Procs -> AnyJob]]
  /\ job'[e][u] = j
  /\ \A v \in Procs : v # u => job'[e][v] = job[e][v]
  /\ \A f \in Ends : f # e => job'[f] = job[f]

(* e's state may change, but does not become better *)
Worse(e) ==
  /\ state' \in [Ends -> States]
  /\ \A f \in Ends : f # e => state'[f] = state[f]
  /\ state[e] \in {"error", "closed"} => state'[e] \in {"error", "closed"}
  /\ state[e] = "alert" => state'[e] \in {"alert", "error", "closed"}

(* Goto moves one process. *)
LEMMA GotoIs ==
  ASSUME Inv, NEW e \in Ends, NEW u \in Procs, NEW to \in PCs, Goto(e, u, to)
  PROVE  Went(e, u, to)
BY DEF Inv, Shape, Goto, Went, PCs

(* What is not assigned to moves nobody. *)
LEMMA StaysIs ==
  ASSUME Inv, NEW e \in Ends, NEW u \in Procs
  PROVE  /\ UNCHANGED pc => Went(e, u, pc[e][u])
         /\ UNCHANGED job => Got(e, u, job[e][u])
         /\ UNCHANGED state => Worse(e)
BY DEF Inv, Shape, Went, PCs, Got, AnyJob, Worse

(* An assignment to one job changes that job only. *)
LEMMA JobIs ==
  ASSUME Inv, NEW e \in Ends, NEW u \in Procs, NEW j \in AnyJob,
         job' = [job EXCEPT ![e][u] = j]
  PROVE  Got(e, u, j)
BY DEF Inv, Shape, Got, AnyJob

(* what sendAlert changes: a fatal one leaves a state that permits only alerts *)
LEMMA sendAlertIs ==
  ASSUME Inv, NEW e \in Ends, NEW u \in Procs, NEW level \in {"fatal", "close"},
         sendAlert(e, u, level)
  PROVE  /\ Got(e, u, Job("alert", level))
         /\ Worse(e)
         /\ level = "fatal" => state'[e] \in {"alert", "error", "closed"}
         /\ level = "close" => state'[e] = state[e]
<1>1. Job("alert", level) \in AnyJob
  BY DEF Job, AnyJob, Types, Bodies
<1>2. job' = [job EXCEPT ![e][u] = Job("alert", level)]
  BY DEF sendAlert
<1>3. Got(e, u, Job("alert", level))
  BY <1>1, <1>2, JobIs
<1>4. Shape
  BY DEF Inv
<1>5. state' = IF level = "fatal" /\ state[e] \in {"open", "handshake", "rclose"}
              THEN [state EXCEPT ![e] = "alert"] ELSE state
  BY DEF sendAlert
<1>6. Worse(e) /\ (level = "fatal" => state'[e] \in {"alert", "error", "closed"}) /\ (level = "close" => state'[e] = state[e])
  BY <1>4, <1>5 DEF Shape, States, Worse
<1>7. QED
  BY <1>3, <1>6

(* tlsError does not make the state better. *)
LEMMA tlsErrorWorse ==
  ASSUME Inv, NEW e \in Ends, tlsError(e)
  PROVE  Worse(e)
BY tlsErrorIs DEF Worse

(* A step of a process without a job, which may get one, keeps what holds at each
   end by itself, if the place and the job it gets fit. *)
LEMMA Moves ==
  ASSUME Inv, NEW e \in Ends, NEW u \in Procs, NEW to, NEW j,
         job[e][u] = None, UNCHANGED <<link, outio, built>>,
         Went(e, u, to), Got(e, u, j), Worse(e),
         \A f \in Ends : f # e => next'[f] = next[f],
         u # "hand" => next'[e] = next[e],
         pc[e]["hand"] \in {"hangup", "closed"} => pc'[e]["hand"] \in {"hangup", "closed"},
         j \in {Fatal, Stop} => state'[e] \in {"alert", "error", "closed"},
         Placed(e)', JobOk(e, u)'
  PROVE  \A f \in Ends : Local(f)'
<1>1. Shape /\ Local(e)
  BY DEF Inv
<1>2. ASSUME NEW f \in Ends, f # e PROVE Local(f)'
  BY <1>1, <1>2, EndStays DEF Went, Got, Worse
<1>3. Local(e)'
  <2>1. ASSUME NEW v \in Procs, v # u PROVE JobOk(e, v)'
    <3>1. pc[e][v] = "script" \/ v = "hand" => next'[e] = next[e]
      BY <1>1, <2>1 DEF Local, Placed, Procs, HandPC, ReadPC, WritePC
    <3>2. QED
      BY <1>1, <2>1, <3>1 DEF Local, JobOk, Scripted, Op, Went, Got
  <2>2. Building(e)'
    <3>1. SUFFICES ASSUME outio[e] # None PROVE Building(e)'
      BY DEF Building
    <3>2. outio[e] \in Procs /\ outio[e] # u
      BY <1>1, <3>1 DEF Shape, Local, Building
    <3>3. job'[e][outio[e]] = job[e][outio[e]]
      BY <3>2 DEF Got
    <3>4. QED
      BY <1>1, <3>3 DEF Local, Building
  <2>3. Alarmed(e)'
    <3>1. \A v \in Procs : v # u => job'[e][v] = job[e][v]
      BY DEF Got
    <3>2. job'[e][u] = j
      BY DEF Got
    <3>3. state[e] \in {"alert", "error", "closed"} => state'[e] \in {"alert", "error", "closed"}
      BY DEF Worse
    <3>4. QED
      BY <1>1, <3>1, <3>2, <3>3 DEF Local, Alarmed
  <2>4. HasAlert(e) => Silent(e)'
    <3>1. SUFFICES ASSUME Silent(e) PROVE Silent(e)'
      BY <1>1 DEF Local, Quiet
    <3>2. CASE state[e] = "alert" /\ \E v \in Procs : job[e][v] = Stop
      <4>1. PICK v \in Procs : job[e][v] = Stop
        BY <3>2
      <4>2. v # u
        BY <4>1, NoneIsNothing DEF Stop, Job
      <4>3. job'[e][v] = Stop
        BY <4>1, <4>2 DEF Got
      <4>4. QED
        BY <3>1, <3>2, <4>3 DEF Silent, Worse
    <3>3. QED
      BY <3>1, <3>2 DEF Silent, Worse
  <2>5. Quiet(e)'
    BY <1>1, <2>4 DEF Local, Quiet, HasAlert
  <2>6. QED
    BY <2>1, <2>2, <2>3, <2>5 DEF Local
<1>4. QED
  BY <1>2, <1>3

(* What is made of the input side by a record is an input side. *)
LEMMA OpenedType ==
  ASSUME NEW i \in Sides
  PROVE  /\ Opened(i) \in Sides
         /\ [sec |-> i.new, new |-> None, seq |-> 0] \in Sides
<1>1. Opened(i) = [i EXCEPT !.seq = IF i.sec = None THEN @ ELSE @ + 1]
  BY DEF Opened
<1>2. QED
  BY <1>1 DEF Sides, Keys

(* Only the counts of the end that takes the step need to be shown. *)
LEMMA HalvesFrom ==
  ASSUME Inv, NEW e \in Ends, UNCHANGED link,
         \A f \in Ends : f # e => got'[f] = got[f] /\ pc'[f] = pc[f] /\ next'[f] = next[f],
         Halves(e)'
  PROVE  \A f \in Ends : Halves(f)'
BY DEF Inv, Halves, InBody

(* Only the handshaker and, once hand is open, the reader read records. *)
LEMMA WhoReads ==
  ASSUME Inv, NEW e \in Ends, NEW u \in Procs, pc[e][u] \in {"read", "body", "unlock", "rcvClose"}
  PROVE  /\ u \in {"hand", "reader"}
         /\ u = "reader" => pc[e]["hand"] = "open"
         /\ InBody(e) <=> pc[e][u] = "body"
BY DEF Inv, Local, Placed, InBody, Procs, HandPC, ReadPC, WritePC, Shaken

(* what a process that only reads does to the places at its end *)
LEMMA ReaderPlaced ==
  ASSUME Inv, NEW e \in Ends, NEW u \in {"hand", "reader"}, NEW to,
         Went(e, u, to),
         u = "hand" => pc[e]["hand"] \in Shaken /\ to \in Shaken,
         u = "reader" => pc[e]["hand"] = "open" /\ to \in ReadPC
  PROVE  Placed(e)' /\ (InBody(e)' <=> to = "body")
<1>1. Placed(e)
  BY DEF Inv, Local
<1>2. pc[e]["reader"] = "idle" => u = "hand" \/ pc'[e]["reader"] = to
  BY DEF Went
<1>3. CASE u = "hand"
  BY <1>1, <1>3 DEF Placed, Went, Procs, HandPC, ReadPC, WritePC, Shaken, InBody
<1>4. CASE u = "reader"
  BY <1>1, <1>4 DEF Placed, Went, Procs, HandPC, ReadPC, WritePC, Shaken, InBody
<1>5. QED
  BY <1>3, <1>4

(* where a read that failed leaves its process *)
LEMMA NoMessageIs ==
  ASSUME Inv, NEW e \in Ends, NEW u \in {"hand", "reader"}, job[e][u] = None, NoMessage(e, u)
  PROVE  \E to \in PCs, j \in AnyJob :
           /\ Went(e, u, to) /\ Got(e, u, j) /\ Worse(e)
           /\ u = "reader" => to = "idle" /\ j = None
           /\ u = "hand" => \/ to = "err" /\ j = None
                            \/ to = "alert" /\ j = Fatal /\ state'[e] \in {"alert", "error", "closed"}
<1>1. u \in Procs
  BY DEF Procs
<1>2. "idle" \in PCs /\ "err" \in PCs /\ "alert" \in PCs /\ None \in AnyJob /\ Fatal \in AnyJob
  BY DEF PCs, HandPC, ReadPC, AnyJob, Fatal, Job, Types, Bodies
<1>3. CASE u = "reader"
  <2>1. Goto(e, u, "idle") /\ UNCHANGED <<state, job>>
    BY <1>3 DEF NoMessage
  <2>2. Went(e, u, "idle") /\ Got(e, u, None) /\ Worse(e)
    BY <1>1, <1>2, <2>1, GotoIs, StaysIs
  <2>3. QED
    BY <1>2, <1>3, <2>2
<1>4. CASE u = "hand"
  <2>1. CASE Goto(e, u, "alert") /\ sendAlert(e, u, "fatal")
    <3>1. Went(e, u, "alert")
      BY <1>1, <1>2, <2>1, GotoIs
    <3>2. Got(e, u, Fatal) /\ Worse(e) /\ state'[e] \in {"alert", "error", "closed"}
      BY <1>1, <2>1, sendAlertIs DEF Fatal
    <3>3. QED
      BY <1>2, <1>4, <3>1, <3>2
  <2>2. CASE Goto(e, u, "err") /\ UNCHANGED <<state, job>>
    <3>1. Went(e, u, "err") /\ Got(e, u, None) /\ Worse(e)
      BY <1>1, <1>2, <2>2, GotoIs, StaysIs
    <3>2. QED
      BY <1>2, <1>4, <3>1
  <2>3. QED
    BY <1>4, <2>1, <2>2 DEF NoMessage
<1>5. QED
  BY <1>3, <1>4

(* NoMessage keeps the local parts of the invariant. *)
LEMMA NoMessageKeeps ==
  ASSUME Inv, NEW e \in Ends, NEW u \in {"hand", "reader"}, job[e][u] = None, NoMessage(e, u),
         u = "hand" => pc[e]["hand"] \in Shaken,
         u = "reader" => pc[e]["hand"] = "open",
         UNCHANGED <<link, outio, built, next>>
  PROVE  /\ \A f \in Ends : Local(f)'
         /\ ~InBody(e)'
         /\ \A f \in Ends : f # e => pc'[f] = pc[f]
         /\ pc' \in [Ends -> [Procs -> PCs]]
         /\ job' \in [Ends -> [Procs -> AnyJob]]
         /\ state' \in [Ends -> States]
<1>1. PICK to \in PCs, j \in AnyJob :
           /\ Went(e, u, to) /\ Got(e, u, j) /\ Worse(e)
           /\ u = "reader" => to = "idle" /\ j = None
           /\ u = "hand" => \/ to = "err" /\ j = None
                            \/ to = "alert" /\ j = Fatal /\ state'[e] \in {"alert", "error", "closed"}
  BY NoMessageIs
<1>2. u \in Procs
  BY DEF Procs
<1>3. Placed(e)' /\ ~InBody(e)'
  BY <1>1, ReaderPlaced DEF Shaken, ReadPC
<1>4. JobOk(e, u)'
  BY <1>1, <1>2 DEF JobOk, Went, Got
<1>5. pc[e]["hand"] \in {"hangup", "closed"} => pc'[e]["hand"] \in {"hangup", "closed"}
  BY DEF Shaken
<1>6. None \notin {Fatal, Stop}
  BY NoneIsNothing DEF Stop, Fatal, Job
<1>7. \A f \in Ends : Local(f)'
  <2>1. j \in {Fatal, Stop} => state'[e] \in {"alert", "error", "closed"}
    BY <1>1, <1>6
  <2>2. (\A f \in Ends : f # e => next'[f] = next[f]) /\ (u # "hand" => next'[e] = next[e])
    OBVIOUS
  <2>3. QED
    BY <1>1, <1>2, <1>3, <1>4, <1>5, <2>1, <2>2, Moves
<1>8. QED
  BY <1>1, <1>3, <1>7 DEF Went, Got, Worse

(* LockRead keeps the invariant, for the handshaker as for the reader. *)
LEMMA LockReadKeeps ==
  ASSUME Inv, NEW e \in Ends, NEW u \in {"hand", "reader"}, NEW ok, LockRead(e, u, ok),
         job[e][u] = None,
         u = "hand" => pc[e]["hand"] = "script" /\ Op(e).op = "recv",
         u = "reader" => pc[e]["hand"] = "open" /\ pc[e]["reader"] = "idle"
  PROVE  Inv'
<1>1. /\ UNCHANGED <<conn, opened, in, out, outio, handq, processed, next, built, written,
                     wrongkey, puzzled>>
      /\ \/ /\ inio' = [inio EXCEPT ![e] = u]
            /\ Goto(e, u, "read")
            /\ UNCHANGED <<state, job>>
         \/ UNCHANGED inio /\ NoMessage(e, u)
  BY DEF LockRead
<1>2. u \in Procs /\ "read" \in PCs
  BY DEF Procs, PCs, HandPC
<1>3. Shape /\ Local(e) /\ Halves(e)
  BY DEF Inv
<1>4. ~InBody(e)
  BY <1>3 DEF Local, Placed, InBody, Shaken
<1>5. UNCHANGED link
  BY <1>1 DEF conn
<1>6. /\ \A f \in Ends : Local(f)'
      /\ ~InBody(e)'
      /\ \A f \in Ends : f # e => pc'[f] = pc[f]
      /\ pc' \in [Ends -> [Procs -> PCs]]
      /\ job' \in [Ends -> [Procs -> AnyJob]]
      /\ state' \in [Ends -> States]
      /\ inio' \in [Ends -> Procs \cup {None}]
  <2>1. CASE Goto(e, u, "read") /\ UNCHANGED <<state, job>> /\ inio' = [inio EXCEPT ![e] = u]
    <3>1. Went(e, u, "read") /\ Got(e, u, None) /\ Worse(e)
      BY <1>2, <2>1, GotoIs, StaysIs
    <3>2. Placed(e)' /\ ~InBody(e)'
      BY <3>1, ReaderPlaced DEF Shaken, ReadPC
    <3>3. JobOk(e, u)'
      BY <1>1, <1>2, <3>1 DEF JobOk, Went, Got, Op
    <3>4. pc[e]["hand"] \in {"hangup", "closed"} => pc'[e]["hand"] \in {"hangup", "closed"}
      OBVIOUS
    <3>5. None \notin {Fatal, Stop}
      BY NoneIsNothing DEF Stop, Fatal, Job
    <3>6. (\A f \in Ends : f # e => next'[f] = next[f]) /\ (u # "hand" => next'[e] = next[e])
          /\ UNCHANGED <<link, outio, built>>
      BY <1>1 DEF conn
    <3>7. \A f \in Ends : Local(f)'
      BY <1>2, <3>1, <3>2, <3>3, <3>4, <3>5, <3>6, Moves
    <3>8. inio' \in [Ends -> Procs \cup {None}]
      BY <1>2, <1>3, <2>1 DEF Shape
    <3>9. QED
      BY <3>1, <3>2, <3>7, <3>8 DEF Went, Got, Worse
  <2>2. CASE UNCHANGED inio /\ NoMessage(e, u)
    <3>1. u = "hand" => pc[e]["hand"] \in Shaken
      BY DEF Shaken
    <3>2. UNCHANGED <<link, outio, built, next>>
      BY <1>1 DEF conn
    <3>3. inio' \in [Ends -> Procs \cup {None}]
      BY <1>3, <2>2 DEF Shape
    <3>4. QED
      BY <2>2, <3>1, <3>2, <3>3, NoMessageKeeps
  <2>3. QED
    BY <1>1, <2>1, <2>2
<1>7. Halves(e)'
  BY <1>1, <1>3, <1>4, <1>6 DEF Halves, conn
<1>8. \A f \in Ends : Halves(f)'
  BY <1>1, <1>6, <1>7, HalvesFrom DEF conn
<1>9. Shape'
  BY <1>1, <1>3, <1>6 DEF Shape, conn, PCs, AnyJob
<1>10. QED
  BY <1>6, <1>8, <1>9 DEF Inv

(* A step of a process that reads keeps the local parts of the invariant. *)
LEMMA ReadMove ==
  ASSUME Inv, NEW e \in Ends, NEW u \in Procs, NEW to, NEW j,
         pc[e][u] \in {"read", "body", "unlock", "rcvClose"}, job[e][u] = None,
         Went(e, u, to), Got(e, u, j), Worse(e), UNCHANGED <<link, outio, built, next>>,
         \/ to \in {"read", "body"} /\ j = None /\ pc[e][u] \in {"read", "body"}
         \/ to \in {"unlock", "rcvClose"} /\ j = None
         \/ to = "rcvError" /\ j = Fatal /\ state'[e] \in {"alert", "error", "closed"}
  PROVE  /\ \A f \in Ends : Local(f)'
         /\ InBody(e)' <=> to = "body"
         /\ \A f \in Ends : f # e => pc'[f] = pc[f]
         /\ pc' \in [Ends -> [Procs -> PCs]]
         /\ job' \in [Ends -> [Procs -> AnyJob]]
         /\ state' \in [Ends -> States]
<1>1. u \in {"hand", "reader"} /\ (u = "reader" => pc[e]["hand"] = "open")
  BY WhoReads
<1>2. Placed(e)' /\ (InBody(e)' <=> to = "body")
  BY <1>1, ReaderPlaced DEF Shaken, ReadPC
<1>3. JobOk(e, u)'
  <2>1. JobOk(e, u)
    BY DEF Inv, Local
  <2>2. QED
    BY <2>1 DEF JobOk, Went, Got, Op
<1>4. pc[e]["hand"] \in {"hangup", "closed"} => pc'[e]["hand"] \in {"hangup", "closed"}
  BY <1>1
<1>5. None \notin {Fatal, Stop}
  BY NoneIsNothing DEF Stop, Fatal, Job
<1>6. (\A f \in Ends : f # e => next'[f] = next[f]) /\ (u # "hand" => next'[e] = next[e])
  OBVIOUS
<1>7. \A f \in Ends : Local(f)'
  BY <1>2, <1>3, <1>4, <1>5, <1>6, Moves
<1>8. QED
  BY <1>2, <1>7 DEF Went, Got, Worse

(* the places of a process that reads *)
LEMMA ReadPlaces == {"read", "body", "unlock", "rcvError", "rcvClose"} \subseteq PCs
BY DEF PCs, ReadPC

(* HeaderRead keeps the invariant: got was even, and is odd. *)
LEMMA HeaderReadKeeps ==
  ASSUME Inv, NEW e \in Ends, NEW u \in Procs, HeaderRead(e, u)
  PROVE  Inv'
<1>1. /\ pc[e][u] = "read" /\ job[e][u] = None /\ More(e)
      /\ got' = [got EXCEPT ![e] = @ + 1]
      /\ Goto(e, u, "body")
      /\ UNCHANGED <<link, hungup, damages, state, opened, sides, handq, processed, next, job,
                     built, written, wrongkey, puzzled>>
  BY DEF HeaderRead, At
<1>2. Shape /\ Halves(e)
  BY DEF Inv
<1>3. Went(e, u, "body") /\ Got(e, u, None) /\ Worse(e)
  BY <1>1, GotoIs, StaysIs, ReadPlaces
<1>4. UNCHANGED <<link, outio, built, next>>
  BY <1>1 DEF sides
<1>5. /\ \A f \in Ends : Local(f)'
      /\ InBody(e)'
      /\ \A f \in Ends : f # e => pc'[f] = pc[f]
      /\ pc' \in [Ends -> [Procs -> PCs]]
      /\ job' \in [Ends -> [Procs -> AnyJob]]
      /\ state' \in [Ends -> States]
  BY <1>1, <1>3, <1>4, ReadMove
<1>6. ~InBody(e)
  BY <1>1, WhoReads
<1>7. /\ got' \in [Ends -> Nat] /\ got'[e] = got[e] + 1
      /\ \A f \in Ends : f # e => got'[f] = got[f]
  BY <1>1, <1>2 DEF Shape
<1>8. Halves(e)'
  <2>1. got[e] \in Nat /\ Len(link[Peer(e)]) \in Nat
    BY <1>2 DEF Shape, Peer, Ends
  <2>2. got[e] < 2 * Len(link[Peer(e)])
    BY <1>1 DEF More
  <2>3. got[e] % 2 = 0
    BY <1>2, <1>6 DEF Halves
  <2>4. (got[e] + 1) % 2 = 1
    BY <2>1, <2>3
  <2>5. QED
    BY <1>1, <1>2, <1>5, <1>7, <2>1, <2>2, <2>4 DEF Halves
<1>9. \A f \in Ends : Halves(f)'
  BY <1>1, <1>5, <1>7, <1>8, HalvesFrom
<1>10. Shape'
  BY <1>1, <1>2, <1>5, <1>7 DEF Shape, sides, PCs, AnyJob
<1>11. QED
  BY <1>5, <1>9, <1>10 DEF Inv

(* Interrupted keeps the invariant: the header is given back, got is even again. *)
LEMMA InterruptedKeeps ==
  ASSUME Inv, NEW e \in Ends, NEW u \in Procs, Interrupted(e, u)
  PROVE  Inv'
<1>1. /\ pc[e][u] = "body" /\ job[e][u] = None
      /\ got' = [got EXCEPT ![e] = @ - 1]
      /\ Goto(e, u, "unlock")
      /\ UNCHANGED <<link, hungup, damages, state, opened, sides, handq, processed, next, job,
                     built, written, wrongkey, puzzled>>
  BY DEF Interrupted, At
<1>2. Shape /\ Halves(e)
  BY DEF Inv
<1>3. Went(e, u, "unlock") /\ Got(e, u, None) /\ Worse(e)
  BY <1>1, GotoIs, StaysIs, ReadPlaces
<1>4. UNCHANGED <<link, outio, built, next>>
  BY <1>1 DEF sides
<1>5. /\ \A f \in Ends : Local(f)'
      /\ ~InBody(e)'
      /\ \A f \in Ends : f # e => pc'[f] = pc[f]
      /\ pc' \in [Ends -> [Procs -> PCs]]
      /\ job' \in [Ends -> [Procs -> AnyJob]]
      /\ state' \in [Ends -> States]
  BY <1>1, <1>3, <1>4, ReadMove
<1>6. InBody(e)
  BY <1>1, WhoReads
<1>7. got[e] \in Nat /\ got[e] % 2 = 1
  BY <1>2, <1>6 DEF Shape, Halves
<1>8. got[e] - 1 \in Nat /\ (got[e] - 1) % 2 = 0
  BY <1>7
<1>9. /\ got' \in [Ends -> Nat] /\ got'[e] = got[e] - 1
      /\ \A f \in Ends : f # e => got'[f] = got[f]
  BY <1>1, <1>2, <1>8 DEF Shape
<1>10. Halves(e)'
  <2>1. Len(link[Peer(e)]) \in Nat
    BY <1>2 DEF Shape, Peer, Ends
  <2>2. QED
    BY <1>1, <1>2, <1>5, <1>7, <1>8, <1>9, <2>1 DEF Halves
<1>11. \A f \in Ends : Halves(f)'
  BY <1>1, <1>5, <1>9, <1>10, HalvesFrom
<1>12. Shape'
  BY <1>1, <1>2, <1>5, <1>9 DEF Shape, sides, PCs, AnyJob
<1>13. QED
  BY <1>5, <1>11, <1>12 DEF Inv

(* the rest of a record: got is even again *)
LEMMA ConsumeIs ==
  ASSUME Inv, NEW e \in Ends, NEW u \in Procs, Consume(e, u)
  PROVE  /\ pc[e][u] = "body" /\ job[e][u] = None
         /\ got' \in [Ends -> Nat] /\ got'[e] = got[e] + 1
         /\ \A f \in Ends : f # e => got'[f] = got[f]
         /\ got[e] \in Nat /\ got[e] % 2 = 1 /\ got'[e] % 2 = 0
         /\ got'[e] <= 2 * Len(link[Peer(e)])
<1>1. /\ pc[e][u] = "body" /\ job[e][u] = None /\ More(e)
      /\ got' = [got EXCEPT ![e] = @ + 1]
  BY DEF Consume, At
<1>2. Shape /\ Halves(e)
  BY DEF Inv
<1>3. InBody(e)
  BY <1>1, WhoReads
<1>4. got[e] \in Nat /\ got[e] % 2 = 1 /\ Len(link[Peer(e)]) \in Nat
  BY <1>2, <1>3 DEF Shape, Halves, Peer, Ends
<1>5. (got[e] + 1) % 2 = 0 /\ got[e] + 1 <= 2 * Len(link[Peer(e)])
  BY <1>1, <1>4 DEF More
<1>6. QED
  BY <1>1, <1>2, <1>4, <1>5 DEF Shape

(* A step that consumes a record keeps the invariant. *)
LEMMA ConsumeKeeps ==
  ASSUME Inv, NEW e \in Ends, NEW u \in Procs, Consume(e, u), NEW to, NEW j,
         Went(e, u, to), Got(e, u, j), Worse(e),
         \/ to \in {"read", "unlock", "rcvClose"} /\ j = None
         \/ to = "rcvError" /\ j = Fatal /\ state'[e] \in {"alert", "error", "closed"},
         in' \in [Ends -> Sides], processed' \in [Ends -> BOOLEAN], puzzled' \subseteq Ends,
         DOMAIN handq' = Ends, handq' = [f \in Ends |-> handq'[f]]
  PROVE  Inv'
<1>1. Shape /\ Halves(e)
  BY DEF Inv
<1>2. /\ pc[e][u] = "body" /\ job[e][u] = None
      /\ got' \in [Ends -> Nat] /\ got'[e] = got[e] + 1
      /\ \A f \in Ends : f # e => got'[f] = got[f]
      /\ got'[e] % 2 = 0
      /\ got'[e] <= 2 * Len(link[Peer(e)])
  BY ConsumeIs
<1>3. UNCHANGED <<link, hungup, damages, opened, out, inio, outio, next, built, written, wrongkey>>
  BY DEF Consume
<1>4. /\ \A f \in Ends : Local(f)'
      /\ ~InBody(e)'
      /\ \A f \in Ends : f # e => pc'[f] = pc[f]
      /\ pc' \in [Ends -> [Procs -> PCs]]
      /\ job' \in [Ends -> [Procs -> AnyJob]]
      /\ state' \in [Ends -> States]
  BY <1>2, <1>3, ReadMove
<1>5. Halves(e)'
  BY <1>1, <1>2, <1>3, <1>4 DEF Halves
<1>6. \A f \in Ends : Halves(f)'
  BY <1>2, <1>3, <1>4, <1>5, HalvesFrom
<1>7. Shape'
  BY <1>1, <1>2, <1>3, <1>4 DEF Shape, PCs, AnyJob
<1>8. QED
  BY <1>4, <1>6, <1>7 DEF Inv

(* RecPuzzled keeps the invariant: the state permits only the alert that follows. *)
LEMMA RecPuzzledKeeps ==
  ASSUME Inv, NEW e \in Ends, NEW u \in Procs, RecPuzzled(e, u)
  PROVE  Inv'
<1>1. /\ Consume(e, u)
      /\ puzzled' = puzzled \cup {e}
      /\ in' = [in EXCEPT ![e] = Opened(@)]
      /\ sendAlert(e, u, "fatal")
      /\ Goto(e, u, "rcvError")
      /\ UNCHANGED <<handq, processed>>
  BY DEF RecPuzzled
<1>2. Shape
  BY DEF Inv
<1>3. Went(e, u, "rcvError")
  BY <1>1, GotoIs, ReadPlaces
<1>4. Got(e, u, Fatal) /\ Worse(e) /\ state'[e] \in {"alert", "error", "closed"}
  BY <1>1, sendAlertIs DEF Fatal
<1>5. in' \in [Ends -> Sides]
  BY <1>1, <1>2, OpenedType DEF Shape
<1>6. /\ processed' \in [Ends -> BOOLEAN] /\ puzzled' \subseteq Ends
      /\ DOMAIN handq' = Ends /\ handq' = [f \in Ends |-> handq'[f]]
  BY <1>1, <1>2 DEF Shape
<1>7. QED
  BY <1>1, <1>3, <1>4, <1>5, <1>6, ConsumeKeeps

(* RecRead, by the type of the record: no job, a place among three, no better state. *)
LEMMA RecReadIs ==
  ASSUME Inv, NEW e \in Ends, NEW u \in Procs, RecRead(e, u)
  PROVE  /\ Consume(e, u) /\ Understood(e)
         /\ UNCHANGED puzzled
         /\ Got(e, u, None) /\ Worse(e)
         /\ Went(e, u, "read") \/ Went(e, u, "unlock") \/ Went(e, u, "rcvClose")
         /\ in' \in [Ends -> Sides]
         /\ processed' \in [Ends -> BOOLEAN]
         /\ DOMAIN handq' = Ends /\ handq' = [f \in Ends |-> handq'[f]]
<1>1. Shape
  BY DEF Inv
<1>2. /\ Consume(e, u) /\ Understood(e) /\ UNCHANGED <<job, puzzled>>
  BY DEF RecRead
<1>3. Got(e, u, None)
  BY <1>2, ConsumeIs, StaysIs
<1>4. Goto(e, u, "read") => Went(e, u, "read")
  BY GotoIs, ReadPlaces
<1>5. /\ Goto(e, u, "unlock") => Went(e, u, "unlock")
      /\ Goto(e, u, "rcvClose") => Went(e, u, "rcvClose")
  BY GotoIs, ReadPlaces
<1>6. UNCHANGED processed => processed' \in [Ends -> BOOLEAN]
  BY <1>1 DEF Shape
<1>7. UNCHANGED handq => DOMAIN handq' = Ends /\ handq' = [f \in Ends |-> handq'[f]]
  BY <1>1 DEF Shape
<1>8. UNCHANGED state => Worse(e)
  BY StaysIs
<1>9. in' = [in EXCEPT ![e] = Opened(@)] => in' \in [Ends -> Sides]
  <2>1. in \in [Ends -> Sides] /\ in[e] \in Sides
    BY <1>1 DEF Shape
  <2>2. Opened(in[e]) \in Sides
    BY <2>1, OpenedType
  <2>3. QED
    BY <2>1, <2>2
<1>10. CASE /\ in' = [in EXCEPT ![e] = [sec |-> in[e].new, new |-> None, seq |-> 0]]
            /\ Goto(e, u, "read")
            /\ UNCHANGED <<state, handq, processed>>
  <2>1. in' \in [Ends -> Sides]
    BY <1>1, <1>10, OpenedType DEF Shape
  <2>2. QED
    BY <1>2, <1>3, <1>4, <1>6, <1>7, <1>8, <1>10, <2>1
<1>11. CASE /\ in' = [in EXCEPT ![e] = Opened(@)]
            /\ handq' = [handq EXCEPT ![e] = @ \o Arrived(e).body]
            /\ Goto(e, u, "read")
            /\ UNCHANGED <<state, processed>>
  <2>1. DOMAIN handq' = Ends /\ handq' = [f \in Ends |-> handq'[f]]
    BY <1>1, <1>11 DEF Shape
  <2>2. QED
    BY <1>2, <1>3, <1>4, <1>6, <1>8, <1>9, <1>11, <2>1
<1>12. CASE /\ in' = [in EXCEPT ![e] = Opened(@)]
            /\ processed' = [processed EXCEPT ![e] = TRUE]
            /\ Goto(e, u, "read")
            /\ UNCHANGED <<state, handq>>
  <2>1. processed' \in [Ends -> BOOLEAN]
    BY <1>1, <1>12 DEF Shape
  <2>2. QED
    BY <1>2, <1>3, <1>4, <1>7, <1>8, <1>9, <1>12, <2>1
<1>13. CASE /\ in' = [in EXCEPT ![e] = Opened(@)]
            /\ tlsError(e)
            /\ Goto(e, u, "unlock")
            /\ UNCHANGED processed
  <2>1. Worse(e) /\ DOMAIN handq' = Ends /\ handq' = [f \in Ends |-> handq'[f]]
    BY <1>13, tlsErrorWorse, tlsErrorIs
  <2>2. QED
    BY <1>2, <1>3, <1>5, <1>6, <1>9, <1>13, <2>1
<1>14. CASE /\ in' = [in EXCEPT ![e] = Opened(@)]
            /\ state' = [state EXCEPT ![e] = IF @ \in {"open", "handshake"} THEN "rclose" ELSE @]
            /\ handq' = IF handq[e] = None THEN handq
                        ELSE [handq EXCEPT ![e] = Append(@, "Alert")]
            /\ Goto(e, u, "rcvClose")
            /\ UNCHANGED processed
  <2>1. Worse(e)
    BY <1>1, <1>14 DEF Shape, Worse, States
  <2>2. DOMAIN handq' = Ends /\ handq' = [f \in Ends |-> handq'[f]]
    BY <1>1, <1>14 DEF Shape
  <2>3. QED
    BY <1>2, <1>3, <1>5, <1>6, <1>9, <1>14, <2>1, <2>2
<1>15. QED
  BY <1>10, <1>11, <1>12, <1>13, <1>14 DEF RecRead

(* RecRead keeps the invariant. *)
LEMMA RecReadKeeps ==
  ASSUME Inv, NEW e \in Ends, NEW u \in Procs, RecRead(e, u)
  PROVE  Inv'
<1>1. /\ Consume(e, u) /\ UNCHANGED puzzled
      /\ Got(e, u, None) /\ Worse(e)
      /\ Went(e, u, "read") \/ Went(e, u, "unlock") \/ Went(e, u, "rcvClose")
      /\ in' \in [Ends -> Sides]
      /\ processed' \in [Ends -> BOOLEAN]
      /\ DOMAIN handq' = Ends /\ handq' = [f \in Ends |-> handq'[f]]
  BY RecReadIs
<1>2. puzzled' \subseteq Ends
  BY <1>1 DEF Inv, Shape
<1>3. QED
  BY <1>1, <1>2, ConsumeKeeps

(* a process that only goes on reading: nothing is consumed *)
LEMMA ReadKeeps ==
  ASSUME Inv, NEW e \in Ends, NEW u \in Procs, NEW to \in PCs,
         pc[e][u] \in {"read", "unlock", "rcvClose"}, job[e][u] = None,
         Went(e, u, to), Got(e, u, None), Worse(e), to = "unlock",
         UNCHANGED <<conn, opened, sides, processed, next, built, written, wrongkey, puzzled>>,
         DOMAIN handq' = Ends, handq' = [f \in Ends |-> handq'[f]]
  PROVE  Inv'
<1>1. Shape /\ Halves(e)
  BY DEF Inv
<1>2. UNCHANGED <<link, got, outio, built, next>>
  BY DEF conn, sides
<1>3. /\ \A f \in Ends : Local(f)'
      /\ ~InBody(e)'
      /\ \A f \in Ends : f # e => pc'[f] = pc[f]
      /\ pc' \in [Ends -> [Procs -> PCs]]
      /\ job' \in [Ends -> [Procs -> AnyJob]]
      /\ state' \in [Ends -> States]
  BY <1>2, ReadMove
<1>4. ~InBody(e)
  BY WhoReads
<1>5. Halves(e)'
  BY <1>1, <1>2, <1>3, <1>4 DEF Halves
<1>6. \A f \in Ends : Halves(f)'
  BY <1>2, <1>3, <1>5, HalvesFrom
<1>7. Shape'
  BY <1>1, <1>3 DEF Shape, conn, sides, PCs, AnyJob
<1>8. QED
  BY <1>3, <1>6, <1>7 DEF Inv

(* RecHungup keeps the invariant. *)
LEMMA RecHungupKeeps ==
  ASSUME Inv, NEW e \in Ends, NEW u \in Procs, RecHungup(e, u)
  PROVE  Inv'
<1>1. /\ pc[e][u] = "read" /\ job[e][u] = None
      /\ tlsError(e)
      /\ Goto(e, u, "unlock")
      /\ UNCHANGED <<conn, opened, sides, processed, next, job, built, written, wrongkey, puzzled>>
  BY DEF RecHungup, At
<1>2. "unlock" \in PCs
  BY ReadPlaces
<1>3. Went(e, u, "unlock") /\ Got(e, u, None)
  BY <1>1, <1>2, GotoIs, StaysIs
<1>4. Worse(e) /\ DOMAIN handq' = Ends /\ handq' = [f \in Ends |-> handq'[f]]
  BY <1>1, tlsErrorWorse, tlsErrorIs
<1>5. QED
  BY <1>1, <1>2, <1>3, <1>4, ReadKeeps

(* RecClosed keeps the invariant, as RecHungup does. *)
LEMMA RecClosedKeeps ==
  ASSUME Inv, NEW e \in Ends, NEW u \in Procs, RecClosed(e, u)
  PROVE  Inv'
<1>1. /\ pc[e][u] = "rcvClose" /\ job[e][u] = None
      /\ tlsError(e)
      /\ Goto(e, u, "unlock")
      /\ UNCHANGED <<conn, opened, sides, processed, next, job, built, written, wrongkey, puzzled>>
  BY DEF RecClosed, At
<1>2. "unlock" \in PCs
  BY ReadPlaces
<1>3. Went(e, u, "unlock") /\ Got(e, u, None)
  BY <1>1, <1>2, GotoIs, StaysIs
<1>4. Worse(e) /\ DOMAIN handq' = Ends /\ handq' = [f \in Ends |-> handq'[f]]
  BY <1>1, tlsErrorWorse, tlsErrorIs
<1>5. QED
  BY <1>1, <1>2, <1>3, <1>4, ReadKeeps

(* ReadFails keeps the invariant: whoever unlocks has no job, or gets an alert. *)
LEMMA ReadFailsKeeps ==
  ASSUME Inv, NEW e \in Ends, NEW u \in Procs, ReadFails(e, u)
  PROVE  Inv'
<1>1. /\ pc[e][u] = "unlock" /\ job[e][u] = None
      /\ inio' = [inio EXCEPT ![e] = None]
      /\ NoMessage(e, u)
      /\ UNCHANGED <<conn, opened, in, out, outio, handq, processed, next, built, written,
                     wrongkey, puzzled>>
  BY DEF ReadFails, At
<1>2. Shape /\ Halves(e)
  BY DEF Inv
<1>3. /\ u \in {"hand", "reader"}
      /\ u = "reader" => pc[e]["hand"] = "open"
      /\ ~InBody(e)
  BY <1>1, WhoReads
<1>4. u = "hand" => pc[e]["hand"] \in Shaken
  BY <1>1 DEF Shaken
<1>5. UNCHANGED <<link, got, outio, built, next>>
  BY <1>1 DEF conn
<1>6. /\ \A f \in Ends : Local(f)'
      /\ ~InBody(e)'
      /\ \A f \in Ends : f # e => pc'[f] = pc[f]
      /\ pc' \in [Ends -> [Procs -> PCs]]
      /\ job' \in [Ends -> [Procs -> AnyJob]]
      /\ state' \in [Ends -> States]
  BY <1>1, <1>3, <1>4, <1>5, NoMessageKeeps
<1>7. Halves(e)'
  BY <1>2, <1>3, <1>5, <1>6 DEF Halves
<1>8. \A f \in Ends : Halves(f)'
  BY <1>5, <1>6, <1>7, HalvesFrom
<1>9. Shape'
  BY <1>1, <1>2, <1>6 DEF Shape, conn, PCs, AnyJob
<1>10. QED
  BY <1>6, <1>8, <1>9 DEF Inv

-----------------------------------------------------------------------------
(* a step of the handshaker, or of a user, in which nothing is read *)
LEMMA StepKeeps ==
  ASSUME Inv, NEW e \in Ends, NEW u \in Procs, NEW to, NEW j,
         job[e][u] = None,
         UNCHANGED <<link, got, damages, outio, built, puzzled>>,
         Went(e, u, to), Got(e, u, j), Worse(e),
         ~InBody(e), ~InBody(e)',
         \A f \in Ends : f # e => next'[f] = next[f],
         u # "hand" => next'[e] = next[e],
         next'[e] \in 1 .. Last(e), next' \in [Ends -> Nat],
         pc[e]["hand"] \in {"hangup", "closed"} => pc'[e]["hand"] \in {"hangup", "closed"},
         j \in {Fatal, Stop} => state'[e] \in {"alert", "error", "closed"},
         Placed(e)', JobOk(e, u)',
         hungup' \subseteq Ends, wrongkey' \in BOOLEAN, opened' \in [Ends -> BOOLEAN],
         processed' \in [Ends -> BOOLEAN],
         in' \in [Ends -> Sides], out' \in [Ends -> Sides],
         inio' \in [Ends -> Procs \cup {None}], written' \in [Ends -> Nat],
         DOMAIN handq' = Ends, handq' = [f \in Ends |-> handq'[f]]
  PROVE  Inv'
<1>1. Shape /\ Halves(e)
  BY DEF Inv
<1>2. UNCHANGED <<link, outio, built>>
  OBVIOUS
<1>3. \A f \in Ends : Local(f)'
  BY <1>2, Moves
<1>4. Halves(e)'
  BY <1>1 DEF Halves
<1>5. \A f \in Ends : f # e => got'[f] = got[f] /\ pc'[f] = pc[f] /\ next'[f] = next[f]
  BY DEF Went
<1>6. \A f \in Ends : Halves(f)'
  BY <1>4, <1>5, HalvesFrom
<1>7. Shape'
  BY <1>1 DEF Shape, PCs, AnyJob, Went, Got, Worse
<1>8. QED
  BY <1>3, <1>6, <1>7 DEF Inv

(* None is not the job of an alert. *)
LEMMA Alarming == None \notin {Fatal, Stop}
BY NoneIsNothing DEF Stop, Fatal, Job

(* A handshaker at its script is alone, and within the script. *)
LEMMA ScriptPlace ==
  ASSUME Inv, NEW e \in Ends, At(e, "hand", "script")
  PROVE  /\ pc[e]["hand"] = "script" /\ job[e]["hand"] = None
         /\ "hand" \in Procs
         /\ Placed(e) /\ ~InBody(e)
         /\ next[e] \in 1 .. Last(e)
         /\ Op(e).op # "opened" => next[e] < Last(e)
<1>1. Placed(e) /\ Halves(e) /\ pc[e]["hand"] = "script" /\ job[e]["hand"] = None
  BY DEF Inv, Local, At
<1>2. ~InBody(e)
  BY <1>1 DEF Placed, InBody, Shaken
<1>3. Op(e).op # "opened" => next[e] < Last(e)
  BY <1>1, ScriptFacts DEF Halves, Op
<1>4. QED
  BY <1>1, <1>2, <1>3 DEF Halves, Procs

(* HandSend keeps the invariant: the job is the one of the script. *)
LEMMA HandSendKeeps ==
  ASSUME Inv, NEW e \in Ends, HandSend(e)
  PROVE  Inv'
<1>1. /\ At(e, "hand", "script") /\ Op(e).op \in {"send", "changecipher"}
      /\ job' = [job EXCEPT ![e]["hand"] =
                   IF Op(e).op = "send" THEN Job("handshake", Op(e).msgs) ELSE Job("ccs", None)]
      /\ UNCHANGED <<conn, state, opened, sides, handq, processed, next, pc, built, written,
                     wrongkey, puzzled>>
  BY DEF HandSend
<1>2. Shape
  BY DEF Inv
<1>3. /\ pc[e]["hand"] = "script" /\ job[e]["hand"] = None
      /\ "hand" \in Procs
      /\ Placed(e) /\ ~InBody(e)
      /\ next[e] \in 1 .. Last(e)
  BY <1>1, ScriptPlace
<1>4. PICK j : j = IF Op(e).op = "send" THEN Job("handshake", Op(e).msgs) ELSE Job("ccs", None)
  OBVIOUS
<1>5. Scripted(e, j) /\ j \in AnyJob /\ j \notin {Fatal, Stop}
  <2>1. Op(e).op = "send" => Op(e).msgs \in Seq(Messages)
    BY <1>3, ScriptFacts DEF Op
  <2>2. CASE Op(e).op = "send"
    BY <1>4, <2>1, <2>2 DEF Scripted, AnyJob, Job, Types, Bodies, Fatal, Stop
  <2>3. CASE Op(e).op = "changecipher"
    BY <1>4, <2>3 DEF Scripted, AnyJob, Job, Types, Bodies, Fatal, Stop
  <2>4. QED
    BY <1>1, <2>2, <2>3
<1>6. Got(e, "hand", j) /\ Went(e, "hand", "script") /\ Worse(e)
  BY <1>1, <1>3, <1>4, <1>5, JobIs, StaysIs
<1>7. Placed(e)' /\ ~InBody(e)'
  BY <1>1, <1>3 DEF Placed, InBody
<1>8. JobOk(e, "hand")'
  BY <1>1, <1>5, <1>6 DEF JobOk, Went, Got, Scripted, Op
<1>9. /\ UNCHANGED <<link, got, damages, outio, built, puzzled>>
      /\ \A f \in Ends : f # e => next'[f] = next[f]
      /\ next'[e] \in 1 .. Last(e) /\ next' \in [Ends -> Nat]
      /\ hungup' \subseteq Ends /\ wrongkey' \in BOOLEAN /\ opened' \in [Ends -> BOOLEAN]
      /\ processed' \in [Ends -> BOOLEAN] /\ in' \in [Ends -> Sides] /\ out' \in [Ends -> Sides]
      /\ inio' \in [Ends -> Procs \cup {None}] /\ written' \in [Ends -> Nat]
      /\ DOMAIN handq' = Ends /\ handq' = [f \in Ends |-> handq'[f]]
  BY <1>1, <1>2, <1>3 DEF Shape, conn, sides
<1>10. QED
  BY <1>3, <1>5, <1>6, <1>7, <1>8, <1>9, StepKeeps

(* HandRead keeps the invariant. *)
LEMMA HandReadKeeps ==
  ASSUME Inv, NEW e \in Ends, HandRead(e)
  PROVE  Inv'
BY LockReadKeeps, ScriptPlace DEF HandRead

(* HandTake keeps the invariant: a recv is not the last of a script. *)
LEMMA HandTakeKeeps ==
  ASSUME Inv, NEW e \in Ends, HandTake(e)
  PROVE  Inv'
<1>1. /\ pc[e]["hand"] = "read" /\ job[e]["hand"] = None
      /\ inio' = [inio EXCEPT ![e] = None]
      /\ handq' = [handq EXCEPT ![e] = Tail(@)]
      /\ UNCHANGED <<conn, opened, in, out, outio, processed, built, written, wrongkey, puzzled>>
  BY DEF HandTake, At
<1>2. \/ /\ Head(handq[e]) = Op(e).msg
         /\ next' = [next EXCEPT ![e] = @ + 1]
         /\ Goto(e, "hand", "script")
         /\ UNCHANGED <<state, job>>
      \/ /\ Goto(e, "hand", "alert")
         /\ sendAlert(e, "hand", "fatal")
         /\ UNCHANGED next
  BY DEF HandTake
<1>3. Shape /\ Placed(e) /\ next[e] \in 1 .. Last(e) /\ "hand" \in Procs /\ Last(e) \in Nat
  BY DEF Inv, Local, Halves, Procs, Last
<1>4. "script" \in PCs /\ "alert" \in PCs
  BY DEF PCs, HandPC
<1>5. ~InBody(e)
  BY <1>1, <1>3 DEF Placed, InBody, Shaken
<1>6. /\ UNCHANGED <<link, got, damages, outio, built, puzzled>>
      /\ hungup' \subseteq Ends /\ wrongkey' \in BOOLEAN /\ opened' \in [Ends -> BOOLEAN]
      /\ processed' \in [Ends -> BOOLEAN] /\ in' \in [Ends -> Sides] /\ out' \in [Ends -> Sides]
      /\ inio' \in [Ends -> Procs \cup {None}] /\ written' \in [Ends -> Nat]
      /\ DOMAIN handq' = Ends /\ handq' = [f \in Ends |-> handq'[f]]
  BY <1>1, <1>3 DEF Shape, conn
<1>7. CASE /\ next' = [next EXCEPT ![e] = @ + 1]
           /\ Goto(e, "hand", "script")
           /\ UNCHANGED <<state, job>>
           /\ next[e] < Last(e)
  <2>1. Went(e, "hand", "script") /\ Got(e, "hand", None) /\ Worse(e)
    BY <1>1, <1>3, <1>4, <1>7, GotoIs, StaysIs
  <2>2. Placed(e)' /\ ~InBody(e)'
    BY <1>1, <2>1, ReaderPlaced DEF Shaken
  <2>3. JobOk(e, "hand")'
    BY <2>1 DEF JobOk, Went, Got
  <2>4. /\ \A f \in Ends : f # e => next'[f] = next[f]
        /\ next'[e] \in 1 .. Last(e) /\ next' \in [Ends -> Nat]
    BY <1>3, <1>7 DEF Shape
  <2>5. QED
    BY <1>1, <1>3, <1>5, <1>6, <2>1, <2>2, <2>3, <2>4, Alarming, StepKeeps
<1>8. CASE /\ Goto(e, "hand", "alert")
           /\ sendAlert(e, "hand", "fatal")
           /\ UNCHANGED next
  <2>1. Went(e, "hand", "alert")
    BY <1>3, <1>4, <1>8, GotoIs
  <2>2. Got(e, "hand", Fatal) /\ Worse(e) /\ state'[e] \in {"alert", "error", "closed"}
    BY <1>3, <1>8, sendAlertIs DEF Fatal
  <2>3. Placed(e)' /\ ~InBody(e)'
    BY <1>1, <2>1, ReaderPlaced DEF Shaken
  <2>4. JobOk(e, "hand")'
    BY <2>1, <2>2 DEF JobOk, Went, Got
  <2>5. /\ \A f \in Ends : f # e => next'[f] = next[f]
        /\ next'[e] \in 1 .. Last(e) /\ next' \in [Ends -> Nat]
    BY <1>3, <1>8 DEF Shape
  <2>6. QED
    BY <1>1, <1>3, <1>5, <1>6, <2>1, <2>2, <2>3, <2>4, <2>5, StepKeeps
<1>9. next[e] < Last(e)
  <2>1. JobOk(e, "hand")
    BY <1>3 DEF Inv, Local
  <2>2. Op(e).op = "recv"
    BY <1>1, <2>1 DEF JobOk
  <2>3. QED
    BY <1>3, <2>2, ScriptFacts DEF Op
<1>10. QED
  BY <1>2, <1>7, <1>8, <1>9

(* HandSecret keeps the invariant: a secret is not the last of a script. *)
LEMMA HandSecretKeeps ==
  ASSUME Inv, NEW e \in Ends, HandSecret(e)
  PROVE  Inv'
<1>1. PICK key \in {"k"} \cup (IF e = "server" THEN {"other"} ELSE {}) :
        /\ in' = [in EXCEPT ![e].new = key]
        /\ out' = [out EXCEPT ![e].new = key]
        /\ wrongkey' = (wrongkey \/ key = "other")
  BY DEF HandSecret
<1>2. /\ At(e, "hand", "script") /\ Op(e).op = "secret"
      /\ next' = [next EXCEPT ![e] = @ + 1]
      /\ UNCHANGED <<conn, state, opened, inio, outio, handq, processed, pc, job, built, written,
                     puzzled>>
  BY DEF HandSecret
<1>3. Shape
  BY DEF Inv
<1>4. /\ pc[e]["hand"] = "script" /\ job[e]["hand"] = None
      /\ "hand" \in Procs
      /\ Placed(e) /\ ~InBody(e)
      /\ next[e] \in 1 .. Last(e) /\ next[e] < Last(e) /\ Last(e) \in Nat
  BY <1>2, ScriptPlace DEF Last
<1>5. Went(e, "hand", "script") /\ Got(e, "hand", None) /\ Worse(e)
  BY <1>2, <1>4, StaysIs
<1>6. Placed(e)' /\ ~InBody(e)'
  BY <1>2, <1>4 DEF Placed, InBody
<1>7. JobOk(e, "hand")'
  BY <1>5 DEF JobOk, Went, Got
<1>8. in' \in [Ends -> Sides] /\ out' \in [Ends -> Sides]
  <2>1. key \in Keys
    BY <1>1 DEF Keys
  <2>2. in[e] \in Sides /\ out[e] \in Sides
    BY <1>3 DEF Shape
  <2>3. \A o \in Sides : [o EXCEPT !.new = key] \in Sides
    BY <2>1 DEF Sides
  <2>4. in' = [in EXCEPT ![e] = [in[e] EXCEPT !.new = key]]
        /\ out' = [out EXCEPT ![e] = [out[e] EXCEPT !.new = key]]
    BY <1>1
  <2>5. QED
    BY <1>3, <2>2, <2>3, <2>4 DEF Shape
<1>9. /\ UNCHANGED <<link, got, damages, outio, built, puzzled>>
      /\ \A f \in Ends : f # e => next'[f] = next[f]
      /\ next'[e] \in 1 .. Last(e) /\ next' \in [Ends -> Nat]
      /\ hungup' \subseteq Ends /\ wrongkey' \in BOOLEAN /\ opened' \in [Ends -> BOOLEAN]
      /\ processed' \in [Ends -> BOOLEAN]
      /\ inio' \in [Ends -> Procs \cup {None}] /\ written' \in [Ends -> Nat]
      /\ DOMAIN handq' = Ends /\ handq' = [f \in Ends |-> handq'[f]]
  BY <1>1, <1>2, <1>3, <1>4 DEF Shape, conn
<1>10. QED
  BY <1>4, <1>5, <1>6, <1>7, <1>8, <1>9, Alarming, StepKeeps

(* HandOpened keeps the invariant: the reader and the writer are idle. *)
LEMMA HandOpenedKeeps ==
  ASSUME Inv, NEW e \in Ends, HandOpened(e)
  PROVE  Inv'
<1>1. /\ At(e, "hand", "script")
      /\ \/ /\ state[e] \in {"handshake", "open"}
            /\ state' = [state EXCEPT ![e] = "open"]
            /\ opened' = [opened EXCEPT ![e] = TRUE]
            /\ Goto(e, "hand", "open")
         \/ UNCHANGED <<state, opened>> /\ Goto(e, "hand", "err")
      /\ handq' = [handq EXCEPT ![e] = None]
      /\ UNCHANGED <<conn, sides, processed, next, job, built, written, wrongkey, puzzled>>
  BY DEF HandOpened
<1>2. Shape
  BY DEF Inv
<1>3. /\ pc[e]["hand"] = "script" /\ job[e]["hand"] = None
      /\ "hand" \in Procs
      /\ Placed(e) /\ ~InBody(e)
      /\ next[e] \in 1 .. Last(e)
  BY <1>1, ScriptPlace
<1>4. PICK to \in {"open", "err"} : Went(e, "hand", to)
  BY <1>1, <1>3, GotoIs DEF PCs, HandPC
<1>5. Worse(e)
  BY <1>1, <1>2 DEF Shape, Worse, States
<1>6. Got(e, "hand", None)
  BY <1>1, <1>3, StaysIs
<1>7. Placed(e)' /\ ~InBody(e)'
  BY <1>3, <1>4 DEF Placed, InBody, Went, Procs, HandPC, ReadPC, WritePC, Shaken
<1>8. JobOk(e, "hand")'
  BY <1>4, <1>6 DEF JobOk, Went, Got
<1>9. /\ UNCHANGED <<link, got, damages, outio, built, puzzled>>
      /\ \A f \in Ends : f # e => next'[f] = next[f]
      /\ next'[e] \in 1 .. Last(e) /\ next' \in [Ends -> Nat]
      /\ hungup' \subseteq Ends /\ wrongkey' \in BOOLEAN /\ opened' \in [Ends -> BOOLEAN]
      /\ processed' \in [Ends -> BOOLEAN] /\ in' \in [Ends -> Sides] /\ out' \in [Ends -> Sides]
      /\ inio' \in [Ends -> Procs \cup {None}] /\ written' \in [Ends -> Nat]
      /\ DOMAIN handq' = Ends /\ handq' = [f \in Ends |-> handq'[f]]
  BY <1>1, <1>2, <1>3 DEF Shape, conn, sides
<1>10. pc[e]["hand"] \notin {"hangup", "closed"}
  BY <1>3
<1>11. QED
  BY <1>3, <1>4, <1>5, <1>6, <1>7, <1>8, <1>9, <1>10, Alarming, StepKeeps

(* HandClose keeps the invariant: nobody else is in a call. *)
LEMMA HandCloseKeeps ==
  ASSUME Inv, NEW e \in Ends, HandClose(e)
  PROVE  Inv'
<1>1. /\ job[e]["hand"] = None
      /\ \/ pc[e]["hand"] = "err"
         \/ /\ pc[e]["hand"] = "open" /\ pc[e]["reader"] = "idle"
            /\ pc[e]["writer"] \in {"idle", "done"}
      /\ handq' = [handq EXCEPT ![e] = None]
      /\ \/ sendAlert(e, "hand", "close") /\ Goto(e, "hand", "closing")
         \/ Goto(e, "hand", "hangup") /\ UNCHANGED <<state, job>>
      /\ UNCHANGED <<conn, opened, sides, processed, next, built, written, wrongkey, puzzled>>
  BY DEF HandClose, At
<1>2. Shape /\ Placed(e) /\ next[e] \in 1 .. Last(e) /\ "hand" \in Procs
  BY DEF Inv, Local, Halves, Procs
<1>3. ~InBody(e)
  BY <1>1, <1>2 DEF Placed, InBody, Shaken
<1>4. "closing" \in PCs /\ "hangup" \in PCs
  BY DEF PCs, HandPC
<1>5. PICK to, j : /\ Went(e, "hand", to) /\ Got(e, "hand", j) /\ Worse(e)
                   /\ \/ to = "closing" /\ j = Job("alert", "close")
                      \/ to = "hangup" /\ j = None
  <2>1. CASE sendAlert(e, "hand", "close") /\ Goto(e, "hand", "closing")
    BY <1>2, <1>4, <2>1, GotoIs, sendAlertIs
  <2>2. CASE Goto(e, "hand", "hangup") /\ UNCHANGED <<state, job>>
    BY <1>1, <1>2, <1>4, <2>2, GotoIs, StaysIs
  <2>3. QED
    BY <1>1, <2>1, <2>2
<1>6. Placed(e)' /\ ~InBody(e)'
  BY <1>1, <1>2, <1>5 DEF Placed, InBody, Went, Procs, HandPC, ReadPC, WritePC, Shaken
<1>7. JobOk(e, "hand")'
  BY <1>5 DEF JobOk, Went, Got
<1>8. /\ UNCHANGED <<link, got, damages, outio, built, puzzled>>
      /\ \A f \in Ends : f # e => next'[f] = next[f]
      /\ next'[e] \in 1 .. Last(e) /\ next' \in [Ends -> Nat]
      /\ hungup' \subseteq Ends /\ wrongkey' \in BOOLEAN /\ opened' \in [Ends -> BOOLEAN]
      /\ processed' \in [Ends -> BOOLEAN] /\ in' \in [Ends -> Sides] /\ out' \in [Ends -> Sides]
      /\ inio' \in [Ends -> Procs \cup {None}] /\ written' \in [Ends -> Nat]
      /\ DOMAIN handq' = Ends /\ handq' = [f \in Ends |-> handq'[f]]
  BY <1>1, <1>2 DEF Shape, conn, sides
<1>9. pc[e]["hand"] \notin {"hangup", "closed"}
  BY <1>1
<1>10. j \notin {Fatal, Stop}
  BY <1>5, Alarming DEF Fatal, Stop, Job
<1>11. QED
  BY <1>1, <1>2, <1>3, <1>5, <1>6, <1>7, <1>8, <1>9, <1>10, StepKeeps

(* HandHangup keeps the invariant: who has hung up stays silent. *)
LEMMA HandHangupKeeps ==
  ASSUME Inv, NEW e \in Ends, HandHangup(e)
  PROVE  Inv'
<1>1. /\ pc[e]["hand"] = "hangup" /\ job[e]["hand"] = None
      /\ Goto(e, "hand", "closed")
      /\ state' = [state EXCEPT ![e] = "closed"]
      /\ processed' = [processed EXCEPT ![e] = FALSE]
      /\ hungup' = hungup \cup {e}
      /\ UNCHANGED <<link, got, damages, opened, sides, handq, next, job, built, written,
                     wrongkey, puzzled>>
  BY DEF HandHangup, At
<1>2. Shape /\ Placed(e) /\ next[e] \in 1 .. Last(e) /\ "hand" \in Procs
  BY DEF Inv, Local, Halves, Procs
<1>3. ~InBody(e)
  BY <1>1, <1>2 DEF Placed, InBody
<1>4. "closed" \in PCs
  BY DEF PCs, HandPC
<1>5. Went(e, "hand", "closed") /\ Got(e, "hand", None)
  BY <1>1, <1>2, <1>4, GotoIs, StaysIs
<1>6. Worse(e)
  BY <1>1, <1>2 DEF Shape, Worse, States
<1>7. Placed(e)' /\ ~InBody(e)' /\ pc'[e]["hand"] = "closed"
  BY <1>1, <1>2, <1>5 DEF Placed, InBody, Went, Procs, HandPC, ReadPC, WritePC, Shaken
<1>8. JobOk(e, "hand")'
  BY <1>5 DEF JobOk, Went, Got
<1>9. /\ UNCHANGED <<link, got, damages, outio, built, puzzled>>
      /\ \A f \in Ends : f # e => next'[f] = next[f]
      /\ next'[e] \in 1 .. Last(e) /\ next' \in [Ends -> Nat]
      /\ hungup' \subseteq Ends /\ wrongkey' \in BOOLEAN /\ opened' \in [Ends -> BOOLEAN]
      /\ processed' \in [Ends -> BOOLEAN] /\ in' \in [Ends -> Sides] /\ out' \in [Ends -> Sides]
      /\ inio' \in [Ends -> Procs \cup {None}] /\ written' \in [Ends -> Nat]
      /\ DOMAIN handq' = Ends /\ handq' = [f \in Ends |-> handq'[f]]
  BY <1>1, <1>2 DEF Shape, sides
<1>10. QED
  BY <1>1, <1>2, <1>3, <1>5, <1>6, <1>7, <1>8, <1>9, Alarming, StepKeeps

(* DataRead keeps the invariant. *)
LEMMA DataReadKeeps ==
  ASSUME Inv, NEW e \in Ends, DataRead(e)
  PROVE  Inv'
BY LockReadKeeps DEF DataRead, At

(* DataTake keeps the invariant. *)
LEMMA DataTakeKeeps ==
  ASSUME Inv, NEW e \in Ends, DataTake(e)
  PROVE  Inv'
<1>1. /\ pc[e]["reader"] = "read" /\ job[e]["reader"] = None
      /\ processed' = [processed EXCEPT ![e] = FALSE]
      /\ inio' = [inio EXCEPT ![e] = None]
      /\ Goto(e, "reader", "idle")
      /\ UNCHANGED <<conn, state, opened, in, out, outio, handq, next, job, built, written,
                     wrongkey, puzzled>>
  BY DEF DataTake, At
<1>2. Shape /\ Placed(e) /\ next[e] \in 1 .. Last(e) /\ "reader" \in Procs
  BY DEF Inv, Local, Halves, Procs
<1>3. pc[e]["hand"] = "open" /\ ~InBody(e)
  BY <1>1, <1>2, WhoReads
<1>4. "idle" \in PCs
  BY DEF PCs, ReadPC
<1>5. Went(e, "reader", "idle") /\ Got(e, "reader", None) /\ Worse(e)
  BY <1>1, <1>2, <1>4, GotoIs, StaysIs
<1>6. Placed(e)' /\ ~InBody(e)'
  BY <1>3, <1>5, ReaderPlaced DEF ReadPC
<1>7. JobOk(e, "reader")'
  BY <1>5 DEF JobOk, Went, Got
<1>8. /\ UNCHANGED <<link, got, damages, outio, built, puzzled>>
      /\ \A f \in Ends : f # e => next'[f] = next[f]
      /\ next'[e] = next[e]
      /\ next'[e] \in 1 .. Last(e) /\ next' \in [Ends -> Nat]
      /\ hungup' \subseteq Ends /\ wrongkey' \in BOOLEAN /\ opened' \in [Ends -> BOOLEAN]
      /\ processed' \in [Ends -> BOOLEAN] /\ in' \in [Ends -> Sides] /\ out' \in [Ends -> Sides]
      /\ inio' \in [Ends -> Procs \cup {None}] /\ written' \in [Ends -> Nat]
      /\ DOMAIN handq' = Ends /\ handq' = [f \in Ends |-> handq'[f]]
  BY <1>1, <1>2 DEF Shape, conn
<1>9. pc[e]["hand"] \notin {"hangup", "closed"}
  BY <1>3
<1>10. QED
  BY <1>1, <1>2, <1>3, <1>5, <1>6, <1>7, <1>8, <1>9, Alarming, StepKeeps

(* DataWrite keeps the invariant. *)
LEMMA DataWriteKeeps ==
  ASSUME Inv, NEW e \in Ends, DataWrite(e)
  PROVE  Inv'
<1>1. /\ pc[e]["hand"] = "open" /\ pc[e]["writer"] = "idle" /\ job[e]["writer"] = None
      /\ \/ /\ job' = [job EXCEPT ![e]["writer"] = Job("data", None)]
            /\ written' = [written EXCEPT ![e] = @ + 1]
            /\ Goto(e, "writer", "write")
         \/ Goto(e, "writer", "done") /\ UNCHANGED <<job, written>>
      /\ UNCHANGED <<conn, state, opened, sides, handq, processed, next, built, wrongkey, puzzled>>
  BY DEF DataWrite, At
<1>2. Shape /\ Placed(e) /\ next[e] \in 1 .. Last(e) /\ "writer" \in Procs
  BY DEF Inv, Local, Halves, Procs
<1>3. "write" \in PCs /\ "done" \in PCs /\ Job("data", None) \in AnyJob
  BY DEF PCs, WritePC, AnyJob, Job, Types, Bodies
<1>4. PICK to, j : /\ Went(e, "writer", to) /\ Got(e, "writer", j) /\ Worse(e)
                   /\ \/ to = "write" /\ j = Job("data", None)
                      \/ to = "done" /\ j = None
  <2>1. CASE /\ job' = [job EXCEPT ![e]["writer"] = Job("data", None)]
             /\ Goto(e, "writer", "write")
    BY <1>1, <1>2, <1>3, <2>1, GotoIs, JobIs, StaysIs
  <2>2. CASE Goto(e, "writer", "done") /\ UNCHANGED job
    BY <1>1, <1>2, <1>3, <2>2, GotoIs, StaysIs
  <2>3. QED
    BY <1>1, <2>1, <2>2
<1>5. Placed(e)' /\ (InBody(e)' <=> InBody(e))
  BY <1>1, <1>2, <1>4 DEF Placed, InBody, Went, Procs, HandPC, ReadPC, WritePC, Shaken
<1>6. JobOk(e, "writer")'
  BY <1>4 DEF JobOk, Went, Got
<1>7. j \notin {Fatal, Stop}
  BY <1>4, Alarming DEF Fatal, Stop, Job
<1>8. /\ UNCHANGED <<link, got, outio, built, next>>
      /\ \A f \in Ends : f # e => next'[f] = next[f] /\ got'[f] = got[f] /\ pc'[f] = pc[f]
      /\ next'[e] = next[e]
      /\ pc[e]["hand"] \notin {"hangup", "closed"}
  BY <1>1, <1>4 DEF conn, sides, Went
<1>9. \A f \in Ends : Local(f)'
  BY <1>1, <1>2, <1>4, <1>5, <1>6, <1>7, <1>8, Moves
<1>10. Halves(e)'
  BY <1>5, <1>8 DEF Inv, Halves
<1>11. \A f \in Ends : Halves(f)'
  BY <1>8, <1>10, HalvesFrom
<1>12. Shape'
  <2>1. written' \in [Ends -> Nat]
    <3>1. written \in [Ends -> Nat] /\ written[e] + 1 \in Nat
      BY <1>2 DEF Shape
    <3>2. written' = [written EXCEPT ![e] = written[e] + 1] \/ written' = written
      BY <1>1
    <3>3. QED
      BY <3>1, <3>2
  <2>2. QED
    BY <1>1, <1>2, <1>4, <2>1 DEF Shape, conn, sides, PCs, AnyJob, Went, Got, Worse
<1>13. QED
  BY <1>9, <1>11, <1>12 DEF Inv

(* The invariant holds initially, *)
LEMMA InitHolds == Init => Inv
<1>1. SUFFICES ASSUME Init PROVE Inv
  OBVIOUS
<1>2. /\ "hand" \in HandPC \cup ReadPC \cup WritePC \/ TRUE
      /\ "script" \in HandPC \cup ReadPC \cup WritePC /\ "idle" \in HandPC \cup ReadPC \cup WritePC
      /\ "handshake" \in States /\ OneWay \in Sides
  BY DEF HandPC, ReadPC, States, OneWay, Sides, Keys
<1>3. <<>> \in Seq(Records)
  OBVIOUS
<1>4. Shape
  BY <1>1, <1>2, <1>3 DEF Init, Shape
<1>5. ASSUME NEW e \in Ends PROVE Local(e) /\ Halves(e)
  <2>1. /\ link[e] = <<>> /\ outio[e] = None /\ next[e] = 1 /\ got[e] = 0
        /\ pc[e]["hand"] = "script" /\ pc[e]["reader"] = "idle" /\ pc[e]["writer"] = "idle"
        /\ \A u \in Procs : job[e][u] = None /\ (u # "hand" => pc[e][u] = "idle")
    BY <1>1, <1>5 DEF Init, Procs
  <2>2. Placed(e)
    BY <2>1 DEF Placed, HandPC, ReadPC, WritePC
  <2>3. \A u \in Procs : JobOk(e, u)
    BY <2>1 DEF JobOk, Procs
  <2>4. Building(e) /\ Alarmed(e)
    BY <2>1, Alarming DEF Building, Alarmed
  <2>5. Quiet(e)
    BY <2>1 DEF Quiet, HasAlert
  <2>6. link[Peer(e)] = <<>>
    BY <1>1 DEF Init, Peer, Ends
  <2>7. Halves(e)
    BY <2>1, <2>6 DEF Halves, InBody, Last
  <2>8. QED
    BY <2>2, <2>3, <2>4, <2>5, <2>7 DEF Local
<1>6. QED
  BY <1>4, <1>5 DEF Inv

(* when nothing changes, *)
LEMMA Unchanged == Inv /\ UNCHANGED vars => Inv'
<1>1. SUFFICES ASSUME Inv, UNCHANGED vars PROVE Inv'
  OBVIOUS
<1>2. Shape'
  BY <1>1 DEF Inv, Shape, vars, conn, sides
<1>3. ASSUME NEW f \in Ends PROVE Local(f)' /\ Halves(f)'
  <2>1. Local(f)'
    BY <1>1, <1>3, EndStays DEF vars, conn, sides
  <2>2. Halves(f)'
    BY <1>1, <1>3 DEF vars, conn, sides, Inv, Halves, InBody
  <2>3. QED
    BY <2>1, <2>2
<1>4. QED
  BY <1>2, <1>3 DEF Inv

(* when the network fails, *)
LEMMA DisconnectKeeps == Inv /\ Disconnect => Inv'
<1>1. SUFFICES ASSUME Inv, Disconnect PROVE Inv'
  OBVIOUS
<1>2. Shape'
  BY <1>1 DEF Disconnect, Inv, Shape, sides
<1>3. ASSUME NEW f \in Ends PROVE Local(f)' /\ Halves(f)'
  <2>1. Local(f)'
    BY <1>1, <1>3, EndStays DEF Disconnect, sides
  <2>2. Halves(f)'
    BY <1>1, <1>3 DEF Disconnect, Inv, Halves, InBody
  <2>3. QED
    BY <2>1, <2>2
<1>4. QED
  BY <1>2, <1>3 DEF Inv

(* when a process works on a record, *)
LEMMA WorkingKeeps ==
  ASSUME Inv, NEW e \in Ends, NEW u \in Procs, Working(e, u)
  PROVE  Inv'
BY RecBuildKeeps, RecRefusedKeeps, RecWriteKeeps, RecWriteFailsKeeps, AlertSentKeeps,
   HeaderReadKeeps, RecPuzzledKeeps, RecReadKeeps, RecClosedKeeps, RecHungupKeeps,
   ReadFailsKeeps DEF Working

(* and so in every step. *)
LEMMA NextKeeps == Inv /\ [Next]_vars => Inv'
<1>1. SUFFICES ASSUME Inv, [Next]_vars PROVE Inv'
  OBVIOUS
<1>2. CASE UNCHANGED vars
  BY <1>1, <1>2, Unchanged
<1>3. CASE Disconnect
  BY <1>1, <1>3, DisconnectKeeps
<1>4. ASSUME NEW e \in Ends,
             \/ Shaking(e) \/ Using(e) \/ DataTake(e)
             \/ Working(e, "reader") \/ Working(e, "writer")
             \/ \E u \in Procs : Interrupted(e, u)
      PROVE  Inv'
  <2>1. "hand" \in Procs /\ "reader" \in Procs /\ "writer" \in Procs
    BY DEF Procs
  <2>2. CASE Shaking(e)
    BY <1>1, <1>4, <2>1, <2>2, WorkingKeeps, HandSendKeeps, HandReadKeeps, HandTakeKeeps,
       HandSecretKeeps, HandOpenedKeeps, HandCloseKeeps, HandHangupKeeps DEF Shaking
  <2>3. CASE Using(e)
    BY <1>1, <1>4, <2>3, DataReadKeeps, DataWriteKeeps, HandCloseKeeps DEF Using
  <2>4. QED
    BY <1>1, <1>4, <2>1, <2>2, <2>3, DataTakeKeeps, WorkingKeeps, InterruptedKeeps
<1>5. QED
  BY <1>1, <1>2, <1>3, <1>4 DEF Next

(* For any number of records and of damages, the invariant holds in every state. *)
THEOREM Invariance == Spec => []Inv
<1>1. QED
  BY InitHolds, NextKeeps, PTL DEF Spec

(* Every variable keeps its type, and an end never consumes more than was sent. *)
THEOREM TypesAreKept == Spec => []TypeOK
<1>1. Inv => TypeOK
  <2>1. SUFFICES ASSUME Inv PROVE TypeOK
    OBVIOUS
  <2>2. ASSUME NEW e \in Ends PROVE got[e] \in 0 .. 2 * Len(link[Peer(e)])
    <3>1. Peer(e) \in Ends
      BY DEF Peer, Ends
    <3>2. QED
      BY <2>1, <2>2, <3>1 DEF Inv, Shape, Halves
  <2>3. QED
    BY <2>1, <2>2 DEF Inv, Shape, TypeOK, Sides
<1>2. QED
  BY <1>1, Invariance, PTL

(* After a fatal alert or a close notify an end of devtls.c writes nothing, whichever
   of its processes were about to write (checkstate under out.io, and tlsError). *)
THEOREM NothingFollowsAnAlert == Spec => []AlertIsLast
<1>1. Inv => AlertIsLast
  BY DEF Inv, Local, Quiet, AlertIsLast
<1>2. QED
  BY <1>1, Invariance, PTL

(* rclose is the state of an end only while the read that took its peer's close notify
   is about to fail. *)
Closes ==
  \A e \in Ends : state[e] = "rclose" => \E u \in Procs : pc[e][u] = "rcvClose"

(* A step of e's u alone; if it leaves rclose, then to whoever is still about to fail. *)
Turn(e, u) ==
  /\ \A f \in Ends : f # e => pc'[f] = pc[f] /\ state'[f] = state[f]
  /\ \A v \in Procs : v # u => pc'[e][v] = pc[e][v]
  /\ state'[e] = "rclose" => \/ pc'[e][u] = "rcvClose"
                             \/ state[e] = "rclose" /\ pc[e][u] # "rcvClose"

(* Such a step keeps Closes. *)
LEMMA TurnCloses ==
  ASSUME Closes, NEW e \in Ends, NEW u \in Procs, Turn(e, u)
  PROVE  Closes'
<1>1. ASSUME NEW f \in Ends, state'[f] = "rclose"
      PROVE  \E v \in Procs : pc'[f][v] = "rcvClose"
  <2>1. CASE f # e
    BY <1>1, <2>1 DEF Turn, Closes
  <2>2. CASE f = e
    <3>1. CASE pc'[e][u] = "rcvClose"
      BY <2>2, <3>1
    <3>2. CASE state[e] = "rclose" /\ pc[e][u] # "rcvClose"
      <4>1. PICK v \in Procs : pc[e][v] = "rcvClose"
        BY <3>2 DEF Closes
      <4>2. pc'[e][v] = "rcvClose"
        BY <3>2, <4>1 DEF Turn
      <4> QED BY <2>2, <4>2
    <3> QED BY <1>1, <2>2, <3>1, <3>2 DEF Turn
  <2> QED BY <2>1, <2>2
<1> QED BY <1>1 DEF Closes

(* A record that is written, or refused, leaves no better state than error. *)
LEMMA WritingTurns ==
  ASSUME Inv, NEW e \in Ends, NEW u \in Procs,
         \/ RecBuild(e, u) \/ RecRefused(e, u) \/ RecWrite(e, u) \/ RecWriteFails(e, u)
         \/ AlertSent(e, u)
  PROVE  Turn(e, u)
<1>1. CASE RecBuild(e, u)
  <2>1. UNCHANGED <<pc, state>> /\ job[e][u] # None
    BY <1>1 DEF RecBuild
  <2> QED BY <2>1, JobPlace DEF Turn
<1>2. ASSUME NEW ok \in BOOLEAN, job[e][u] # None, Returns(e, u, ok),
             UNCHANGED state \/ tlsError(e)
      PROVE  Turn(e, u)
  <2>1. /\ \A f \in Ends : f # e => pc'[f] = pc[f]
        /\ \A v \in Procs : v # u => pc'[e][v] = pc[e][v]
    BY <1>2, AfterJobIs
  <2>2. pc[e][u] # "rcvClose"
    BY <1>2, JobPlace
  <2>3. /\ \A f \in Ends : f # e => state'[f] = state[f]
        /\ state'[e] = "rclose" => state[e] = "rclose"
    BY <1>2, tlsErrorIs
  <2> QED BY <2>1, <2>2, <2>3 DEF Turn
<1>3. outio[e] = u => job[e][u] # None
  BY NoneIsNothing DEF Inv, Local, Building, Procs
<1>4. CASE RecRefused(e, u)
  BY <1>2, <1>4 DEF RecRefused
<1>5. CASE RecWrite(e, u)
  BY <1>2, <1>3, <1>5 DEF RecWrite
<1>6. CASE RecWriteFails(e, u)
  BY <1>2, <1>3, <1>6 DEF RecWriteFails
<1>7. CASE AlertSent(e, u)
  <2>1. job[e][u] # None
    BY <1>7, NoneIsNothing DEF AlertSent, Job
  <2> QED BY <1>2, <1>7, <2>1 DEF AlertSent
<1> QED BY <1>1, <1>4, <1>5, <1>6, <1>7

(* After a read that failed the state is what it was, or that of a fatal alert. *)
LEMMA NoMessageTurns ==
  ASSUME Inv, NEW e \in Ends, NEW u \in {"hand", "reader"}, job[e][u] = None, NoMessage(e, u),
         pc[e][u] # "rcvClose"
  PROVE  Turn(e, u)
<1>1. PICK to \in PCs, j \in AnyJob : Went(e, u, to) /\ Got(e, u, j) /\ Worse(e)
  BY NoMessageIs
<1>2. UNCHANGED state \/ sendAlert(e, u, "fatal")
  BY DEF NoMessage
<1>3. state'[e] = "rclose" => state[e] = "rclose"
  BY <1>2, sendAlertIs DEF Procs
<1> QED BY <1>1, <1>3 DEF Turn, Went, Worse

(* A read fails with tlsError, or its record does not change the state, or was a close. *)
LEMMA ReadingTurns ==
  ASSUME Inv, NEW e \in Ends, NEW u \in Procs,
         \/ HeaderRead(e, u) \/ RecPuzzled(e, u) \/ RecRead(e, u) \/ RecClosed(e, u)
         \/ RecHungup(e, u) \/ ReadFails(e, u) \/ Interrupted(e, u)
  PROVE  Turn(e, u)
<1>1. CASE HeaderRead(e, u) \/ Interrupted(e, u)
  <2>1. /\ UNCHANGED state /\ pc[e][u] \in {"read", "body"}
        /\ Goto(e, u, "body") \/ Goto(e, u, "unlock")
    BY <1>1 DEF HeaderRead, Interrupted, At
  <2>2. Went(e, u, "body") \/ Went(e, u, "unlock")
    BY <2>1, GotoIs, ReadPlaces
  <2> QED BY <2>1, <2>2 DEF Turn, Went
<1>2. CASE RecPuzzled(e, u)
  <2>1. pc[e][u] = "body" /\ Went(e, u, "rcvError")
    BY <1>2, ConsumeIs, GotoIs, ReadPlaces DEF RecPuzzled
  <2>2. Worse(e) /\ state'[e] # "rclose"
    BY <1>2, sendAlertIs DEF RecPuzzled
  <2> QED BY <2>1, <2>2 DEF Turn, Went, Worse
<1>3. CASE RecClosed(e, u) \/ RecHungup(e, u)
  <2>1. tlsError(e) /\ Goto(e, u, "unlock")
    BY <1>3 DEF RecClosed, RecHungup
  <2>2. Went(e, u, "unlock") /\ Worse(e) /\ state'[e] = "error"
    BY <2>1, GotoIs, ReadPlaces, tlsErrorWorse, tlsErrorIs
  <2> QED BY <2>2 DEF Turn, Went, Worse
<1>4. CASE RecRead(e, u)
  <2>1. /\ pc[e][u] = "body" /\ Worse(e)
        /\ Went(e, u, "read") \/ Went(e, u, "unlock") \/ Went(e, u, "rcvClose")
    BY <1>4, RecReadIs, ConsumeIs
  <2>2. UNCHANGED state \/ tlsError(e) \/ Goto(e, u, "rcvClose")
    BY <1>4 DEF RecRead
  <2>3. state'[e] = "rclose" => state[e] = "rclose" \/ pc'[e][u] = "rcvClose"
    BY <2>2, tlsErrorIs, GotoIs, ReadPlaces DEF Went
  <2> QED BY <2>1, <2>3 DEF Turn, Went, Worse
<1>5. CASE ReadFails(e, u)
  <2>1. pc[e][u] = "unlock" /\ job[e][u] = None /\ NoMessage(e, u)
    BY <1>5 DEF ReadFails, At
  <2> QED BY <2>1, WhoReads, NoMessageTurns
<1> QED BY <1>1, <1>2, <1>3, <1>4, <1>5

(* The calls of the handshaker and of the users of data change only their own place. *)
LEMMA CallsTurn ==
  ASSUME Inv, NEW e \in Ends
  PROVE  /\ \/ HandSend(e) \/ HandRead(e) \/ HandTake(e) \/ HandSecret(e) \/ HandOpened(e)
            \/ HandClose(e) \/ HandHangup(e)
            => Turn(e, "hand")
         /\ DataRead(e) \/ DataTake(e) => Turn(e, "reader")
         /\ DataWrite(e) => Turn(e, "writer")
<1>1. "hand" \in Procs /\ "reader" \in Procs /\ "writer" \in Procs
  BY DEF Procs
<1>2. {"read", "script", "alert", "open", "err", "closing", "hangup", "closed", "idle", "write", "done"}
        \subseteq PCs
  BY DEF PCs, HandPC, ReadPC, WritePC
<1>3. Shape
  BY DEF Inv
<1>4. ASSUME NEW u \in {"hand", "reader"}, NEW ok, pc[e][u] \in {"script", "idle"}, job[e][u] = None,
             LockRead(e, u, ok)
      PROVE  Turn(e, u)
  <2>1. CASE UNCHANGED state /\ Goto(e, u, "read")
    BY <1>1, <1>2, <1>4, <2>1, GotoIs DEF Turn, Went
  <2>2. CASE NoMessage(e, u)
    BY <1>4, <2>2, NoMessageTurns
  <2> QED BY <1>4, <2>1, <2>2 DEF LockRead
<1>5. ASSUME HandSend(e) \/ HandSecret(e)
      PROVE  Turn(e, "hand")
  BY <1>5 DEF HandSend, HandSecret, At, Turn
<1>6. ASSUME HandRead(e)
      PROVE  Turn(e, "hand")
  BY <1>4, <1>6 DEF HandRead, At
<1>7. ASSUME DataRead(e)
      PROVE  Turn(e, "reader")
  BY <1>4, <1>7 DEF DataRead, At
<1>8. ASSUME HandTake(e)
      PROVE  Turn(e, "hand")
  <2>1. /\ pc[e]["hand"] = "read"
        /\ \/ Goto(e, "hand", "script") /\ UNCHANGED state
           \/ Goto(e, "hand", "alert") /\ sendAlert(e, "hand", "fatal")
    BY <1>8 DEF HandTake, At
  <2>2. Went(e, "hand", "script") \/ Went(e, "hand", "alert")
    BY <1>1, <1>2, <2>1, GotoIs
  <2>3. Worse(e) /\ (UNCHANGED state \/ state'[e] # "rclose")
    BY <1>1, <2>1, sendAlertIs, StaysIs
  <2> QED BY <2>1, <2>2, <2>3 DEF Turn, Went, Worse
<1>9. ASSUME HandOpened(e)
      PROVE  Turn(e, "hand")
  <2>1. /\ pc[e]["hand"] = "script"
        /\ Goto(e, "hand", "open") \/ Goto(e, "hand", "err")
        /\ UNCHANGED state \/ state' = [state EXCEPT ![e] = "open"]
    BY <1>9 DEF HandOpened, At
  <2>2. Went(e, "hand", "open") \/ Went(e, "hand", "err")
    BY <1>1, <1>2, <2>1, GotoIs
  <2> QED BY <1>3, <2>1, <2>2 DEF Turn, Went, Shape
<1>10. ASSUME HandClose(e)
      PROVE  Turn(e, "hand")
  <2>1. /\ pc[e]["hand"] \in {"err", "open"}
        /\ Goto(e, "hand", "closing") \/ Goto(e, "hand", "hangup")
        /\ UNCHANGED state \/ sendAlert(e, "hand", "close")
    BY <1>10 DEF HandClose, At
  <2>2. Went(e, "hand", "closing") \/ Went(e, "hand", "hangup")
    BY <1>1, <1>2, <2>1, GotoIs
  <2>3. Worse(e) /\ state'[e] = state[e]
    BY <1>1, <2>1, sendAlertIs, StaysIs
  <2> QED BY <2>1, <2>2, <2>3 DEF Turn, Went, Worse
<1>11. ASSUME HandHangup(e)
      PROVE  Turn(e, "hand")
  <2>1. Went(e, "hand", "closed") /\ state' = [state EXCEPT ![e] = "closed"]
    BY <1>1, <1>2, <1>11, GotoIs DEF HandHangup
  <2> QED BY <1>3, <2>1 DEF Turn, Went, Shape
<1>12. ASSUME DataTake(e)
      PROVE  Turn(e, "reader")
  <2>1. pc[e]["reader"] = "read" /\ Goto(e, "reader", "idle") /\ UNCHANGED state
    BY <1>12 DEF DataTake, At
  <2> QED BY <1>1, <1>2, <2>1, GotoIs DEF Turn, Went
<1>13. ASSUME DataWrite(e)
      PROVE  Turn(e, "writer")
  <2>1. /\ pc[e]["writer"] = "idle" /\ UNCHANGED state
        /\ Goto(e, "writer", "write") \/ Goto(e, "writer", "done")
    BY <1>13 DEF DataWrite, At
  <2> QED BY <1>1, <1>2, <2>1, GotoIs DEF Turn, Went
<1> QED BY <1>5, <1>6, <1>7, <1>8, <1>9, <1>10, <1>11, <1>12, <1>13

(* No step leaves rclose to nobody. *)
LEMMA ClosesKept == Inv /\ Closes /\ [Next]_vars => Closes'
<1>1. SUFFICES ASSUME Inv, Closes, [Next]_vars PROVE Closes'
  OBVIOUS
<1>2. CASE UNCHANGED vars \/ Disconnect
  BY <1>1, <1>2 DEF vars, Disconnect, Closes
<1>3. ASSUME NEW e \in Ends,
             \/ Shaking(e) \/ Using(e) \/ DataTake(e)
             \/ Working(e, "reader") \/ Working(e, "writer")
             \/ \E u \in Procs : Interrupted(e, u)
      PROVE  Closes'
  <2>1. "hand" \in Procs /\ "reader" \in Procs /\ "writer" \in Procs
    BY DEF Procs
  <2>2. ASSUME NEW u \in Procs, Working(e, u) \/ Interrupted(e, u)
        PROVE  Closes'
    <3>1. Turn(e, u)
      BY <1>1, <2>2, WritingTurns, ReadingTurns DEF Working
    <3> QED BY <1>1, <3>1, TurnCloses
  <2>3. CASE \/ HandSend(e) \/ HandRead(e) \/ HandTake(e) \/ HandSecret(e) \/ HandOpened(e)
             \/ HandClose(e) \/ HandHangup(e) \/ DataRead(e) \/ DataTake(e) \/ DataWrite(e)
    <3>1. \E u \in Procs : Turn(e, u)
      BY <1>1, <2>1, <2>3, CallsTurn
    <3> QED BY <1>1, <3>1, TurnCloses
  <2> QED BY <1>3, <2>1, <2>2, <2>3 DEF Shaking, Using
<1> QED BY <1>1, <1>2, <1>3 DEF Next

(* A close notify that is received is not answered by one.  When the last close tests
   the state (devtls.c:583) nobody is in a read, and the read that took the close notify
   has called tlsError (786-790, 856-860): SRClose never permits a record there. *)
THEOREM CloseIsNotAnswered ==
  Spec => [](\A e \in Ends :
    (pc[e]["hand"] = "err" \/ (pc[e]["hand"] = "open" /\ pc[e]["reader"] = "idle")) =>
      state[e] # "rclose")
<1>1. Init => Closes
  BY DEF Init, Closes, Ends
<1>2. Inv /\ Closes =>
        \A e \in Ends :
          (pc[e]["hand"] = "err" \/ (pc[e]["hand"] = "open" /\ pc[e]["reader"] = "idle")) =>
            state[e] # "rclose"
  BY DEF Inv, Local, Placed, Closes, Procs, Shaken, WritePC
<1> QED BY <1>1, <1>2, ClosesKept, Invariance, PTL DEF Spec
-----------------------------------------------------------------------------
(* which of e's records is its Finished, which its change of keys; where in its
   script it tells the record layer the secret *)
LastAt(e) == IF e = "client" THEN 4 ELSE 3
CcsAt(e) == LastAt(e) - 1
SecretAt(e) == IF e = "client" THEN 5 ELSE 4

(* how many records e has sent, and consumed, when it is at entry n of its script,
   and how many messages wait in handq *)
Sent(e, n) ==
  IF e = "client"
  THEN IF n <= 1 THEN 0 ELSE IF n <= 6 THEN 1 ELSE IF n <= 7 THEN 2 ELSE IF n <= 8 THEN 3 ELSE 4
  ELSE IF n <= 2 THEN 0 ELSE IF n <= 6 THEN 1 ELSE IF n <= 7 THEN 2 ELSE 3

Heard(e, n) ==
  IF e = "client"
  THEN IF n <= 2 THEN 0 ELSE IF n <= 9 THEN 1 ELSE 3
  ELSE IF n <= 1 THEN 0 ELSE IF n <= 3 THEN 1 ELSE IF n <= 5 THEN 2 ELSE 4

Left(e, n) == IF e = "client" /\ n \in {3, 4} THEN 5 - n ELSE 0

(* record i of e's script *)
Planned(e, i) ==
  IF i = CcsAt(e) THEN Job("ccs", None)
  ELSE Job("handshake",
           IF i = LastAt(e) THEN <<"Finished">>
           ELSE IF e = "server" THEN <<"ServerHello", "Certificate", "ServerHelloDone">>
           ELSE IF i = 1 THEN <<"ClientHello">> ELSE <<"ClientKeyExchange">>)

(* the key and the sequence number of e's record i *)
KeyAt(e, i) == IF i <= CcsAt(e) THEN None ELSE "k"
SeqAt(e, i) == IF i <= CcsAt(e) THEN 0 ELSE i - CcsAt(e) - 1

(* r is as e's record i has to be: an alert, one of the script, or data. *)
RecordOk(e, i, r) ==
  /\ r.key = KeyAt(e, i) /\ r.seq = SeqAt(e, i)
  /\ \/ r.type = "alert"
     \/ i <= LastAt(e) /\ r.type = Planned(e, i).type /\ r.body = Planned(e, i).body
     \/ i > LastAt(e) /\ r.type = "data"

(* a direction in which k records of e have gone, known if the secret is *)
Expect(e, k, known) ==
  [sec |-> KeyAt(e, k + 1), new |-> IF k < CcsAt(e) /\ known THEN "k" ELSE None,
   seq |-> SeqAt(e, k + 1)]

(* The scripts, entry by entry. *)
LEMMA ScriptIs ==
  /\ /\ Script("client")[1] = Send(<<"ClientHello">>)
     /\ Script("client")[2] = Recv("ServerHello")
     /\ Script("client")[3] = Recv("Certificate")
     /\ Script("client")[4] = Recv("ServerHelloDone")
     /\ Script("client")[5] = Ctl("secret")
     /\ Script("client")[6] = Send(<<"ClientKeyExchange">>)
     /\ Script("client")[7] = Ctl("changecipher")
     /\ Script("client")[8] = Send(<<"Finished">>)
     /\ Script("client")[9] = Recv("Finished")
     /\ Script("client")[10] = Ctl("opened")
  /\ /\ Script("server")[1] = Recv("ClientHello")
     /\ Script("server")[2] = Send(<<"ServerHello", "Certificate", "ServerHelloDone">>)
     /\ Script("server")[3] = Recv("ClientKeyExchange")
     /\ Script("server")[4] = Ctl("secret")
     /\ Script("server")[5] = Recv("Finished")
     /\ Script("server")[6] = Ctl("changecipher")
     /\ Script("server")[7] = Send(<<"Finished">>)
     /\ Script("server")[8] = Ctl("opened")
BY DEF Script, tlsClient2, tlsServer2

(* The tables hold numbers. *)
LEMMA Counting ==
  ASSUME NEW e \in Ends, NEW n \in 1 .. Last(e)
  PROVE  /\ Sent(e, n) \in Nat /\ Heard(e, n) \in Nat /\ Left(e, n) \in Nat
         /\ LastAt(e) \in Nat /\ CcsAt(e) \in Nat /\ SecretAt(e) \in Nat
         /\ CcsAt(e) < LastAt(e)
BY DEF Sent, Heard, Left, LastAt, CcsAt, SecretAt, Last, Ends

(* At a send, the record that the script asks for is the next that is planned. *)
LEMMA SendPlan ==
  ASSUME NEW e \in Ends, NEW n \in 1 .. Last(e), Script(e)[n].op = "send"
  PROVE  /\ Planned(e, Sent(e, n) + 1) = Job("handshake", Script(e)[n].msgs)
         /\ Sent(e, n) + 1 <= LastAt(e) /\ Sent(e, n) + 1 # CcsAt(e)
         /\ Sent(e, n + 1) = Sent(e, n) + 1
         /\ Heard(e, n + 1) = Heard(e, n) /\ Left(e, n + 1) = Left(e, n)
         /\ n # SecretAt(e)
<1>1. CASE e = "client"
  <2>1. n \in {1, 2, 3, 4, 5, 6, 7, 8, 9, 10}
    BY <1>1 DEF Last
  <2>2. n \in {1, 6, 8}
    BY <1>1, <2>1, ScriptIs DEF Recv, Ctl
  <2>3. CASE n = 1
    BY <1>1, <2>3, ScriptIs DEF Send, Planned, Job, LastAt, CcsAt, Sent, Heard, Left, SecretAt
  <2>4. CASE n = 6
    BY <1>1, <2>4, ScriptIs DEF Send, Planned, Job, LastAt, CcsAt, Sent, Heard, Left, SecretAt
  <2>5. CASE n = 8
    BY <1>1, <2>5, ScriptIs DEF Send, Planned, Job, LastAt, CcsAt, Sent, Heard, Left, SecretAt
  <2>6. QED
    BY <2>2, <2>3, <2>4, <2>5
<1>2. CASE e = "server"
  <2>1. n \in {1, 2, 3, 4, 5, 6, 7, 8}
    BY <1>2 DEF Last
  <2>2. n \in {2, 7}
    BY <1>2, <2>1, ScriptIs DEF Recv, Ctl
  <2>3. CASE n = 2
    BY <1>2, <2>3, ScriptIs DEF Send, Planned, Job, LastAt, CcsAt, Sent, Heard, Left, SecretAt
  <2>4. CASE n = 7
    BY <1>2, <2>4, ScriptIs DEF Send, Planned, Job, LastAt, CcsAt, Sent, Heard, Left, SecretAt
  <2>5. QED
    BY <2>2, <2>3, <2>4
<1>3. QED
  BY <1>1, <1>2 DEF Ends

(* What holds at a changecipher, at the secret and at opened: the keys change after
   the secret is known, and the secret comes before either side has changed. *)
LEMMA CtlPlan ==
  ASSUME NEW e \in Ends, NEW n \in 1 .. Last(e)
  PROVE  /\ Script(e)[n].op = "changecipher" =>
              /\ Sent(e, n) + 1 = CcsAt(e) /\ n > SecretAt(e)
              /\ Sent(e, n + 1) = Sent(e, n) + 1
              /\ Heard(e, n + 1) = Heard(e, n) /\ Left(e, n + 1) = Left(e, n)
         /\ Script(e)[n].op = "secret" =>
              /\ n = SecretAt(e)
              /\ Sent(e, n) < CcsAt(e) /\ Heard(e, n) < CcsAt(Peer(e))
              /\ Sent(e, n + 1) = Sent(e, n)
              /\ Heard(e, n + 1) = Heard(e, n) /\ Left(e, n + 1) = Left(e, n)
         /\ Script(e)[n].op = "opened" =>
              n = Last(e) /\ Sent(e, n) = LastAt(e) /\ Heard(e, n) = LastAt(Peer(e))
<1>1. CASE e = "client"
  <2>1. n \in {1, 2, 3, 4, 5, 6, 7, 8, 9, 10}
    BY <1>1 DEF Last
  <2>2. CASE n \in {1, 2, 3, 4, 6, 8, 9}
    BY <1>1, <2>2, ScriptIs DEF Send, Recv
  <2>3. CASE n = 5
    BY <1>1, <2>3, ScriptIs DEF Ctl, LastAt, CcsAt, Sent, Heard, Left, SecretAt, Peer
  <2>4. CASE n = 7
    BY <1>1, <2>4, ScriptIs DEF Ctl, LastAt, CcsAt, Sent, Heard, Left, SecretAt, Peer
  <2>5. CASE n = 10
    BY <1>1, <2>5, ScriptIs DEF Ctl, LastAt, CcsAt, Sent, Heard, Left, SecretAt, Peer, Last
  <2>6. QED
    BY <2>1, <2>2, <2>3, <2>4, <2>5
<1>2. CASE e = "server"
  <2>1. n \in {1, 2, 3, 4, 5, 6, 7, 8}
    BY <1>2 DEF Last
  <2>2. CASE n \in {1, 2, 3, 5, 7}
    BY <1>2, <2>2, ScriptIs DEF Send, Recv
  <2>3. CASE n = 4
    BY <1>2, <2>3, ScriptIs DEF Ctl, LastAt, CcsAt, Sent, Heard, Left, SecretAt, Peer
  <2>4. CASE n = 6
    BY <1>2, <2>4, ScriptIs DEF Ctl, LastAt, CcsAt, Sent, Heard, Left, SecretAt, Peer
  <2>5. CASE n = 8
    BY <1>2, <2>5, ScriptIs DEF Ctl, LastAt, CcsAt, Sent, Heard, Left, SecretAt, Peer, Last
  <2>6. QED
    BY <2>1, <2>2, <2>3, <2>4, <2>5
<1>3. QED
  BY <1>1, <1>2 DEF Ends

(* What a recv still has to consume: the peer's change of keys, which comes when the
   secret is known, or one record of as many messages as the next entries take. *)
LEMMA RecvPlan ==
  ASSUME NEW e \in Ends, NEW n \in 1 .. Last(e), Script(e)[n].op = "recv"
  PROVE  /\ n # SecretAt(e)
         /\ Sent(e, n + 1) = Sent(e, n)
         /\ Heard(e, n) <= Heard(e, n + 1)
         /\ Heard(e, n) < Heard(e, n + 1) => Left(e, n) = 0
         /\ Heard(e, n) = Heard(e, n + 1) => Left(e, n) = Left(e, n + 1) + 1
         /\ Heard(e, n + 1) \in Nat /\ Left(e, n + 1) \in Nat
         /\ \A k \in Nat : Heard(e, n) <= k /\ k < Heard(e, n + 1) =>
              LET p == Planned(Peer(e), k + 1) IN
              /\ k + 1 <= LastAt(Peer(e))
              /\ \/ /\ k + 1 = CcsAt(Peer(e)) /\ n > SecretAt(e) /\ k + 1 < Heard(e, n + 1)
                    /\ p.type = "ccs"
                 \/ /\ k + 1 # CcsAt(Peer(e)) /\ k + 1 = Heard(e, n + 1)
                    /\ p.type = "handshake"
                    /\ p.body \in Seq(Messages) /\ Len(p.body) = Left(e, n + 1) + 1
<1>1. CASE e = "client"
  <2>1. n \in {1, 2, 3, 4, 5, 6, 7, 8, 9, 10}
    BY <1>1 DEF Last
  <2>2. n \in {2, 3, 4, 9}
    BY <1>1, <2>1, ScriptIs DEF Send, Ctl
  <2>3. CASE n = 2
    BY <1>1, <2>3, Flights DEF Planned, Job, LastAt, CcsAt, Sent, Heard, Left, SecretAt, Peer
  <2>4. CASE n = 3
    BY <1>1, <2>4 DEF LastAt, CcsAt, Sent, Heard, Left, SecretAt, Peer
  <2>5. CASE n = 4
    BY <1>1, <2>5 DEF LastAt, CcsAt, Sent, Heard, Left, SecretAt, Peer
  <2>6. CASE n = 9
    BY <1>1, <2>6, Flights DEF Planned, Job, LastAt, CcsAt, Sent, Heard, Left, SecretAt, Peer
  <2>7. QED
    BY <2>2, <2>3, <2>4, <2>5, <2>6
<1>2. CASE e = "server"
  <2>1. n \in {1, 2, 3, 4, 5, 6, 7, 8}
    BY <1>2 DEF Last
  <2>2. n \in {1, 3, 5}
    BY <1>2, <2>1, ScriptIs DEF Send, Ctl
  <2>3. CASE n = 1
    BY <1>2, <2>3, Flights DEF Planned, Job, LastAt, CcsAt, Sent, Heard, Left, SecretAt, Peer
  <2>4. CASE n = 3
    BY <1>2, <2>4, Flights DEF Planned, Job, LastAt, CcsAt, Sent, Heard, Left, SecretAt, Peer
  <2>5. CASE n = 5
    BY <1>2, <2>5, Flights DEF Planned, Job, LastAt, CcsAt, Sent, Heard, Left, SecretAt, Peer
  <2>6. QED
    BY <2>2, <2>3, <2>4, <2>5
<1>3. QED
  BY <1>1, <1>2 DEF Ends

(* Sealed, and what a receiver does with a record, go from one expectation to the next. *)
LEMMA SealedExpect ==
  ASSUME NEW e \in Ends, NEW k \in Nat, NEW known \in BOOLEAN, NEW type,
         type = "ccs" <=> k + 1 = CcsAt(e), type = "ccs" => known
  PROVE  /\ Sealed(Expect(e, k, known), type) = Expect(e, k + 1, known)
         /\ type = "ccs" =>
              /\ Expect(e, k, known).new = "k"
              /\ [sec |-> Expect(e, k, known).new, new |-> None, seq |-> 0] = Expect(e, k + 1, known)
         /\ type # "ccs" => Opened(Expect(e, k, known)) = Expect(e, k + 1, known)
<1>1. CcsAt(e) \in Nat /\ CcsAt(e) >= 1 /\ None # "k"
  BY NoneIsNothing DEF CcsAt, LastAt
<1>2. CASE k + 1 < CcsAt(e)
  <2>1. KeyAt(e, k + 1) = None /\ KeyAt(e, k + 2) = None /\ SeqAt(e, k + 1) = 0 /\ SeqAt(e, k + 2) = 0
        /\ k < CcsAt(e)
    BY <1>1, <1>2 DEF KeyAt, SeqAt
  <2>2. type # "ccs"
    BY <1>1, <1>2
  <2>3. QED
    BY <1>2, <2>1, <2>2 DEF Expect, Sealed, Opened
<1>3. CASE k + 1 = CcsAt(e)
  <2>1. KeyAt(e, k + 2) = "k" /\ SeqAt(e, k + 2) = 0 /\ k < CcsAt(e) /\ ~(k + 1 < CcsAt(e))
    BY <1>1, <1>3 DEF KeyAt, SeqAt
  <2>2. type = "ccs" /\ known
    BY <1>3
  <2>3. QED
    BY <2>1, <2>2 DEF Expect, Sealed
<1>4. CASE k + 1 > CcsAt(e)
  <2>1. KeyAt(e, k + 1) = "k" /\ KeyAt(e, k + 2) = "k" /\ SeqAt(e, k + 2) = SeqAt(e, k + 1) + 1
        /\ ~(k < CcsAt(e)) /\ ~(k + 1 < CcsAt(e))
    BY <1>1, <1>4 DEF KeyAt, SeqAt
  <2>2. type # "ccs"
    BY <1>1, <1>4
  <2>3. QED
    BY <1>1, <2>1, <2>2 DEF Expect, Sealed, Opened
<1>5. QED
  BY <1>1, <1>2, <1>3, <1>4

-----------------------------------------------------------------------------
(* the records that e has consumed whole *)
Consumed(e) == got[e] \div 2

(* e has written an alert, or is writing one *)
Alerted(e) == HasAlert(e) \/ (outio[e] # None /\ built[e].type = "alert")

(* the records that e has sealed *)
Begun(e) == Len(link[e]) + (IF outio[e] = None THEN 0 ELSE 1)

(* e has told the record layer the secret *)
Keyed(e) == next[e] > SecretAt(e)

(* An end that will write more seals the next record as it has to be. *)
OutOk(e) ==
  ~Alerted(e) /\ state[e] \notin {"error", "closed"} => out[e] = Expect(e, Begun(e), Keyed(e))

(* The input side expects the next record, unless the peer has ended with an alert. *)
InOk(e) ==
  (\A i \in 1 .. Consumed(e) : link[Peer(e)][i].type # "alert") =>
    in[e] = Expect(Peer(e), Consumed(e), Keyed(e))

(* Every record of e, and the one being written, is as it has to be. *)
RecordsOk(e) ==
  /\ \A i \in 1 .. Len(link[e]) : RecordOk(e, i, link[e][i])
  /\ outio[e] # None => RecordOk(e, Len(link[e]) + 1, built[e])

(* What the handshaker has consumed is what its place in the script says; a data
   reader comes after the peer's Finished. *)
Reads(e) ==
  /\ pc[e]["hand"] = "script" =>
       /\ Consumed(e) = Heard(e, next[e])
       /\ handq[e] \in Seq(Messages) /\ Len(handq[e]) = Left(e, next[e])
  /\ pc[e]["hand"] \in {"read", "body"} =>
       /\ Heard(e, next[e]) <= Consumed(e) /\ Consumed(e) <= Heard(e, next[e] + 1)
       /\ handq[e] \in Seq(Messages)
       /\ Len(handq[e]) = IF Consumed(e) < Heard(e, next[e] + 1) THEN 0
                          ELSE Left(e, next[e] + 1) + 1
  /\ pc[e]["hand"] = "body" => Consumed(e) < Heard(e, next[e] + 1)
  /\ pc[e]["hand"] = "open" => Consumed(e) >= LastAt(Peer(e))

(* What it has written, likewise; data comes after Finished. *)
Writes(e) ==
  /\ pc[e]["hand"] \in {"script", "read", "body"} =>
       state[e] = "handshake" /\ ~opened[e] /\ Len(link[e]) = Sent(e, next[e])
  /\ pc[e]["hand"] = "open" =>
       Len(link[e]) >= LastAt(e) /\ opened[e] /\ next[e] = Last(e)

(* what holds at e about both *)
AgreeAt(e) == OutOk(e) /\ InOk(e) /\ RecordsOk(e) /\ Reads(e) /\ Writes(e)

(* The ends agree, and nobody is puzzled. *)
Agreed == puzzled = {} /\ \A e \in Ends : AgreeAt(e)

(* same keys, nothing damaged *)
Sound == ~wrongkey /\ damages = 0

(* the second inductive invariant, relative to the first *)
Agree == Sound => Agreed

(* Halves of numbers. *)
LEMMA Half ==
  ASSUME NEW g \in Nat
  PROVE  /\ g \div 2 \in Nat
         /\ g % 2 = 1 => (g + 1) \div 2 = g \div 2 + 1 /\ (g - 1) \div 2 = g \div 2
         /\ g % 2 = 0 => (g + 1) \div 2 = g \div 2
         /\ \A m \in Nat : g <= 2 * m => g \div 2 <= m
         /\ \A m \in Nat : g < 2 * m => g \div 2 < m
OBVIOUS

(* What has been consumed has been sent. *)
LEMMA ConsumedIs ==
  ASSUME Inv, NEW e \in Ends
  PROVE  /\ Consumed(e) \in Nat /\ Consumed(e) <= Len(link[Peer(e)])
         /\ Len(link[Peer(e)]) \in Nat /\ Len(link[e]) \in Nat
         /\ Peer(e) \in Ends /\ Peer(e) # e /\ Peer(Peer(e)) = e
<1>1. Peer(e) \in Ends /\ Peer(e) # e /\ Peer(Peer(e)) = e
  BY DEF Peer, Ends
<1>2. got[e] \in Nat /\ Len(link[Peer(e)]) \in Nat /\ Len(link[e]) \in Nat
  BY <1>1 DEF Inv, Shape
<1>3. got[e] <= 2 * Len(link[Peer(e)])
  BY DEF Inv, Halves
<1>4. QED
  BY <1>1, <1>2, <1>3, Half DEF Consumed

(* An output side that a step leaves alone still seals what it has to, *)
LEMMA OutStays ==
  ASSUME NEW f \in Ends, OutOk(f), link'[f] = link[f], outio'[f] = outio[f], built'[f] = built[f],
         out'[f] = out[f], Keyed(f)' = Keyed(f),
         state'[f] \notin {"error", "closed"} => state[f] \notin {"error", "closed"}
  PROVE  OutOk(f)'
BY DEF OutOk, Alerted, HasAlert, Begun

(* an input side still expects what it has to, also if its peer writes more, *)
LEMMA InStays ==
  ASSUME Inv, NEW f \in Ends, InOk(f), in'[f] = in[f], Consumed(f)' = Consumed(f),
         Keyed(f)' = Keyed(f),
         \A i \in 1 .. Len(link[Peer(f)]) : link'[Peer(f)][i] = link[Peer(f)][i]
  PROVE  InOk(f)'
<1>1. \A i \in 1 .. Consumed(f) : link'[Peer(f)][i] = link[Peer(f)][i]
  BY ConsumedIs
<1>2. QED
  BY <1>1 DEF InOk

(* and the place of a handshaker still says what it did. *)
LEMMA PlaceStays ==
  ASSUME NEW f \in Ends, Reads(f), Writes(f), pc'[f]["hand"] = pc[f]["hand"], next'[f] = next[f],
         Consumed(f)' = Consumed(f), handq'[f] = handq[f], opened'[f] = opened[f],
         state'[f] = state[f], link'[f] = link[f]
  PROVE  Reads(f)' /\ Writes(f)'
BY DEF Reads, Writes

(* A step that neither writes nor consumes a record has only to show that the place of
   its end's handshaker is right. *)
LEMMA AgreeStays ==
  ASSUME Inv, Agreed, NEW e \in Ends, UNCHANGED <<link, outio, built, out, in, puzzled>>,
         \A f \in Ends : Consumed(f)' = Consumed(f),
         state'[e] \notin {"error", "closed"} => state[e] \notin {"error", "closed"},
         \A f \in Ends : f # e =>
           /\ pc'[f] = pc[f] /\ next'[f] = next[f] /\ handq'[f] = handq[f]
           /\ opened'[f] = opened[f] /\ state'[f] = state[f],
         Keyed(e)' = Keyed(e), Reads(e)', Writes(e)'
  PROVE  Agreed'
<1>1. ASSUME NEW f \in Ends PROVE AgreeAt(f)'
  <2>1. AgreeAt(f)
    BY DEF Agreed
  <2>2. Keyed(f)' = Keyed(f)
    BY DEF Keyed
  <2>3. OutOk(f)'
    BY <2>1, <2>2, OutStays DEF AgreeAt
  <2>4. InOk(f)'
    BY <2>1, <2>2, InStays DEF AgreeAt
  <2>5. RecordsOk(f)'
    BY <2>1 DEF AgreeAt, RecordsOk
  <2>6. Reads(f)' /\ Writes(f)'
    BY <2>1, PlaceStays DEF AgreeAt
  <2>7. QED
    BY <2>3, <2>4, <2>5, <2>6 DEF AgreeAt
<1>2. QED
  BY <1>1 DEF Agreed

(* Off its script a handshaker's place says nothing, *)
LEMMA OffScript ==
  ASSUME NEW e \in Ends, pc'[e]["hand"] \notin {"script", "read", "body", "open"}
  PROVE  Reads(e)' /\ Writes(e)'
BY DEF Reads, Writes

(* and once hand is open, more records do no harm. *)
LEMMA StillOpen ==
  ASSUME NEW e \in Ends, Reads(e), Writes(e), pc[e]["hand"] = "open", pc'[e]["hand"] = "open",
         Consumed(e)' = Consumed(e), Len(link'[e]) >= Len(link[e]),
         Len(link'[e]) \in Nat, Len(link[e]) \in Nat,
         opened'[e] = opened[e], next'[e] = next[e]
  PROVE  Reads(e)' /\ Writes(e)'
<1>1. LastAt(e) \in Nat
  BY DEF LastAt
<1>2. QED
  BY <1>1 DEF Reads, Writes

(* the state that a step leaves is not better than the one it found *)
LEMMA WorseIs ==
  ASSUME NEW e \in Ends, Worse(e)
  PROVE  /\ state'[e] \notin {"error", "closed"} => state[e] \notin {"error", "closed"}
         /\ \A f \in Ends : f # e => state'[f] = state[f]
BY DEF Worse

(* after a record the handshaker leaves its script, or another process worked *)
LEMMA JobLeaves ==
  ASSUME Inv, Agreed, NEW e \in Ends, NEW u \in Procs, NEW ok \in BOOLEAN,
         job[e][u] # None, Returns(e, u, ok),
         pc[e][u] = "script" => ~ok,
         Consumed(e)' = Consumed(e), opened'[e] = opened[e],
         Len(link'[e]) \in Nat, Len(link'[e]) >= Len(link[e])
  PROVE  Reads(e)' /\ Writes(e)'
<1>1. /\ pc'[e][u] = AfterJob(e, u, ok)
      /\ \A v \in Procs : v # u => pc'[e][v] = pc[e][v]
  BY AfterJobIs
<1>2. next' = next
  BY JobEnds DEF Inv, Shape
<1>3. CASE u = "hand"
  <2>1. pc'[e]["hand"] \in {"err", "unlock", "hangup", "alert", "rcvError"}
    BY <1>1, <1>3, JobPlace DEF AfterJob
  <2>2. QED
    BY <2>1, OffScript
<1>4. CASE u # "hand"
  <2>1. pc[e]["hand"] = "open" /\ pc'[e]["hand"] = "open"
    BY <1>1, <1>4, JobPlace DEF Procs
  <2>2. AgreeAt(e)
    BY DEF Agreed
  <2>3. Len(link[e]) \in Nat
    BY ConsumedIs
  <2>4. QED
    BY <1>2, <2>1, <2>2, <2>3, StillOpen DEF AgreeAt
<1>5. QED
  BY <1>3, <1>4

(* A job that ends without a record leaves the ends in agreement. *)
LEMMA JobAgrees ==
  ASSUME Inv, Agreed, NEW e \in Ends, NEW u \in Procs, NEW ok \in BOOLEAN,
         job[e][u] # None, Returns(e, u, ok),
         pc[e][u] = "script" => ~ok,
         Worse(e), UNCHANGED <<link, got, outio, built, out, in, opened, puzzled>>,
         \A f \in Ends : f # e => handq'[f] = handq[f]
  PROVE  Agreed'
<1>1. /\ \A f \in Ends : f # e => pc'[f] = pc[f] /\ next'[f] = next[f]
      /\ pc'[e][u] = AfterJob(e, u, ok)
      /\ \A v \in Procs : v # u => pc'[e][v] = pc[e][v]
  BY AfterJobIs
<1>2. next' = next
  BY JobEnds DEF Inv, Shape
<1>3. Reads(e)' /\ Writes(e)'
  <2>1. Consumed(e)' = Consumed(e)
    BY DEF Consumed
  <2>2. Len(link'[e]) \in Nat /\ Len(link'[e]) >= Len(link[e])
    BY ConsumedIs
  <2>3. QED
    BY <2>1, <2>2, JobLeaves
<1>4. \A f \in Ends : Consumed(f)' = Consumed(f)
  BY DEF Consumed
<1>5. Keyed(e)' = Keyed(e)
  BY <1>2 DEF Keyed
<1>6. QED
  BY <1>1, <1>3, <1>4, <1>5, WorseIs, AgreeStays

(* Next, action by action: a refused record changes neither side. *)
LEMMA RecRefusedAgrees ==
  ASSUME Inv, Agreed, NEW e \in Ends, NEW u \in Procs, RecRefused(e, u)
  PROVE  Agreed'
<1>1. /\ job[e][u] # None
      /\ Returns(e, u, FALSE)
      /\ UNCHANGED <<conn, state, opened, handq, sides, processed, built, written, wrongkey, puzzled>>
  BY DEF RecRefused
<1>2. Worse(e) /\ UNCHANGED <<link, got, outio, built, out, in, opened, puzzled>>
  BY <1>1, StaysIs DEF conn, sides
<1>3. QED
  BY <1>1, <1>2, JobAgrees

(* AlertSent writes nothing. *)
LEMMA AlertSentAgrees ==
  ASSUME Inv, Agreed, NEW e \in Ends, NEW u \in Procs, AlertSent(e, u)
  PROVE  Agreed'
<1>1. /\ job[e][u] = Stop
      /\ tlsError(e)
      /\ Returns(e, u, TRUE)
      /\ UNCHANGED <<conn, opened, sides, processed, built, written, wrongkey, puzzled>>
  BY DEF AlertSent, Stop
<1>2. job[e][u] # None
  BY <1>1, Alarming
<1>3. pc[e][u] # "script"
  <2>1. job[e][u].type = "tlsError"
    BY <1>1 DEF Stop, Job
  <2>2. Scripted(e, job[e][u]) => job[e][u].type \in {"handshake", "ccs"}
    BY DEF Scripted, Job
  <2>3. QED
    BY <1>2, <2>1, <2>2, JobPlace
<1>4. Worse(e) /\ \A f \in Ends : f # e => handq'[f] = handq[f]
  BY <1>1, tlsErrorWorse, tlsErrorIs
<1>5. UNCHANGED <<link, got, outio, built, out, in, opened, puzzled>>
  BY <1>1 DEF conn, sides
<1>6. QED
  BY <1>1, <1>2, <1>3, <1>4, <1>5, JobAgrees

(* A read that fails takes the handshaker off its script. *)
LEMMA NoMessageAgrees ==
  ASSUME Inv, Agreed, NEW e \in Ends, NEW u \in {"hand", "reader"}, job[e][u] = None,
         NoMessage(e, u), u = "reader" => pc[e]["hand"] = "open",
         UNCHANGED <<link, got, outio, built, out, in, opened, puzzled, next, handq>>
  PROVE  Agreed'
<1>1. PICK to \in PCs, j \in AnyJob :
           /\ Went(e, u, to) /\ Worse(e)
           /\ u = "reader" => to = "idle"
           /\ u = "hand" => to \in {"err", "alert"}
  BY NoMessageIs
<1>2. Reads(e)' /\ Writes(e)'
  <2>1. CASE u = "hand"
    BY <1>1, <2>1, OffScript DEF Went
  <2>2. CASE u = "reader"
    <3>1. pc[e]["hand"] = "open" /\ pc'[e]["hand"] = "open"
      BY <1>1, <2>2 DEF Went, Procs
    <3>2. AgreeAt(e)
      BY DEF Agreed
    <3>3. Len(link[e]) \in Nat /\ Len(link'[e]) \in Nat /\ Len(link'[e]) >= Len(link[e])
      BY ConsumedIs
    <3>4. Consumed(e)' = Consumed(e)
      BY DEF Consumed
    <3>5. QED
      BY <3>1, <3>2, <3>3, <3>4, StillOpen DEF AgreeAt
  <2>3. QED
    BY <2>1, <2>2
<1>3. Keyed(e)' = Keyed(e) /\ \A f \in Ends : Consumed(f)' = Consumed(f)
  BY DEF Keyed, Consumed
<1>4. \A f \in Ends : f # e => pc'[f] = pc[f]
  BY <1>1 DEF Went
<1>5. QED
  BY <1>1, <1>2, <1>3, <1>4, WorseIs, AgreeStays

(* LockRead: at a recv the tables say how much there is to consume. *)
LEMMA LockReadAgrees ==
  ASSUME Inv, Agreed, NEW e \in Ends, NEW u \in {"hand", "reader"}, NEW ok, LockRead(e, u, ok),
         job[e][u] = None,
         u = "hand" => pc[e]["hand"] = "script" /\ Op(e).op = "recv",
         u = "reader" => pc[e]["hand"] = "open" /\ pc[e]["reader"] = "idle"
  PROVE  Agreed'
<1>1. /\ UNCHANGED <<conn, opened, in, out, outio, handq, processed, next, built, written,
                     wrongkey, puzzled>>
      /\ \/ Goto(e, u, "read") /\ UNCHANGED state
         \/ NoMessage(e, u)
  BY DEF LockRead
<1>2. UNCHANGED <<link, got, outio, built, out, in, opened, puzzled, next, handq>>
  BY <1>1 DEF conn
<1>3. CASE NoMessage(e, u)
  BY <1>2, <1>3, NoMessageAgrees
<1>4. CASE Goto(e, u, "read") /\ UNCHANGED state
  <2>1. u \in Procs /\ "read" \in PCs
    BY DEF Procs, PCs, HandPC
  <2>2. Went(e, u, "read")
    BY <1>4, <2>1, GotoIs
  <2>3. AgreeAt(e)
    BY DEF Agreed
  <2>4. Keyed(e)' = Keyed(e) /\ \A f \in Ends : Consumed(f)' = Consumed(f)
    BY <1>2 DEF Keyed, Consumed
  <2>5. Reads(e)' /\ Writes(e)'
    <3>1. CASE u = "hand"
      <4>1. pc[e]["hand"] = "script" /\ pc'[e]["hand"] = "read"
        BY <2>2, <3>1 DEF Went
      <4>2. next[e] \in 1 .. Last(e) /\ Script(e)[next[e]].op = "recv"
        BY <3>1 DEF Inv, Halves, Op
      <4>3. /\ Heard(e, next[e]) <= Heard(e, next[e] + 1)
            /\ Heard(e, next[e]) < Heard(e, next[e] + 1) => Left(e, next[e]) = 0
            /\ Heard(e, next[e]) = Heard(e, next[e] + 1) => Left(e, next[e]) = Left(e, next[e] + 1) + 1
            /\ Heard(e, next[e] + 1) \in Nat
        BY <4>2, RecvPlan
      <4>4. Heard(e, next[e]) \in Nat
        BY <4>2, Counting
      <4>5. Reads(e)'
        BY <1>2, <2>3, <2>4, <4>1, <4>3, <4>4 DEF AgreeAt, Reads
      <4>6. Writes(e)'
        BY <1>2, <1>4, <2>3, <4>1 DEF AgreeAt, Writes
      <4>7. QED
        BY <4>5, <4>6
    <3>2. CASE u = "reader"
      <4>1. pc[e]["hand"] = "open" /\ pc'[e]["hand"] = "open"
        BY <2>2, <3>2 DEF Went, Procs
      <4>2. Len(link[e]) \in Nat /\ Len(link'[e]) \in Nat /\ Len(link'[e]) >= Len(link[e])
        BY <1>2, ConsumedIs
      <4>3. QED
        BY <1>2, <2>3, <2>4, <4>1, <4>2, StillOpen DEF AgreeAt
    <3>3. QED
      BY <3>1, <3>2
  <2>6. \A f \in Ends : f # e => pc'[f] = pc[f]
    BY <2>2 DEF Went
  <2>7. QED
    BY <1>2, <1>4, <2>4, <2>5, <2>6, AgreeStays
<1>5. QED
  BY <1>1, <1>3, <1>4

(* HandRead, by LockRead. *)
LEMMA HandReadAgrees ==
  ASSUME Inv, Agreed, NEW e \in Ends, HandRead(e)
  PROVE  Agreed'
BY LockReadAgrees, ScriptPlace DEF HandRead

(* DataRead, by LockRead. *)
LEMMA DataReadAgrees ==
  ASSUME Inv, Agreed, NEW e \in Ends, DataRead(e)
  PROVE  Agreed'
BY LockReadAgrees DEF DataRead, At

(* ReadFails, by NoMessage. *)
LEMMA ReadFailsAgrees ==
  ASSUME Inv, Agreed, NEW e \in Ends, NEW u \in Procs, ReadFails(e, u)
  PROVE  Agreed'
<1>1. /\ pc[e][u] = "unlock" /\ job[e][u] = None
      /\ NoMessage(e, u)
      /\ UNCHANGED <<conn, opened, in, out, outio, handq, processed, next, built, written,
                     wrongkey, puzzled>>
  BY DEF ReadFails, At
<1>2. u \in {"hand", "reader"} /\ (u = "reader" => pc[e]["hand"] = "open")
  BY <1>1, WhoReads
<1>3. UNCHANGED <<link, got, outio, built, out, in, opened, puzzled, next, handq>>
  BY <1>1 DEF conn
<1>4. QED
  BY <1>1, <1>2, <1>3, NoMessageAgrees

(* a step of a reading process that consumes no record *)
LEMMA ReadingAgrees ==
  ASSUME Inv, Agreed, NEW e \in Ends, NEW u \in Procs, NEW to,
         pc[e][u] \in {"read", "body", "rcvClose"}, Went(e, u, to), Worse(e),
         UNCHANGED <<link, outio, built, out, in, opened, puzzled, next>>,
         \A f \in Ends : Consumed(f)' = Consumed(f),
         \A f \in Ends : f # e => handq'[f] = handq[f],
         to = "unlock" \/ (to = "body" /\ pc[e][u] = "read" /\ NeedsRecord(e, u)
                            /\ handq'[e] = handq[e] /\ state'[e] = state[e])
  PROVE  Agreed'
<1>1. u \in {"hand", "reader"} /\ (u = "reader" => pc[e]["hand"] = "open")
  BY WhoReads
<1>2. AgreeAt(e)
  BY DEF Agreed
<1>3. Reads(e)' /\ Writes(e)'
  <2>1. CASE u = "reader"
    <3>1. pc[e]["hand"] = "open" /\ pc'[e]["hand"] = "open"
      BY <1>1, <2>1 DEF Went, Procs
    <3>2. Len(link[e]) \in Nat /\ Len(link'[e]) \in Nat /\ Len(link'[e]) >= Len(link[e])
      BY ConsumedIs
    <3>3. QED
      BY <1>2, <3>1, <3>2, StillOpen DEF AgreeAt
  <2>2. CASE u = "hand" /\ to = "unlock"
    BY <2>2, OffScript DEF Went
  <2>3. CASE u = "hand" /\ to = "body" /\ pc[e][u] = "read" /\ NeedsRecord(e, u)
               /\ handq'[e] = handq[e] /\ state'[e] = state[e]
    <3>1. pc[e]["hand"] = "read" /\ pc'[e]["hand"] = "body" /\ handq[e] = <<>>
      BY <2>3 DEF Went, NeedsRecord
    <3>2. Len(handq[e]) = 0
      BY <3>1
    <3>3. Left(e, next[e] + 1) \in Nat
      <4>1. next[e] \in 1 .. Last(e)
        BY DEF Inv, Halves
      <4>2. QED
        BY <4>1 DEF Left, Last
    <3>4. Consumed(e) < Heard(e, next[e] + 1)
      BY <1>2, <3>1, <3>2, <3>3 DEF AgreeAt, Reads
    <3>5. Reads(e)'
      BY <1>2, <2>3, <3>1, <3>4 DEF AgreeAt, Reads
    <3>6. Writes(e)'
      BY <1>2, <2>3, <3>1 DEF AgreeAt, Writes
    <3>7. QED
      BY <3>5, <3>6
  <2>4. QED
    BY <1>1, <2>1, <2>2, <2>3
<1>4. \A f \in Ends : f # e => pc'[f] = pc[f]
  BY DEF Went
<1>5. Keyed(e)' = Keyed(e)
  BY DEF Keyed
<1>6. QED
  BY <1>3, <1>4, <1>5, WorseIs, AgreeStays

(* A header is not yet a record. *)
LEMMA HeaderReadAgrees ==
  ASSUME Inv, Agreed, NEW e \in Ends, NEW u \in Procs, HeaderRead(e, u)
  PROVE  Agreed'
<1>1. /\ pc[e][u] = "read" /\ NeedsRecord(e, u)
      /\ got' = [got EXCEPT ![e] = @ + 1]
      /\ Goto(e, u, "body")
      /\ UNCHANGED <<link, hungup, damages, state, opened, sides, handq, processed, next, job,
                     built, written, wrongkey, puzzled>>
  BY DEF HeaderRead, At
<1>2. Went(e, u, "body") /\ Worse(e)
  BY <1>1, GotoIs, StaysIs, ReadPlaces
<1>3. ASSUME NEW f \in Ends PROVE Consumed(f)' = Consumed(f)
  <2>1. got \in [Ends -> Nat] /\ got[e] % 2 = 0
    BY <1>1, WhoReads DEF Inv, Shape, Halves
  <2>2. (got[e] + 1) \div 2 = got[e] \div 2
    BY <2>1, Half
  <2>3. QED
    BY <1>1, <2>1, <2>2 DEF Consumed
<1>4. UNCHANGED <<link, outio, built, out, in, opened, puzzled, next, handq, state>>
  BY <1>1 DEF sides
<1>5. QED
  BY <1>1, <1>2, <1>3, <1>4, ReadingAgrees

(* A header that is given back was not a record. *)
LEMMA InterruptedAgrees ==
  ASSUME Inv, Agreed, NEW e \in Ends, NEW u \in Procs, Interrupted(e, u)
  PROVE  Agreed'
<1>1. /\ pc[e][u] = "body"
      /\ got' = [got EXCEPT ![e] = @ - 1]
      /\ Goto(e, u, "unlock")
      /\ UNCHANGED <<link, hungup, damages, state, opened, sides, handq, processed, next, job,
                     built, written, wrongkey, puzzled>>
  BY DEF Interrupted, At
<1>2. Went(e, u, "unlock") /\ Worse(e)
  BY <1>1, GotoIs, StaysIs, ReadPlaces
<1>3. ASSUME NEW f \in Ends PROVE Consumed(f)' = Consumed(f)
  <2>1. got \in [Ends -> Nat] /\ got[e] % 2 = 1
    BY <1>1, WhoReads DEF Inv, Shape, Halves
  <2>2. (got[e] - 1) \div 2 = got[e] \div 2
    BY <2>1, Half
  <2>3. QED
    BY <1>1, <2>1, <2>2 DEF Consumed
<1>4. UNCHANGED <<link, outio, built, out, in, opened, puzzled, next, handq, state>>
  BY <1>1 DEF sides
<1>5. QED
  BY <1>1, <1>2, <1>3, <1>4, ReadingAgrees

(* RecHungup consumes nothing. *)
LEMMA RecHungupAgrees ==
  ASSUME Inv, Agreed, NEW e \in Ends, NEW u \in Procs, RecHungup(e, u)
  PROVE  Agreed'
<1>1. /\ pc[e][u] = "read"
      /\ tlsError(e)
      /\ Goto(e, u, "unlock")
      /\ UNCHANGED <<conn, opened, sides, processed, next, job, built, written, wrongkey, puzzled>>
  BY DEF RecHungup, At
<1>2. Went(e, u, "unlock")
  BY <1>1, GotoIs, ReadPlaces
<1>3. Worse(e) /\ \A f \in Ends : f # e => handq'[f] = handq[f]
  BY <1>1, tlsErrorWorse, tlsErrorIs
<1>4. UNCHANGED <<link, outio, built, out, in, opened, puzzled, next, got>>
  BY <1>1 DEF conn, sides
<1>5. \A f \in Ends : Consumed(f)' = Consumed(f)
  BY <1>4 DEF Consumed
<1>6. QED
  BY <1>1, <1>2, <1>3, <1>4, <1>5, ReadingAgrees

(* RecClosed consumes nothing. *)
LEMMA RecClosedAgrees ==
  ASSUME Inv, Agreed, NEW e \in Ends, NEW u \in Procs, RecClosed(e, u)
  PROVE  Agreed'
<1>1. /\ pc[e][u] = "rcvClose"
      /\ tlsError(e)
      /\ Goto(e, u, "unlock")
      /\ UNCHANGED <<conn, opened, sides, processed, next, job, built, written, wrongkey, puzzled>>
  BY DEF RecClosed, At
<1>2. Went(e, u, "unlock")
  BY <1>1, GotoIs, ReadPlaces
<1>3. Worse(e) /\ \A f \in Ends : f # e => handq'[f] = handq[f]
  BY <1>1, tlsErrorWorse, tlsErrorIs
<1>4. UNCHANGED <<link, outio, built, out, in, opened, puzzled, next, got>>
  BY <1>1 DEF conn, sides
<1>5. \A f \in Ends : Consumed(f)' = Consumed(f)
  BY <1>4 DEF Consumed
<1>6. QED
  BY <1>1, <1>2, <1>3, <1>4, <1>5, ReadingAgrees

(* a step in which the handshaker stays where it is, and nothing is read or written *)
LEMMA AsideAgrees ==
  ASSUME Inv, Agreed, NEW e \in Ends,
         \A f \in Ends : pc'[f]["hand"] = pc[f]["hand"],
         \A f \in Ends : f # e => pc'[f] = pc[f],
         UNCHANGED <<link, got, outio, built, out, in, opened, puzzled, next, handq, state>>
  PROVE  Agreed'
<1>1. AgreeAt(e)
  BY DEF Agreed
<1>2. Keyed(e)' = Keyed(e) /\ \A f \in Ends : Consumed(f)' = Consumed(f)
  BY DEF Keyed, Consumed
<1>3. Reads(e)' /\ Writes(e)'
  BY <1>1, <1>2, PlaceStays DEF AgreeAt
<1>4. QED
  BY <1>2, <1>3, AgreeStays

(* HandSend only gets a job. *)
LEMMA HandSendAgrees ==
  ASSUME Inv, Agreed, NEW e \in Ends, HandSend(e)
  PROVE  Agreed'
BY AsideAgrees DEF HandSend, conn, sides

(* DataTake leaves the record layer alone. *)
LEMMA DataTakeAgrees ==
  ASSUME Inv, Agreed, NEW e \in Ends, DataTake(e)
  PROVE  Agreed'
<1>1. /\ Goto(e, "reader", "idle")
      /\ UNCHANGED <<conn, state, opened, in, out, outio, handq, next, job, built, written,
                     wrongkey, puzzled>>
  BY DEF DataTake
<1>2. "reader" \in Procs /\ "hand" \in Procs /\ "idle" \in PCs
  BY DEF Procs, PCs, ReadPC
<1>3. Went(e, "reader", "idle")
  BY <1>1, <1>2, GotoIs
<1>4. QED
  BY <1>1, <1>2, <1>3, AsideAgrees DEF Went, conn

(* DataWrite only gets a job. *)
LEMMA DataWriteAgrees ==
  ASSUME Inv, Agreed, NEW e \in Ends, DataWrite(e)
  PROVE  Agreed'
<1>1. /\ Goto(e, "writer", "write") \/ Goto(e, "writer", "done")
      /\ UNCHANGED <<conn, state, opened, sides, handq, processed, next, built, wrongkey, puzzled>>
  BY DEF DataWrite
<1>2. "writer" \in Procs /\ "hand" \in Procs /\ "write" \in PCs /\ "done" \in PCs
  BY DEF Procs, PCs, WritePC
<1>3. Went(e, "writer", "write") \/ Went(e, "writer", "done")
  BY <1>1, <1>2, GotoIs
<1>4. QED
  BY <1>1, <1>2, <1>3, AsideAgrees DEF Went, conn, sides

(* Disconnect changes nothing at either end. *)
LEMMA DisconnectAgrees ==
  ASSUME Inv, Agreed, Disconnect
  PROVE  Agreed'
<1>1. "client" \in Ends
  BY DEF Ends
<1>2. QED
  BY <1>1, AsideAgrees DEF Disconnect, sides

(* A handshaker that leaves its script leaves the ends in agreement. *)
LEMMA HandClosesAgrees ==
  ASSUME Inv, Agreed, NEW e \in Ends, NEW to \in {"alert", "err", "closing", "hangup", "closed"},
         Went(e, "hand", to), Worse(e), Keyed(e)' = Keyed(e),
         UNCHANGED <<link, got, outio, built, out, in, puzzled>>,
         \A f \in Ends : f # e =>
           next'[f] = next[f] /\ handq'[f] = handq[f] /\ opened'[f] = opened[f]
  PROVE  Agreed'
<1>1. Reads(e)' /\ Writes(e)'
  BY OffScript DEF Went
<1>2. \A f \in Ends : Consumed(f)' = Consumed(f)
  BY DEF Consumed
<1>3. \A f \in Ends : f # e => pc'[f] = pc[f]
  BY DEF Went
<1>4. QED
  BY <1>1, <1>2, <1>3, WorseIs, AgreeStays

(* HandClose leaves it. *)
LEMMA HandCloseAgrees ==
  ASSUME Inv, Agreed, NEW e \in Ends, HandClose(e)
  PROVE  Agreed'
<1>1. /\ handq' = [handq EXCEPT ![e] = None]
      /\ \/ sendAlert(e, "hand", "close") /\ Goto(e, "hand", "closing")
         \/ Goto(e, "hand", "hangup") /\ UNCHANGED <<state, job>>
      /\ UNCHANGED <<conn, opened, sides, processed, next, built, written, wrongkey, puzzled>>
  BY DEF HandClose
<1>2. "hand" \in Procs /\ "closing" \in PCs /\ "hangup" \in PCs
  BY DEF Procs, PCs, HandPC
<1>3. PICK to \in {"closing", "hangup"} : Went(e, "hand", to) /\ Worse(e)
  <2>1. CASE sendAlert(e, "hand", "close") /\ Goto(e, "hand", "closing")
    BY <1>2, <2>1, GotoIs, sendAlertIs
  <2>2. CASE Goto(e, "hand", "hangup") /\ UNCHANGED <<state, job>>
    BY <1>2, <2>2, GotoIs, StaysIs
  <2>3. QED
    BY <1>1, <2>1, <2>2
<1>4. \A f \in Ends : f # e => handq'[f] = handq[f]
  BY <1>1 DEF Inv, Shape
<1>5. UNCHANGED <<link, got, outio, built, out, in, puzzled, next, opened>> /\ Keyed(e)' = Keyed(e)
  BY <1>1 DEF conn, sides, Keyed
<1>6. QED
  BY <1>3, <1>4, <1>5, HandClosesAgrees

(* HandHangup has left it. *)
LEMMA HandHangupAgrees ==
  ASSUME Inv, Agreed, NEW e \in Ends, HandHangup(e)
  PROVE  Agreed'
<1>1. /\ Goto(e, "hand", "closed")
      /\ state' = [state EXCEPT ![e] = "closed"]
      /\ UNCHANGED <<link, got, damages, opened, sides, handq, next, job, built, written,
                     wrongkey, puzzled>>
  BY DEF HandHangup
<1>2. Went(e, "hand", "closed")
  BY <1>1, GotoIs DEF Procs, PCs, HandPC
<1>3. Worse(e)
  BY <1>1 DEF Inv, Shape, Worse, States
<1>4. UNCHANGED <<link, got, outio, built, out, in, puzzled, next, opened, handq>> /\ Keyed(e)' = Keyed(e)
  BY <1>1 DEF sides, Keyed
<1>5. QED
  BY <1>2, <1>3, <1>4, HandClosesAgrees

(* HandTake: as many messages wait as the next entry's table says. *)
LEMMA HandTakeAgrees ==
  ASSUME Inv, Agreed, NEW e \in Ends, HandTake(e)
  PROVE  Agreed'
<1>1. /\ pc[e]["hand"] = "read" /\ ~NeedsRecord(e, "hand")
      /\ handq' = [handq EXCEPT ![e] = Tail(@)]
      /\ UNCHANGED <<conn, opened, in, out, outio, processed, built, written, wrongkey, puzzled>>
  BY DEF HandTake, At
<1>2. \/ /\ next' = [next EXCEPT ![e] = @ + 1]
         /\ Goto(e, "hand", "script")
         /\ UNCHANGED state
      \/ /\ Goto(e, "hand", "alert")
         /\ sendAlert(e, "hand", "fatal")
         /\ UNCHANGED next
  BY DEF HandTake
<1>3. "hand" \in Procs /\ "script" \in PCs /\ "alert" \in PCs
  BY DEF Procs, PCs, HandPC
<1>4. UNCHANGED <<link, got, outio, built, out, in, puzzled, opened>>
  BY <1>1 DEF conn
<1>5. handq'[e] = Tail(handq[e]) /\ \A f \in Ends : f # e => handq'[f] = handq[f]
  BY <1>1 DEF Inv, Shape
<1>6. CASE /\ Goto(e, "hand", "alert")
           /\ sendAlert(e, "hand", "fatal")
           /\ UNCHANGED next
  <2>1. Went(e, "hand", "alert") /\ Worse(e)
    BY <1>3, <1>6, GotoIs, sendAlertIs
  <2>2. Keyed(e)' = Keyed(e)
    BY <1>6 DEF Keyed
  <2>3. QED
    BY <1>4, <1>5, <1>6, <2>1, <2>2, HandClosesAgrees
<1>7. CASE /\ next' = [next EXCEPT ![e] = @ + 1]
           /\ Goto(e, "hand", "script")
           /\ UNCHANGED state
  <2>1. Went(e, "hand", "script")
    BY <1>3, <1>7, GotoIs
  <2>2. AgreeAt(e) /\ Inv
    BY DEF Agreed
  <2>3. next[e] \in 1 .. Last(e) /\ Script(e)[next[e]].op = "recv"
    BY <1>1, <1>3 DEF Inv, Halves, Local, JobOk, Op
  <2>4. next'[e] = next[e] + 1 /\ (\A f \in Ends : f # e => next'[f] = next[f])
    BY <1>7 DEF Inv, Shape
  <2>5. /\ Sent(e, next[e] + 1) = Sent(e, next[e]) /\ next[e] # SecretAt(e)
        /\ Left(e, next[e] + 1) \in Nat /\ Heard(e, next[e] + 1) \in Nat
    BY <2>3, RecvPlan
  <2>6. Keyed(e)' = Keyed(e)
    BY <2>3, <2>4, <2>5 DEF Keyed, SecretAt
  <2>7. \A f \in Ends : Consumed(f)' = Consumed(f)
    BY <1>4 DEF Consumed
  <2>8. /\ state[e] = "handshake" /\ ~opened[e] /\ Len(link[e]) = Sent(e, next[e])
        /\ handq[e] \in Seq(Messages)
        /\ Consumed(e) <= Heard(e, next[e] + 1)
        /\ Len(handq[e]) = IF Consumed(e) < Heard(e, next[e] + 1) THEN 0 ELSE Left(e, next[e] + 1) + 1
    BY <1>1, <2>2 DEF AgreeAt, Reads, Writes
  <2>9. handq[e] # <<>> /\ Consumed(e) \in Nat
    BY <1>1, <2>8, ConsumedIs DEF NeedsRecord
  <2>10. Len(handq[e]) # 0
    BY <2>8, <2>9, EmptySeq
  <2>11. Consumed(e) = Heard(e, next[e] + 1) /\ Len(handq[e]) = Left(e, next[e] + 1) + 1
    BY <2>5, <2>8, <2>9, <2>10
  <2>12. Tail(handq[e]) \in Seq(Messages) /\ Len(Tail(handq[e])) = Left(e, next[e] + 1)
    BY <2>5, <2>8, <2>9, <2>11
  <2>13. Reads(e)'
    BY <1>5, <2>1, <2>4, <2>7, <2>11, <2>12 DEF Reads, Went
  <2>14. Writes(e)'
    BY <1>4, <1>7, <2>1, <2>4, <2>5, <2>8 DEF Writes, Went
  <2>15. \A f \in Ends : f # e => pc'[f] = pc[f]
    BY <2>1 DEF Went
  <2>16. QED
    BY <1>4, <1>5, <1>7, <2>4, <2>6, <2>7, <2>13, <2>14, <2>15, AgreeStays
<1>8. QED
  BY <1>2, <1>6, <1>7

(* HandOpened: everything of the script has been sent and consumed. *)
LEMMA HandOpenedAgrees ==
  ASSUME Inv, Agreed, NEW e \in Ends, HandOpened(e)
  PROVE  Agreed'
<1>1. /\ At(e, "hand", "script") /\ Op(e).op = "opened"
      /\ \/ /\ state[e] \in {"handshake", "open"}
            /\ state' = [state EXCEPT ![e] = "open"]
            /\ opened' = [opened EXCEPT ![e] = TRUE]
            /\ Goto(e, "hand", "open")
         \/ UNCHANGED <<state, opened>> /\ Goto(e, "hand", "err")
      /\ handq' = [handq EXCEPT ![e] = None]
      /\ UNCHANGED <<conn, sides, processed, next, job, built, written, wrongkey, puzzled>>
  BY DEF HandOpened
<1>2. Shape /\ next[e] \in 1 .. Last(e) /\ pc[e]["hand"] = "script"
  BY <1>1, ScriptPlace DEF Inv
<1>3. "hand" \in Procs /\ "open" \in PCs /\ "err" \in PCs
  BY DEF Procs, PCs, HandPC
<1>4. UNCHANGED <<link, got, outio, built, out, in, puzzled, next>>
  BY <1>1 DEF conn, sides
<1>5. Keyed(e)' = Keyed(e) /\ \A f \in Ends : Consumed(f)' = Consumed(f)
  BY <1>4 DEF Keyed, Consumed
<1>6. \A f \in Ends : f # e => handq'[f] = handq[f] /\ opened'[f] = opened[f] /\ state'[f] = state[f]
  BY <1>1, <1>2 DEF Shape
<1>7. CASE UNCHANGED <<state, opened>> /\ Goto(e, "hand", "err")
  <2>1. Went(e, "hand", "err") /\ Worse(e)
    BY <1>3, <1>7, GotoIs, StaysIs
  <2>2. QED
    BY <1>4, <1>5, <1>6, <2>1, HandClosesAgrees
<1>8. CASE /\ state[e] \in {"handshake", "open"}
           /\ state' = [state EXCEPT ![e] = "open"]
           /\ opened' = [opened EXCEPT ![e] = TRUE]
           /\ Goto(e, "hand", "open")
  <2>1. Went(e, "hand", "open")
    BY <1>3, <1>8, GotoIs
  <2>2. AgreeAt(e)
    BY DEF Agreed
  <2>3. next[e] = Last(e) /\ Sent(e, next[e]) = LastAt(e) /\ Heard(e, next[e]) = LastAt(Peer(e))
    BY <1>1, <1>2, CtlPlan DEF Op
  <2>4. Len(link[e]) = LastAt(e) /\ Consumed(e) = LastAt(Peer(e))
    BY <1>2, <2>2, <2>3 DEF AgreeAt, Reads, Writes
  <2>5. opened'[e] = TRUE
    BY <1>2, <1>8 DEF Shape
  <2>6. LastAt(e) \in Nat /\ LastAt(Peer(e)) \in Nat
    BY DEF LastAt
  <2>7. Reads(e)'
    BY <1>5, <2>1, <2>4, <2>6 DEF Reads, Went
  <2>8. Writes(e)'
    BY <1>4, <2>1, <2>3, <2>4, <2>5, <2>6 DEF Writes, Went
  <2>9. \A f \in Ends : f # e => pc'[f] = pc[f]
    BY <2>1 DEF Went
  <2>10. state[e] \notin {"error", "closed"}
    BY <1>8
  <2>11. QED
    BY <1>4, <1>5, <1>6, <2>7, <2>8, <2>9, <2>10, AgreeStays
<1>9. QED
  BY <1>1, <1>7, <1>8

(* the record that a process wants to write is the next that its peer expects *)
LEMMA JobFits ==
  ASSUME Inv, Agreed, NEW e \in Ends, NEW u \in Procs, job[e][u] # None,
         job[e][u].type \notin {"tlsError", "alert"}
  PROVE  LET j == job[e][u]
             n == Len(link[e]) + 1
         IN  /\ j.type = "ccs" <=> n = CcsAt(e)
             /\ j.type = "ccs" => Keyed(e)
             /\ \/ n <= LastAt(e) /\ j.type = Planned(e, n).type /\ j.body = Planned(e, n).body
                \/ n > LastAt(e) /\ j.type = "data"
<1>1. AgreeAt(e) /\ next[e] \in 1 .. Last(e) /\ JobOk(e, u)
  BY DEF Agreed, Inv, Halves, Local
<1>2. Len(link[e]) \in Nat /\ CcsAt(e) \in Nat /\ LastAt(e) \in Nat /\ CcsAt(e) < LastAt(e)
  BY <1>1, ConsumedIs, Counting
<1>3. CASE pc[e][u] = "script"
  <2>1. u = "hand" /\ Scripted(e, job[e][u])
    BY <1>3, JobPlace
  <2>2. Len(link[e]) = Sent(e, next[e])
    BY <1>1, <1>3, <2>1 DEF AgreeAt, Writes
  <2>3. CASE Op(e).op = "send" /\ job[e][u] = Job("handshake", Op(e).msgs)
    <3>1. /\ Planned(e, Len(link[e]) + 1) = job[e][u]
          /\ Len(link[e]) + 1 <= LastAt(e) /\ Len(link[e]) + 1 # CcsAt(e)
      BY <1>1, <2>2, <2>3, SendPlan DEF Op
    <3>2. job[e][u].type = "handshake"
      BY <2>3 DEF Job
    <3>3. QED
      BY <3>1, <3>2
  <2>4. CASE Op(e).op = "changecipher" /\ job[e][u] = Job("ccs", None)
    <3>1. Len(link[e]) + 1 = CcsAt(e) /\ next[e] > SecretAt(e)
      BY <1>1, <2>2, <2>4, CtlPlan DEF Op
    <3>2. Planned(e, Len(link[e]) + 1) = job[e][u]
      BY <2>4, <3>1 DEF Planned
    <3>3. job[e][u].type = "ccs"
      BY <2>4 DEF Job
    <3>4. QED
      BY <1>2, <3>1, <3>2, <3>3 DEF Keyed
  <2>5. QED
    BY <2>1, <2>3, <2>4 DEF Scripted
<1>4. CASE pc[e][u] = "write"
  <2>1. job[e][u] = Job("data", None) /\ pc[e]["hand"] = "open"
    BY <1>4, JobPlace
  <2>2. job[e][u].type = "data" /\ Len(link[e]) >= LastAt(e)
    BY <1>1, <2>1 DEF Job, AgreeAt, Writes
  <2>3. QED
    BY <1>2, <2>2
<1>5. pc[e][u] \in {"script", "write"}
  <2>1. pc[e][u] \in {"script", "alert", "rcvError", "closing", "write"}
    BY JobPlace
  <2>2. pc[e][u] \in {"alert", "rcvError"} => job[e][u].type \in {"alert", "tlsError"}
    BY <1>1 DEF JobOk, Fatal, Stop, Job
  <2>3. pc[e][u] = "closing" => job[e][u].type = "alert"
    BY <1>1 DEF JobOk, Job
  <2>4. QED
    BY <2>1, <2>2, <2>3
<1>6. QED
  BY <1>3, <1>4, <1>5

(* RecBuild seals the record that is due, and expects the one after it. *)
LEMMA RecBuildAgrees ==
  ASSUME Inv, Agreed, NEW e \in Ends, NEW u \in Procs, RecBuild(e, u)
  PROVE  Agreed'
<1>1. /\ job[e][u] # None /\ job[e][u].type # "tlsError" /\ outio[e] = None
      /\ Permits(state[e], job[e][u].type)
      /\ outio' = [outio EXCEPT ![e] = u]
      /\ built' = [built EXCEPT ![e] = [type |-> job[e][u].type, body |-> job[e][u].body,
                                        key |-> out[e].sec, seq |-> out[e].seq]]
      /\ out' = [out EXCEPT ![e] = Sealed(@, job[e][u].type)]
      /\ UNCHANGED <<conn, state, opened, in, inio, handq, processed, next, pc, job, written,
                     wrongkey, puzzled>>
  BY DEF RecBuild
<1>2. Shape /\ AgreeAt(e) /\ Len(link[e]) \in Nat /\ ~HasAlert(e) /\ u # None
  BY ConsumedIs, NothingAlarmed, NoneIsNothing DEF Inv, Agreed
<1>3. /\ outio'[e] = u
      /\ built'[e].type = job[e][u].type /\ built'[e].body = job[e][u].body
      /\ built'[e].key = out[e].sec /\ built'[e].seq = out[e].seq
      /\ out'[e] = Sealed(out[e], job[e][u].type)
      /\ \A f \in Ends : f # e => outio'[f] = outio[f] /\ built'[f] = built[f] /\ out'[f] = out[f]
  BY <1>1, <1>2 DEF Shape
<1>4. UNCHANGED <<link, got, state, opened, in, handq, next, pc, puzzled>>
  BY <1>1 DEF conn
<1>5. \A f \in Ends : Keyed(f)' = Keyed(f) /\ Consumed(f)' = Consumed(f)
  BY <1>4 DEF Keyed, Consumed
<1>6. out[e] = Expect(e, Len(link[e]), Keyed(e))
  <2>1. ~Alerted(e) /\ Begun(e) = Len(link[e])
    BY <1>1, <1>2 DEF Alerted, Begun
  <2>2. state[e] \notin {"error", "closed"}
    BY <1>1 DEF Permits
  <2>3. QED
    BY <1>2, <2>1, <2>2 DEF AgreeAt, OutOk
<1>7. RecordOk(e, Len(link[e]) + 1, built'[e])
  <2>1. built'[e].key = KeyAt(e, Len(link[e]) + 1) /\ built'[e].seq = SeqAt(e, Len(link[e]) + 1)
    BY <1>3, <1>6 DEF Expect
  <2>2. QED
    BY <1>1, <1>3, <2>1, JobFits DEF RecordOk
<1>8. OutOk(e)'
  <2>1. CASE job[e][u].type = "alert"
    <3>1. Alerted(e)'
      BY <1>2, <1>3, <2>1 DEF Alerted
    <3>2. QED
      BY <3>1 DEF OutOk
  <2>2. CASE job[e][u].type # "alert"
    <3>1. /\ job[e][u].type = "ccs" <=> Len(link[e]) + 1 = CcsAt(e)
          /\ job[e][u].type = "ccs" => Keyed(e)
      BY <1>1, <2>2, JobFits
    <3>2. Keyed(e) \in BOOLEAN
      BY DEF Keyed
    <3>3. out'[e] = Expect(e, Len(link[e]) + 1, Keyed(e))
      <4>1. PICK type, n, known : type = job[e][u].type /\ n = Len(link[e]) /\ known = Keyed(e)
        OBVIOUS
      <4>2. n \in Nat /\ known \in BOOLEAN /\ (type = "ccs" <=> n + 1 = CcsAt(e)) /\ (type = "ccs" => known)
        BY <1>2, <3>1, <3>2, <4>1
      <4>3. Sealed(Expect(e, n, known), type) = Expect(e, n + 1, known)
        BY <4>2, SealedExpect
      <4>4. QED
        BY <1>3, <1>6, <4>1, <4>3
    <3>4. Begun(e)' = Len(link[e]) + 1
      BY <1>2, <1>3, <1>4 DEF Begun
    <3>5. QED
      BY <1>5, <3>3, <3>4 DEF OutOk, Expect, KeyAt, SeqAt, CcsAt, LastAt
  <2>3. QED
    BY <2>1, <2>2
<1>9. ASSUME NEW f \in Ends PROVE AgreeAt(f)'
  <2>1. AgreeAt(f)
    BY DEF Agreed
  <2>2. OutOk(f)'
    BY <1>3, <1>4, <1>5, <1>8, <2>1, OutStays DEF AgreeAt
  <2>3. InOk(f)'
    BY <1>4, <1>5, <2>1, InStays DEF AgreeAt
  <2>4. RecordsOk(f)'
    <3>1. \A i \in 1 .. Len(link'[f]) : RecordOk(f, i, link'[f][i])
      BY <1>4, <2>1 DEF AgreeAt, RecordsOk
    <3>2. outio'[f] # None => RecordOk(f, Len(link'[f]) + 1, built'[f])
      BY <1>3, <1>4, <1>7, <2>1 DEF AgreeAt, RecordsOk
    <3>3. QED
      BY <3>1, <3>2 DEF RecordsOk, RecordOk, KeyAt, SeqAt, CcsAt, LastAt, Planned
  <2>5. Reads(f)' /\ Writes(f)'
    BY <1>4, <1>5, <2>1, PlaceStays DEF AgreeAt
  <2>6. QED
    BY <2>2, <2>3, <2>4, <2>5 DEF AgreeAt
<1>10. QED
  BY <1>4, <1>9 DEF Agreed

(* RecWrite: the record of the script is sent, and the script goes on. *)
LEMMA RecWriteAgrees ==
  ASSUME Inv, Agreed, Sound', NEW e \in Ends, NEW u \in Procs, RecWrite(e, u)
  PROVE  Agreed'
<1>1. PICK damage \in 0 .. (IF built[e].key = None THEN 0 ELSE 1) :
        /\ damages' = damages + damage
        /\ link' = [link EXCEPT ![e] =
              Append(@, IF damage = 0 THEN built[e] ELSE [built[e] EXCEPT !.key = "damaged"])]
  BY DEF RecWrite
<1>2. /\ outio[e] = u
      /\ Returns(e, u, TRUE)
      /\ outio' = [outio EXCEPT ![e] = None]
      /\ built' = [built EXCEPT ![e] = None]
      /\ UNCHANGED <<got, hungup, state, opened, handq, in, out, inio, processed, written,
                     wrongkey, puzzled>>
  BY DEF RecWrite
<1>3. Shape /\ Local(e) /\ AgreeAt(e) /\ u # None /\ TRUE \in BOOLEAN
  BY NoneIsNothing DEF Inv, Agreed
<1>4. damage = 0
  <2>1. damages \in Nat /\ damages' = 0
    BY <1>3 DEF Shape, Sound
  <2>2. QED
    BY <1>1, <2>1
<1>5. job[e][u] # None /\ built[e] \in Records
  BY <1>2, <1>3 DEF Local, Building
<1>6. /\ link'[e] = Append(link[e], built[e]) /\ link[e] \in Seq(Records)
      /\ outio'[e] = None
      /\ \A f \in Ends : f # e => link'[f] = link[f] /\ outio'[f] = outio[f] /\ built'[f] = built[f]
  BY <1>1, <1>2, <1>3, <1>4 DEF Shape
<1>7. /\ Len(link[e]) \in Nat /\ Len(link'[e]) = Len(link[e]) + 1
      /\ \A i \in 1 .. Len(link[e]) : link'[e][i] = link[e][i]
      /\ link'[e][Len(link[e]) + 1] = built[e]
  BY <1>5, <1>6
<1>8. /\ \A f \in Ends : f # e => pc'[f] = pc[f] /\ next'[f] = next[f]
      /\ pc'[e][u] = AfterJob(e, u, TRUE)
  BY <1>2, <1>3, <1>5, AfterJobIs
<1>9. next'[e] = IF pc[e][u] = "script" THEN next[e] + 1 ELSE next[e]
  <2>1. next' = [next EXCEPT ![e] = IF pc[e][u] = "script" /\ TRUE THEN @ + 1 ELSE @]
    BY <1>2, <1>3, <1>5, JobEnds
  <2>2. QED
    BY <1>3, <2>1 DEF Shape
<1>10. \A f \in Ends : Consumed(f)' = Consumed(f)
  BY <1>2 DEF Consumed
<1>11. ASSUME pc[e][u] = "script" PROVE Reads(e)' /\ Writes(e)' /\ Keyed(e)' = Keyed(e)
  <2>1. u = "hand" /\ Scripted(e, job[e][u]) /\ next[e] \in 1 .. Last(e) /\ next[e] \in Nat
    BY <1>3, <1>5, <1>11, JobPlace DEF Inv, Halves, Shape
  <2>2. pc'[e]["hand"] = "script"
    BY <1>5, <1>8, <1>11, <2>1, JobPlace DEF AfterJob
  <2>3. /\ Sent(e, next[e] + 1) = Sent(e, next[e]) + 1
        /\ Heard(e, next[e] + 1) = Heard(e, next[e]) /\ Left(e, next[e] + 1) = Left(e, next[e])
        /\ next[e] # SecretAt(e)
    <3>1. CASE Op(e).op = "send"
      BY <2>1, <3>1, SendPlan DEF Op
    <3>2. CASE Op(e).op = "changecipher"
      <4>1. SecretAt(e) \in Nat
        BY DEF SecretAt
      <4>2. QED
        BY <2>1, <3>2, <4>1, CtlPlan DEF Op
    <3>3. QED
      BY <2>1, <3>1, <3>2 DEF Scripted
  <2>4. next'[e] = next[e] + 1
    BY <1>9, <1>11
  <2>5. Keyed(e)' = Keyed(e)
    BY <2>1, <2>3, <2>4 DEF Keyed, SecretAt
  <2>6. /\ Consumed(e) = Heard(e, next[e])
        /\ handq[e] \in Seq(Messages) /\ Len(handq[e]) = Left(e, next[e])
        /\ state[e] = "handshake" /\ ~opened[e] /\ Len(link[e]) = Sent(e, next[e])
    BY <1>3, <1>11, <2>1 DEF AgreeAt, Reads, Writes
  <2>7. Reads(e)'
    BY <1>2, <1>10, <2>2, <2>3, <2>4, <2>6 DEF Reads
  <2>8. Writes(e)'
    BY <1>2, <1>7, <2>2, <2>3, <2>4, <2>6 DEF Writes
  <2>9. QED
    BY <2>5, <2>7, <2>8
<1>12. ASSUME pc[e][u] # "script" PROVE Reads(e)' /\ Writes(e)' /\ Keyed(e)' = Keyed(e)
  <2>1. Reads(e)' /\ Writes(e)'
    <3>1. Len(link'[e]) \in Nat /\ Len(link'[e]) >= Len(link[e])
      BY <1>7
    <3>2. QED
      BY <1>2, <1>3, <1>5, <1>10, <1>12, <3>1, JobLeaves
  <2>2. Keyed(e)' = Keyed(e)
    BY <1>9, <1>12 DEF Keyed
  <2>3. QED
    BY <2>1, <2>2
<1>13. Reads(e)' /\ Writes(e)' /\ Keyed(e)' = Keyed(e)
  BY <1>11, <1>12
<1>14. RecordsOk(e)'
  <2>1. RecordOk(e, Len(link[e]) + 1, built[e])
    BY <1>2, <1>3 DEF AgreeAt, RecordsOk
  <2>2. \A i \in 1 .. Len(link'[e]) : i \in 1 .. Len(link[e]) \/ i = Len(link[e]) + 1
    BY <1>7
  <2>3. \A i \in 1 .. Len(link'[e]) : RecordOk(e, i, link'[e][i])
    BY <1>3, <1>7, <2>1, <2>2 DEF AgreeAt, RecordsOk
  <2>4. QED
    BY <1>6, <2>3 DEF RecordsOk, RecordOk, KeyAt, SeqAt, CcsAt, LastAt, Planned
<1>15. OutOk(e)'
  <2>1. Alerted(e) => Alerted(e)'
    <3>1. HasAlert(e) => HasAlert(e)'
      BY <1>7 DEF HasAlert
    <3>2. built[e].type = "alert" => HasAlert(e)'
      BY <1>7 DEF HasAlert
    <3>3. QED
      BY <3>1, <3>2 DEF Alerted
  <2>2. Begun(e)' = Begun(e)
    BY <1>2, <1>3, <1>6, <1>7 DEF Begun
  <2>3. QED
    BY <1>2, <1>3, <1>13, <2>1, <2>2 DEF AgreeAt, OutOk
<1>16. ASSUME NEW f \in Ends PROVE AgreeAt(f)'
  <2>1. AgreeAt(f)
    BY DEF Agreed
  <2>2. Keyed(f)' = Keyed(f)
    BY <1>8, <1>13 DEF Keyed
  <2>3. InOk(f)'
    <3>1. Peer(f) \in Ends
      BY DEF Peer, Ends
    <3>2. \A i \in 1 .. Len(link[Peer(f)]) : link'[Peer(f)][i] = link[Peer(f)][i]
      BY <1>6, <1>7, <3>1
    <3>3. QED
      BY <1>2, <1>10, <2>1, <2>2, <3>2, InStays DEF AgreeAt
  <2>4. CASE f = e
    BY <1>13, <1>14, <1>15, <2>3, <2>4 DEF AgreeAt
  <2>5. CASE f # e
    <3>1. OutOk(f)'
      BY <1>2, <1>6, <2>1, <2>2, <2>5, OutStays DEF AgreeAt
    <3>2. RecordsOk(f)'
      BY <1>6, <2>1, <2>5 DEF AgreeAt, RecordsOk
    <3>3. Reads(f)' /\ Writes(f)'
      BY <1>2, <1>6, <1>8, <1>10, <2>1, <2>5, PlaceStays DEF AgreeAt
    <3>4. QED
      BY <2>3, <3>1, <3>2, <3>3 DEF AgreeAt
  <2>6. QED
    BY <2>4, <2>5
<1>17. QED
  BY <1>2, <1>16 DEF Agreed

(* RecWriteFails: the state is error, and e will not seal another. *)
LEMMA RecWriteFailsAgrees ==
  ASSUME Inv, Agreed, NEW e \in Ends, NEW u \in Procs, RecWriteFails(e, u)
  PROVE  Agreed'
<1>1. /\ outio[e] = u
      /\ tlsError(e)
      /\ Returns(e, u, FALSE)
      /\ outio' = [outio EXCEPT ![e] = None]
      /\ built' = [built EXCEPT ![e] = None]
      /\ UNCHANGED <<conn, opened, in, out, inio, processed, written, wrongkey, puzzled>>
  BY DEF RecWriteFails
<1>2. Shape /\ Local(e) /\ FALSE \in BOOLEAN
  BY DEF Inv
<1>3. job[e][u] # None
  BY <1>1, <1>2, NoneIsNothing DEF Local, Building
<1>4. /\ state'[e] = "error" /\ outio'[e] = None
      /\ \A f \in Ends : f # e => /\ state'[f] = state[f] /\ handq'[f] = handq[f]
                                  /\ outio'[f] = outio[f] /\ built'[f] = built[f]
  BY <1>1, <1>2, tlsErrorIs DEF Shape
<1>5. UNCHANGED <<link, got, opened, in, out, puzzled>>
  BY <1>1 DEF conn
<1>6. next' = next
  <2>1. next' = [next EXCEPT ![e] = IF pc[e][u] = "script" /\ FALSE THEN @ + 1 ELSE @]
    BY <1>1, <1>2, <1>3, JobEnds
  <2>2. QED
    BY <1>2, <2>1 DEF Shape
<1>7. \A f \in Ends : f # e => pc'[f] = pc[f]
  BY <1>1, <1>2, <1>3, AfterJobIs
<1>8. \A f \in Ends : Consumed(f)' = Consumed(f) /\ Keyed(f)' = Keyed(f)
  BY <1>5, <1>6 DEF Consumed, Keyed
<1>9. Reads(e)' /\ Writes(e)'
  <2>1. Len(link'[e]) \in Nat /\ Len(link'[e]) >= Len(link[e])
    BY <1>5, ConsumedIs
  <2>2. QED
    BY <1>1, <1>2, <1>3, <1>5, <1>8, <2>1, JobLeaves
<1>10. ASSUME NEW f \in Ends PROVE AgreeAt(f)'
  <2>1. AgreeAt(f)
    BY DEF Agreed
  <2>2. OutOk(f)'
    <3>1. CASE f = e
      BY <1>4, <3>1 DEF OutOk
    <3>2. CASE f # e
      BY <1>4, <1>5, <1>8, <2>1, <3>2, OutStays DEF AgreeAt
    <3>3. QED
      BY <3>1, <3>2
  <2>3. InOk(f)'
    BY <1>5, <1>8, <2>1, InStays DEF AgreeAt
  <2>4. RecordsOk(f)'
    BY <1>4, <1>5, <2>1 DEF AgreeAt, RecordsOk
  <2>5. Reads(f)' /\ Writes(f)'
    BY <1>4, <1>5, <1>6, <1>7, <1>8, <1>9, <2>1, PlaceStays DEF AgreeAt
  <2>6. QED
    BY <2>2, <2>3, <2>4, <2>5 DEF AgreeAt
<1>11. QED
  BY <1>5, <1>10 DEF Agreed

(* what a receiver that agrees with its sender finds in the next record *)
LEMMA NextRecord ==
  ASSUME Inv, Agreed, NEW e \in Ends, NEW u \in Procs, Consume(e, u)
  PROVE  LET k == Consumed(e)
             r == Arrived(e)
             p == Peer(e)
         IN  /\ Consumed(e)' = k + 1 /\ k \in Nat /\ k + 1 <= Len(link[p])
             /\ r = link[p][k + 1] /\ RecordOk(p, k + 1, r)
             /\ in[e] = Expect(p, k, Keyed(e))
             /\ u \in {"hand", "reader"}
             /\ u = "hand" => Heard(e, next[e]) <= k /\ k < Heard(e, next[e] + 1)
             /\ u = "reader" => k >= LastAt(p) /\ pc[e]["hand"] = "open"
<1>1. /\ pc[e][u] = "body"
      /\ got'[e] = got[e] + 1
      /\ got[e] \in Nat /\ got[e] % 2 = 1 /\ got'[e] % 2 = 0
      /\ got'[e] <= 2 * Len(link[Peer(e)])
  BY ConsumeIs
<1>2. /\ Consumed(e) \in Nat /\ Peer(e) \in Ends /\ Len(link[Peer(e)]) \in Nat
  BY ConsumedIs
<1>3. Consumed(e)' = Consumed(e) + 1
  BY <1>1, Half DEF Consumed
<1>4. Consumed(e) + 1 <= Len(link[Peer(e)])
  <2>1. (got[e] + 1) \div 2 <= Len(link[Peer(e)])
    BY <1>1, <1>2, Half
  <2>2. (got[e] + 1) \div 2 = Consumed(e) + 1
    BY <1>1, Half DEF Consumed
  <2>3. QED
    BY <2>1, <2>2
<1>5. Arrived(e) = link[Peer(e)][Consumed(e) + 1]
  BY DEF Arrived, Consumed
<1>6. AgreeAt(e) /\ AgreeAt(Peer(e)) /\ Quiet(Peer(e))
  BY <1>2 DEF Agreed, Inv, Local
<1>7. RecordOk(Peer(e), Consumed(e) + 1, Arrived(e))
  BY <1>2, <1>4, <1>5, <1>6 DEF AgreeAt, RecordsOk
<1>8. in[e] = Expect(Peer(e), Consumed(e), Keyed(e))
  <2>1. \A i \in 1 .. Consumed(e) : i \in 1 .. Len(link[Peer(e)]) /\ i # Len(link[Peer(e)])
    BY <1>2, <1>4
  <2>2. \A i \in 1 .. Consumed(e) : link[Peer(e)][i].type # "alert"
    BY <1>6, <2>1 DEF Quiet
  <2>3. QED
    BY <1>6, <2>2 DEF AgreeAt, InOk
<1>9. u \in {"hand", "reader"} /\ (u = "reader" => pc[e]["hand"] = "open")
  BY <1>1, WhoReads
<1>10. QED
  BY <1>1, <1>2, <1>3, <1>4, <1>5, <1>6, <1>7, <1>8, <1>9 DEF AgreeAt, Reads

(* of what types it may be, and what it says *)
LEMMA NextFits ==
  ASSUME Inv, Agreed, NEW e \in Ends, NEW u \in Procs, Consume(e, u)
  PROVE  LET k == Consumed(e)
             r == Arrived(e)
             p == Peer(e)
         IN  /\ r.type # "alert" => (r.type = "ccs" <=> k + 1 = CcsAt(p))
             /\ r.type = "ccs" => Keyed(e)
             /\ r.type = "data" => opened[e] /\ u = "reader"
             /\ u = "hand" /\ r.type = "ccs" => k + 1 < Heard(e, next[e] + 1)
             /\ u = "hand" /\ r.type = "handshake" =>
                  /\ k + 1 = Heard(e, next[e] + 1)
                  /\ r.body \in Seq(Messages) /\ Len(r.body) = Left(e, next[e] + 1) + 1
             /\ u = "reader" => r.type \in {"alert", "data"}
<1>1. /\ Consumed(e) \in Nat
      /\ RecordOk(Peer(e), Consumed(e) + 1, Arrived(e))
      /\ u \in {"hand", "reader"}
      /\ u = "hand" => Heard(e, next[e]) <= Consumed(e) /\ Consumed(e) < Heard(e, next[e] + 1)
      /\ u = "reader" => Consumed(e) >= LastAt(Peer(e)) /\ pc[e]["hand"] = "open"
  BY NextRecord
<1>2. /\ LastAt(Peer(e)) \in Nat /\ CcsAt(Peer(e)) \in Nat /\ CcsAt(Peer(e)) < LastAt(Peer(e))
      /\ AgreeAt(e) /\ next[e] \in 1 .. Last(e) /\ JobOk(e, u)
  BY DEF LastAt, CcsAt, Agreed, Inv, Halves, Local
<1>3. CASE u = "reader"
  <2>1. Arrived(e).type \in {"alert", "data"} /\ Consumed(e) + 1 # CcsAt(Peer(e))
    BY <1>1, <1>2, <1>3 DEF RecordOk
  <2>2. opened[e]
    BY <1>1, <1>2, <1>3 DEF AgreeAt, Writes
  <2>3. QED
    BY <1>3, <2>1, <2>2
<1>4. CASE u = "hand"
  <2>1. Op(e).op = "recv"
    BY <1>2, <1>4, ConsumeIs DEF JobOk
  <2>2. LET p == Planned(Peer(e), Consumed(e) + 1) IN
        /\ Consumed(e) + 1 <= LastAt(Peer(e))
        /\ \/ /\ Consumed(e) + 1 = CcsAt(Peer(e)) /\ next[e] > SecretAt(e)
              /\ Consumed(e) + 1 < Heard(e, next[e] + 1)
              /\ p.type = "ccs"
           \/ /\ Consumed(e) + 1 # CcsAt(Peer(e)) /\ Consumed(e) + 1 = Heard(e, next[e] + 1)
              /\ p.type = "handshake"
              /\ p.body \in Seq(Messages) /\ Len(p.body) = Left(e, next[e] + 1) + 1
    BY <1>1, <1>2, <1>4, <2>1, RecvPlan DEF Op
  <2>3. \/ Arrived(e).type = "alert"
        \/ /\ Arrived(e).type = Planned(Peer(e), Consumed(e) + 1).type
           /\ Arrived(e).body = Planned(Peer(e), Consumed(e) + 1).body
    BY <1>1, <1>2, <2>2 DEF RecordOk
  <2>4. QED
    BY <1>4, <2>2, <2>3 DEF Keyed
<1>5. QED
  BY <1>1, <1>3, <1>4

(* So a receiver that agrees with its sender understands the record. *)
LEMMA NeverPuzzled ==
  ASSUME Inv, Agreed, NEW e \in Ends, NEW u \in Procs, RecPuzzled(e, u)
  PROVE  FALSE
<1>1. Consume(e, u) /\ ~Understood(e)
  BY DEF RecPuzzled
<1>2. /\ Consumed(e) \in Nat
      /\ RecordOk(Peer(e), Consumed(e) + 1, Arrived(e))
      /\ in[e] = Expect(Peer(e), Consumed(e), Keyed(e))
      /\ got[e] % 2 = 1
  BY <1>1, NextRecord, ConsumeIs
<1>3. Arrived(e).key = in[e].sec /\ Arrived(e).seq = in[e].seq
  BY <1>2 DEF RecordOk, Expect
<1>4. Arrived(e).type = "ccs" => in[e].new # None
  <2>1. SUFFICES ASSUME Arrived(e).type = "ccs" PROVE in[e].new # None
    OBVIOUS
  <2>2. Consumed(e) + 1 = CcsAt(Peer(e)) /\ Keyed(e)
    BY <1>1, <2>1, NextFits
  <2>3. CcsAt(Peer(e)) \in Nat /\ "k" # None
    BY NoneIsNothing DEF CcsAt, LastAt
  <2>4. QED
    BY <1>2, <2>2, <2>3 DEF Expect
<1>5. Arrived(e).type = "data" => opened[e]
  BY <1>1, NextFits
<1>6. QED
  BY <1>1, <1>2, <1>3, <1>4, <1>5 DEF Understood

(* what reading a record does, by its type *)
LEMMA RecReadDoes ==
  ASSUME Inv, NEW e \in Ends, NEW u \in Procs, RecRead(e, u)
  PROVE  LET r == Arrived(e) IN
         /\ r.type = "ccs" => in'[e] = [sec |-> in[e].new, new |-> None, seq |-> 0]
         /\ r.type # "ccs" => in'[e] = Opened(in[e])
         /\ \A f \in Ends : f # e => in'[f] = in[f] /\ handq'[f] = handq[f]
         /\ \/ r.type \in {"ccs", "data"} /\ UNCHANGED <<handq, state>>
            \/ r.type = "handshake" /\ handq'[e] = handq[e] \o r.body /\ UNCHANGED state
            \/ Went(e, u, "unlock") \/ Went(e, u, "rcvClose")
<1>1. Shape
  BY DEF Inv
<1>2. CASE /\ Arrived(e).type = "ccs"
           /\ in' = [in EXCEPT ![e] = [sec |-> in[e].new, new |-> None, seq |-> 0]]
           /\ UNCHANGED <<state, handq, processed>>
  BY <1>1, <1>2 DEF Shape
<1>3. CASE /\ Arrived(e).type = "handshake"
           /\ in' = [in EXCEPT ![e] = Opened(@)]
           /\ handq' = [handq EXCEPT ![e] = @ \o Arrived(e).body]
           /\ UNCHANGED <<state, processed>>
  BY <1>1, <1>3 DEF Shape
<1>4. CASE /\ Arrived(e).type = "data"
           /\ in' = [in EXCEPT ![e] = Opened(@)]
           /\ UNCHANGED <<state, handq>>
  BY <1>1, <1>4 DEF Shape
<1>5. CASE /\ Arrived(e).type = "alert"
           /\ in' = [in EXCEPT ![e] = Opened(@)]
           /\ \/ tlsError(e)
              \/ handq' = IF handq[e] = None THEN handq
                          ELSE [handq EXCEPT ![e] = Append(@, "Alert")]
           /\ Goto(e, u, "unlock") \/ Goto(e, u, "rcvClose")
  <2>1. Went(e, u, "unlock") \/ Went(e, u, "rcvClose")
    BY <1>5, GotoIs, ReadPlaces
  <2>2. \A f \in Ends : f # e => handq'[f] = handq[f]
    BY <1>1, <1>5, tlsErrorIs DEF Shape
  <2>3. in'[e] = Opened(in[e]) /\ \A f \in Ends : f # e => in'[f] = in[f]
    BY <1>1, <1>5 DEF Shape
  <2>4. QED
    BY <1>5, <2>1, <2>2, <2>3
<1>6. QED
  BY <1>2, <1>3, <1>4, <1>5 DEF RecRead

(* RecRead: the input side expects the record after it. *)
LEMMA RecReadAgrees ==
  ASSUME Inv, Agreed, NEW e \in Ends, NEW u \in Procs, RecRead(e, u)
  PROVE  Agreed'
<1>1. /\ Consume(e, u) /\ UNCHANGED puzzled /\ Worse(e)
      /\ Went(e, u, "read") \/ Went(e, u, "unlock") \/ Went(e, u, "rcvClose")
  BY RecReadIs
<1>2. /\ pc[e][u] = "body" /\ \A f \in Ends : f # e => got'[f] = got[f]
  BY <1>1, ConsumeIs
<1>3. UNCHANGED <<link, hungup, damages, opened, out, inio, outio, next, built, written, wrongkey>>
  BY <1>1 DEF Consume
<1>4. /\ Arrived(e).type = "ccs" => in'[e] = [sec |-> in[e].new, new |-> None, seq |-> 0]
      /\ Arrived(e).type # "ccs" => in'[e] = Opened(in[e])
      /\ \A f \in Ends : f # e => in'[f] = in[f] /\ handq'[f] = handq[f]
      /\ \/ Arrived(e).type \in {"ccs", "data"} /\ UNCHANGED <<handq, state>>
         \/ /\ Arrived(e).type = "handshake" /\ handq'[e] = handq[e] \o Arrived(e).body
            /\ UNCHANGED state
         \/ Went(e, u, "unlock") \/ Went(e, u, "rcvClose")
  BY RecReadDoes
<1>5. /\ Consumed(e)' = Consumed(e) + 1 /\ Consumed(e) \in Nat
      /\ Arrived(e) = link[Peer(e)][Consumed(e) + 1]
      /\ in[e] = Expect(Peer(e), Consumed(e), Keyed(e))
      /\ u \in {"hand", "reader"}
      /\ u = "hand" => Heard(e, next[e]) <= Consumed(e) /\ Consumed(e) < Heard(e, next[e] + 1)
      /\ u = "reader" => Consumed(e) >= LastAt(Peer(e)) /\ pc[e]["hand"] = "open"
  BY <1>1, NextRecord
<1>6. /\ Arrived(e).type # "alert" => (Arrived(e).type = "ccs" <=> Consumed(e) + 1 = CcsAt(Peer(e)))
      /\ Arrived(e).type = "ccs" => Keyed(e)
      /\ Arrived(e).type = "data" => opened[e] /\ u = "reader"
      /\ u = "hand" /\ Arrived(e).type = "ccs" => Consumed(e) + 1 < Heard(e, next[e] + 1)
      /\ u = "hand" /\ Arrived(e).type = "handshake" =>
           /\ Consumed(e) + 1 = Heard(e, next[e] + 1)
           /\ Arrived(e).body \in Seq(Messages) /\ Len(Arrived(e).body) = Left(e, next[e] + 1) + 1
  BY <1>1, NextFits
<1>7. \A f \in Ends : Keyed(f)' = Keyed(f) /\ (f # e => Consumed(f)' = Consumed(f))
  BY <1>2, <1>3 DEF Keyed, Consumed
<1>8. AgreeAt(e) /\ next[e] \in 1 .. Last(e) /\ LastAt(Peer(e)) \in Nat /\ Peer(e) \in Ends
  BY ConsumedIs DEF Agreed, Inv, Halves, LastAt
<1>9. InOk(e)'
  <2>1. SUFFICES ASSUME Arrived(e).type # "alert"
                 PROVE  in'[e] = Expect(Peer(e), Consumed(e) + 1, Keyed(e))
    <3>1. Consumed(e) + 1 \in 1 .. Consumed(e)'
      BY <1>5
    <3>2. Arrived(e) = link'[Peer(e)][Consumed(e) + 1]
      BY <1>3, <1>5
    <3>3. QED
      BY <1>5, <1>7, <3>1, <3>2 DEF InOk, Expect, KeyAt, SeqAt, CcsAt, LastAt
  <2>2. PICK type, n, known, p : /\ type = Arrived(e).type /\ n = Consumed(e) /\ known = Keyed(e)
                                 /\ p = Peer(e)
    OBVIOUS
  <2>3. n \in Nat /\ known \in BOOLEAN /\ p \in Ends
        /\ (type = "ccs" <=> n + 1 = CcsAt(p)) /\ (type = "ccs" => known)
    <3>1. Keyed(e) \in BOOLEAN
      BY DEF Keyed
    <3>2. (type = "ccs" <=> n + 1 = CcsAt(p)) /\ (type = "ccs" => known)
      BY <1>6, <2>1, <2>2
    <3>3. QED
      BY <1>5, <1>8, <2>2, <3>1, <3>2
  <2>4. /\ type = "ccs" =>
             [sec |-> Expect(p, n, known).new, new |-> None, seq |-> 0] = Expect(p, n + 1, known)
        /\ type # "ccs" => Opened(Expect(p, n, known)) = Expect(p, n + 1, known)
    BY <2>3, SealedExpect
  <2>5. QED
    BY <1>4, <1>5, <2>2, <2>4
<1>10. Reads(e)' /\ Writes(e)'
  <2>1. CASE u = "hand" /\ (Went(e, u, "unlock") \/ Went(e, u, "rcvClose"))
    BY <2>1, OffScript DEF Went
  <2>2. CASE u = "reader"
    <3>1. pc[e]["hand"] = "open" /\ pc'[e]["hand"] = "open"
      BY <1>1, <1>5, <2>2 DEF Went, Procs
    <3>2. Reads(e)'
      <4>1. Consumed(e)' >= LastAt(Peer(e))
        BY <1>5, <1>8, <2>2
      <4>2. QED
        BY <3>1, <4>1 DEF Reads, LastAt, Peer
    <3>3. Writes(e)'
      BY <1>3, <1>8, <3>1 DEF AgreeAt, Writes
    <3>4. QED
      BY <3>2, <3>3
  <2>3. CASE u = "hand" /\ Went(e, u, "read") /\ ~Went(e, u, "unlock") /\ ~Went(e, u, "rcvClose")
    <3>1. pc[e]["hand"] = "body" /\ pc'[e]["hand"] = "read"
      BY <1>2, <2>3 DEF Went
    <3>2. UNCHANGED state
      BY <1>4, <2>3
    <3>3. Writes(e)'
      BY <1>3, <1>8, <3>1, <3>2 DEF AgreeAt, Writes
    <3>4. handq[e] \in Seq(Messages) /\ Len(handq[e]) = 0
      BY <1>5, <1>8, <2>3, <3>1 DEF AgreeAt, Reads
    <3>5. Heard(e, next[e]) \in Nat /\ Heard(e, next[e] + 1) \in Nat /\ Left(e, next[e] + 1) \in Nat
      <4>1. JobOk(e, u)
        BY DEF Inv, Local
      <4>2. Script(e)[next[e]].op = "recv"
        BY <2>3, <3>1, <4>1 DEF JobOk, Op
      <4>3. QED
        BY <1>8, <4>2, RecvPlan, Counting
    <3>6. CASE Arrived(e).type = "ccs" /\ UNCHANGED handq
      <4>1. Consumed(e) + 1 < Heard(e, next[e] + 1)
        BY <1>6, <2>3, <3>6
      <4>2. Heard(e, next[e]) <= Consumed(e) + 1 /\ Consumed(e) + 1 <= Heard(e, next[e] + 1)
        BY <1>5, <2>3, <3>5, <4>1
      <4>3. QED
        BY <1>3, <1>5, <3>1, <3>3, <3>4, <3>6, <4>1, <4>2 DEF Reads, Heard, Left
    <3>7. CASE Arrived(e).type = "handshake" /\ handq'[e] = handq[e] \o Arrived(e).body
      <4>1. /\ Consumed(e) + 1 = Heard(e, next[e] + 1)
            /\ Arrived(e).body \in Seq(Messages) /\ Len(Arrived(e).body) = Left(e, next[e] + 1) + 1
        BY <1>6, <2>3, <3>7
      <4>2. handq'[e] \in Seq(Messages) /\ Len(handq'[e]) = Left(e, next[e] + 1) + 1
        <5>1. \A s, t \in Seq(Messages) : s \o t \in Seq(Messages) /\ Len(s \o t) = Len(s) + Len(t)
          OBVIOUS
        <5>2. QED
          <6>1. PICK s, t \in Seq(Messages) : s = handq[e] /\ t = Arrived(e).body
            BY <3>4, <4>1
          <6>2. Len(s) = 0 /\ Len(t) = Left(e, next[e] + 1) + 1
            BY <3>4, <4>1, <6>1
          <6>3. s \o t \in Seq(Messages) /\ Len(s \o t) = 0 + (Left(e, next[e] + 1) + 1)
            BY <5>1, <6>2
          <6>4. QED
            BY <3>5, <3>7, <6>1, <6>3
      <4>3. Heard(e, next[e]) <= Consumed(e) + 1 /\ Consumed(e) + 1 <= Heard(e, next[e] + 1)
            /\ ~(Consumed(e) + 1 < Heard(e, next[e] + 1))
        BY <1>5, <2>3, <3>5, <4>1
      <4>4. QED
        BY <1>3, <1>5, <3>1, <3>3, <4>2, <4>3 DEF Reads, Heard, Left
    <3>8. QED
      BY <1>4, <1>6, <2>3, <3>6, <3>7
  <2>4. QED
    BY <1>1, <1>5, <2>1, <2>2, <2>3
<1>11. ASSUME NEW f \in Ends PROVE AgreeAt(f)'
  <2>1. AgreeAt(f)
    BY DEF Agreed
  <2>2. OutOk(f)'
    <3>1. state'[f] \notin {"error", "closed"} => state[f] \notin {"error", "closed"}
      BY <1>1 DEF Worse
    <3>2. QED
      BY <1>3, <1>7, <2>1, <3>1, OutStays DEF AgreeAt
  <2>3. RecordsOk(f)'
    BY <1>3, <2>1 DEF AgreeAt, RecordsOk
  <2>4. CASE f = e
    BY <1>9, <1>10, <2>2, <2>3, <2>4 DEF AgreeAt
  <2>5. CASE f # e
    <3>1. InOk(f)'
      BY <1>3, <1>4, <1>7, <2>1, <2>5, InStays DEF AgreeAt
    <3>2. Reads(f)' /\ Writes(f)'
      BY <1>1, <1>3, <1>4, <1>7, <2>1, <2>5, PlaceStays DEF AgreeAt, Went, Worse
    <3>3. QED
      BY <2>2, <2>3, <3>1, <3>2 DEF AgreeAt
  <2>6. QED
    BY <2>4, <2>5
<1>12. QED
  BY <1>1, <1>11 DEF Agreed

(* HandSecret: both directions know the key before either has changed to it. *)
LEMMA HandSecretAgrees ==
  ASSUME Inv, Agreed, Sound', NEW e \in Ends, HandSecret(e)
  PROVE  Agreed'
<1>1. PICK key \in {"k"} \cup (IF e = "server" THEN {"other"} ELSE {}) :
        /\ in' = [in EXCEPT ![e].new = key]
        /\ out' = [out EXCEPT ![e].new = key]
        /\ wrongkey' = (wrongkey \/ key = "other")
  BY DEF HandSecret
<1>2. /\ At(e, "hand", "script") /\ Op(e).op = "secret"
      /\ next' = [next EXCEPT ![e] = @ + 1]
      /\ UNCHANGED <<conn, state, opened, inio, outio, handq, processed, pc, job, built, written,
                     puzzled>>
  BY DEF HandSecret
<1>3. key = "k"
  BY <1>1 DEF Sound
<1>4. /\ pc[e]["hand"] = "script" /\ job[e]["hand"] = None
      /\ Placed(e) /\ next[e] \in 1 .. Last(e) /\ Shape /\ Local(e) /\ AgreeAt(e)
  BY <1>2, ScriptPlace DEF Inv, Agreed
<1>5. UNCHANGED <<link, got, state, opened, outio, handq, pc, job, built, puzzled>>
  BY <1>2 DEF conn
<1>6. /\ in'[e] = [in[e] EXCEPT !.new = "k"] /\ out'[e] = [out[e] EXCEPT !.new = "k"]
      /\ next'[e] = next[e] + 1
      /\ \A f \in Ends : f # e => in'[f] = in[f] /\ out'[f] = out[f] /\ next'[f] = next[f]
  BY <1>1, <1>2, <1>3, <1>4 DEF Shape
<1>7. /\ next[e] = SecretAt(e)
      /\ Sent(e, next[e]) < CcsAt(e) /\ Heard(e, next[e]) < CcsAt(Peer(e))
      /\ Sent(e, next[e] + 1) = Sent(e, next[e])
      /\ Heard(e, next[e] + 1) = Heard(e, next[e]) /\ Left(e, next[e] + 1) = Left(e, next[e])
  BY <1>2, <1>4, CtlPlan DEF Op
<1>8. Keyed(e) = FALSE /\ Keyed(e)' = TRUE
  BY <1>6, <1>7 DEF Keyed, SecretAt
<1>9. outio[e] = None
  <2>1. ASSUME outio[e] # None PROVE FALSE
    <3>1. outio[e] \in Procs /\ job[e][outio[e]] # None
      BY <1>4, <2>1 DEF Shape, Local, Building
    <3>2. \A v \in Procs : v # "hand" => pc[e][v] = "idle"
      BY <1>4 DEF Placed, Procs, Shaken
    <3>3. \A v \in Procs : JobOk(e, v)
      BY <1>4 DEF Local
    <3>4. QED
      BY <1>4, <3>1, <3>2, <3>3 DEF JobOk
  <2>2. QED
    BY <2>1
<1>10. /\ Consumed(e) = Heard(e, next[e])
       /\ handq[e] \in Seq(Messages) /\ Len(handq[e]) = Left(e, next[e])
       /\ state[e] = "handshake" /\ ~opened[e] /\ Len(link[e]) = Sent(e, next[e])
  BY <1>4 DEF AgreeAt, Reads, Writes
<1>11. \A f \in Ends : Consumed(f)' = Consumed(f) /\ Begun(f)' = Begun(f)
  BY <1>5 DEF Consumed, Begun
<1>12. \A f \in Ends, k \in Nat : k < CcsAt(f) =>
         [Expect(f, k, FALSE) EXCEPT !.new = "k"] = Expect(f, k, TRUE)
  BY DEF Expect
<1>13. OutOk(e)'
  <2>1. Begun(e) = Sent(e, next[e]) /\ Begun(e) \in Nat /\ Begun(e) < CcsAt(e)
    BY <1>7, <1>9, <1>10, ConsumedIs DEF Begun
  <2>2. SUFFICES ASSUME ~Alerted(e)', state'[e] \notin {"error", "closed"}
                 PROVE  out'[e] = Expect(e, Begun(e), TRUE)
    BY <1>8, <1>11 DEF OutOk, Expect, KeyAt, SeqAt, CcsAt, LastAt
  <2>3. ~Alerted(e)
    BY <1>5, <2>2 DEF Alerted, HasAlert
  <2>4. out[e] = Expect(e, Begun(e), FALSE)
    BY <1>4, <1>5, <1>8, <2>2, <2>3 DEF AgreeAt, OutOk
  <2>5. QED
    BY <1>6, <1>12, <2>1, <2>4
<1>14. InOk(e)'
  <2>1. Consumed(e) \in Nat /\ Consumed(e) < CcsAt(Peer(e)) /\ Peer(e) \in Ends
    BY <1>7, <1>10, ConsumedIs
  <2>2. SUFFICES ASSUME \A i \in 1 .. Consumed(e) : link[Peer(e)][i].type # "alert"
                 PROVE  in'[e] = Expect(Peer(e), Consumed(e), TRUE)
    BY <1>5, <1>8, <1>11 DEF InOk, Expect, KeyAt, SeqAt, CcsAt, LastAt
  <2>3. in[e] = Expect(Peer(e), Consumed(e), FALSE)
    BY <1>4, <1>8, <2>2 DEF AgreeAt, InOk
  <2>4. QED
    BY <1>6, <1>12, <2>1, <2>3
<1>15. Reads(e)'
  BY <1>4, <1>5, <1>6, <1>7, <1>10, <1>11 DEF Reads
<1>16. Writes(e)'
  BY <1>4, <1>5, <1>6, <1>7, <1>10 DEF Writes
<1>17. ASSUME NEW f \in Ends PROVE AgreeAt(f)'
  <2>1. AgreeAt(f)
    BY DEF Agreed
  <2>2. RecordsOk(f)'
    BY <1>5, <2>1 DEF AgreeAt, RecordsOk
  <2>3. CASE f = e
    BY <1>13, <1>14, <1>15, <1>16, <2>2, <2>3 DEF AgreeAt
  <2>4. CASE f # e
    <3>1. Keyed(f)' = Keyed(f)
      BY <1>6, <2>4 DEF Keyed
    <3>2. OutOk(f)'
      BY <1>5, <1>6, <2>1, <2>4, <3>1, OutStays DEF AgreeAt
    <3>3. InOk(f)'
      BY <1>5, <1>6, <1>11, <2>1, <2>4, <3>1, InStays DEF AgreeAt
    <3>4. Reads(f)' /\ Writes(f)'
      BY <1>5, <1>6, <1>11, <2>1, <2>4, PlaceStays DEF AgreeAt
    <3>5. QED
      BY <2>2, <3>2, <3>3, <3>4 DEF AgreeAt
  <2>5. QED
    BY <2>3, <2>4
<1>18. QED
  BY <1>5, <1>17 DEF Agreed

-----------------------------------------------------------------------------
(* The ends agree initially, *)
LEMMA InitAgrees == Init => Agree
<1>1. SUFFICES ASSUME Init PROVE Agreed
  BY DEF Agree
<1>2. ASSUME NEW e \in Ends PROVE AgreeAt(e)
  <2>1. /\ link[e] = <<>> /\ got[e] = 0 /\ outio[e] = None /\ next[e] = 1 /\ handq[e] = <<>>
        /\ in[e] = OneWay /\ out[e] = OneWay /\ state[e] = "handshake" /\ opened[e] = FALSE
        /\ pc[e]["hand"] = "script"
    BY <1>1, <1>2 DEF Init, Procs
  <2>2. Consumed(e) = 0 /\ Begun(e) = 0 /\ Keyed(e) = FALSE /\ Len(link[e]) = 0
    BY <2>1 DEF Consumed, Begun, Keyed, SecretAt
  <2>3. \A f \in Ends : Expect(f, 0, FALSE) = OneWay
    BY DEF Expect, OneWay, KeyAt, SeqAt, CcsAt, LastAt
  <2>4. Peer(e) \in Ends
    BY DEF Peer, Ends
  <2>5. OutOk(e)
    BY <2>1, <2>2, <2>3 DEF OutOk
  <2>6. InOk(e)
    BY <2>1, <2>2, <2>3, <2>4 DEF InOk
  <2>7. RecordsOk(e)
    BY <2>1, <2>2 DEF RecordsOk
  <2>8. Reads(e)
    <3>1. <<>> \in Seq(Messages) /\ Len(<<>>) = 0 /\ Heard(e, 1) = 0 /\ Left(e, 1) = 0
      BY DEF Heard, Left
    <3>2. QED
      BY <2>1, <2>2, <3>1 DEF Reads
  <2>9. Writes(e)
    BY <2>1, <2>2 DEF Writes, Sent
  <2>10. QED
    BY <2>5, <2>6, <2>7, <2>8, <2>9 DEF AgreeAt
<1>3. puzzled = {}
  BY <1>1 DEF Init
<1>4. QED
  BY <1>2, <1>3 DEF Agreed

(* when nothing changes, *)
LEMMA StaysAgree == Inv /\ Agreed /\ UNCHANGED vars => Agreed'
<1>1. SUFFICES ASSUME Inv, Agreed, UNCHANGED vars PROVE Agreed'
  OBVIOUS
<1>2. "client" \in Ends
  BY DEF Ends
<1>3. QED
  BY <1>1, <1>2, AsideAgrees DEF vars, conn, sides

(* when a process works on a record, *)
LEMMA WorkingAgrees ==
  ASSUME Inv, Agreed, Sound', NEW e \in Ends, NEW u \in Procs, Working(e, u)
  PROVE  Agreed'
BY RecBuildAgrees, RecRefusedAgrees, RecWriteAgrees, RecWriteFailsAgrees, AlertSentAgrees,
   HeaderReadAgrees, NeverPuzzled, RecReadAgrees, RecClosedAgrees, RecHungupAgrees,
   ReadFailsAgrees DEF Working

(* and so in every step that leaves the keys and the connection sound. *)
LEMMA StepAgrees == Inv /\ Agreed /\ Sound' /\ [Next]_vars => Agreed'
<1>1. SUFFICES ASSUME Inv, Agreed, Sound', [Next]_vars PROVE Agreed'
  OBVIOUS
<1>2. CASE UNCHANGED vars
  BY <1>1, <1>2, StaysAgree
<1>3. CASE Disconnect
  BY <1>1, <1>3, DisconnectAgrees
<1>4. ASSUME NEW e \in Ends,
             \/ Shaking(e) \/ Using(e) \/ DataTake(e)
             \/ Working(e, "reader") \/ Working(e, "writer")
             \/ \E u \in Procs : Interrupted(e, u)
      PROVE  Agreed'
  <2>1. "hand" \in Procs /\ "reader" \in Procs /\ "writer" \in Procs
    BY DEF Procs
  <2>2. CASE Shaking(e)
    BY <1>1, <1>4, <2>1, <2>2, WorkingAgrees, HandSendAgrees, HandReadAgrees, HandTakeAgrees,
       HandSecretAgrees, HandOpenedAgrees, HandCloseAgrees, HandHangupAgrees DEF Shaking
  <2>3. CASE Using(e)
    BY <1>1, <1>4, <2>3, DataReadAgrees, DataWriteAgrees, HandCloseAgrees DEF Using
  <2>4. QED
    BY <1>1, <1>4, <2>1, <2>2, <2>3, DataTakeAgrees, WorkingAgrees, InterruptedAgrees
<1>5. QED
  BY <1>1, <1>2, <1>3, <1>4 DEF Next

(* Work on a record does not undo damage, *)
LEMMA WorkingSound ==
  ASSUME Inv, NEW e \in Ends, NEW u \in Procs, Working(e, u), Sound'
  PROVE  Sound
<1>1. damages \in Nat
  BY DEF Inv, Shape
<1>2. CASE RecWrite(e, u)
  <2>1. PICK damage \in 0 .. (IF built[e].key = None THEN 0 ELSE 1) : damages' = damages + damage
    BY <1>2 DEF RecWrite
  <2>2. damages = 0
    BY <1>1, <2>1 DEF Sound
  <2>3. wrongkey' = wrongkey
    BY <1>2 DEF RecWrite
  <2>4. QED
    BY <2>2, <2>3 DEF Sound
<1>3. CASE RecPuzzled(e, u) \/ RecRead(e, u)
  <2>1. Consume(e, u)
    BY <1>3 DEF RecPuzzled, RecRead
  <2>2. UNCHANGED <<damages, wrongkey>>
    BY <2>1 DEF Consume
  <2>3. QED
    BY <2>2 DEF Sound
<1>4. CASE \/ RecBuild(e, u) \/ RecRefused(e, u) \/ RecWriteFails(e, u) \/ AlertSent(e, u)
           \/ HeaderRead(e, u) \/ RecClosed(e, u) \/ RecHungup(e, u) \/ ReadFails(e, u)
  <2>1. UNCHANGED <<damages, wrongkey>>
    BY <1>4 DEF RecBuild, RecRefused, RecWriteFails, AlertSent, HeaderRead, RecClosed, RecHungup,
                  ReadFails, conn
  <2>2. QED
    BY <2>1 DEF Sound
<1>5. QED
  BY <1>2, <1>3, <1>4 DEF Working

(* and no step makes an unsound connection sound. *)
LEMMA SoundBack == Inv /\ [Next]_vars /\ Sound' => Sound
<1>1. SUFFICES ASSUME Inv, [Next]_vars, Sound' PROVE Sound
  OBVIOUS
<1>2. CASE UNCHANGED vars \/ Disconnect
  BY <1>1, <1>2 DEF vars, conn, Disconnect, Sound
<1>3. ASSUME NEW e \in Ends,
             \/ Shaking(e) \/ Using(e) \/ DataTake(e)
             \/ Working(e, "reader") \/ Working(e, "writer")
             \/ \E u \in Procs : Interrupted(e, u)
      PROVE  Sound
  <2>1. CASE \E u \in Procs : Working(e, u)
    BY <1>1, <1>3, <2>1, WorkingSound
  <2>2. CASE HandSecret(e)
    BY <1>1, <2>2 DEF HandSecret, conn, Sound
  <2>3. CASE HandRead(e) \/ DataRead(e)
    BY <1>1, <2>3 DEF HandRead, DataRead, LockRead, conn, Sound
  <2>4. CASE \/ HandSend(e) \/ HandTake(e) \/ HandOpened(e) \/ HandClose(e) \/ HandHangup(e)
             \/ DataWrite(e) \/ DataTake(e) \/ \E u \in Procs : Interrupted(e, u)
    <3>1. UNCHANGED <<damages, wrongkey>>
      BY <2>4 DEF HandSend, HandTake, HandOpened, HandClose, HandHangup, DataWrite, DataTake,
                  Interrupted, conn
    <3>2. QED
      BY <1>1, <3>1 DEF Sound
  <2>5. QED
    BY <1>3, <2>1, <2>2, <2>3, <2>4 DEF Shaking, Using, Procs
<1>4. QED
  BY <1>1, <1>2, <1>3 DEF Next

(* Unless a key was wrong or a record damaged, the ends agree in every state. *)
THEOREM EndsAgree == Spec => []Agree
<1>1. Inv /\ Agree /\ [Next]_vars => Agree'
  BY SoundBack, StepAgrees DEF Agree
<1>2. QED
  BY <1>1, InitAgrees, Invariance, PTL DEF Spec

(* Between ends of devtls.c with the same keys, over a connection that damages nothing,
   rcvError is never called: for any number of data records, any interleaving of the
   processes, interrupts in the middle of a record and a network that fails. *)
THEOREM BothEndsUnderstand == Spec => []EndsUnderstand
<1>1. Inv /\ Agree => EndsUnderstand
  <2>1. SUFFICES ASSUME Inv, Agree PROVE EndsUnderstand
    OBVIOUS
  <2>2. damages \in Nat
    BY <2>1 DEF Inv, Shape
  <2>3. QED
    BY <2>1, <2>2 DEF Agree, Agreed, Sound, EndsUnderstand
<1>2. QED
  BY <1>1, Invariance, EndsAgree, PTL
=============================================================================
