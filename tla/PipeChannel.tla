---------------------------- MODULE PipeChannel ----------------------------
(***************************************************************************)
(* What one direction of a pipe promises those at its ends: a line of      *)
(* chunks, each of which a writer puts there in one step.  They come out   *)
(* in order; one step of a reader takes bytes from the front of the first  *)
(* chunk and never of two.  Nothing is lost, except when the last reader   *)
(* goes.  The channel is closed from when the last user of an end goes     *)
(* until nobody has it open.                                               *)
(***************************************************************************)
EXTENDS Naturals, Sequences

CONSTANTS
  Readers, Writers,
  MaxChunk          \* the bytes that stay together

VARIABLES
  put,      \* bytes ever put; byte i is the number i
  chunks,   \* what is on its way
  closed,
  open      \* the readers and writers that have it open

vars == <<put, chunks, closed, open>>

Init ==
  /\ put = 0
  /\ chunks = <<>>
  /\ closed = FALSE
  /\ open = {}

Open(p) ==
  /\ open' = open \cup {p}
  /\ UNCHANGED <<put, chunks, closed>>

(* Nobody puts anything into a channel that is closed. *)
Put(k) ==
  /\ open \cap Writers # {} /\ ~closed
  /\ put' = put + k
  /\ chunks' = Append(chunks, [i \in 1 .. k |-> put + i])
  /\ UNCHANGED <<closed, open>>

(* What is left of the first chunk stays the first. *)
TakeSome ==
  /\ open \cap Readers # {} /\ chunks # <<>>
  /\ LET c == Head(chunks) IN
       \E i \in DOMAIN c : chunks' = <<SubSeq(c, i, Len(c))>> \o Tail(chunks)
  /\ UNCHANGED <<put, closed, open>>

TakeAll ==
  /\ open \cap Readers # {} /\ chunks # <<>>
  /\ chunks' = Tail(chunks)
  /\ UNCHANGED <<put, closed, open>>

CloseOne(p, end) ==
  /\ p \in end /\ open \cap end # {p}
  /\ open' = open \ {p}
  /\ UNCHANGED <<put, chunks, closed>>

CloseLast(p, end) ==
  /\ p \in end /\ open \cap end = {p}
  /\ open' = open \ {p}
  /\ closed' = TRUE
  /\ chunks' = IF end = Readers THEN <<>> ELSE chunks
  /\ UNCHANGED put

Reopen ==
  /\ open = {} /\ closed
  /\ closed' = FALSE
  /\ UNCHANGED <<put, chunks, open>>

Next ==
  \/ \E p \in Readers \cup Writers : Open(p)
  \/ \E k \in 0 .. MaxChunk : Put(k)
  \/ TakeSome \/ TakeAll
  \/ \E end \in {Readers, Writers} : \E p \in end : CloseOne(p, end) \/ CloseLast(p, end)
  \/ Reopen

Spec == Init /\ [][Next]_vars
=============================================================================
