----------------------------- MODULE FifoMutex -----------------------------
(***************************************************************************)
(* What a set of QLocks promises its callers: each lock has at most one    *)
(* owner, and those who have to wait get it in the order they came.        *)
(***************************************************************************)
EXTENDS Sequences

CONSTANTS Procs, Locks, None

VARIABLES
  owner,   \* owner[q]: the process inside q's critical section, or None
  line     \* line[q]: who waits for q, first come first

vars == <<owner, line>>

Init ==
  /\ owner = [q \in Locks |-> None]
  /\ line = [q \in Locks |-> <<>>]

(* A lock nobody has and nobody waits for is taken at once. *)
Take(p, q) ==
  /\ owner[q] = None
  /\ line[q] = <<>>
  /\ owner' = [owner EXCEPT ![q] = p]
  /\ UNCHANGED line

Arrive(p, q) ==
  /\ owner[q] # None \/ line[q] # <<>>
  /\ line' = [line EXCEPT ![q] = Append(@, p)]
  /\ UNCHANGED owner

(* A free lock goes to the one who has waited longest. *)
Enter(q) ==
  /\ owner[q] = None
  /\ line[q] # <<>>
  /\ owner' = [owner EXCEPT ![q] = Head(line[q])]
  /\ line' = [line EXCEPT ![q] = Tail(@)]

Leave(q) ==
  /\ owner[q] # None
  /\ owner' = [owner EXCEPT ![q] = None]
  /\ UNCHANGED line

Next ==
  \E q \in Locks :
    \/ \E p \in Procs : Take(p, q) \/ Arrive(p, q)
    \/ Enter(q)
    \/ Leave(q)

Spec == Init /\ [][Next]_vars
=============================================================================
