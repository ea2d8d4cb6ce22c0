------------------------------ MODULE KeyQueue ------------------------------
(***************************************************************************)
(* What the keyboard path promises, seen from the two ends only: a bounded *)
(* FIFO.  Keys arrive from the host in the order they were typed, the      *)
(* guest takes them in that order, each at most once, and RESET forgets    *)
(* the keys that were waiting.  The one permitted loss is the newest key,  *)
(* when the queue is at most one short of its capacity.                    *)
(***************************************************************************)
EXTENDS Naturals, Sequences

CONSTANTS
  Keys,      (* The key codes the guest can read.              *)
  Capacity   (* How many keys can wait for the guest at a time. *)

VARIABLES
  queue,     (* The keys typed and not yet read by the guest, oldest first. *)
  seen,      (* The keys the host terminal has produced, oldest first.      *)
  got        (* The keys the guest has read, oldest first.                  *)

vars == <<queue, seen, got>>

Init ==
  /\ queue = <<>>
  /\ seen = <<>>
  /\ got = <<>>

Arrive(k) ==
  /\ Len(queue) < Capacity
  /\ queue' = Append(queue, k)
  /\ seen' = Append(seen, k)
  /\ UNCHANGED got

(* The newest key is lost only when the queue is (nearly) full. *)
Lose(k) ==
  /\ Len(queue) >= Capacity - 1
  /\ seen' = Append(seen, k)
  /\ UNCHANGED <<queue, got>>

Take ==
  /\ queue # <<>>
  /\ got' = Append(got, Head(queue))
  /\ queue' = Tail(queue)
  /\ UNCHANGED seen

Forget ==
  /\ queue' = <<>>
  /\ UNCHANGED <<seen, got>>

Next ==
  \/ \E k \in Keys : Arrive(k) \/ Lose(k)
  \/ Take
  \/ Forget

Spec == Init /\ [][Next]_vars
=============================================================================
