---------------------------- MODULE GuestMemory ----------------------------
(***************************************************************************)
(* What a guest may assume of the addresses that are RAM: each is a cell of *)
(* its own, which only a write to that address changes, and a read answers  *)
(* with what the cell holds.  Before the guest starts, files may be loaded. *)
(***************************************************************************)
CONSTANTS
  Addr, Byte,
  None      (* No access yet. *)

VARIABLES
  mem,      (* What each cell holds.                    *)
  last,     (* The last access: its kind, address, byte. *)
  started   (* The guest runs.                          *)

vars == <<mem, last, started>>

Init ==
  /\ mem \in [Addr -> Byte]
  /\ last = None
  /\ started = FALSE

Load ==
  /\ ~started
  /\ mem' \in [Addr -> Byte]
  /\ started' \in {FALSE, TRUE}
  /\ UNCHANGED last

Read(a) ==
  /\ started
  /\ last' = [op |-> "read", at |-> a, value |-> mem[a]]
  /\ UNCHANGED <<mem, started>>

Write(a) ==
  /\ started
  /\ last' = [op |-> "write", at |-> a, value |-> last'.value]
  /\ mem' = [mem EXCEPT ![a] = last'.value]
  /\ last'.value \in Byte
  /\ UNCHANGED started

Next == Load \/ \E a \in Addr : Read(a) \/ Write(a)

Spec == Init /\ [][Next]_vars
=============================================================================
