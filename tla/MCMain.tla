------------------------------- MODULE MCMain -------------------------------
(* Instances of Apple1Main for TLC. *)
EXTENDS Apple1Main

(* Every way to run that differs here: the tape matters where something ends,
   flat addressing where the run is headless. *)
MCOpts ==
  {o \in Options : (o.flat => o.headless) /\ (o.tape <=> o.flat \/ o.debug)}
=============================================================================
