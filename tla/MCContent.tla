------------------------------ MODULE MCContent ------------------------------
(* The programs of ConversionQueue that acquire files beside each other, with   *)
(* no server running; no file or client is special.                            *)
EXTENDS ConversionQueue, TLC

ContentNext ==
  \/ \E p \in Clients, flow \in Flows, w \in Works, f \in Files : StartFlow(p, flow, w, f)
  \/ \E p \in Procs : ProgramStep(p)
ContentSpec == Init /\ [][ContentNext]_vars

Symmetric == Permutations(Files) \cup Permutations(Clients)
=============================================================================
