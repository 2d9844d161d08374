------------------------------ MODULE MCNodeSync ------------------------------
(***************************************************************************)
(* Instances of NodeSync for TLC.                                          *)
(***************************************************************************)
EXTENDS NodeSync

\* node 0 is destroyed and constructed again, its peers are not
RestartOne == [n \in Nodes |-> IF n = 0 THEN 2 ELSE 1]

\* two events from node 0 to node 1
TwoOut == [p \in Pairs |-> IF p = <<0, 1>> THEN 2 ELSE 0]
=============================================================================
