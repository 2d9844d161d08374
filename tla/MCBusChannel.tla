----------------------------- MODULE MCBusChannel -----------------------------
(***************************************************************************)
(* BusChannel for TLC.                                                     *)
(***************************************************************************)
EXTENDS BusChannel
=============================================================================
