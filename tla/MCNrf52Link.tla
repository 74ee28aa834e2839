---------------------------- MODULE MCNrf52Link -----------------------------
(* Instances of Nrf52Link for TLC.                                         *)
EXTENDS Nrf52Link
=============================================================================
