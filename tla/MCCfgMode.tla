----------------------------- MODULE MCCfgMode ------------------------------
(* Instances of CfgMode for TLC.                                           *)
EXTENDS CfgMode

RemoteOrAll == {{"remote"}, Services}
=============================================================================
