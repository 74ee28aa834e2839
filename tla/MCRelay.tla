------------------------------ MODULE MCRelay -------------------------------
(* Instances of Relay for TLC.                                             *)
EXTENDS Relay

OneTarget == {{"advs1"}}
OneOrNone == {{"advs1"}, {}}
OneTargetAndMqtt == {{"advs1", "mqtt"}}

HttpOnly == {{"http"}}
HttpAndBoth == {{"http"}, Channels}
=============================================================================
