----------------------------- MODULE MCAdvTable -----------------------------
(* Instances of AdvTable for TLC.                                          *)
EXTENDS AdvTable, TLC

CONSTANTS m1, m2, m3, d1, d2, x1

Macs3 == {m1, m2, m3}

Payloads == {d1, d2, x1}
LongPayloads == {x1}

\* m1 and m2 collide.
MCHashIdx3 == (m1 :> 0) @@ (m2 :> 0) @@ (m3 :> 1)
=============================================================================
