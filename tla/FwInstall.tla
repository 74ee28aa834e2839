----------------------------- MODULE FwInstall ------------------------------
(***************************************************************************)
(* What the firmware update promises.  The gateway has a whole release that *)
(* it comes back to when power is lost now (base).  A switch of the boot    *)
(* partition puts another whole release on trial; only a trial release that *)
(* is confirmed becomes the base, and a trial can be given up at any time.  *)
(* The one exception is the rollback after a failed start-up of the base    *)
(* itself: the other slot becomes the base, whatever it holds, and if that  *)
(* is no release that starts up the base is lost for good.                  *)
(***************************************************************************)
CONSTANTS Releases, None

VARIABLES base, trial,
          failed   \* a start-up of the base has failed

Init == base \in Releases /\ trial = None /\ failed = FALSE

Try(r) == base # None /\ trial' = r /\ UNCHANGED base

Confirm == ~failed /\ trial # None /\ base' = trial /\ trial' = None

GiveUp == trial' = None /\ UNCHANGED base

RollBack == /\ failed /\ base # None
            /\ base' \in Releases \cup {None} /\ trial' = None

\* A start-up, failed or not.
StartUp == UNCHANGED <<base, trial>>

Next == /\ (\E r \in Releases : Try(r)) \/ Confirm \/ GiveUp \/ RollBack \/ StartUp
        /\ failed' \in BOOLEAN

Spec == Init /\ [][Next]_<<base, trial, failed>>
=============================================================================
