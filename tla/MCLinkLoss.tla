------------------------------ MODULE MCLinkLoss ------------------------------
(* What a cfg file cannot write: how far packet20 may set the clock, in    *)
(* units of 2 s, the unit of every cfg of this module.                     *)
EXTENDS LinkLoss

MCForward == {0, 10}
MCMinAge == -50

(* The timeouts of every cfg satisfy what the promises need of them.       *)
ASSUME MCTimeouts == Patient /\ Forward /\ LongestReinit
=============================================================================
