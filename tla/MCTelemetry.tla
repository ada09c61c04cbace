----------------------------- MODULE MCTelemetry -----------------------------
(***************************************************************************)
(* Telemetry for TLC.                                                      *)
(***************************************************************************)
EXTENDS Telemetry

(* "&&Q=" cut at two places, and bytes of a name that is not ASCII.        *)
MCMessages ==
  {<<{1, 2, 5}, {1, 2, 5}>>, <<{0, 4, 6}, {}, 0..7>>}
=============================================================================
