---------------------------- MODULE MCSoftwareWdt ----------------------------
EXTENDS SoftwareWdt

(* Small thresholds: what matters is which counter passes its own first.   *)
MCTimeout == [t \in Thread |-> IF t = Regist THEN 3 ELSE 2]

MCGap == [t \in Thread |-> 1]
=============================================================================
