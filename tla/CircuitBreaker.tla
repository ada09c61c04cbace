---------------------------- MODULE CircuitBreaker ----------------------------
(***************************************************************************)
(* The class CircuitBreaker (infra/circuit_breaker.h): its methods as      *)
(* operators on a breaker.  Time is the age of the last failure, in        *)
(* seconds, as far as the cool-down can tell ages apart.                   *)
(***************************************************************************)
EXTENDS Naturals

CONSTANTS
  Threshold, \* failure_threshold
  Cooldown   \* cooldown_ms, in seconds

ASSUME BreakerAssumption == Threshold \in Nat \ {0} /\ Cooldown \in Nat

CircuitState == {"Closed", "Open", "HalfOpen"}

(* failure_count_ is only compared with the threshold: it saturates there. *)
Breaker == [state : CircuitState, failures : 0..Threshold, age : 0..(Cooldown + 1)]

(* last_failure_time_ is 0: an age no cool-down exceeds.                   *)
NewBreaker == [state |-> "Closed", failures |-> 0, age |-> Cooldown + 1]

AllowsOnceOnly(b) == b.state # "Open"

(* What allowRequest returns, and the state it leaves.                     *)
Allows(b) == b.state # "Open" \/ b.age > Cooldown

AfterAllow(b) ==
  IF b.state = "Open" /\ Allows(b) THEN [b EXCEPT !.state = "HalfOpen"] ELSE b

AfterSuccess(b) == [b EXCEPT !.failures = 0, !.state = "Closed"]

AfterFailure(b) ==
  LET count == IF b.failures < Threshold THEN b.failures + 1 ELSE Threshold
  IN  [state |-> IF count >= Threshold THEN "Open" ELSE b.state,
       failures |-> count, age |-> 0]

(* The clock moves on by d seconds.                                        *)
Older(b, d) ==
  [b EXCEPT !.age = IF @ + d <= Cooldown THEN @ + d ELSE Cooldown + 1]
=============================================================================
