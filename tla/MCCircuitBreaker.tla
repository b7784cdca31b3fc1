-------------------------- MODULE MCCircuitBreaker --------------------------
(* The breaker with three callers: a probe, and two calls admitted before   *)
(* the circuit opened whose results come back late.                         *)
EXTENDS CircuitBreaker
CONSTANTS c1, c2, c3
MCCalls == {c1, c2, c3}
=============================================================================
