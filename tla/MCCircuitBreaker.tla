---- MODULE MCCircuitBreaker ----
(* A breaker smaller than the default one, shared by four calls.            *)
EXTENDS CircuitBreaker

CONSTANTS c1, c2, c3, c4
====
