--------------------------- MODULE MCDemoFailures ---------------------------
(* Instances of DemoFailures for TLC. *)
EXTENDS DemoFailures

CONSTANTS w1, w2, j1, j2

==============================================================================
