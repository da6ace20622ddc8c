------------------------------ MODULE MCWorker ------------------------------
(* Instances of Worker for TLC. *)
EXTENDS WorkerProperties, TLC

CONSTANTS w1, w2, j1, m1, m2

OneMessage == m1 :> j1
SentTwice == m1 :> j1 @@ m2 :> j1
WithMalformed == m1 :> j1 @@ m2 :> NoJob

\* The workers are interchangeable.
WorkerSymmetry == Permutations(Workers)

==============================================================================
