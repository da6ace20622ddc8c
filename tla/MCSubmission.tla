---------------------------- MODULE MCSubmission ----------------------------
(* Instances of Submission for TLC. *)
EXTENDS Submission, TLC

CONSTANTS w1, w2, j1, m1, m2

SentTwice == m1 :> j1 @@ m2 :> j1
WorkerSymmetry == Permutations(Workers)

==============================================================================
