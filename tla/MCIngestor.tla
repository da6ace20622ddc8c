----------------------------- MODULE MCIngestor -----------------------------
(* Instances of Ingestor for TLC. *)
EXTENDS Ingestor, TLC

CONSTANTS w1, r1, r2, j1, j2, j3, j4, m1, good, bad, blank, nul

OneMessage == m1 :> j1
ContentKinds == good :> "valid" @@ bad :> "invalid" @@ blank :> "empty" @@ nul :> "unstorable"
GoodBadNul == good :> "valid" @@ bad :> "invalid" @@ nul :> "unstorable"

==============================================================================
