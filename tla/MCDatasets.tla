------------------------------- MODULE MCDatasets ------------------------------
(* Datasets with one block, for TLC. *)
EXTENDS Datasets

CONSTANT b1

OneFile == b1 :> "las"

\* The records of a block take more room than its display fields: with
\* MaxBytes = 2 the two do not fit together.
Weights == "records" :> 2 @@ "preview" :> 1
==============================================================================
