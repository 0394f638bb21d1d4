--------------------------- MODULE MCMutationReplay ---------------------------
(* The model values of MutationReplay's runs. *)
EXTENDS MutationReplay, TLC

(* Contents are only ever compared with one another. *)
Interchangeable == Permutations(Messages)
=============================================================================
