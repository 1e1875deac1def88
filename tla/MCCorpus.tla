------------------------------ MODULE MCCorpus ------------------------------
(* Small instances of CorpusActivation for TLC. *)
EXTENDS CorpusActivation, TLC

\* Dataset IDs are random and processes are alike.
CorpusSymmetry == Permutations(Gens)
=============================================================================
