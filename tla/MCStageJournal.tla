-------------------------- MODULE MCStageJournal --------------------------
(* Two receives and a journal with room for one row. *)
EXTENDS StageJournal, TLC

Symmetry == Permutations(Stages)
=============================================================================
