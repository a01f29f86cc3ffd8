----------------------------- MODULE MCToolLoop -----------------------------
(* The tool loop, its questions and their resumes for TLC. *)
EXTENDS ToolLoop, TLC

MCBatches == {<<"plain">>, <<"confirm">>, <<"choice", "confirm">>}

Symmetry == Permutations(Asks) \cup Permutations(Resumes)
=============================================================================
