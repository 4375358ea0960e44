--------------------------- MODULE MCTaskPipeline ---------------------------
(* TLC instances of TaskPipeline. *)
EXTENDS TaskPipeline, TLC

\* Workers, URLs and verdicts are interchangeable: for the safety runs.
Symmetry == Permutations(Workers) \cup Permutations(Urls) \cup Permutations(Verdicts)
=============================================================================
