------------------------------ MODULE MCScoring ------------------------------
(* Scoring with two topics of different weight. *)
EXTENDS Scoring, TLC

CONSTANTS corruption, other

MCWeight == corruption :> 14 @@ other :> 8

=============================================================================
