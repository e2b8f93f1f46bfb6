-------------------------- MODULE MCAnswerService --------------------------
(* Small instances of AnswerService for TLC. *)
EXTENDS AnswerService, TLC

CONSTANTS p, q, u, t1, t2

MCQuestions == {p, q, u}
MCCost == p :> 1 @@ q :> 2 @@ u :> 1
Swap == Permutations({t1, t2})
MCKey == p :> p @@ q :> q @@ u :> u
=============================================================================
