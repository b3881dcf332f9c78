---------------------------- MODULE MCProjection ----------------------------
(***************************************************************************)
(* PostsProjection on a small instance.  FlushEvery and AckEvery stand for *)
(* the code's 25 and 100: what matters is that the cursor moves after a    *)
(* multiple of the pushes.                                                 *)
(***************************************************************************)
EXTENDS PostsProjection

PostSymmetry == Permutations(Posts)

(* Bound: one writer's clock is ahead, that of the second event, so that   *)
(* time goes forth and back once.  No progress is asked of the writers,    *)
(* and so none is lost with the other readings.                            *)
OneClockAhead == \A i \in DOMAIN log : log[i].at = IF i = 2 THEN 2 ELSE 1

=============================================================================
