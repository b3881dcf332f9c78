---------------------------- MODULE MCScheduler ----------------------------
(***************************************************************************)
(* JobScheduler with two jobs whose periods differ and whose names hash to *)
(* different offsets, one of them firing at boot.                          *)
(***************************************************************************)
EXTENDS JobScheduler

TwoPeriods == [j \in Jobs |-> j + 1]
TwoHashes == [j \in Jobs |-> IF j = 1 THEN 4 ELSE 5]

=============================================================================
