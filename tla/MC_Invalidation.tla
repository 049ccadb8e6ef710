-------------------------- MODULE MC_Invalidation --------------------------
(***************************************************************************)
(* Invalidation over a week: Thursday 1, Friday 2, a weekend, Monday 5 and *)
(* Tuesday 6.                                                              *)
(***************************************************************************)
EXTENDS Invalidation, TLC

CONSTANTS low, even, gone

Level == low :> -1 @@ even :> 0 @@ gone :> None

MC_ValueOf == [input \in Inputs |-> Level[input]]
=============================================================================
