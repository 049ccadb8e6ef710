--------------------------- MODULE MC_MarketStore ---------------------------
(***************************************************************************)
(* MarketStore with two trading dates, published at 1 and 2.               *)
(***************************************************************************)
EXTENDS MarketStore, TLC

MC_Published == 1 :> 1 @@ 2 :> 2

Symmetry == Permutations(Refreshers) \union Permutations(Payloads)
=============================================================================
