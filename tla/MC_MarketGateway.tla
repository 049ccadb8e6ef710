-------------------------- MODULE MC_MarketGateway --------------------------
(***************************************************************************)
(* Two requests of a client, one more than its limit, and one of another   *)
(* client: a refresh and both forms of query.                              *)
(***************************************************************************)
EXTENDS MarketGateway, TLC

CONSTANTS r1, r2, r3, c1, c2

MC_ClientOf == r1 :> c1 @@ r2 :> c1 @@ r3 :> c2
MC_KindOf == r1 :> "refresh" @@ r2 :> "price" @@ r3 :> "futures"
=============================================================================
