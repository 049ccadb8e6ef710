-------------------------- MODULE MC_MainContract --------------------------
(***************************************************************************)
(* MainContract with the real liquidity policy on a few curves.            *)
(***************************************************************************)
EXTENDS Research, MainContractPolicy

Candidate(code, dte, volume, oi) ==
  [code |-> code, dte |-> dte, volume |-> volume, oi |-> oi]

(* Each of three contracts first, a tie, an incumbent near expiry beside   *)
(* one that is not liquid but all there is, one that is not liquid beside  *)
(* two that are, and nothing eligible.                                     *)
MC_CandidateSets ==
  LET near == {Candidate(1, 5, 90, 90), Candidate(2, 40, 10, 10)}
      tied == {Candidate(1, 40, 30, 40), Candidate(2, 40, 30, 40), Candidate(3, 70, 30, 20)}
      mid  == {Candidate(1, 40, 20, 30), Candidate(2, 70, 60, 40), Candidate(3, 100, 20, 30)}
      late == {Candidate(1, 40, 10, 10), Candidate(2, 70, 30, 30), Candidate(3, 100, 60, 60)}
      dead == {Candidate(1, 5, 60, 60), Candidate(2, 9, 40, 40)}
  IN  {near, tied, mid, late, dead}

(* Contract 3 has no positive price on day 6.                              *)
MC_Settlement ==
  [c \in 1..3 |-> [d \in 1..8 |-> IF c = 3 /\ d = 6 THEN 0 ELSE 1 + ((c + d) % 4)]]

(* A horizon longer than the embargo, one shorter, and windows of all sorts *)
Plan(train, validate, test, embargo, horizon) ==
  [train |-> train, validate |-> validate, test |-> test, embargo |-> embargo, horizon |-> horizon]
MC_Plans == {Plan(2, 1, 1, 0, 2), Plan(1, 2, 2, 3, 1), Plan(1, 1, 1, 1, 1)}

(* Days 3 and 4 are a weekend.                                             *)
MC_TradingDays == {1, 2, 5, 6, 7, 8, 9}
=============================================================================
