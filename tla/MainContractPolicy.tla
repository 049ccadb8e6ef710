------------------------- MODULE MainContractPolicy -------------------------
(***************************************************************************)
(* LiquidityConfirmedMainContractPolicy: which contracts of one curve      *)
(* snapshot may be the main contract, and which of them ranks first.       *)
(*                                                                         *)
(* A candidate is a record [code, dte, volume, oi]; code is a natural      *)
(* number whose order stands for the lexicographic order of contract       *)
(* codes.  A share is a ratio of integers, so "share >= MinShare percent"  *)
(* is compared by cross multiplication: exact where the code divides in    *)
(* floating point.                                                         *)
(***************************************************************************)
EXTENDS Integers, FiniteSets, FiniteSetsExt

CONSTANTS
  NoneRanked,   \* what ranking an empty pool gives the caller: None
  MinDte,       \* exclude_days_to_expiry_below
  MinShare      \* minimum_volume_share = minimum_oi_share, in percent

ASSUME PolicyAssumption == /\ MinDte \in Nat
                           /\ MinShare \in 0..100

(* The sum over the curve of field, "volume" or "oi": a negative value     *)
(* counts as zero in the total, and only there.                            *)
Total(candidates, field) ==
  MapThenSumSet(LAMBDA c : IF c[field] > 0 THEN c[field] ELSE 0, candidates)

ShareReached(c, candidates, field) ==
  LET total == Total(candidates, field)
  IN  IF total > 0 THEN 100 * c[field] >= MinShare * total ELSE MinShare = 0

(* Contracts far enough from expiry and, if any of those is liquid, only   *)
(* the liquid ones.  Shares are taken over the whole curve, book.          *)
Eligible(candidates, book) ==
  LET expirySafe == {c \in candidates : c.dte >= MinDte}
      shareSafe  == {c \in expirySafe : \/ ShareReached(c, book, "volume")
                                        \/ ShareReached(c, book, "oi")}
  IN  IF shareSafe # {} THEN shareSafe ELSE expirySafe

(* The order of _rank_key: open interest, then volume, then days to expiry,*)
(* all descending, then the code ascending.                                *)
RanksBefore(a, b) ==
  \/ a.oi > b.oi
  \/ a.oi = b.oi /\ a.volume > b.volume
  \/ a.oi = b.oi /\ a.volume = b.volume /\ a.dte > b.dte
  \/ a.oi = b.oi /\ a.volume = b.volume /\ a.dte = b.dte /\ a.code < b.code

(* rank filters its argument once more before it takes the minimum.        *)
Rank(candidates, book) ==
  LET again == Eligible(candidates, book)
      pool  == IF again # {} THEN again ELSE candidates
  IN  CHOOSE c \in pool : \A d \in pool \ {c} : RanksBefore(c, d)

(* What the state machine takes from a curve: the eligible codes and the   *)
(* code that ranks first among them, or NoneRanked.                        *)
EligibleCodes(book) == {c.code : c \in Eligible(book, book)}

RankedCode(book) ==
  LET eligible == Eligible(book, book)
  IN  IF eligible = {} THEN NoneRanked ELSE Rank(eligible, book).code
=============================================================================
