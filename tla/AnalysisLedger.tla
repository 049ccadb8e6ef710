--------------------------- MODULE AnalysisLedger ---------------------------
(***************************************************************************)
(* What the analysis service promises about one information set.  Its      *)
(* identity - request, input data, versions - is registered once, with one *)
(* analysis id; its narrative is written at most once; and every answer,   *)
(* whoever asked and however often, is the registered analysis, with the   *)
(* registered narrative exactly when one was asked for.                    *)
(***************************************************************************)
CONSTANTS
  Keys,        \* identities
  Ids,         \* analysis ids
  Narratives,  \* texts
  None

VARIABLES
  ledger,   \* the registered analysis of each identity
  answers   \* everything that was answered

vars == <<ledger, answers>>

Init ==
  /\ ledger = [k \in Keys |-> None]
  /\ answers = {}

Register(k, id) ==
  /\ ledger[k] = None
  /\ \A j \in Keys : ledger[j] # None => ledger[j].id # id
  /\ ledger' = [ledger EXCEPT ![k] = [id |-> id, narrative |-> None]]
  /\ UNCHANGED answers

Narrate(k, text) ==
  /\ ledger[k] # None
  /\ ledger[k].narrative = None
  /\ ledger' = [ledger EXCEPT ![k].narrative = text]
  /\ UNCHANGED answers

Answer(k, narrated) ==
  /\ ledger[k] # None
  /\ narrated => ledger[k].narrative # None
  /\ answers' = answers \union
       {[key |-> k, narrated |-> narrated, id |-> ledger[k].id,
         narrative |-> IF narrated THEN ledger[k].narrative ELSE None]}
  /\ UNCHANGED ledger

Next ==
  \E k \in Keys :
    \/ \E id \in Ids : Register(k, id)
    \/ \E text \in Narratives : Narrate(k, text)
    \/ \E narrated \in BOOLEAN : Answer(k, narrated)

Spec == Init /\ [][Next]_vars
=============================================================================
