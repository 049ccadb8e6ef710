------------------------- MODULE AnalysisRunProofs -------------------------
(***************************************************************************)
(* Safety of concurrent analyses for every number of callers, identities,  *)
(* calls and generator slots, and that the service implements the ledger.  *)
(***************************************************************************)
EXTENDS AnalysisRun, FiniteSetTheorems, TLAPS

(* What a caller holds at each step: TypeOK needs it to be inductive.      *)
Holding ==
  \A d \in Callers :
    /\ pc[d] # "idle" => call[d].key \in Keys /\ call[d].id \in Ids
    /\ pc[d] = "commit" => staged[d] \in Run

TypeInv == TypeOK /\ Holding

LEMMA TypeInit == Init => TypeInv
BY RunAssumption DEF Init, TypeInv, Holding, TypeOK, Call, NoCall, Narratives

(* The updates of a call that the actions make keep its type.              *)
LEMMA CallUpdates ==
  ASSUME NEW a \in Call, NEW id \in Ids \union {None}, NEW text \in Narratives \union {None}
  PROVE  /\ [a EXCEPT !.id = id] \in Call
         /\ [a EXCEPT !.narrative = text] \in Call
         /\ [a EXCEPT !.id = id, !.narrative = text] \in Call
         /\ [a EXCEPT !.final = TRUE] \in Call
         /\ [a EXCEPT !.id = id, !.final = TRUE] \in Call
BY DEF Call

(* The row a save writes is a run.                                         *)
LEMMA StagedRun ==
  ASSUME TypeInv, NEW c \in Callers, pc[c] = "write"
  PROVE  RowToStore(c) \in Run
<1>1. call[c] \in Call /\ call[c].id \in Ids /\ call[c].key \in Keys /\ runs \subseteq Run
  BY DEF TypeInv, TypeOK, Holding
<1>2. CASE Stored(call[c].key) = {}
  BY <1>1, <1>2 DEF RowToStore, Run, Call
<1>3. CASE Stored(call[c].key) # {}
  <2> DEFINE r == CHOOSE r \in Stored(call[c].key) : TRUE
  <2>1. r \in Run
    BY <1>1, <1>3 DEF Stored
  <2>2. RowToStore(c) = [r EXCEPT !.narrative = IF @ = None THEN call[c].narrative ELSE @]
    BY <1>3 DEF RowToStore
  <2>3. QED
    BY <1>1, <2>1, <2>2 DEF Run, Call
<1>4. QED
  BY <1>2, <1>3

(* An action of one caller preserves the types.                            *)
LEMMA TypeCaller ==
  ASSUME TypeInv, NEW c \in Callers, Begin(c) \/ Advance(c) \/ GeneratorEnds(c)
  PROVE  TypeOK'
<1> USE RunAssumption DEF TypeInv, TypeOK, database, local, generators
<1>0. call[c] \in Call /\ Template \in Narratives /\ Generated \in Narratives
  BY DEF Narratives
<1>1. CASE Begin(c)
  <2>1. started + 1 \in Ids /\ started' \in 0..MaxCalls
    BY <1>1 DEF Begin, Ids
  <2>2. call' \in [Callers -> Call]
    BY <1>1, <2>1 DEF Begin, Call
  <2>3. QED
    BY <1>1, <2>1, <2>2 DEF Begin, Goto
<1>2. CASE Compute(c)
  BY <1>2 DEF Compute, Goto
<1>3. CASE AnswerCached(c)
  <2>1. call' \in [Callers -> Call]
    <3>1. PICK r \in Stored(call[c].key) :
            call' = [call EXCEPT ![c].id = r.id,
                                 ![c].narrative = IF call[c].narrated THEN r.narrative ELSE None]
      BY <1>3 DEF AnswerCached
    <3>2. r.id \in Ids /\ r.narrative \in Narratives \union {None}
      BY <3>1 DEF Stored, Run
    <3> DEFINE text == IF call[c].narrated THEN r.narrative ELSE None
    <3>3. [call[c] EXCEPT !.id = r.id, !.narrative = text] \in Call
      BY <1>0, <3>2, CallUpdates
    <3>4. call' = [call EXCEPT ![c] = [call[c] EXCEPT !.id = r.id, !.narrative = text]]
      BY <3>1
    <3>5. QED
      BY <3>3, <3>4
  <2>2. QED
    BY <1>3, <2>1 DEF AnswerCached, Goto
<1>4. CASE NarrateCached(c)
  <2>1. call' \in [Callers -> Call]
    <3>1. PICK r \in Stored(call[c].key) : call' = [call EXCEPT ![c].id = r.id, ![c].final = TRUE]
      BY <1>4 DEF NarrateCached
    <3>2. [call[c] EXCEPT !.id = r.id, !.final = TRUE] \in Call
      <4>1. r.id \in Ids
        BY <3>1 DEF Stored, Run
      <4>2. QED
        BY <1>0, <4>1, CallUpdates
    <3>3. call' = [call EXCEPT ![c] = [call[c] EXCEPT !.id = r.id, !.final = TRUE]]
      BY <3>1
    <3>4. QED
      BY <3>2, <3>3
  <2>2. QED
    BY <1>4, <2>1 DEF NarrateCached, Goto
<1>5. CASE LockSave(c)
  BY <1>5 DEF LockSave, Goto
<1>6. CASE WriteSave(c)
  BY <1>6, StagedRun DEF WriteSave, Goto
<1>7. CASE CommitSave(c)
  <2>1. staged[c] \in Run
    BY <1>7 DEF CommitSave, Holding
  <2>2. Returned(c) \in Call
    <3>1. staged[c].id \in Ids /\ staged[c].narrative \in Narratives \union {None}
      BY <2>1 DEF Run
    <3>2. CASE call[c].narrative = None
      BY <1>0, <3>1, <3>2 DEF Returned, Call
    <3>3. CASE call[c].narrative # None
      BY <1>0, <3>1, <3>3 DEF Returned, Call
    <3>4. QED
      BY <3>2, <3>3
  <2>3. runs' \subseteq Run /\ events' \subseteq Ids
    BY <1>7, <2>1 DEF CommitSave, Run
  <2>4. QED
    BY <1>7, <2>2, <2>3 DEF CommitSave, Goto
<1>8. CASE Observe(c)
  <2>1. call' \in [Callers -> Call] /\ call[c].id \in Ids
    <3>1. [call[c] EXCEPT !.final = TRUE] \in Call
      BY <1>0, CallUpdates
    <3>2. call' = [call EXCEPT ![c] = [call[c] EXCEPT !.final = TRUE]]
      BY <1>8 DEF Observe
    <3>3. call[c].id \in Ids
      BY <1>8 DEF Observe, Run
    <3>4. QED
      BY <3>1, <3>2, <3>3
  <2>2. QED
    BY <1>8, <2>1 DEF Observe, Goto
<1>9. CASE FallBack(c)
  <2>1. call' \in [Callers -> Call]
    <3> DEFINE text == Template
    <3>1. [call[c] EXCEPT !.narrative = text] \in Call
      BY <1>0, CallUpdates
    <3>2. call' = [call EXCEPT ![c] = [call[c] EXCEPT !.narrative = text]]
      BY <1>9 DEF FallBack, Narrated
    <3>3. QED
      BY <3>1, <3>2
  <2>2. QED
    BY <1>9, <2>1 DEF FallBack, Narrated, Goto
<1>10. CASE StartGenerator(c)
  BY <1>10 DEF StartGenerator, Goto
<1>11. CASE TakeResult(c)
  <2>1. call' \in [Callers -> Call]
    <3> DEFINE text == IF thread[c] = "done" THEN Generated ELSE Template
    <3>1. [call[c] EXCEPT !.narrative = text] \in Call
      BY <1>0, CallUpdates
    <3>2. call' = [call EXCEPT ![c] = [call[c] EXCEPT !.narrative = text]]
      BY <1>11 DEF TakeResult, Narrated
    <3>3. QED
      BY <3>1, <3>2
  <2>2. QED
    BY <1>11, <2>1 DEF TakeResult, Narrated, Goto
<1>12. CASE GiveUp(c)
  <2>1. call' \in [Callers -> Call]
    <3> DEFINE text == Template
    <3>1. [call[c] EXCEPT !.narrative = text] \in Call
      BY <1>0, CallUpdates
    <3>2. call' = [call EXCEPT ![c] = [call[c] EXCEPT !.narrative = text]]
      BY <1>12 DEF GiveUp, Narrated
    <3>3. QED
      BY <3>1, <3>2
  <2>2. QED
    BY <1>12, <2>1 DEF GiveUp, Narrated, Goto
<1>13. CASE Answer(c)
  <2>1. answers' \subseteq Outcome
    BY <1>0, <1>13 DEF Answer, Outcome, Call, Holding
  <2>2. call' \in [Callers -> Call]
    BY <1>13 DEF Answer, Call, NoCall
  <2>3. QED
    BY <1>13, <2>1, <2>2 DEF Answer, Goto
<1>14. CASE Fail(c)
  <2>1. call' \in [Callers -> Call]
    BY <1>14 DEF Fail, Call, NoCall
  <2>2. QED
    BY <1>14, <2>1 DEF Fail, Goto
<1>15. CASE GeneratorEnds(c)
  BY <1>15 DEF GeneratorEnds
<1>16. QED
  BY <1>1, <1>2, <1>3, <1>4, <1>5, <1>6, <1>7, <1>8, <1>9, <1>10, <1>11,
     <1>12, <1>13, <1>14, <1>15 DEF Advance

(* An action of one caller preserves what callers hold.                    *)
LEMMA HoldingCaller ==
  ASSUME TypeInv, NEW c \in Callers, Begin(c) \/ Advance(c) \/ GeneratorEnds(c)
  PROVE  Holding'
<1> USE RunAssumption DEF TypeInv, TypeOK, Goto
<1> SUFFICES ASSUME NEW d \in Callers
             PROVE  /\ pc'[d] # "idle" => call'[d].key \in Keys /\ call'[d].id \in Ids
                    /\ pc'[d] = "commit" => staged'[d] \in Run
  BY DEF Holding
<1>0. /\ pc[d] # "idle" => call[d].key \in Keys /\ call[d].id \in Ids
      /\ pc[d] = "commit" => staged[d] \in Run
  BY DEF Holding
<1>1. CASE Begin(c)
  <2>1. started + 1 \in Ids
    BY <1>1 DEF Begin, Ids
  <2>2. QED
    BY <1>0, <1>1, <2>1 DEF Begin
<1>2. CASE Compute(c)
  BY <1>0, <1>2 DEF Compute
<1>3. CASE AnswerCached(c)
  BY <1>0, <1>3 DEF AnswerCached, Stored, Run, Call
<1>4. CASE NarrateCached(c)
  BY <1>0, <1>4 DEF NarrateCached, Stored, Run, Call
<1>5. CASE LockSave(c)
  BY <1>0, <1>5 DEF LockSave
<1>6. CASE WriteSave(c)
  BY <1>0, <1>6, StagedRun DEF WriteSave
<1>7. CASE CommitSave(c)
  BY <1>0, <1>7 DEF CommitSave, Returned, Run, Call
<1>8. CASE Observe(c)
  BY <1>0, <1>8 DEF Observe, Call
<1>9. CASE FallBack(c) \/ TakeResult(c) \/ GiveUp(c)
  BY <1>0, <1>9 DEF FallBack, TakeResult, GiveUp, Narrated, Call
<1>10. CASE StartGenerator(c) \/ GeneratorEnds(c)
  BY <1>0, <1>10 DEF StartGenerator, GeneratorEnds, local
<1>11. CASE Answer(c) \/ Fail(c)
  BY <1>0, <1>11 DEF Answer, Fail
<1>12. QED
  BY <1>1, <1>2, <1>3, <1>4, <1>5, <1>6, <1>7, <1>8, <1>9, <1>10, <1>11 DEF Advance

LEMMA TypeNext == TypeInv /\ [Next]_vars => TypeInv'
<1> SUFFICES ASSUME TypeInv, [Next]_vars PROVE TypeInv'
  OBVIOUS
<1>1. CASE \E c \in Callers : Begin(c) \/ Advance(c) \/ GeneratorEnds(c)
  BY <1>1, TypeCaller, HoldingCaller DEF TypeInv
<1>2. CASE OrphanEnds
  BY <1>2, RunAssumption DEF OrphanEnds, TypeInv, TypeOK, Holding, database, local
<1>3. CASE Crash
  <2>1. [c \in Callers |-> NoCall] \in [Callers -> Call]
    BY DEF NoCall, Call
  <2>2. QED
    BY <1>3, <2>1, RunAssumption DEF Crash, TypeInv, TypeOK, Holding, database
<1>4. CASE UNCHANGED vars
  BY <1>4 DEF TypeInv, TypeOK, Holding, vars, database, local, generators
<1>5. QED
  BY <1>1, <1>2, <1>3, <1>4 DEF Next

(* TypeOK: rows, callers and generators have their types, and the writer   *)
(* slot belongs to the caller inside a save.                               *)
THEOREM TypeCorrect == Spec => []TypeOK
<1>1. TypeInv => TypeOK
  BY DEF TypeInv
<1>2. QED
  BY TypeInit, TypeNext, <1>1, PTL DEF Spec
-----------------------------------------------------------------------------
(* The safety invariant.  A call computes its analysis under an id of its  *)
(* own, and from its first save on holds the stored analysis of its        *)
(* identity, whoever stored it.                                            *)
Saving(c) == pc[c] \in {"save", "write", "commit"}
Computing(c) == pc[c] = "lookup" \/ (Saving(c) /\ ~call[c].final)
Holds(c) ==
  pc[c] \in {"observe", "narrate", "wait", "answer"} \/ (Saving(c) /\ call[c].final)

UniqueRuns == \A r, q \in runs : r.key = q.key \/ r.id = q.id => r = q

IssuedRuns == \A r \in runs : r.id <= started

Issued(c) == pc[c] # "idle" => call[c].id <= started

FreshId(c) ==
  Computing(c) =>
    /\ \A r \in runs : r.id # call[c].id
    /\ \A d \in Callers \ {c} : pc[d] # "idle" => call[d].id # call[c].id

Phase(c) ==
  /\ pc[c] \in {"lookup", "observe"} => ~call[c].final
  /\ Computing(c) \/ pc[c] = "observe" => call[c].narrative = None
  /\ pc[c] \in {"narrate", "wait"} => call[c].narrated /\ call[c].final
  /\ Saving(c) /\ call[c].final => (call[c].narrative # None <=> call[c].narrated)
  /\ pc[c] = "answer" /\ ~call[c].narrated => call[c].narrative = None

HeldRun(c) ==
  Holds(c) =>
    \E r \in runs :
      /\ r.key = call[c].key /\ r.id = call[c].id
      /\ pc[c] = "answer" /\ call[c].narrated =>
           r.narrative # None /\ call[c].narrative = r.narrative

(* A stored run whose narrative is filled in.                              *)
Filled(r, text) ==
  [key |-> r.key, id |-> r.id, narrative |-> IF r.narrative = None THEN text ELSE r.narrative]

StagedRow(c) ==
  pc[c] = "commit" =>
    \/ /\ \A r \in runs : r.key # call[c].key
       /\ staged[c] = [key |-> call[c].key, id |-> call[c].id, narrative |-> call[c].narrative]
    \/ \E r \in runs :
         /\ r.key = call[c].key
         /\ staged[c] = Filled(r, call[c].narrative)

CallerInv(c) == Issued(c) /\ FreshId(c) /\ Phase(c) /\ HeldRun(c) /\ StagedRow(c)

Inv ==
  /\ TypeInv
  /\ UniqueRuns
  /\ IssuedRuns
  /\ EventPerRun
  /\ \A c \in Callers : CallerInv(c)

LEMMA InvInit == Init => Inv
BY TypeInit DEF Init, Inv, UniqueRuns, IssuedRuns, EventPerRun, CallerInv, Issued, FreshId,
   Phase, HeldRun, StagedRow, Computing, Holds, Saving

(* A step of caller c that leaves the runs alone is right if the caller is *)
(* right after it and its id is not that of a computing call.              *)
LEMMA QuietStep ==
  ASSUME Inv, TypeInv', NEW c \in Callers, UNCHANGED <<runs, events>>, started' >= started,
         \A d \in Callers \ {c} :
           pc'[d] = pc[d] /\ call'[d] = call[d] /\ staged'[d] = staged[d],
         \A d \in Callers \ {c} :
           Computing(d) /\ pc'[c] # "idle" => call'[c].id # call[d].id,
         CallerInv(c)'
  PROVE  Inv'
<1>1. started \in Nat /\ started' \in Nat
  BY DEF Inv, TypeInv, TypeOK
<1>2. runs \subseteq Run /\ call \in [Callers -> Call] /\ \A r \in runs : r.id \in Nat
  BY DEF Inv, TypeInv, TypeOK, Run, Ids
<1>3. ASSUME NEW d \in Callers \ {c} PROVE CallerInv(d)'
  <2>0. CallerInv(d) /\ (pc[d] # "idle" => call[d].id \in Nat)
    BY DEF Inv, TypeInv, Holding, Ids
  <2>1. Issued(d)'
    BY <1>1, <2>0 DEF CallerInv, Issued
  <2>2. FreshId(d)'
    BY <2>0 DEF CallerInv, FreshId, Computing, Saving
  <2>3. Phase(d)'
    BY <2>0 DEF CallerInv, Phase, Computing, Saving
  <2>4. HeldRun(d)'
    BY <2>0 DEF CallerInv, HeldRun, Holds, Saving
  <2>5. StagedRow(d)'
    BY <2>0 DEF CallerInv, StagedRow
  <2>6. QED
    BY <2>1, <2>2, <2>3, <2>4, <2>5 DEF CallerInv
<1>4. UniqueRuns' /\ EventPerRun'
  BY DEF Inv, UniqueRuns, EventPerRun
<1>5. IssuedRuns'
  BY <1>1, <1>2 DEF Inv, IssuedRuns
<1>6. QED
  BY <1>3, <1>4, <1>5 DEF Inv

(* Nothing is stored of a computing call's id, so it stores a row of its   *)
(* own or gives back the stored one.                                       *)
LEMMA CommitShape ==
  ASSUME Inv, NEW c \in Callers, pc[c] = "commit"
  PROVE  \/ /\ Stored(call[c].key) = {}
            /\ ~call[c].final
            /\ staged[c] = [key |-> call[c].key, id |-> call[c].id, narrative |-> None]
         \/ \E r \in runs :
              /\ Stored(call[c].key) = {r}
              /\ r.key = call[c].key
              /\ staged[c] = Filled(r, call[c].narrative)
<1>0. CallerInv(c) /\ UniqueRuns
  BY DEF Inv
<1>1. CASE \A r \in runs : r.key # call[c].key
  <2>1. ~call[c].final
    BY <1>0, <1>1 DEF CallerInv, HeldRun, Holds, Saving
  <2>2. call[c].narrative = None
    BY <1>0, <2>1 DEF CallerInv, Phase, Computing, Saving
  <2>3. QED
    BY <1>0, <1>1, <2>1, <2>2 DEF CallerInv, StagedRow, Stored
<1>2. CASE \E r \in runs : r.key = call[c].key
  <2>1. PICK r \in runs :
          /\ r.key = call[c].key
          /\ staged[c] = Filled(r, call[c].narrative)
    BY <1>0, <1>2 DEF CallerInv, StagedRow
  <2>2. Stored(call[c].key) = {r}
    BY <1>0, <2>1 DEF Stored, UniqueRuns
  <2>3. QED
    BY <2>1, <2>2
<1>3. QED
  BY <1>1, <1>2

(* A commit keeps every run under its key and id, and a narrative that is  *)
(* written; the new row is not taken from another identity.                *)
LEMMA CommitKeeps ==
  ASSUME Inv, NEW c \in Callers, CommitSave(c)
  PROVE  /\ staged[c].key = call[c].key
         /\ staged[c] \in runs'
         /\ staged[c].id = call[c].id \/ \E r \in runs : r.id = staged[c].id
         /\ \A r \in runs : \E q \in runs' :
              q.key = r.key /\ q.id = r.id /\ (r.narrative # None => q.narrative = r.narrative)
         /\ \A q \in runs' : q = staged[c] \/ (q \in runs /\ q.key # call[c].key)
         /\ UniqueRuns'
         /\ {r.id : r \in runs'} = {r.id : r \in runs} \union {staged[c].id}
<1>0. /\ pc[c] = "commit" /\ runs' = (runs \ Stored(staged[c].key)) \union {staged[c]}
      /\ UniqueRuns /\ CallerInv(c) /\ runs \subseteq Run /\ call[c] \in Call
  BY DEF CommitSave, Inv, TypeInv, TypeOK
<1>1. CASE /\ Stored(call[c].key) = {}
           /\ ~call[c].final
           /\ staged[c] = [key |-> call[c].key, id |-> call[c].id, narrative |-> None]
  <2>1. staged[c].key = call[c].key /\ staged[c].id = call[c].id /\ runs' = runs \union {staged[c]}
    BY <1>0, <1>1
  <2>2. \A r \in runs : r.key # call[c].key /\ r.id # call[c].id
    BY <1>0, <1>1 DEF Stored, CallerInv, FreshId, Computing, Saving
  <2>3. UniqueRuns'
    BY <1>0, <2>1, <2>2 DEF UniqueRuns
  <2>4. QED
    BY <2>1, <2>2, <2>3
<1>2. ASSUME NEW r \in runs, Stored(call[c].key) = {r}, r.key = call[c].key,
             staged[c] = Filled(r, call[c].narrative)
      PROVE  /\ staged[c].key = call[c].key
             /\ staged[c] \in runs'
             /\ staged[c].id = r.id
             /\ \A p \in runs : \E q \in runs' :
                  q.key = p.key /\ q.id = p.id /\ (p.narrative # None => q.narrative = p.narrative)
             /\ \A q \in runs' : q = staged[c] \/ (q \in runs /\ q.key # call[c].key)
             /\ UniqueRuns'
             /\ {p.id : p \in runs'} = {p.id : p \in runs} \union {staged[c].id}
  <2>1. /\ staged[c].key = r.key /\ staged[c].id = r.id
        /\ r.narrative # None => staged[c].narrative = r.narrative
    BY <1>0, <1>2 DEF Run, Filled
  <2>2. runs' = (runs \ {r}) \union {staged[c]}
    BY <1>0, <1>2, <2>1
  <2>3. \A q \in runs \ {r} : q.key # call[c].key /\ q.id # r.id
    BY <1>0, <1>2 DEF UniqueRuns
  <2>4. UniqueRuns'
    BY <1>0, <1>2, <2>1, <2>2, <2>3 DEF UniqueRuns
  <2>5. {p.id : p \in runs'} = {p.id : p \in runs} \union {staged[c].id}
    BY <2>1, <2>2
  <2>6. QED
    BY <1>2, <2>1, <2>2, <2>3, <2>4, <2>5
<1>3. QED
  BY <1>0, <1>1, <1>2, CommitShape

LEMMA InvCommit ==
  ASSUME Inv, TypeInv', NEW c \in Callers, CommitSave(c)
  PROVE  Inv'
<1>0. /\ \A d \in Callers : CallerInv(d)
      /\ runs \subseteq Run /\ call \in [Callers -> Call] /\ pc = [d \in Callers |-> pc[d]]
      /\ staged \in [Callers -> Run \union {None}]
      /\ \A d \in Callers : pc[d] = "commit" => writer = d
      /\ IssuedRuns /\ EventPerRun
      /\ started' = started /\ pc[c] = "commit"
  BY DEF Inv, TypeInv, TypeOK, CommitSave
<1>1. /\ pc' = [pc EXCEPT ![c] = IF call[c].final THEN "answer" ELSE "observe"]
      /\ call' = [call EXCEPT ![c] = Returned(c)]
      /\ staged' = [staged EXCEPT ![c] = None]
      /\ events' = events \union {staged[c].id}
  BY DEF CommitSave, Goto
<1>2. /\ staged[c].key = call[c].key
      /\ staged[c] \in runs'
      /\ staged[c].id = call[c].id \/ \E r \in runs : r.id = staged[c].id
      /\ \A r \in runs : \E q \in runs' :
           q.key = r.key /\ q.id = r.id /\ (r.narrative # None => q.narrative = r.narrative)
      /\ \A q \in runs' : q = staged[c] \/ (q \in runs /\ q.key # call[c].key)
      /\ UniqueRuns'
      /\ {r.id : r \in runs'} = {r.id : r \in runs} \union {staged[c].id}
  BY CommitKeeps
<1>3. /\ call'[c].key = call[c].key /\ call'[c].id = staged[c].id
      /\ call'[c].narrated = call[c].narrated /\ call'[c].final = call[c].final
      /\ call'[c].narrative = IF call[c].narrative = None THEN None ELSE staged[c].narrative
  BY <1>0, <1>1 DEF Returned, Call
<1>4. call[c].id <= started /\ staged[c].id <= started
  BY <1>0, <1>2 DEF CallerInv, Issued, IssuedRuns
<1>5. IssuedRuns'
  BY <1>0, <1>2, <1>4 DEF IssuedRuns
<1>6. EventPerRun'
  BY <1>0, <1>1, <1>2 DEF EventPerRun
<1>7. ASSUME NEW d \in Callers \ {c} PROVE CallerInv(d)'
  <2>0. CallerInv(d) /\ pc'[d] = pc[d] /\ call'[d] = call[d] /\ staged'[d] = staged[d] /\ pc[d] # "commit"
    BY <1>0, <1>1
  <2>1. Issued(d)'
    BY <1>0, <2>0 DEF CallerInv, Issued
  <2>2. FreshId(d)'
    <3>1. CASE Computing(d)
      <4>1. /\ \A r \in runs : r.id # call[d].id
            /\ \A e \in Callers \ {d} : pc[e] # "idle" => call[e].id # call[d].id
        BY <2>0, <3>1 DEF CallerInv, FreshId
      <4>2. staged[c].id # call[d].id
        BY <1>0, <1>2, <4>1
      <4>3. QED
        BY <1>0, <1>1, <1>2, <1>3, <2>0, <4>1, <4>2 DEF FreshId
    <3>2. CASE ~Computing(d)
      BY <2>0, <3>2 DEF FreshId, Computing, Saving
    <3>3. QED
      BY <3>1, <3>2
  <2>3. Phase(d)'
    BY <2>0 DEF CallerInv, Phase, Computing, Saving
  <2>4. HeldRun(d)'
    <3>1. ASSUME Holds(d)
          PROVE  \E q \in runs' :
                   /\ q.key = call[d].key /\ q.id = call[d].id
                   /\ pc[d] = "answer" /\ call[d].narrated =>
                        q.narrative # None /\ call[d].narrative = q.narrative
      <4>1. PICK r \in runs :
              /\ r.key = call[d].key /\ r.id = call[d].id
              /\ pc[d] = "answer" /\ call[d].narrated =>
                   r.narrative # None /\ call[d].narrative = r.narrative
        BY <2>0, <3>1 DEF CallerInv, HeldRun
      <4>2. QED
        BY <1>2, <4>1
    <3>2. QED
      BY <2>0, <3>1 DEF HeldRun, Holds, Saving
  <2>5. StagedRow(d)'
    BY <2>0 DEF StagedRow
  <2>6. QED
    BY <2>1, <2>2, <2>3, <2>4, <2>5 DEF CallerInv
<1>8. CallerInv(c)'
  <2>0. CallerInv(c)
    BY <1>0
  <2>1. CASE call[c].final
    <3>1. pc'[c] = "answer"
      BY <1>0, <1>1, <2>1
    <3>2. Issued(c)' /\ FreshId(c)' /\ StagedRow(c)'
      BY <1>0, <1>3, <1>4, <3>1 DEF Issued, FreshId, StagedRow, Computing, Saving
    <3>3. call[c].narrative # None <=> call[c].narrated
      BY <1>0, <2>0, <2>1 DEF CallerInv, Phase, Saving
    <3>4. call[c].narrative # None => staged[c].narrative # None
      BY <1>0, CommitShape, <2>1 DEF Filled
    <3>5. Phase(c)' /\ HeldRun(c)'
      BY <1>2, <1>3, <3>1, <3>3, <3>4 DEF Phase, HeldRun, Computing, Holds, Saving
    <3>6. QED
      BY <3>2, <3>5 DEF CallerInv
  <2>2. CASE ~call[c].final
    <3>1. pc'[c] = "observe"
      BY <1>0, <1>1, <2>2
    <3>2. Issued(c)' /\ FreshId(c)' /\ StagedRow(c)'
      BY <1>0, <1>3, <1>4, <3>1 DEF Issued, FreshId, StagedRow, Computing, Saving
    <3>3. call[c].narrative = None
      BY <1>0, <2>0, <2>2 DEF CallerInv, Phase, Computing, Saving
    <3>4. Phase(c)' /\ HeldRun(c)'
      BY <1>2, <1>3, <2>2, <3>1, <3>3 DEF Phase, HeldRun, Computing, Holds, Saving
    <3>5. QED
      BY <3>2, <3>4 DEF CallerInv
  <2>3. QED
    BY <2>1, <2>2
<1>9. QED
  BY <1>2, <1>5, <1>6, <1>7, <1>8 DEF Inv

LEMMA InvCaller ==
  ASSUME Inv, NEW c \in Callers, Begin(c) \/ Advance(c) \/ GeneratorEnds(c)
  PROVE  Inv'
<1> USE DEF Goto, database, local, generators
<1>0. /\ TypeInv /\ TypeInv' /\ CallerInv(c) /\ UniqueRuns /\ IssuedRuns /\ EventPerRun
      /\ \A d \in Callers : CallerInv(d)
      /\ runs \subseteq Run /\ call \in [Callers -> Call] /\ pc = [d \in Callers |-> pc[d]]
      /\ staged \in [Callers -> Run \union {None}]
      /\ started \in Nat
      /\ None \notin Narratives
      /\ \A d \in Callers : pc[d] # "idle" => call[d].id \in Nat
      /\ \A r \in runs : r.id \in Nat
  BY TypeCaller, HoldingCaller, RunAssumption DEF Inv, TypeInv, TypeOK, Holding, Ids, Run
<1>1. CASE Begin(c)
  <2>1. CallerInv(c)'
    BY <1>0, <1>1 DEF Begin, CallerInv, Issued, IssuedRuns, FreshId, Phase, HeldRun, StagedRow,
       Computing, Holds, Saving
  <2>2. QED
    BY <1>0, <1>1, <2>1, QuietStep DEF Begin, CallerInv, Issued, Computing, Saving
<1>2. CASE Compute(c)
  <2>1. CallerInv(c)'
    BY <1>0, <1>2 DEF Compute, Narrated, CallerInv, Issued, FreshId, Phase, HeldRun, StagedRow,
       Computing, Holds, Saving, Call
  <2>2. QED
    BY <1>0, <1>2, <2>1, QuietStep DEF Compute, Narrated, CallerInv, FreshId, Call
<1>3. CASE AnswerCached(c) \/ NarrateCached(c)
  <2>1. PICK r \in Stored(call[c].key) :
          \/ /\ call[c].narrated => r.narrative # None
             /\ call' = [call EXCEPT ![c].id = r.id,
                                     ![c].narrative = IF call[c].narrated THEN r.narrative ELSE None]
             /\ pc' = [pc EXCEPT ![c] = "answer"]
          \/ /\ call[c].narrated
             /\ call' = [call EXCEPT ![c].id = r.id, ![c].final = TRUE]
             /\ pc' = [pc EXCEPT ![c] = "narrate"]
    BY <1>3 DEF AnswerCached, NarrateCached
  <2>2. r \in runs /\ r.key = call[c].key
    BY <2>1 DEF Stored
  <2>3. UNCHANGED <<runs, events, staged, started>> /\ pc[c] = "lookup"
    BY <1>3 DEF AnswerCached, NarrateCached
  <2>4. CallerInv(c)'
    BY <1>0, <2>1, <2>2, <2>3 DEF CallerInv, Issued, IssuedRuns, FreshId, Phase, HeldRun, StagedRow,
       Computing, Holds, Saving, Call
  <2>5. \A d \in Callers \ {c} : Computing(d) /\ pc'[c] # "idle" => call'[c].id # call[d].id
    BY <1>0, <2>1, <2>2 DEF CallerInv, FreshId, Call
  <2>6. QED
    BY <1>0, <2>1, <2>3, <2>4, <2>5, QuietStep
<1>4. CASE LockSave(c)
  <2>1. CallerInv(c)'
    BY <1>0, <1>4 DEF LockSave, Narrated, CallerInv, Issued, FreshId, Phase, HeldRun, StagedRow,
       Computing, Holds, Saving, Call
  <2>2. QED
    BY <1>0, <1>4, <2>1, QuietStep DEF LockSave, Narrated, CallerInv, FreshId, Call
<1>5. CASE WriteSave(c)
  <2>1. /\ pc[c] = "write" /\ pc' = [pc EXCEPT ![c] = "commit"]
        /\ staged' = [staged EXCEPT ![c] = RowToStore(c)]
        /\ UNCHANGED <<runs, events, call, started>>
    BY <1>5 DEF WriteSave
  <2>2. StagedRow(c)'
    <3>1. CASE \A r \in runs : r.key # call[c].key
      <4>1. Stored(call[c].key) = {}
        BY <3>1 DEF Stored
      <4>2. QED
        BY <1>0, <2>1, <3>1, <4>1 DEF RowToStore, StagedRow
    <3>2. CASE \E r \in runs : r.key = call[c].key
      <4> DEFINE r == CHOOSE r \in Stored(call[c].key) : TRUE
      <4>1. r \in runs /\ r.key = call[c].key /\ r \in Run
        BY <1>0, <3>2 DEF Stored
      <4>2. RowToStore(c) = [r EXCEPT !.narrative = IF @ = None THEN call[c].narrative ELSE @]
        BY <3>2 DEF RowToStore, Stored
      <4> HIDE DEF r
      <4>3. RowToStore(c) = Filled(r, call[c].narrative)
        BY <4>1, <4>2 DEF Filled, Run
      <4>4. QED
        BY <1>0, <2>1, <4>1, <4>3 DEF StagedRow
    <3>3. QED
      BY <3>1, <3>2
  <2>3. CallerInv(c)'
    BY <1>0, <2>1, <2>2 DEF CallerInv, Issued, FreshId, Phase, HeldRun, Computing, Holds, Saving
  <2>4. QED
    BY <1>0, <2>1, <2>3, QuietStep DEF CallerInv, FreshId
<1>6. CASE CommitSave(c)
  BY <1>0, <1>6, InvCommit
<1>7. CASE Observe(c)
  <2>1. CallerInv(c)'
    BY <1>0, <1>7 DEF Observe, Narrated, CallerInv, Issued, FreshId, Phase, HeldRun, StagedRow,
       Computing, Holds, Saving, Call
  <2>2. QED
    BY <1>0, <1>7, <2>1, QuietStep DEF Observe, Narrated, CallerInv, FreshId, Call
<1>8. CASE FallBack(c)
  <2>1. CallerInv(c)'
    BY <1>0, <1>8, RunAssumption DEF FallBack, Narrated, CallerInv, Issued, FreshId, Phase, HeldRun, StagedRow,
       Computing, Holds, Saving, Call, Narratives
  <2>2. QED
    BY <1>0, <1>8, <2>1, QuietStep DEF FallBack, Narrated, CallerInv, FreshId, Call, Narratives
<1>9. CASE StartGenerator(c)
  <2>1. CallerInv(c)'
    BY <1>0, <1>9 DEF StartGenerator, Narrated, CallerInv, Issued, FreshId, Phase, HeldRun, StagedRow,
       Computing, Holds, Saving, Call
  <2>2. QED
    BY <1>0, <1>9, <2>1, QuietStep DEF StartGenerator, Narrated, CallerInv, FreshId, Call
<1>10. CASE TakeResult(c)
  <2>1. CallerInv(c)'
    BY <1>0, <1>10, RunAssumption DEF TakeResult, Narrated, CallerInv, Issued, FreshId, Phase, HeldRun, StagedRow,
       Computing, Holds, Saving, Call, Narratives
  <2>2. QED
    BY <1>0, <1>10, <2>1, QuietStep DEF TakeResult, Narrated, CallerInv, FreshId, Call, Narratives
<1>11. CASE GiveUp(c)
  <2>1. CallerInv(c)'
    BY <1>0, <1>11, RunAssumption DEF GiveUp, Narrated, CallerInv, Issued, FreshId, Phase, HeldRun, StagedRow,
       Computing, Holds, Saving, Call, Narratives
  <2>2. QED
    BY <1>0, <1>11, <2>1, QuietStep DEF GiveUp, Narrated, CallerInv, FreshId, Call, Narratives
<1>12. CASE Answer(c)
  <2>1. CallerInv(c)'
    BY <1>0, <1>12 DEF Answer, Narrated, CallerInv, Issued, FreshId, Phase, HeldRun, StagedRow,
       Computing, Holds, Saving, Call
  <2>2. QED
    BY <1>0, <1>12, <2>1, QuietStep DEF Answer, Narrated, CallerInv, FreshId, Call
<1>13. CASE Fail(c)
  <2>1. CallerInv(c)'
    BY <1>0, <1>13 DEF Fail, Narrated, CallerInv, Issued, FreshId, Phase, HeldRun, StagedRow,
       Computing, Holds, Saving, Call
  <2>2. QED
    BY <1>0, <1>13, <2>1, QuietStep DEF Fail, Narrated, CallerInv, FreshId, Call
<1>14. CASE GeneratorEnds(c)
  <2>1. UNCHANGED <<runs, events, staged, pc, call, started>>
    BY <1>14 DEF GeneratorEnds
  <2>2. CallerInv(c)'
    BY <1>0, <2>1 DEF CallerInv, Issued, FreshId, Phase, HeldRun, StagedRow, Computing, Holds, Saving
  <2>3. QED
    BY <1>0, <2>1, <2>2, QuietStep DEF CallerInv, FreshId
<1>15. QED
  BY <1>1, <1>2, <1>3, <1>4, <1>5, <1>6, <1>7, <1>8, <1>9, <1>10, <1>11, <1>12, <1>13, <1>14 DEF Advance

LEMMA InvNext == Inv /\ [Next]_vars => Inv'
<1> SUFFICES ASSUME Inv, [Next]_vars PROVE Inv'
  OBVIOUS
<1>0. TypeInv'
  BY TypeNext DEF Inv
<1>1. CASE \E c \in Callers : Begin(c) \/ Advance(c) \/ GeneratorEnds(c)
  BY <1>1, InvCaller
<1>2. CASE OrphanEnds
  BY <1>0, <1>2 DEF OrphanEnds, Inv, database, local, UniqueRuns, IssuedRuns, EventPerRun, CallerInv,
     Issued, FreshId, Phase, HeldRun, StagedRow, Computing, Holds, Saving
<1>3. CASE Crash
  BY <1>0, <1>3 DEF Crash, Inv, database, UniqueRuns, IssuedRuns, EventPerRun, CallerInv,
     Issued, FreshId, Phase, HeldRun, StagedRow, Computing, Holds, Saving
<1>4. CASE UNCHANGED vars
  BY <1>0, <1>4 DEF vars, Inv, database, local, UniqueRuns, IssuedRuns, EventPerRun, CallerInv,
     Issued, FreshId, Phase, HeldRun, StagedRow, Computing, Holds, Saving
<1>5. QED
  BY <1>1, <1>2, <1>3, <1>4 DEF Next

LEMMA SafetyInv == Spec => []Inv
BY InvInit, InvNext, PTL DEF Spec

(* A run and its event are stored together (repositories.py 1055-1065).    *)
THEOREM EventsMatchRuns == Spec => []EventPerRun
<1>1. Inv => EventPerRun
  BY DEF Inv
<1>2. QED
  BY SafetyInv, <1>1, PTL

(* No two callers insert a run of one identity (repositories.py 934-966).  *)
THEOREM NoInsertConflicts == Spec => []InsertsNeverConflict
<1>1. Inv => InsertsNeverConflict
  <2> SUFFICES ASSUME Inv, NEW c \in Callers, pc[c] = "commit" PROVE ~Conflicts(c)
    BY DEF InsertsNeverConflict
  <2>1. CASE /\ Stored(call[c].key) = {}
             /\ staged[c] = [key |-> call[c].key, id |-> call[c].id, narrative |-> None]
    BY <2>1 DEF Conflicts
  <2>2. CASE \E r \in runs :
               /\ Stored(call[c].key) = {r}
               /\ r.key = call[c].key
               /\ staged[c] = Filled(r, call[c].narrative)
    BY <2>2 DEF Conflicts, Filled
  <2>3. QED
    BY <2>1, <2>2, CommitShape
<1>2. QED
  BY SafetyInv, <1>1, PTL

(* An observation finds the analysis it is about (service.py 20-22).       *)
THEOREM ObservationsAreOfRuns == Spec => []ObservationFindsRun
<1>1. Inv => ObservationFindsRun
  BY DEF Inv, CallerInv, HeldRun, Holds, ObservationFindsRun
<1>2. QED
  BY SafetyInv, <1>1, PTL
-----------------------------------------------------------------------------
(* The generator slots are all accounted for: free, or held by a thread    *)
(* that a caller waits for, or by one that was given up.                   *)
Running == {c \in Callers : thread[c] = "running"}

SlotInv ==
  /\ \A c \in Callers : pc[c] # "wait" => thread[c] = "none"
  /\ IsFiniteSet(Running)
  /\ slots + Cardinality(Running) + orphans = NarrativeSlots

LEMMA SlotInit == Init => SlotInv
<1> SUFFICES ASSUME Init PROVE SlotInv
  OBVIOUS
<1>1. Running = {}
  BY DEF Init, Running
<1>2. QED
  BY <1>1, FS_EmptySet, RunAssumption DEF Init, SlotInv

LEMMA SlotNext == SlotInv /\ TypeInv /\ [Next]_vars => SlotInv'
<1> SUFFICES ASSUME SlotInv, TypeInv, [Next]_vars PROVE SlotInv'
  OBVIOUS
<1> USE RunAssumption
<1>0. /\ slots \in Nat /\ orphans \in Nat /\ NarrativeSlots \in Nat
      /\ IsFiniteSet(Running) /\ Cardinality(Running) \in Nat
      /\ thread \in [Callers -> {"none", "running", "done", "raised"}]
      /\ pc = [d \in Callers |-> pc[d]]
      /\ \A c \in Callers : pc[c] # "wait" => thread[c] = "none"
      /\ slots + Cardinality(Running) + orphans = NarrativeSlots
  BY FS_CardinalityType DEF SlotInv, TypeInv, TypeOK
<1>1. ASSUME UNCHANGED generators, \A c \in Callers : pc'[c] = pc[c] \/ pc[c] # "wait"
      PROVE  SlotInv'
  BY <1>0, <1>1 DEF SlotInv, Running, generators
<1>2. ASSUME NEW c \in Callers, StartGenerator(c) PROVE SlotInv'
  <2>1. /\ pc[c] = "narrate" /\ pc' = [pc EXCEPT ![c] = "wait"]
        /\ slots > 0 /\ slots' = slots - 1 /\ orphans' = orphans
        /\ thread' = [thread EXCEPT ![c] = "running"]
    BY <1>2 DEF StartGenerator, Goto
  <2>2. c \notin Running /\ Running' = Running \union {c}
    BY <1>0, <2>1 DEF Running
  <2>3. IsFiniteSet(Running') /\ Cardinality(Running') = Cardinality(Running) + 1
    BY <1>0, <2>2, FS_AddElement
  <2>4. QED
    BY <1>0, <2>1, <2>3 DEF SlotInv
<1>3. ASSUME NEW c \in Callers, GeneratorEnds(c) \/ GiveUp(c) PROVE SlotInv'
  <2>1. /\ thread[c] = "running"
        /\ \E outcome \in {"none", "done", "raised"} :
             /\ thread' = [thread EXCEPT ![c] = outcome]
             /\ outcome = "none" \/ pc' = pc
        /\ \A d \in Callers \ {c} : pc'[d] = pc[d]
        /\ \/ slots' = slots + 1 /\ orphans' = orphans
           \/ slots' = slots /\ orphans' = orphans + 1
    BY <1>0, <1>3 DEF GeneratorEnds, GiveUp, Narrated, Goto, local
  <2>2. c \in Running /\ Running' = Running \ {c}
    BY <1>0, <2>1 DEF Running
  <2>3. IsFiniteSet(Running') /\ Cardinality(Running') = Cardinality(Running) - 1
    BY <1>0, <2>2, FS_RemoveElement
  <2>4. \A d \in Callers : pc'[d] # "wait" => thread'[d] = "none"
    BY <1>0, <2>1
  <2>5. QED
    BY <1>0, <2>1, <2>3, <2>4 DEF SlotInv
<1>4. ASSUME NEW c \in Callers, TakeResult(c) PROVE SlotInv'
  <2>1. thread[c] # "running" /\ thread' = [thread EXCEPT ![c] = "none"] /\ UNCHANGED <<orphans, slots>>
    BY <1>4 DEF TakeResult
  <2>2. Running' = Running
    BY <1>0, <2>1 DEF Running
  <2>3. \A d \in Callers \ {c} : pc'[d] = pc[d]
    BY <1>0, <1>4 DEF TakeResult, Narrated, Goto
  <2>4. QED
    BY <1>0, <2>1, <2>2, <2>3 DEF SlotInv
<1>5. ASSUME OrphanEnds PROVE SlotInv'
  BY <1>0, <1>5 DEF OrphanEnds, local, SlotInv, Running
<1>6. ASSUME Crash PROVE SlotInv'
  <2>1. Running' = {}
    BY <1>6 DEF Crash, Running
  <2>2. QED
    BY <1>0, <1>6, <2>1, FS_EmptySet DEF Crash, SlotInv
<1>7. ASSUME NEW c \in Callers,
             \/ Begin(c) \/ Compute(c) \/ AnswerCached(c) \/ NarrateCached(c) \/ LockSave(c)
             \/ WriteSave(c) \/ CommitSave(c) \/ Observe(c) \/ FallBack(c) \/ Answer(c) \/ Fail(c)
      PROVE  SlotInv'
  <2>1. UNCHANGED generators
    BY <1>7 DEF Begin, Compute, AnswerCached, NarrateCached, LockSave, WriteSave, CommitSave, Observe,
       FallBack, Answer, Fail, generators
  <2>2. pc[c] # "wait" /\ \A d \in Callers \ {c} : pc'[d] = pc[d]
    BY <1>0, <1>7 DEF Begin, Compute, AnswerCached, NarrateCached, LockSave, WriteSave, CommitSave,
       Observe, FallBack, Narrated, Answer, Fail, Goto
  <2>3. QED
    BY <1>1, <2>1, <2>2
<1>8. CASE UNCHANGED vars
  BY <1>1, <1>8 DEF vars, local
<1>9. QED
  BY <1>2, <1>3, <1>4, <1>5, <1>6, <1>7, <1>8 DEF Next, Advance

(* At most NarrativeSlots generators run at a time (analyst.py 200-212).   *)
THEOREM GeneratorsAreBounded == Spec => []GeneratorsBounded
<1>1. SlotInv /\ TypeInv => GeneratorsBounded
  <2> SUFFICES ASSUME SlotInv, TypeInv PROVE GeneratorsBounded
    OBVIOUS
  <2>1. /\ slots \in Nat /\ orphans \in Nat /\ Cardinality(Running) \in Nat
        /\ slots + Cardinality(Running) + orphans = NarrativeSlots
    BY FS_CardinalityType DEF SlotInv, TypeInv, TypeOK
  <2>2. QED
    BY <2>1 DEF GeneratorsBounded, Running
<1>2. Inv => TypeInv
  BY DEF Inv
<1>3. QED
  BY SafetyInv, SlotInit, SlotNext, <1>1, <1>2, PTL DEF Spec
-----------------------------------------------------------------------------
(* The refinement: saves register and narrate, answers answer, and every   *)
(* other step leaves the ledger as it is.                                  *)
Entry(k) ==
  IF Stored(k) = {} THEN None
  ELSE LET r == CHOOSE r \in Stored(k) : TRUE IN [id |-> r.id, narrative |-> r.narrative]

LEMMA EntryOfRun ==
  ASSUME UniqueRuns, NEW r \in runs
  PROVE  Entry(r.key) = [id |-> r.id, narrative |-> r.narrative]
<1>1. Stored(r.key) = {r}
  BY DEF UniqueRuns, Stored
<1>2. QED
  BY <1>1 DEF Entry

LEMMA EntryOfNone ==
  ASSUME NEW k, \A r \in runs : r.key # k
  PROVE  Entry(k) = None
BY DEF Entry, Stored

ledger == [k \in Keys |-> Entry(k)]

LEMMA LedgerInit == Init => Ledger!Init
<1> SUFFICES ASSUME Init PROVE Ledger!Init
  OBVIOUS
<1>1. \A k \in Keys : Stored(k) = {}
  BY DEF Init, Stored
<1>2. QED
  BY <1>1 DEF Init, Ledger!Init

LEMMA LedgerQuiet ==
  ASSUME UNCHANGED <<runs, answers>>
  PROVE  UNCHANGED Ledger!vars
BY DEF Ledger!vars, Stored

LEMMA LedgerCommit ==
  ASSUME Inv, NEW c \in Callers, CommitSave(c)
  PROVE  Ledger!Next \/ UNCHANGED Ledger!vars
<1>k. PICK k \in Keys : k = call[c].key
  BY DEF CommitSave, Inv, TypeInv, Holding
<1>0. /\ pc[c] = "commit" /\ answers' = answers
      /\ runs' = (runs \ Stored(staged[c].key)) \union {staged[c]}
      /\ UniqueRuns /\ CallerInv(c) /\ runs \subseteq Run
      /\ call[c] \in Call /\ call[c].id \in Ids /\ k = call[c].key
  BY <1>k DEF CommitSave, Inv, TypeInv, TypeOK, Holding
<1>1. /\ staged[c].key = k /\ staged[c] \in runs' /\ UniqueRuns'
      /\ \A q \in runs' : q = staged[c] \/ (q \in runs /\ q.key # k)
  BY <1>k, CommitKeeps
<1>2. Entry(k)' = [id |-> staged[c].id, narrative |-> staged[c].narrative]
  <2>1. Stored(k)' = {staged[c]}
    BY <1>1 DEF Stored
  <2>2. QED
    BY <2>1 DEF Entry
<1>3. ASSUME NEW j \in Keys \ {k} PROVE Entry(j)' = Entry(j)
  <2>1. Stored(j)' = Stored(j)
    BY <1>0, <1>1, <1>3 DEF Stored
  <2>2. QED
    BY <2>1 DEF Entry
<1>4. ledger' = [ledger EXCEPT ![k] = [id |-> staged[c].id, narrative |-> staged[c].narrative]]
  BY <1>0, <1>2, <1>3 DEF ledger
<1>5. CASE /\ Stored(k) = {}
           /\ ~call[c].final
           /\ staged[c] = [key |-> k, id |-> call[c].id, narrative |-> None]
  <2>1. ledger[k] = None
    BY <1>0, <1>5 DEF ledger, Entry
  <2>2. ASSUME NEW j \in Keys, ledger[j] # None PROVE ledger[j].id # call[c].id
    <3>1. PICK r \in runs : r.key = j
      BY <2>2, EntryOfNone DEF ledger
    <3>2. ledger[j] = [id |-> r.id, narrative |-> r.narrative]
      BY <1>0, <3>1, EntryOfRun DEF ledger
    <3>3. r.id # call[c].id
      BY <1>0, <1>5 DEF CallerInv, FreshId, Computing, Saving
    <3>4. QED
      BY <3>2, <3>3
  <2>3. ledger' = [ledger EXCEPT ![k] = [id |-> call[c].id, narrative |-> None]]
    BY <1>4, <1>5
  <2>4. Ledger!Register(k, call[c].id)
    BY <1>0, <2>1, <2>2, <2>3 DEF Ledger!Register, ledger, Entry
  <2>5. QED
    BY <1>0, <2>4 DEF Ledger!Next
<1>6. ASSUME NEW r \in runs, Stored(k) = {r}, r.key = k, staged[c] = Filled(r, call[c].narrative)
      PROVE  Ledger!Next \/ UNCHANGED Ledger!vars
  <2>1. ledger[k] = [id |-> r.id, narrative |-> r.narrative] /\ r \in Run
    BY <1>0, <1>6, EntryOfRun DEF ledger
  <2>2. CASE staged[c].narrative = r.narrative
    <3>1. ledger' = ledger
      <4>1. ledger' = [ledger EXCEPT ![k] = ledger[k]]
        <5>1. staged[c].id = r.id
          BY <1>6 DEF Filled
        <5>2. ledger[k] = [id |-> staged[c].id, narrative |-> staged[c].narrative]
          BY <2>1, <2>2, <5>1
        <5>3. QED
          BY <1>4, <5>2
      <4>2. ledger = [j \in Keys |-> ledger[j]]
        BY DEF ledger
      <4>3. QED
        BY <4>1, <4>2
    <3>2. QED
      BY <1>0, <3>1 DEF Ledger!vars, ledger, Entry
  <2>3. CASE staged[c].narrative # r.narrative
    <3>1. r.narrative = None /\ staged[c].narrative = call[c].narrative /\ call[c].narrative \in Narratives
      BY <1>0, <1>6, <2>3 DEF Filled, Call
    <3>2. ledger' = [ledger EXCEPT ![k].narrative = call[c].narrative]
      <4>1. ledger' = [ledger EXCEPT ![k] = [id |-> r.id, narrative |-> call[c].narrative]]
        BY <1>4, <1>6, <3>1 DEF Filled
      <4>2. [ledger[k] EXCEPT !.narrative = call[c].narrative]
              = [id |-> r.id, narrative |-> call[c].narrative]
        BY <2>1
      <4>3. QED
        BY <4>1, <4>2
    <3>3. ledger[k] # None /\ ledger[k].narrative = None
      BY <2>1, <3>1, RunAssumption DEF Run
    <3>4. Ledger!Narrate(k, call[c].narrative)
      BY <1>0, <3>2, <3>3 DEF Ledger!Narrate, ledger, Entry
    <3>5. QED
      BY <1>0, <3>1, <3>4 DEF Ledger!Next
  <2>4. QED
    BY <2>2, <2>3
<1>7. QED
  BY <1>0, <1>5, <1>6, CommitShape

LEMMA LedgerAnswer ==
  ASSUME Inv, NEW c \in Callers, Answer(c)
  PROVE  Ledger!Next
<1>0. /\ pc[c] = "answer" /\ runs' = runs
      /\ answers' = answers \union {[key |-> call[c].key, narrated |-> call[c].narrated,
                                     id |-> call[c].id, narrative |-> call[c].narrative]}
      /\ UniqueRuns /\ CallerInv(c) /\ runs \subseteq Run
      /\ call[c].key \in Keys /\ call[c].narrated \in BOOLEAN
  BY DEF Answer, Inv, TypeInv, TypeOK, Holding, Call, database
<1>1. PICK r \in runs :
        /\ r.key = call[c].key /\ r.id = call[c].id
        /\ call[c].narrated => r.narrative # None /\ call[c].narrative = r.narrative
  BY <1>0 DEF CallerInv, HeldRun, Holds
<1>2. call[c].narrative = IF call[c].narrated THEN r.narrative ELSE None
  BY <1>0, <1>1 DEF CallerInv, Phase
<1>3. ledger[call[c].key] = [id |-> r.id, narrative |-> r.narrative]
  BY <1>0, <1>1, EntryOfRun DEF ledger
<1>4. ledger[call[c].key] # None
  BY <1>0, <1>3, RunAssumption DEF Run
<1>5. ledger' = ledger
  BY <1>0 DEF ledger, Entry, Stored
<1>6. Ledger!Answer(call[c].key, call[c].narrated)
  BY <1>0, <1>1, <1>2, <1>3, <1>4, <1>5 DEF Ledger!Answer, ledger, Entry
<1>7. QED
  BY <1>0, <1>6 DEF Ledger!Next

LEMMA LedgerNext == Inv /\ [Next]_vars => [Ledger!Next]_Ledger!vars
<1> SUFFICES ASSUME Inv, [Next]_vars PROVE Ledger!Next \/ UNCHANGED Ledger!vars
  OBVIOUS
<1>1. CASE \E c \in Callers : CommitSave(c)
  BY <1>1, LedgerCommit
<1>2. CASE \E c \in Callers : Answer(c)
  BY <1>2, LedgerAnswer
<1>3. ASSUME NEW c \in Callers,
             \/ Begin(c) \/ Compute(c) \/ AnswerCached(c) \/ NarrateCached(c) \/ LockSave(c)
             \/ WriteSave(c) \/ Observe(c) \/ FallBack(c) \/ StartGenerator(c) \/ TakeResult(c)
             \/ GiveUp(c) \/ Fail(c) \/ GeneratorEnds(c)
      PROVE  UNCHANGED <<runs, answers>>
  BY <1>3 DEF Begin, Compute, AnswerCached, NarrateCached, LockSave, WriteSave, Observe, FallBack,
     StartGenerator, TakeResult, GiveUp, Fail, GeneratorEnds, database
<1>4. CASE OrphanEnds \/ Crash \/ UNCHANGED vars
  <2>1. UNCHANGED <<runs, answers>>
    BY <1>4 DEF OrphanEnds, Crash, vars, database
  <2>2. QED
    BY <2>1, LedgerQuiet
<1>5. QED
  BY <1>1, <1>2, <1>3, <1>4, LedgerQuiet DEF Next, Advance

(* The service implements the ledger: every caller of an identity is given *)
(* the same analysis and the same narrative, whatever races, fails or      *)
(* crashes (analyst.py 86-194, repositories.py 927-1066).                  *)
THEOREM LedgerImplemented == Spec => LedgerSpec
<1>1. Spec => Ledger!Spec
  BY LedgerInit, LedgerNext, SafetyInv, PTL DEF Spec, Ledger!Spec
<1>2. QED
  BY <1>1 DEF LedgerSpec
=============================================================================
