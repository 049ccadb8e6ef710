---------------------------- MODULE AnalysisRun ----------------------------
(***************************************************************************)
(* Concurrent analyze() calls of one server process over the analysis      *)
(* tables.  A call builds its context, which fixes its identity, looks for *)
(* a stored run of that identity, computes and saves one if there is none, *)
(* records it as an observation of earlier analyses, writes a narrative    *)
(* with a bounded number of generator threads, and saves again.            *)
(*                                                                         *)
(* A run is a row [key, id, narrative]; the evidence, rules, features and  *)
(* audit rows written in the same transaction are part of it.  Database    *)
(* rows survive a crash of the server; everything else does not.           *)
(***************************************************************************)
EXTENDS Naturals, FiniteSets

CONSTANTS
  Callers,         \* threads serving requests
  Keys,            \* identities: request, input data and version hashes
  Template,        \* the narrative of the deterministic template
  Generated,       \* a narrative of the configured generator
  None,
  NarrativeSlots,  \* generator threads at a time
  MaxCalls         \* bound on the number of calls

Narratives == {Template, Generated}
Ids == 1..MaxCalls

ASSUME RunAssumption ==
  /\ NarrativeSlots \in Nat
  /\ MaxCalls \in Nat
  /\ None \notin Callers \union Narratives \union Nat
  /\ None \notin [id : Ids, narrative : Narratives \union {None}]

VARIABLES
  runs,      \* fut_analysis_run
  events,    \* fut_event_outbox: the analysis of each event
  observed,  \* analyses whose observation is recorded
  writer,    \* holder of the database's writer slot
  staged,    \* row each caller has written and not committed
  pc,        \* step of each caller
  call,      \* its request and the analysis it holds
  thread,    \* the generator thread it waits for
  orphans,   \* generator threads nobody waits for
  slots,     \* free generator slots
  started,   \* number of calls so far
  answers    \* history: what was answered

database == <<runs, events, observed>>
local == <<pc, call>>
generators == <<thread, orphans, slots>>
vars == <<database, writer, staged, local, generators, started, answers>>
-----------------------------------------------------------------------------
NoCall == [key |-> None, force |-> FALSE, narrated |-> FALSE, final |-> FALSE,
           id |-> None, narrative |-> None]

Init ==
  /\ runs = {}
  /\ events = {}
  /\ observed = {}
  /\ writer = None
  /\ staged = [c \in Callers |-> None]
  /\ pc = [c \in Callers |-> "idle"]
  /\ call = [c \in Callers |-> NoCall]
  /\ thread = [c \in Callers |-> "none"]
  /\ orphans = 0
  /\ slots = NarrativeSlots
  /\ started = 0
  /\ answers = {}

Stored(k) == {r \in runs : r.key = k}

Goto(c, step) == pc' = [pc EXCEPT ![c] = step]

(* A request arrives; its context, and so its identity, is built.  The id  *)
(* is the one a newly computed analysis of this call would get.            *)
Begin(c) ==
  /\ pc[c] = "idle"
  /\ started < MaxCalls
  /\ started' = started + 1
  /\ \E k \in Keys, force \in BOOLEAN, narrated \in BOOLEAN :
       call' = [call EXCEPT ![c] = [key |-> k, force |-> force, narrated |-> narrated,
                                    final |-> FALSE, id |-> started + 1, narrative |-> None]]
  /\ Goto(c, "lookup")
  /\ UNCHANGED <<database, writer, staged, generators, answers>>
-----------------------------------------------------------------------------
(* find_cached.                                                            *)

(* Nothing stored, or a recomputation is forced: compute an analysis.      *)
Compute(c) ==
  /\ pc[c] = "lookup"
  /\ call[c].force \/ Stored(call[c].key) = {}
  /\ Goto(c, "save")
  /\ UNCHANGED <<database, writer, staged, call, generators, started, answers>>

(* The stored run is the answer, without its narrative unless asked for.   *)
AnswerCached(c) ==
  /\ pc[c] = "lookup"
  /\ ~call[c].force
  /\ \E r \in Stored(call[c].key) :
       /\ call[c].narrated => r.narrative # None
       /\ call' = [call EXCEPT ![c].id = r.id,
                               ![c].narrative = IF call[c].narrated THEN r.narrative ELSE None]
  /\ Goto(c, "answer")
  /\ UNCHANGED <<database, writer, staged, generators, started, answers>>

(* The stored run lacks the narrative that was asked for.                  *)
NarrateCached(c) ==
  /\ pc[c] = "lookup"
  /\ ~call[c].force
  /\ call[c].narrated
  /\ \E r \in Stored(call[c].key) :
       /\ r.narrative = None
       /\ call' = [call EXCEPT ![c].id = r.id, ![c].final = TRUE]
  /\ Goto(c, "narrate")
  /\ UNCHANGED <<database, writer, staged, generators, started, answers>>
-----------------------------------------------------------------------------
(* save.  Called with the bare analysis, and again (final) at the end.     *)

(* Mutation: the writer slot is only taken by the first write.             *)
LockSave_Deferred(c) ==
  /\ pc[c] = "save"
  /\ writer' = c
  /\ Goto(c, "write")
  /\ UNCHANGED <<database, staged, call, generators, started, answers>>

(* BEGIN IMMEDIATE.                                                        *)
LockSave(c) ==
  /\ pc[c] = "save"
  /\ writer = None
  /\ writer' = c
  /\ Goto(c, "write")
  /\ UNCHANGED <<database, staged, call, generators, started, answers>>

(* Mutation: a newer narrative replaces the stored one.                    *)
RowToStore_Overwrites(c) ==
  IF Stored(call[c].key) = {}
  THEN [key |-> call[c].key, id |-> call[c].id, narrative |-> call[c].narrative]
  ELSE LET r == CHOOSE r \in Stored(call[c].key) : TRUE
       IN  [r EXCEPT !.narrative = IF call[c].narrative # None THEN call[c].narrative ELSE @]

(* The row of this identity after the save: the caller's analysis if there *)
(* is none, otherwise the stored run, whose narrative is filled in once.   *)
RowToStore(c) ==
  IF Stored(call[c].key) = {}
  THEN [key |-> call[c].key, id |-> call[c].id, narrative |-> call[c].narrative]
  ELSE LET r == CHOOSE r \in Stored(call[c].key) : TRUE
       IN  [r EXCEPT !.narrative = IF @ = None THEN call[c].narrative ELSE @]

WriteSave(c) ==
  /\ pc[c] = "write"
  /\ staged' = [staged EXCEPT ![c] = RowToStore(c)]
  /\ Goto(c, "commit")
  /\ UNCHANGED <<database, writer, call, generators, started, answers>>

(* The identity constraint of the table rejects the staged row.            *)
Conflicts(c) == \E r \in Stored(staged[c].key) : r.id # staged[c].id

(* Mutation: the caller goes on with the analysis it computed itself.      *)
Returned_Own(c) ==
  [call[c] EXCEPT !.narrative = IF @ = None THEN None ELSE staged[c].narrative]

(* What save returns: the stored run, without narrative if the caller's    *)
(* analysis had none.                                                      *)
Returned(c) ==
  [call[c] EXCEPT !.id = staged[c].id,
                  !.narrative = IF @ = None THEN None ELSE staged[c].narrative]

(* Mutation: the event is left to a transaction of its own.                *)
CommitSave_NoEvent(c) ==
  /\ pc[c] = "commit"
  /\ ~Conflicts(c)
  /\ runs' = (runs \ Stored(staged[c].key)) \union {staged[c]}
  /\ events' = IF call[c].final THEN events \union {staged[c].id} ELSE events
  /\ writer' = IF writer = c THEN None ELSE writer
  /\ staged' = [staged EXCEPT ![c] = None]
  /\ call' = [call EXCEPT ![c] = Returned(c)]
  /\ Goto(c, IF call[c].final THEN "answer" ELSE "observe")
  /\ UNCHANGED <<observed, generators, started, answers>>

(* COMMIT: run, children and event become visible together.                *)
CommitSave(c) ==
  /\ pc[c] = "commit"
  /\ ~Conflicts(c)
  /\ runs' = (runs \ Stored(staged[c].key)) \union {staged[c]}
  /\ events' = events \union {staged[c].id}
  /\ writer' = IF writer = c THEN None ELSE writer
  /\ staged' = [staged EXCEPT ![c] = None]
  /\ call' = [call EXCEPT ![c] = Returned(c)]
  /\ Goto(c, IF call[c].final THEN "answer" ELSE "observe")
  /\ UNCHANGED <<observed, generators, started, answers>>
-----------------------------------------------------------------------------
(* record_analysis_observation, one transaction that raises if the         *)
(* analysis is not stored; then a narrative if asked for, else the final   *)
(* save.                                                                   *)
Observe(c) ==
  /\ pc[c] = "observe"
  /\ writer = None
  /\ \E r \in runs : r.id = call[c].id
  /\ observed' = observed \union {call[c].id}
  /\ call' = [call EXCEPT ![c].final = TRUE]
  /\ Goto(c, IF call[c].narrated THEN "narrate" ELSE "save")
  /\ UNCHANGED <<runs, events, writer, staged, generators, started, answers>>
-----------------------------------------------------------------------------
(* _narrative.                                                             *)

Narrated(c, text) ==
  /\ call' = [call EXCEPT ![c].narrative = text]
  /\ Goto(c, "save")

(* No slot is free: the template.                                          *)
FallBack(c) ==
  /\ pc[c] = "narrate"
  /\ slots = 0
  /\ Narrated(c, Template)
  /\ UNCHANGED <<database, writer, staged, generators, started, answers>>

StartGenerator(c) ==
  /\ pc[c] = "narrate"
  /\ slots > 0
  /\ slots' = slots - 1
  /\ thread' = [thread EXCEPT ![c] = "running"]
  /\ Goto(c, "wait")
  /\ UNCHANGED <<database, writer, staged, call, orphans, started, answers>>

(* The generator thread ends, with a text or an exception, and gives its   *)
(* slot back.                                                              *)
GeneratorEnds(c) ==
  /\ thread[c] = "running"
  /\ \E outcome \in {"done", "raised"} : thread' = [thread EXCEPT ![c] = outcome]
  /\ slots' = slots + 1
  /\ UNCHANGED <<database, writer, staged, local, orphans, started, answers>>

TakeResult(c) ==
  /\ pc[c] = "wait"
  /\ thread[c] \in {"done", "raised"}
  /\ Narrated(c, IF thread[c] = "done" THEN Generated ELSE Template)
  /\ thread' = [thread EXCEPT ![c] = "none"]
  /\ UNCHANGED <<database, writer, staged, orphans, slots, started, answers>>

(* Mutation: the slot is given back by the caller that gives up.           *)
GiveUp_Releases(c) ==
  /\ pc[c] = "wait"
  /\ thread[c] = "running"
  /\ Narrated(c, Template)
  /\ thread' = [thread EXCEPT ![c] = "none"]
  /\ orphans' = orphans + 1
  /\ slots' = slots + 1
  /\ UNCHANGED <<database, writer, staged, started, answers>>

(* Mutation: the wait has no timeout.                                      *)
GiveUp_Never(c) == pc[c] = "none" /\ UNCHANGED vars

(* The wait times out; the thread goes on and keeps its slot.              *)
GiveUp(c) ==
  /\ pc[c] = "wait"
  /\ thread[c] = "running"
  /\ Narrated(c, Template)
  /\ thread' = [thread EXCEPT ![c] = "none"]
  /\ orphans' = orphans + 1
  /\ UNCHANGED <<database, writer, staged, slots, started, answers>>

OrphanEnds ==
  /\ orphans > 0
  /\ orphans' = orphans - 1
  /\ slots' = slots + 1
  /\ UNCHANGED <<database, writer, staged, local, thread, started, answers>>
-----------------------------------------------------------------------------
Answer(c) ==
  /\ pc[c] = "answer"
  /\ answers' = answers \union
       {[key |-> call[c].key, narrated |-> call[c].narrated,
         id |-> call[c].id, narrative |-> call[c].narrative]}
  /\ call' = [call EXCEPT ![c] = NoCall]
  /\ Goto(c, "idle")
  /\ UNCHANGED <<database, writer, staged, generators, started>>

(* A database error, or 30 seconds without the writer slot: the            *)
(* transaction is rolled back and the call raises.                         *)
Fail(c) ==
  /\ pc[c] \in {"lookup", "save", "write", "commit", "observe"}
  /\ writer' = IF writer = c THEN None ELSE writer
  /\ staged' = [staged EXCEPT ![c] = None]
  /\ call' = [call EXCEPT ![c] = NoCall]
  /\ Goto(c, "idle")
  /\ UNCHANGED <<database, generators, started, answers>>

(* The server dies; it is started again with nothing in memory.            *)
Crash ==
  /\ writer' = None
  /\ staged' = [c \in Callers |-> None]
  /\ pc' = [c \in Callers |-> "idle"]
  /\ call' = [c \in Callers |-> NoCall]
  /\ thread' = [c \in Callers |-> "none"]
  /\ orphans' = 0
  /\ slots' = NarrativeSlots
  /\ UNCHANGED <<database, started, answers>>
-----------------------------------------------------------------------------
(* The steps a caller takes by itself.                                     *)
Advance(c) ==
  \/ Compute(c)
  \/ AnswerCached(c)
  \/ NarrateCached(c)
  \/ LockSave(c)
  \/ WriteSave(c)
  \/ CommitSave(c)
  \/ Observe(c)
  \/ FallBack(c)
  \/ StartGenerator(c)
  \/ TakeResult(c)
  \/ GiveUp(c)
  \/ Answer(c)
  \/ Fail(c)

Next ==
  \/ \E c \in Callers : Begin(c) \/ Advance(c) \/ GeneratorEnds(c)
  \/ OrphanEnds
  \/ Crash

Spec == Init /\ [][Next]_vars

(* A caller is never held up for ever: waiting for the writer slot ends in *)
(* an error after busy_timeout, waiting for a narrative in the template    *)
(* after its timeout.  Generators may hang.                                *)
Fairness == \A c \in Callers : WF_vars(Advance(c))

FairSpec == Spec /\ Fairness
-----------------------------------------------------------------------------
Run == [key : Keys, id : Ids, narrative : Narratives \union {None}]

Call == [key : Keys \union {None}, force : BOOLEAN, narrated : BOOLEAN, final : BOOLEAN,
         id : Ids \union {None}, narrative : Narratives \union {None}]

Outcome == [key : Keys, narrated : BOOLEAN, id : Ids, narrative : Narratives \union {None}]

(* Types; the writer slot belongs to the caller inside a save; the         *)
(* generator slots are all accounted for.                                  *)
TypeOK ==
  /\ runs \subseteq Run
  /\ events \subseteq Ids
  /\ observed \subseteq Ids
  /\ writer \in Callers \union {None}
  /\ \A c \in Callers : writer = c <=> pc[c] \in {"write", "commit"}
  /\ staged \in [Callers -> Run \union {None}]
  /\ pc \in [Callers -> {"idle", "lookup", "save", "write", "commit", "observe",
                         "narrate", "wait", "answer"}]
  /\ call \in [Callers -> Call]
  /\ thread \in [Callers -> {"none", "running", "done", "raised"}]
  /\ orphans \in Nat
  /\ slots \in Nat
  /\ started \in 0..MaxCalls
  /\ answers \subseteq Outcome

(* The service implements the ledger: of calls that race on an identity,   *)
(* fail, crash, force a recomputation or differ in what they ask for, all  *)
(* get the same analysis and the same narrative (repositories.py 927-1066).*)
Ledger == INSTANCE AnalysisLedger WITH
  ledger <- [k \in Keys |->
    IF Stored(k) = {} THEN None
    ELSE LET r == CHOOSE r \in Stored(k) : TRUE IN [id |-> r.id, narrative |-> r.narrative]]

LedgerSpec == Ledger!Spec

(* A run and its event are stored together or not at all, whatever fails   *)
(* or crashes (repositories.py 1055-1065).                                 *)
EventPerRun == events = {r.id : r \in runs}

(* No save is rejected by the identity constraint of the table: the check  *)
(* for an existing run and the insert are not interleaved with another     *)
(* caller's (repositories.py 934-966).                                     *)
InsertsNeverConflict == \A c \in Callers : pc[c] = "commit" => ~Conflicts(c)

(* record_analysis_observation never looks for an analysis that another    *)
(* caller's row has taken the place of (service.py 20-22).                 *)
ObservationFindsRun ==
  \A c \in Callers : pc[c] = "observe" => \E r \in runs : r.id = call[c].id

(* At most NarrativeSlots generators run at a time, those that were given  *)
(* up included (analyst.py 200-212).                                       *)
GeneratorsBounded ==
  Cardinality({c \in Callers : thread[c] = "running"}) + orphans <= NarrativeSlots

(* Every call ends, with an answer or an error, even if no generator ever  *)
(* returns (analyst.py 213-215).                                           *)
CallsEnd == \A c \in Callers : pc[c] # "idle" ~> pc[c] = "idle"

(* runbook.md 92: invalidation is evaluated when analyses are created.     *)
(* When no call is running, every analysis that was answered has been      *)
(* recorded as an observation.                                             *)
AnsweredIsObserved ==
  (\A c \in Callers : pc[c] = "idle") => \A a \in answers : a.id \in observed
=============================================================================
