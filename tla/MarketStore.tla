---------------------------- MODULE MarketStore ----------------------------
(***************************************************************************)
(* The point-in-time market store of one instrument, the refresh operation *)
(* that writes it, and the context reads of concurrent analyses.           *)
(*                                                                         *)
(* A curve snapshot is a row [date, rev, hash, at, batch]: at is           *)
(* available_at, hash stands for the points and their input_hash.  A       *)
(* vintage is one immutable series snapshot: the continuous series and the *)
(* mapping timeline replayed from inputs, the curves visible at its cutoff,*)
(* under one recipe (exchange calendar and main-contract policy).          *)
(*                                                                         *)
(* Bars are left out.  They are staged before the curves, in the same      *)
(* batch, with revisions of their own; a first revision with price limits  *)
(* is stamped with its receipt (pipeline.py 194-197), which no curve is.   *)
(***************************************************************************)
EXTENDS Integers, FiniteSets

CONSTANTS
  Dates,        \* trading dates, an interval 1..n
  Published,    \* settlement_available_at: the instant a date's data is out
  Payloads,     \* contents the provider may give for a date
  Recipes,      \* calendars and policies the series may be built with
  Refreshers,   \* processes that may run refresh_and_analyze
  Readers,      \* analyses that build a context
  None,         \* no lock holder, no vintage, no result
  Window,       \* how far before the last visible curve a refresh fetches: ten days
  MaxTime,      \* bound on the clock
  MaxBatches    \* bound on the number of refreshes started

Batches == 1..MaxBatches
Times == 0..MaxTime

ASSUME StoreAssumption ==
  /\ IsFiniteSet(Dates) /\ Dates = 1..Cardinality(Dates)
  /\ Published \in [Dates -> Nat]
  /\ \A d, e \in Dates : d <= e => Published[d] <= Published[e]
  /\ Window \in Nat /\ MaxTime \in Nat /\ MaxBatches \in Nat
  /\ None \notin Refreshers

VARIABLES
  now,        \* the clock
  feed,       \* what the provider would answer for each date
  recipe,     \* the calendar and policy in use
  rows,       \* curve revisions
  committed,  \* batches whose manifest is committed
  started,    \* number of batches created
  vintages,   \* series snapshots
  lock,       \* holder of the refresh lock
  pc,         \* phase of each refresher
  job,        \* its local variables
  result,     \* what the last refresh returned, until the next one starts
  rebuilt,    \* history: no commit since the last complete rebuild
  reader,     \* phase of each reader
  snap,       \* its MVCC snapshot and the curves it loaded from it
  context     \* the context it delivered

store == <<rows, committed, started, vintages>>
refresh == <<lock, pc, job, result, rebuilt>>
reading == <<reader, snap, context>>
world == <<now, feed, recipe>>
vars == <<world, store, refresh, reading>>
-----------------------------------------------------------------------------
(* Reads.  A row counts once its batch is committed and from its instant   *)
(* on; of a date's rows the latest by (available_at, revision) is visible. *)

(* Mutation: rows of pending batches count.                                *)
Readable_Uncommitted(t) == {r \in rows : r.at <= t}

Readable(t) == {r \in rows : r.batch \in committed /\ r.at <= t}

Supersedes(r, q) == r.at > q.at \/ (r.at = q.at /\ r.rev >= q.rev)

Visible(t) ==
  {r \in Readable(t) : \A q \in Readable(t) : q.date = r.date => Supersedes(r, q)}

VisibleVintage(snapshots, t) ==
  LET known == {v \in snapshots : v.at <= t}
  IN  IF known = {} THEN None
      ELSE CHOOSE v \in known : \A w \in known :
             v.at > w.at \/ (v.at = w.at /\ v.created >= w.created)

(* validate_series_inputs: no vintage yet, or one built from these curves. *)
Coherent(vintage, curves) == vintage # None => vintage.inputs = curves

Revisions(d) == {r \in rows : r.date = d}

LatestRevision(d) ==
  CHOOSE r \in Revisions(d) : \A q \in Revisions(d) : r.rev >= q.rev
-----------------------------------------------------------------------------
Idle == [batch |-> 0, since |-> 0, from |-> 0, target |-> 0, fetched |-> <<>>, recipe |-> None,
         next |-> 0, cutoffs |-> {}]

Init ==
  /\ now = 0
  /\ feed \in [Dates -> Payloads]
  /\ recipe \in Recipes
  /\ rows = {}
  /\ committed = {}
  /\ started = 0
  /\ vintages = {}
  /\ lock = None
  /\ pc = [w \in Refreshers |-> "idle"]
  /\ job = [w \in Refreshers |-> Idle]
  /\ result = None
  /\ rebuilt = TRUE
  /\ reader = [a \in Readers |-> "idle"]
  /\ snap = [a \in Readers |-> None]
  /\ context = [a \in Readers |-> None]

Tick ==
  /\ now < MaxTime
  /\ now' = now + 1
  /\ UNCHANGED <<feed, recipe, store, refresh, reading>>

(* The provider corrects a date it has already published.                  *)
Correct(d, p) ==
  /\ Published[d] <= now
  /\ feed[d] # p
  /\ feed' = [feed EXCEPT ![d] = p]
  /\ UNCHANGED <<now, recipe, store, refresh, reading>>

(* The trade calendar is corrected, or the policy configured differently.  *)
ChangeRecipe(c) ==
  /\ recipe # c
  /\ recipe' = c
  /\ UNCHANGED <<now, feed, store, refresh, reading>>
-----------------------------------------------------------------------------
(* Refresh.  One refresh holds the lock from its first provider call to    *)
(* the end of its analysis; a second caller gets REFRESH_IN_PROGRESS.      *)

PublishedDates == {d \in Dates : Published[d] <= now}
IsFirst(d, S) == d \in S /\ \A e \in S : d <= e
IsLast(d, S) == d \in S /\ \A e \in S : e <= d

(* Everything to begin with, later the dates from Window before the last   *)
(* visible curve on.                                                       *)
RefreshedDates == {d \in Dates : \A r \in Visible(now) : d + Window >= r.date}

(* Mutation: the lock is not looked at.                                    *)
StartRefresh_Unlocked(w) ==
  /\ pc[w] = "idle"
  /\ started < MaxBatches
  /\ lock' = w
  /\ started' = started + 1
  /\ \E from \in RefreshedDates, target \in PublishedDates :
       /\ IsFirst(from, RefreshedDates) /\ IsLast(target, PublishedDates)
       /\ job' = [job EXCEPT ![w] =
                    [batch |-> started + 1, since |-> now, from |-> from, target |-> target,
                     fetched |-> feed, recipe |-> recipe, next |-> from, cutoffs |-> {}]]
  /\ pc' = [pc EXCEPT ![w] = "ingest"]
  /\ result' = None
  /\ UNCHANGED <<world, rows, committed, vintages, rebuilt, reading>>

(* Take the lock, fetch the calendar and the bars of the window up to the  *)
(* last published session, create the pending manifest and batch.          *)
StartRefresh(w) ==
  /\ pc[w] = "idle"
  /\ lock = None
  /\ started < MaxBatches
  /\ lock' = w
  /\ started' = started + 1
  /\ \E from \in RefreshedDates, target \in PublishedDates :
       /\ IsFirst(from, RefreshedDates) /\ IsLast(target, PublishedDates)
       /\ job' = [job EXCEPT ![w] =
                    [batch |-> started + 1, since |-> now, from |-> from, target |-> target,
                     fetched |-> feed, recipe |-> recipe, next |-> from, cutoffs |-> {}]]
  /\ pc' = [pc EXCEPT ![w] = "ingest"]
  /\ result' = None
  /\ UNCHANGED <<world, rows, committed, vintages, rebuilt, reading>>

(* Mutation: a row of a failed batch counts as stored.                     *)
Unchanged_AnyBatch(d, hash, batch) ==
  Revisions(d) # {} /\ LatestRevision(d).hash = hash

(* A date's row is skipped when its latest revision has the same content   *)
(* and belongs to this batch or to a committed one.                        *)
Unchanged(d, hash, batch) ==
  /\ Revisions(d) # {}
  /\ LatestRevision(d).hash = hash
  /\ LatestRevision(d).batch \in committed \union {batch}

(* Mutation: a correction keeps the instant of the original.               *)
NewRevision_Backdated(d, hash, batch) ==
  [date |-> d, rev |-> IF Revisions(d) = {} THEN 1 ELSE LatestRevision(d).rev + 1,
   hash |-> hash, at |-> Published[d], batch |-> batch]

(* Mutation: the rows of failed batches are not looked at.                 *)
NewRevision_Committed(d, hash, batch) ==
  LET seen == {r \in Revisions(d) : r.batch \in committed}
  IN  [date |-> d, rev |-> Cardinality(seen) + 1, hash |-> hash,
       at |-> IF seen = {} THEN Published[d] ELSE now, batch |-> batch]

(* The first revision is stamped with the date's publication, every later  *)
(* one with the clock.                                                     *)
NewRevision(d, hash, batch) ==
  IF Revisions(d) = {}
  THEN [date |-> d, rev |-> 1, hash |-> hash, at |-> Published[d], batch |-> batch]
  ELSE [date |-> d, rev |-> LatestRevision(d).rev + 1, hash |-> hash, at |-> now, batch |-> batch]

IngestCurve(w) ==
  LET d == job[w].next
      hash == job[w].fetched[d]
  IN  /\ pc[w] = "ingest"
      /\ d <= job[w].target
      /\ rows' = IF Unchanged(d, hash, job[w].batch) THEN rows
                 ELSE rows \union {NewRevision(d, hash, job[w].batch)}
      /\ job' = [job EXCEPT ![w].next = d + 1]
      /\ UNCHANGED <<world, committed, started, vintages, lock, pc, result, rebuilt, reading>>

(* Everything staged and complete: the batch becomes visible, and the      *)
(* rebuild has one cutoff per instant at which the visible curves change.  *)
Commit(w) ==
  /\ pc[w] = "ingest"
  /\ job[w].next > job[w].target
  /\ committed' = committed \union {job[w].batch}
  /\ rebuilt' = FALSE
  /\ job' = [job EXCEPT ![w].cutoffs =
               {r.at : r \in {q \in rows : q.batch \in committed' /\ q.at <= now}}]
  /\ pc' = [pc EXCEPT ![w] = "build"]
  /\ UNCHANGED <<world, rows, started, vintages, lock, result, reading>>

(* Mutation: every vintage counts as known from the beginning.             *)
Vintage_Early(t, c, inputs, created) ==
  [at |-> 0, recipe |-> c, inputs |-> inputs, created |-> created]

Vintage(t, c, inputs, created) ==
  [at |-> t, recipe |-> c, inputs |-> inputs, created |-> created]

(* The identity of a snapshot is the hash of its payload, which holds the  *)
(* inputs and the recipe: saving an existing one changes nothing, and      *)
(* raises if it was stored for another instant.                            *)
Saved(c, inputs) == {v \in vintages : v.recipe = c /\ v.inputs = inputs}

(* Mutation: cutoffs of the past are taken as already built.               *)
BuildVintage_LastOnly(w, t) ==
  /\ pc[w] = "build"
  /\ t \in job[w].cutoffs
  /\ \A u \in job[w].cutoffs : t >= u
  /\ vintages' = IF Saved(job[w].recipe, Visible(t)) # {} THEN vintages
                 ELSE vintages \union {Vintage(t, job[w].recipe, Visible(t), Cardinality(vintages) + 1)}
  /\ job' = [job EXCEPT ![w].cutoffs = {}]
  /\ UNCHANGED <<world, rows, committed, started, lock, pc, result, rebuilt, reading>>

BuildVintage(w, t) ==
  /\ pc[w] = "build"
  /\ t \in job[w].cutoffs
  /\ \A u \in job[w].cutoffs : t <= u
  /\ \A v \in Saved(job[w].recipe, Visible(t)) : v.at = t
  /\ vintages' = IF Saved(job[w].recipe, Visible(t)) # {} THEN vintages
                 ELSE vintages \union {Vintage(t, job[w].recipe, Visible(t), Cardinality(vintages) + 1)}
  /\ job' = [job EXCEPT ![w].cutoffs = @ \ {t}]
  /\ UNCHANGED <<world, rows, committed, started, lock, pc, result, rebuilt, reading>>

(* The rebuild is complete and the target visible, or the refresh would    *)
(* fail: analyse as of the clock and return.                               *)
FinishRefresh(w) ==
  /\ pc[w] = "build"
  /\ job[w].cutoffs = {}
  /\ IsLast(job[w].target, {r.date : r \in Visible(now)})
  /\ Coherent(VisibleVintage(vintages, now), Visible(now))
  /\ result' = [from |-> job[w].from, target |-> job[w].target,
                fetched |-> job[w].fetched, recipe |-> job[w].recipe,
                curves |-> Visible(now), series |-> VisibleVintage(vintages, now)]
  /\ rebuilt' = TRUE
  /\ lock' = None
  /\ pc' = [pc EXCEPT ![w] = "idle"]
  /\ job' = [job EXCEPT ![w] = Idle]
  /\ UNCHANGED <<world, store, reading>>

(* Any failure of the source, of a completeness check or of a write, and a *)
(* crash of the process: the lock is released and what was written stays.  *)
Abort(w) ==
  /\ pc[w] # "idle"
  /\ lock' = None
  /\ pc' = [pc EXCEPT ![w] = "idle"]
  /\ job' = [job EXCEPT ![w] = Idle]
  /\ UNCHANGED <<world, store, result, rebuilt, reading>>
-----------------------------------------------------------------------------
(* Context reads.  All reads of a context come from one read transaction.  *)

(* Open the snapshot, load the visible curves and validate the series.     *)
ReadCurves(a, t) ==
  LET curves == Visible(t)
  IN  /\ reader[a] = "idle"
      /\ t <= now
      /\ Coherent(VisibleVintage(vintages, t), curves)
      /\ reader' = [reader EXCEPT ![a] = "series"]
      /\ snap' = [snap EXCEPT ![a] = [asOf |-> t, curves |-> curves, vintages |-> vintages]]
      /\ context' = [context EXCEPT ![a] = None]
      /\ UNCHANGED <<world, store, refresh>>

(* Mutation: the series is read outside the snapshot.                      *)
ReadSeries_Live(a) ==
  /\ reader[a] = "series"
  /\ context' = [context EXCEPT ![a] =
       [asOf |-> snap[a].asOf, curves |-> snap[a].curves,
        series |-> VisibleVintage(vintages, snap[a].asOf)]]
  /\ reader' = [reader EXCEPT ![a] = "idle"]
  /\ snap' = [snap EXCEPT ![a] = None]
  /\ UNCHANGED <<world, store, refresh>>

(* Load mapping, continuous bars and last roll from the same snapshot.     *)
ReadSeries(a) ==
  /\ reader[a] = "series"
  /\ context' = [context EXCEPT ![a] =
       [asOf |-> snap[a].asOf, curves |-> snap[a].curves,
        series |-> VisibleVintage(snap[a].vintages, snap[a].asOf)]]
  /\ reader' = [reader EXCEPT ![a] = "idle"]
  /\ snap' = [snap EXCEPT ![a] = None]
  /\ UNCHANGED <<world, store, refresh>>
-----------------------------------------------------------------------------
Next ==
  \/ Tick
  \/ \E d \in Dates, p \in Payloads : Correct(d, p)
  \/ \E c \in Recipes : ChangeRecipe(c)
  \/ \E w \in Refreshers :
       \/ StartRefresh(w)
       \/ IngestCurve(w)
       \/ Commit(w)
       \/ \E t \in Times : BuildVintage(w, t)
       \/ FinishRefresh(w)
       \/ Abort(w)
  \/ \E a \in Readers :
       \/ \E t \in Times : ReadCurves(a, t)
       \/ ReadSeries(a)

Spec == Init /\ [][Next]_vars
-----------------------------------------------------------------------------
Row == [date : Dates, rev : Nat, hash : Payloads, at : Nat, batch : Batches]

SeriesSnapshot == [at : Nat, recipe : Recipes, inputs : SUBSET Row, created : Nat]

(* No vintage is told from every vintage.                                  *)
ASSUME VintageAssumption == None \notin SeriesSnapshot

Job == [batch : 0..MaxBatches, since : Nat, from : Dates \union {0}, target : Dates \union {0},
        fetched : [Dates -> Payloads] \union {<<>>}, recipe : Recipes \union {None},
        next : Nat, cutoffs : SUBSET Nat]

(* The store, the refreshers and the lock have their types, and a refresh  *)
(* runs only while it holds the lock, so that two never overlap            *)
(* (refresh.py 37-77).                                                     *)
TypeOK ==
  /\ now \in Times
  /\ feed \in [Dates -> Payloads]
  /\ recipe \in Recipes
  /\ rows \subseteq Row
  /\ committed \subseteq Batches
  /\ started \in 0..MaxBatches
  /\ vintages \subseteq SeriesSnapshot
  /\ lock \in Refreshers \union {None}
  /\ pc \in [Refreshers -> {"idle", "ingest", "build"}]
  /\ \A w \in Refreshers : pc[w] # "idle" <=> lock = w
  /\ job \in [Refreshers -> Job]
  /\ rebuilt \in BOOLEAN
  /\ reader \in [Readers -> {"idle", "series"}]

(* A context never joins curves of one information set to a continuous     *)
(* series of another, whatever commits and rebuilds run between its reads  *)
(* (context_builder.py 37-44, repositories.py 464-475).                    *)
ContextCoherent ==
  \A a \in Readers : context[a] # None => Coherent(context[a].series, context[a].curves)

(* Revisions of a date are numbered 1, 2, ... and never go back in time,   *)
(* so that the row readers pick is the highest committed revision.         *)
RevisionsOrdered ==
  \A r \in rows :
    /\ r.rev \in 1..Cardinality(Revisions(r.date))
    /\ r.at <= now
    /\ \A q \in Revisions(r.date) : q.rev <= r.rev => q.at <= r.at
    /\ \A q \in Revisions(r.date) : q.rev = r.rev => q = r

(* A vintage is built from committed rows only, none of them newer than    *)
(* the instant from which the vintage itself is visible, one per date; and *)
(* that instant is the newest of them, so that no two vintages of the same *)
(* payload can claim different instants (the immutability error).          *)
VintageCausal ==
  \A v \in vintages :
    /\ \A r \in v.inputs : r \in rows /\ r.batch \in committed /\ r.at <= v.at
    /\ \E r \in v.inputs : r.at = v.at
    /\ \A r, q \in v.inputs : r.date = q.date => r = q

(* Once a rebuild has ended, and until the next commit, a context can be   *)
(* read as of every instant of the past: an information set that has any   *)
(* curve has a vintage, and the vintage readers find is made from exactly  *)
(* its curves (mapping_pipeline.py 104-168, repositories.py 452-475).      *)
RebuildComplete ==
  rebuilt => \A t \in 0..now :
    LET vintage == VisibleVintage(vintages, t)
    IN  IF Visible(t) = {} THEN vintage = None
        ELSE vintage # None /\ vintage.inputs = Visible(t)

(* A successful refresh returns exactly the data it fetched for the dates  *)
(* of its window, with a series built from it: not what a failed attempt   *)
(* left behind, nor what another refresh fetched earlier (DESIGN.md 122,   *)
(* runbook.md 99).                                                         *)
RefreshReturnsFetched ==
  result # None =>
    /\ \A d \in Dates : result.from <= d /\ d <= result.target =>
         \E r \in result.curves : r.date = d /\ r.hash = result.fetched[d]
    /\ \A r \in result.curves : r.date <= result.target
    /\ result.series # None /\ result.series.inputs = result.curves

(* Unless a refresh that started at or before t is still to commit, no row *)
(* that is visible as of t is taken away or replaced: a correction is not  *)
(* seen as of instants before it was fetched.  What may still be added is  *)
(* the first revision of a date that had none, which is stamped with the   *)
(* publication of the date however late it arrives.                        *)
HistoryKept ==
  [][\A t \in 0..now :
       (\A w \in Refreshers : pc[w] = "ingest" => t < job[w].since)
         => /\ Visible(t) \subseteq Visible(t)'
            /\ \A r \in Visible(t)' \ Visible(t) : r.rev = 1 /\ r.at = Published[r.date]]_vars

(* runbook.md 99: a refresh rebuilds the series and returns an analysis of *)
(* it; it reports a failure rather than a stale success.                   *)
SeriesIsCurrent == result # None => result.series.recipe = result.recipe
=============================================================================
