------------------------- MODULE MarketStoreProofs -------------------------
(***************************************************************************)
(* The history of the store, for every set of dates, contents, recipes,    *)
(* refreshers and readers: revisions are in order, a vintage looks only at *)
(* its past, and a commit takes no row from an information set that had    *)
(* closed when its data were fetched.                                      *)
(***************************************************************************)
EXTENDS MarketStore, FiniteSetTheorems, WellFoundedInduction, TLAPS

(* Rows and vintages are finitely many, and the highest revision of a date *)
(* is the number of its revisions.                                         *)
Counted ==
  /\ IsFiniteSet(rows)
  /\ IsFiniteSet(vintages)
  /\ \A d \in Dates : Revisions(d) # {} =>
       \E r \in Revisions(d) : r.rev = Cardinality(Revisions(d))

(* What a running refresh holds: published dates, in order, fetched before *)
(* now, under the youngest batch.                                          *)
Working(w) ==
  /\ job[w].batch \in 1..started
  /\ job[w].since <= now
  /\ job[w].from \in Dates
  /\ job[w].target \in Dates
  /\ Published[job[w].target] <= now
  /\ job[w].fetched \in [Dates -> Payloads]
  /\ job[w].recipe \in Recipes
  /\ job[w].next \in Nat \ {0}

(* A first revision, which is as old as the publication of its date.       *)
Original(r) == r.rev = 1 /\ r.at = Published[r.date]

(* What it has staged is not committed yet, and a correction among it is   *)
(* younger than the refresh.                                               *)
Staging(w) ==
  /\ job[w].batch = started
  /\ job[w].batch \notin committed
  /\ \A r \in rows : r.batch = job[w].batch => Original(r) \/ r.at >= job[w].since

(* Its cutoffs are instants of committed rows.                             *)
Building(w) ==
  \A t \in job[w].cutoffs : \E r \in rows : r.batch \in committed /\ r.at = t

Jobs ==
  \A w \in Refreshers : /\ pc[w] # "idle" => Working(w)
                        /\ pc[w] = "ingest" => Staging(w)
                        /\ pc[w] = "build" => Building(w)

(* Batches are numbered as they are started.                               *)
Numbered ==
  /\ committed \subseteq 1..started
  /\ \A r \in rows : r.batch <= started

Inv == TypeOK /\ Counted /\ Jobs /\ Numbered /\ RevisionsOrdered /\ VintageCausal
-----------------------------------------------------------------------------
(* A bounded set of naturals that is not empty has a greatest element.     *)
LEMMA Greatest ==
  ASSUME NEW S \in SUBSET Nat, S # {}, NEW b \in Nat, \A s \in S : s <= b
  PROVE  \E m \in S : \A s \in S : s <= m
<1> DEFINE T == {s..b : s \in S}
           R == StrictSubsetOrdering(0..b)
<1>1. T \subseteq FiniteSubsetsOf(0..b) /\ T # {}
  <2>1. IsFiniteSet(0..b)
    BY FS_Interval
  <2>2. ASSUME NEW s \in S PROVE s..b \in FiniteSubsetsOf(0..b)
    <3>1. s..b \in SUBSET (0..b)
      OBVIOUS
    <3>2. QED
      BY <3>1, <2>1, FS_Subset DEF FiniteSubsetsOf
  <2>3. QED
    BY <2>2
<1>2. IsWellFoundedOn(R, FiniteSubsetsOf(0..b))
  BY FS_StrictSubsetOrderingWellFounded
<1>3. PICK x \in T : \A y \in T : <<y, x>> \notin R
  <2> HIDE DEF T, R
  <2>1. QED
    BY <1>1, <1>2, WFMin
<1>4. PICK m \in S : x = m..b
  OBVIOUS
<1>5. \A s \in S : s <= m
  <2> SUFFICES ASSUME NEW s \in S, s > m PROVE FALSE
    OBVIOUS
  <2>1. /\ s..b \in SUBSET (0..b) /\ m..b \in SUBSET (0..b)
        /\ s..b \subseteq m..b
        /\ m \in m..b /\ m \notin s..b
    OBVIOUS
  <2>2. <<s..b, m..b>> \in R
    BY <2>1 DEF StrictSubsetOrdering
  <2>3. QED
    BY <2>2, <1>3, <1>4
<1>6. QED
  BY <1>5

(* The latest revision of a date is its last one in number and in time.    *)
LEMMA LatestIsLast ==
  ASSUME TypeOK, Counted, RevisionsOrdered, NEW d \in Dates, Revisions(d) # {}
  PROVE  /\ LatestRevision(d) \in Revisions(d)
         /\ LatestRevision(d).rev = Cardinality(Revisions(d))
         /\ \A q \in Revisions(d) : q.rev <= LatestRevision(d).rev /\ q.at <= LatestRevision(d).at
<1>0. /\ \A r \in Revisions(d) : r \in rows /\ r \in Row /\ r.date = d
      /\ Cardinality(Revisions(d)) \in Nat
  <2>1. IsFiniteSet(Revisions(d))
    BY FS_Subset DEF Counted, Revisions
  <2>2. QED
    BY <2>1, FS_CardinalityType DEF TypeOK, Revisions
<1>1. \A q \in Revisions(d) : q.rev \in 1..Cardinality(Revisions(d))
  BY <1>0 DEF RevisionsOrdered
<1>2. PICK r \in Revisions(d) : r.rev = Cardinality(Revisions(d))
  BY DEF Counted
<1>3. \A q \in Revisions(d) : r.rev >= q.rev
  BY <1>0, <1>1, <1>2
<1>4. /\ LatestRevision(d) \in Revisions(d)
      /\ \A q \in Revisions(d) : LatestRevision(d).rev >= q.rev
  BY <1>3 DEF LatestRevision
<1>5. LatestRevision(d).rev = Cardinality(Revisions(d))
  BY <1>0, <1>1, <1>2, <1>4
<1>6. \A q \in Revisions(d) : q.rev <= LatestRevision(d).rev /\ q.at <= LatestRevision(d).at
  BY <1>0, <1>1, <1>4 DEF RevisionsOrdered
<1>7. QED
  BY <1>4, <1>5, <1>6

(* At an instant at most one row of a date is visible.                     *)
LEMMA VisibleUnique ==
  ASSUME TypeOK, RevisionsOrdered, NEW t, NEW r \in Visible(t), NEW q \in Visible(t),
         r.date = q.date
  PROVE  r = q
<1>1. r \in rows /\ q \in rows /\ r \in Row /\ q \in Row
  BY DEF Visible, Readable, TypeOK
<1>2. Supersedes(r, q) /\ Supersedes(q, r)
  BY DEF Visible
<1>3. r.rev = q.rev
  BY <1>1, <1>2 DEF Supersedes, Row
<1>4. QED
  BY <1>1, <1>3 DEF RevisionsOrdered, Revisions

(* A row readable at its own instant: some row of that instant is visible. *)
LEMMA VisibleAtCutoff ==
  ASSUME TypeOK, Counted, RevisionsOrdered, NEW r \in rows, r.batch \in committed
  PROVE  \E q \in Visible(r.at) : q.at = r.at
<1> DEFINE S == {q \in Readable(r.at) : q.date = r.date /\ q.at = r.at}
           N == {q.rev : q \in S}
<1>0. r \in Row /\ r.date \in Dates /\ r.at \in Nat /\ \A q \in rows : q \in Row
  BY DEF TypeOK, Row
<1>1. S \subseteq Revisions(r.date) /\ r \in S
  BY <1>0 DEF Readable, Revisions
<1>2. \A q \in S : q.rev \in Nat /\ q.rev <= LatestRevision(r.date).rev
  BY <1>0, <1>1, LatestIsLast DEF Revisions, Row
<1>3. LatestRevision(r.date).rev \in Nat
  BY <1>0, <1>1, LatestIsLast DEF Revisions, Row
<1>4. PICK m \in N : \A n \in N : n <= m
  <2>1. N \in SUBSET Nat /\ N # {} /\ \A n \in N : n <= LatestRevision(r.date).rev
    BY <1>1, <1>2
  <2>2. QED
    BY <2>1, <1>3, Greatest
<1>5. PICK q \in S : q.rev = m
  OBVIOUS
<1>6. \A p \in Readable(r.at) : p.date = q.date => Supersedes(q, p)
  <2> TAKE p \in Readable(r.at)
  <2> HAVE p.date = q.date
  <2>1. p \in Row /\ p.at <= r.at /\ q \in Row
    BY <1>0 DEF Readable
  <2>2. CASE p.at = r.at
    BY <2>1, <2>2, <1>2, <1>4, <1>5 DEF Supersedes, Row
  <2>3. CASE p.at # r.at
    BY <2>1, <2>3, <1>0 DEF Supersedes, Row
  <2>4. QED
    BY <2>2, <2>3
<1>7. QED
  BY <1>6 DEF Visible

(* A new revision is numbered after the others of its date and not earlier *)
(* than any of them, and it is a first one or stamped with the clock.      *)
LEMMA NewRevisionIsLast ==
  ASSUME TypeOK, Counted, RevisionsOrdered,
         NEW d \in Dates, NEW hash \in Payloads, NEW batch \in Batches, Published[d] <= now
  PROVE  LET new == NewRevision(d, hash, batch)
         IN  /\ new \in Row /\ new.date = d /\ new.hash = hash /\ new.batch = batch
             /\ new.rev = Cardinality(Revisions(d)) + 1
             /\ new.at <= now
             /\ Original(new) \/ new.at = now
             /\ \A q \in Revisions(d) : q.rev < new.rev /\ q.at <= new.at
<1>0. /\ \A q \in Revisions(d) : q \in rows /\ q \in Row /\ q.date = d /\ q.at <= now
      /\ now \in Nat /\ Published[d] \in Nat
  <2>1. \A q \in Revisions(d) : q \in rows /\ q \in Row /\ q.date = d /\ q.at <= now
    BY DEF TypeOK, Revisions, RevisionsOrdered
  <2>2. now \in Nat /\ Published[d] \in Nat
    BY StoreAssumption DEF TypeOK, Times
  <2>3. QED
    BY <2>1, <2>2
<1>1. CASE Revisions(d) = {}
  BY <1>0, <1>1, FS_EmptySet DEF NewRevision, Row, Original
<1>2. CASE Revisions(d) # {}
  <2>1. /\ LatestRevision(d) \in Row
        /\ LatestRevision(d).rev = Cardinality(Revisions(d))
        /\ \A q \in Revisions(d) : q.rev <= LatestRevision(d).rev
    BY <1>0, <1>2, LatestIsLast
  <2>2. NewRevision(d, hash, batch) =
          [date |-> d, rev |-> LatestRevision(d).rev + 1, hash |-> hash, at |-> now, batch |-> batch]
    BY <1>2 DEF NewRevision
  <2>3. LatestRevision(d).rev \in Nat /\ \A q \in Revisions(d) : q.rev \in Nat
    BY <1>0, <2>1 DEF Row
  <2>4. QED
    BY <1>0, <2>1, <2>2, <2>3 DEF Row
<1>3. QED
  BY <1>1, <1>2

(* Adding it keeps the revisions of every date counted and in order.       *)
LEMMA AddRevision ==
  ASSUME TypeOK, Counted, RevisionsOrdered,
         NEW d \in Dates, NEW hash \in Payloads, NEW batch \in Batches, Published[d] <= now,
         rows' = rows \union {NewRevision(d, hash, batch)}, UNCHANGED <<now, vintages>>
  PROVE  Counted' /\ RevisionsOrdered' /\ rows' \subseteq Row
<1> DEFINE new == NewRevision(d, hash, batch)
<1>1. /\ new \in Row /\ new.date = d
      /\ new.rev = Cardinality(Revisions(d)) + 1
      /\ new.at <= now
      /\ \A q \in Revisions(d) : q.rev < new.rev /\ q.at <= new.at
  BY NewRevisionIsLast
<1>2. rows' = rows \union {new}
  OBVIOUS
<1> HIDE DEF new
<1>3. /\ Revisions(d)' = Revisions(d) \union {new}
      /\ \A e \in Dates : e # d => Revisions(e)' = Revisions(e)
  BY <1>1, <1>2 DEF Revisions
<1>4. /\ IsFiniteSet(Revisions(d)) /\ Cardinality(Revisions(d)) \in Nat
      /\ \A e \in Dates : Cardinality(Revisions(e)) \in Nat
  BY FS_Subset, FS_CardinalityType DEF Counted, Revisions
<1>5. \A q \in Revisions(d) : q \in rows /\ q \in Row /\ q.rev \in Nat /\ q.at \in Nat
  BY DEF Revisions, TypeOK, Row
<1>6. new \notin Revisions(d)
  BY <1>1, <1>5
<1>7. Cardinality(Revisions(d)') = Cardinality(Revisions(d)) + 1
  BY <1>3, <1>4, <1>6, FS_AddElement
<1>8. IsFiniteSet(rows') /\ IsFiniteSet(vintages')
  BY <1>2, FS_AddElement DEF Counted
<1>9. Counted'
  <2>1. ASSUME NEW e \in Dates, Revisions(e)' # {}
        PROVE  \E r \in Revisions(e)' : r.rev = Cardinality(Revisions(e)')
    <3>1. CASE e = d
      BY <3>1, <1>1, <1>3, <1>7
    <3>2. CASE e # d
      BY <3>2, <2>1, <1>3 DEF Counted
    <3>3. QED
      BY <3>1, <3>2
  <2>2. QED
    BY <1>8, <2>1 DEF Counted
<1>10. RevisionsOrdered'
  <2>1. ASSUME NEW r \in rows, r.date # d
        PROVE  /\ r.rev \in 1..Cardinality(Revisions(r.date)')
               /\ r.at <= now
               /\ \A q \in Revisions(r.date)' : q.rev <= r.rev => q.at <= r.at
               /\ \A q \in Revisions(r.date)' : q.rev = r.rev => q = r
    <3>1. r.date \in Dates
      BY DEF TypeOK, Row
    <3>2. Revisions(r.date)' = Revisions(r.date)
      BY <3>1, <2>1, <1>3
    <3>3. QED
      BY <3>2 DEF RevisionsOrdered
  <2>2. ASSUME NEW r \in Revisions(d)
        PROVE  /\ r.rev \in 1..(Cardinality(Revisions(d)) + 1)
               /\ r.at <= now
               /\ \A q \in Revisions(d)' : q.rev <= r.rev => q.at <= r.at
               /\ \A q \in Revisions(d)' : q.rev = r.rev => q = r
    <3>1. /\ r \in rows /\ r.date = d
          /\ r.rev \in 1..Cardinality(Revisions(d)) /\ r.at <= now
          /\ \A q \in Revisions(d) : /\ q.rev <= r.rev => q.at <= r.at
                                     /\ q.rev = r.rev => q = r
      BY DEF RevisionsOrdered, Revisions
    <3>2. ~ (new.rev <= r.rev)
      BY <3>1, <1>1, <1>4
    <3>3. new.rev # r.rev
      BY <3>1, <1>1, <1>4
    <3>4. QED
      BY <3>1, <3>2, <3>3, <1>3, <1>4
  <2>3. /\ new.rev \in 1..(Cardinality(Revisions(d)) + 1)
        /\ \A q \in Revisions(d)' : q.rev <= new.rev => q.at <= new.at
        /\ \A q \in Revisions(d)' : q.rev = new.rev => q = new
    BY <1>1, <1>3, <1>4, <1>5 DEF Row
  <2>4. ASSUME NEW r \in rows'
        PROVE  /\ r.rev \in 1..Cardinality(Revisions(r.date)')
               /\ r.at <= now'
               /\ \A q \in Revisions(r.date)' : q.rev <= r.rev => q.at <= r.at
               /\ \A q \in Revisions(r.date)' : q.rev = r.rev => q = r
    <3>1. CASE r = new
      BY <3>1, <2>3, <1>1, <1>7
    <3>2. CASE r \in rows /\ r.date # d
      BY <3>2, <2>1
    <3>3. CASE r \in rows /\ r.date = d
      <4>1. r \in Revisions(d)
        BY <3>3 DEF Revisions
      <4>2. QED
        BY <4>1, <3>3, <2>2, <1>7
    <3>4. QED
      BY <1>2, <3>1, <3>2, <3>3
  <2>5. QED
    BY <2>4 DEF RevisionsOrdered, Revisions
<1>11. QED
  BY <1>1, <1>2, <1>9, <1>10 DEF TypeOK
-----------------------------------------------------------------------------
LEMMA InvInit == Init => Inv
<1> SUFFICES ASSUME Init PROVE Inv
  OBVIOUS
<1>1. TypeOK
  <2>1. Idle \in Job
    BY StoreAssumption DEF Idle, Job
  <2>2. now \in Times /\ started \in 0..MaxBatches
    BY StoreAssumption DEF Init, Times
  <2>3. QED
    BY <2>1, <2>2, StoreAssumption DEF Init, TypeOK
<1>2. Counted
  BY FS_EmptySet DEF Init, Counted, Revisions
<1>3. Jobs
  BY DEF Init, Jobs
<1>4. Numbered /\ RevisionsOrdered /\ VintageCausal
  BY DEF Init, Numbered, RevisionsOrdered, VintageCausal
<1>5. QED
  BY <1>1, <1>2, <1>3, <1>4 DEF Inv

(* What a vintage was built from stays.                                    *)
LEMMA VintagesKept ==
  ASSUME VintageCausal, rows \subseteq rows', committed \subseteq committed', vintages' = vintages
  PROVE  VintageCausal'
BY DEF VintageCausal

(* Steps that leave the store and the refreshers alone.                    *)
LEMMA OutsideSteps ==
  ASSUME Inv, UNCHANGED <<store, refresh>>,
         now' \in Times, now' >= now, recipe' \in Recipes, feed' \in [Dates -> Payloads],
         reader' \in [Readers -> {"idle", "series"}]
  PROVE  Inv'
<1> USE DEF Inv, store, refresh
<1>0. /\ now \in Nat /\ now' \in Nat
      /\ Published \in [Dates -> Nat]
      /\ \A w \in Refreshers : job[w] \in Job
      /\ \A r \in rows : r.at \in Nat
  BY StoreAssumption DEF TypeOK, Times, Row
<1>1. TypeOK'
  BY DEF TypeOK
<1>2. Counted'
  BY DEF Counted, Revisions
<1>3. Jobs'
  <2> SUFFICES ASSUME NEW w \in Refreshers
               PROVE  /\ pc[w] # "idle" => Working(w)'
                      /\ pc[w] = "ingest" => Staging(w)'
                      /\ pc[w] = "build" => Building(w)'
    BY DEF Jobs
  <2>1. pc[w] # "idle" => Working(w)'
    BY <1>0 DEF Jobs, Working, Job
  <2>2. QED
    BY <2>1 DEF Jobs, Staging, Building
<1>4. Numbered'
  BY DEF Numbered
<1>5. RevisionsOrdered'
  <2>1. \A r \in rows : r.at <= now'
    BY <1>0 DEF RevisionsOrdered
  <2>2. QED
    BY <2>1 DEF RevisionsOrdered, Revisions
<1>6. VintageCausal'
  BY VintagesKept
<1>7. QED
  BY <1>1, <1>2, <1>3, <1>4, <1>5, <1>6

(* A refresh that starts has a batch of its own, and no other is running.  *)
LEMMA StartStep ==
  ASSUME Inv, NEW w \in Refreshers, StartRefresh(w)
  PROVE  Inv'
<1> USE DEF Inv
<1>1. PICK from \in RefreshedDates, target \in PublishedDates :
        job' = [job EXCEPT ![w] =
                 [batch |-> started + 1, since |-> now, from |-> from, target |-> target,
                  fetched |-> feed, recipe |-> recipe, next |-> from, cutoffs |-> {}]]
  BY DEF StartRefresh
<1>2. /\ \A v \in Refreshers : pc[v] = "idle"
      /\ lock' = w /\ started' = started + 1 /\ pc' = [pc EXCEPT ![w] = "ingest"]
      /\ started < MaxBatches
      /\ UNCHANGED <<now, feed, recipe, rows, committed, vintages, rebuilt, reader>>
  BY StoreAssumption DEF StartRefresh, TypeOK, world, reading
<1>3. /\ now \in Nat /\ started \in Nat /\ MaxBatches \in Nat
      /\ target \in Dates /\ Published[target] <= now
      /\ from \in Dates /\ from \in Nat \ {0}
  <2>1. from \in Dates /\ \A d \in Dates : d \in Nat \ {0}
    BY StoreAssumption, FS_CardinalityType DEF RefreshedDates
  <2>2. QED
    BY <2>1, StoreAssumption DEF TypeOK, Times, PublishedDates
<1>4. TypeOK'
  <2>1. job'[w] \in Job /\ started' \in 0..MaxBatches
    BY <1>1, <1>2, <1>3 DEF Job, TypeOK
  <2>2. job' \in [Refreshers -> Job]
    BY <1>1, <2>1 DEF TypeOK
  <2>3. pc' \in [Refreshers -> {"idle", "ingest", "build"}]
    BY <1>2 DEF TypeOK
  <2>4. \A v \in Refreshers : pc'[v] # "idle" <=> lock' = v
    BY <1>2 DEF TypeOK
  <2>5. QED
    BY <1>2, <2>1, <2>2, <2>3, <2>4 DEF TypeOK
<1>5. Jobs'
  <2>1. job'[w] = [batch |-> started + 1, since |-> now, from |-> from, target |-> target,
                   fetched |-> feed, recipe |-> recipe, next |-> from, cutoffs |-> {}]
    BY <1>1 DEF TypeOK
  <2>2. Working(w)'
    BY <2>1, <1>2, <1>3 DEF Working, TypeOK
  <2>3. Staging(w)'
    <3>1. \A r \in rows : r.batch # started + 1
      BY <1>3 DEF Numbered, TypeOK, Row, Batches
    <3>2. started + 1 \notin committed
      BY <1>3 DEF Numbered
    <3>3. QED
      BY <2>1, <3>1, <3>2, <1>2 DEF Staging
  <2>4. \A v \in Refreshers : v # w => pc'[v] = "idle"
    BY <1>2 DEF TypeOK
  <2>5. pc'[w] = "ingest"
    BY <1>2 DEF TypeOK
  <2>6. QED
    BY <2>2, <2>3, <2>4, <2>5 DEF Jobs
<1>6. Counted' /\ RevisionsOrdered'
  BY <1>2 DEF Counted, RevisionsOrdered, Revisions
<1>7. Numbered'
  BY <1>2, <1>3 DEF Numbered, TypeOK, Row, Batches
<1>8. VintageCausal'
  BY <1>2, VintagesKept
<1>9. QED
  BY <1>4, <1>5, <1>6, <1>7, <1>8

(* While a refresh runs it is the only one.                                *)
LEMMA Alone ==
  ASSUME TypeOK, NEW w \in Refreshers, pc[w] # "idle", NEW v \in Refreshers, v # w
  PROVE  pc[v] = "idle"
BY DEF TypeOK

(* A refresh stages a date it has not come to yet; the first revision of   *)
(* the date or one as young as the clock.                                  *)
LEMMA IngestStep ==
  ASSUME Inv, NEW w \in Refreshers, IngestCurve(w)
  PROVE  Inv'
<1> USE DEF Inv
<1> DEFINE d == job[w].next
           hash == job[w].fetched[d]
           batch == job[w].batch
           new == NewRevision(d, hash, batch)
<1>1. /\ pc[w] = "ingest" /\ d <= job[w].target
      /\ job' = [job EXCEPT ![w].next = d + 1]
      /\ UNCHANGED <<now, feed, recipe, committed, started, vintages, lock, pc, rebuilt, reader>>
  BY DEF IngestCurve, world, reading
<1>2. /\ Working(w) /\ Staging(w) /\ job[w] \in Job
  BY <1>1 DEF Jobs, TypeOK
<1>3. /\ d \in Dates /\ hash \in Payloads /\ batch \in Batches /\ d \in Nat
      /\ now \in Nat /\ job[w].since \in Nat /\ started \in Nat
  <2>1. d \in Dates
    BY <1>1, <1>2, StoreAssumption, FS_CardinalityType DEF Working
  <2>2. hash \in Payloads
    BY <2>1, <1>2 DEF Working
  <2>3. batch \in Batches /\ d \in Nat /\ job[w].since \in Nat /\ now \in Nat /\ started \in Nat
    BY <1>2, StoreAssumption DEF Working, Job, TypeOK, Batches, Times
  <2>4. QED
    BY <2>1, <2>2, <2>3
<1>4. Published[d] <= now
  <2>1. job[w].target \in Dates /\ Published[job[w].target] <= now
    BY <1>2 DEF Working
  <2>2. Published[d] <= Published[job[w].target] /\ Published \in [Dates -> Nat]
    BY <1>1, <1>3, <2>1, StoreAssumption
  <2>3. QED
    BY <1>3, <2>1, <2>2
<1>5. /\ new.date = d /\ new.batch = batch
      /\ Original(new) \/ new.at = now
  BY <1>3, <1>4, NewRevisionIsLast
<1>6. rows' = rows \/ rows' = rows \union {new}
  BY DEF IngestCurve
<1>7. Counted' /\ RevisionsOrdered' /\ rows' \subseteq Row
  <2>1. CASE rows' = rows
    BY <2>1, <1>1 DEF Counted, RevisionsOrdered, Revisions, TypeOK
  <2>2. CASE rows' = rows \union {new}
    BY <2>2, <1>1, <1>3, <1>4, AddRevision
  <2>3. QED
    BY <1>6, <2>1, <2>2
<1> HIDE DEF new
<1>8. job'[w] = [job[w] EXCEPT !.next = d + 1]
  BY <1>1 DEF TypeOK
<1>9. TypeOK'
  <2>1. job'[w] \in Job
    BY <1>2, <1>3, <1>8 DEF Job
  <2>2. job' \in [Refreshers -> Job]
    BY <1>1, <2>1 DEF TypeOK
  <2>3. QED
    BY <1>1, <1>7, <2>2 DEF TypeOK
<1>10. Jobs'
  <2>1. Working(w)'
    BY <1>1, <1>2, <1>3, <1>8 DEF Working, Job
  <2>2. Staging(w)'
    BY <1>1, <1>2, <1>3, <1>5, <1>6, <1>8 DEF Working, Staging, Job
  <2>3. QED
    BY <1>1, <2>1, <2>2, Alone DEF Jobs
<1>11. Numbered'
  <2>1. batch <= started
    BY <1>2, <1>3 DEF Working
  <2>2. QED
    BY <1>1, <1>5, <1>6, <2>1 DEF Numbered
<1>12. VintageCausal'
  BY <1>1, <1>6, VintagesKept
<1>13. QED
  BY <1>7, <1>9, <1>10, <1>11, <1>12

(* A commit: each cutoff is the instant of a row that now counts.          *)
LEMMA CommitStep ==
  ASSUME Inv, NEW w \in Refreshers, Commit(w)
  PROVE  Inv'
<1> USE DEF Inv
<1> DEFINE cuts == {r.at : r \in {q \in rows : q.batch \in committed' /\ q.at <= now}}
<1>1. /\ pc[w] = "ingest"
      /\ committed' = committed \union {job[w].batch} /\ rebuilt' = FALSE
      /\ job' = [job EXCEPT ![w].cutoffs = cuts]
      /\ pc' = [pc EXCEPT ![w] = "build"]
      /\ UNCHANGED <<now, feed, recipe, rows, started, vintages, lock, reader>>
  BY DEF Commit, world, reading
<1>2. Working(w) /\ job[w] \in Job
  BY <1>1 DEF Jobs, TypeOK
<1>3. job[w].batch \in Batches
  BY <1>2, StoreAssumption DEF Working, TypeOK, Batches
<1>4. cuts \in SUBSET Nat
  BY DEF TypeOK, Row
<1>5. job'[w] = [job[w] EXCEPT !.cutoffs = cuts] /\ pc'[w] = "build"
  BY <1>1 DEF TypeOK
<1>6. TypeOK'
  <2>1. job'[w] \in Job
    BY <1>2, <1>4, <1>5 DEF Job
  <2>2. job' \in [Refreshers -> Job]
    BY <1>1, <2>1 DEF TypeOK
  <2>3. pc' \in [Refreshers -> {"idle", "ingest", "build"}]
    BY <1>1 DEF TypeOK
  <2>4. \A v \in Refreshers : pc'[v] # "idle" <=> lock' = v
    BY <1>1 DEF TypeOK
  <2>5. QED
    BY <1>1, <1>3, <2>2, <2>3, <2>4 DEF TypeOK
<1>7. Jobs'
  <2>1. Working(w)'
    BY <1>1, <1>2, <1>5 DEF Working, Job
  <2>2. Building(w)'
    BY <1>1, <1>2, <1>5 DEF Building, Job
  <2>3. \A v \in Refreshers : v # w => pc'[v] = "idle"
    BY <1>1, Alone DEF TypeOK
  <2>4. QED
    BY <1>5, <2>1, <2>2, <2>3 DEF Jobs
<1>8. Counted' /\ RevisionsOrdered'
  BY <1>1 DEF Counted, RevisionsOrdered, Revisions
<1>9. Numbered'
  BY <1>1, <1>2 DEF Numbered, Working
<1>10. VintageCausal'
  BY <1>1, VintagesKept
<1>11. QED
  BY <1>6, <1>7, <1>8, <1>9, <1>10

(* What a vintage of cutoff t is built from is known at t, one row per     *)
(* date, and one of them is as young as t.                                 *)
LEMMA VintageInputs ==
  ASSUME Inv, NEW t \in Nat, \E r \in rows : r.batch \in committed /\ r.at = t
  PROVE  /\ Visible(t) \subseteq Row
         /\ \A r \in Visible(t) : r \in rows /\ r.batch \in committed /\ r.at <= t
         /\ \E r \in Visible(t) : r.at = t
         /\ \A r, q \in Visible(t) : r.date = q.date => r = q
<1>1. \A r \in Visible(t) : r \in rows /\ r.batch \in committed /\ r.at <= t
  BY DEF Visible, Readable
<1>2. Visible(t) \subseteq Row
  BY <1>1 DEF Inv, TypeOK
<1>3. \E r \in Visible(t) : r.at = t
  BY VisibleAtCutoff DEF Inv
<1>4. \A r, q \in Visible(t) : r.date = q.date => r = q
  BY VisibleUnique DEF Inv
<1>5. QED
  BY <1>1, <1>2, <1>3, <1>4

LEMMA BuildStep ==
  ASSUME Inv, NEW w \in Refreshers, NEW t \in Times, BuildVintage(w, t)
  PROVE  Inv'
<1> USE DEF Inv
<1> DEFINE new == Vintage(t, job[w].recipe, Visible(t), Cardinality(vintages) + 1)
<1>1. /\ pc[w] = "build" /\ t \in job[w].cutoffs
      /\ vintages' = vintages \/ vintages' = vintages \union {new}
      /\ job' = [job EXCEPT ![w].cutoffs = @ \ {t}]
      /\ UNCHANGED <<now, feed, recipe, rows, committed, started, lock, pc, rebuilt, reader>>
  BY DEF BuildVintage, world, reading
<1>2. Working(w) /\ Building(w) /\ job[w] \in Job
  BY <1>1 DEF Jobs, TypeOK
<1>3. t \in Nat /\ \E r \in rows : r.batch \in committed /\ r.at = t
  BY <1>1, <1>2 DEF Building, Job
<1>4. /\ new.at = t /\ new.inputs = Visible(t)
      /\ new \in SeriesSnapshot
  <2>1. Cardinality(vintages) \in Nat
    BY FS_CardinalityType DEF Counted
  <2>2. Visible(t) \subseteq Row /\ job[w].recipe \in Recipes
    BY <1>2, <1>3, VintageInputs DEF Working
  <2>3. QED
    BY <1>3, <2>1, <2>2 DEF Vintage, SeriesSnapshot
<1> HIDE DEF new
<1>5. job'[w] = [job[w] EXCEPT !.cutoffs = @ \ {t}]
  BY <1>1 DEF TypeOK
<1>6. TypeOK'
  <2>1. job'[w] \in Job
    BY <1>2, <1>5 DEF Job
  <2>2. job' \in [Refreshers -> Job]
    BY <1>1, <2>1 DEF TypeOK
  <2>3. QED
    BY <1>1, <1>4, <2>2 DEF TypeOK
<1>7. Counted'
  <2>1. IsFiniteSet(vintages')
    BY <1>1, FS_AddElement DEF Counted
  <2>2. QED
    BY <1>1, <2>1 DEF Counted, Revisions
<1>8. Jobs'
  <2>1. Working(w)'
    BY <1>1, <1>2, <1>5 DEF Working, Job
  <2>2. Building(w)'
    BY <1>1, <1>2, <1>5 DEF Building, Job
  <2>3. QED
    BY <1>1, <2>1, <2>2, Alone DEF Jobs
<1>9. RevisionsOrdered' /\ Numbered'
  BY <1>1 DEF RevisionsOrdered, Revisions, Numbered
<1>10. VintageCausal'
  <2>1. /\ \A r \in new.inputs : r \in rows /\ r.batch \in committed /\ r.at <= new.at
        /\ \E r \in new.inputs : r.at = new.at
        /\ \A r, q \in new.inputs : r.date = q.date => r = q
    BY <1>3, <1>4, VintageInputs
  <2>2. QED
    BY <1>1, <2>1 DEF VintageCausal
<1>11. QED
  BY <1>6, <1>7, <1>8, <1>9, <1>10

(* A refresh ends, well or not: the lock is free and the store unchanged.  *)
LEMMA EndStep ==
  ASSUME Inv, NEW w \in Refreshers, FinishRefresh(w) \/ Abort(w)
  PROVE  Inv'
<1> USE DEF Inv
<1>1. /\ lock' = None
      /\ pc' = [pc EXCEPT ![w] = "idle"]
      /\ job' = [job EXCEPT ![w] = Idle]
      /\ rebuilt' \in BOOLEAN
      /\ UNCHANGED <<now, feed, recipe, rows, committed, started, vintages, reader>>
      /\ pc[w] # "idle"
  BY DEF FinishRefresh, Abort, world, store, reading, TypeOK
<1>2. \A v \in Refreshers : pc'[v] = "idle"
  BY <1>1, Alone DEF TypeOK
<1>3. TypeOK'
  <2>1. Idle \in Job
    BY StoreAssumption DEF Idle, Job
  <2>2. job' \in [Refreshers -> Job]
    BY <1>1, <2>1 DEF TypeOK
  <2>3. pc' \in [Refreshers -> {"idle", "ingest", "build"}]
    BY <1>1 DEF TypeOK
  <2>4. \A v \in Refreshers : pc'[v] # "idle" <=> lock' = v
    BY <1>1, <1>2, StoreAssumption
  <2>5. QED
    BY <1>1, <2>2, <2>3, <2>4 DEF TypeOK
<1>4. Jobs'
  BY <1>2 DEF Jobs
<1>5. Counted' /\ RevisionsOrdered' /\ Numbered'
  BY <1>1 DEF Counted, RevisionsOrdered, Revisions, Numbered
<1>6. VintageCausal'
  BY <1>1, VintagesKept
<1>7. QED
  BY <1>3, <1>4, <1>5, <1>6

LEMMA InvNext == Inv /\ [Next]_vars => Inv'
<1> SUFFICES ASSUME Inv, [Next]_vars PROVE Inv'
  OBVIOUS
<1>0. /\ now \in Times /\ now \in Nat /\ MaxTime \in Nat
      /\ feed \in [Dates -> Payloads] /\ recipe \in Recipes
      /\ reader \in [Readers -> {"idle", "series"}]
  BY StoreAssumption DEF Inv, TypeOK, Times
<1>1. CASE Tick
  <2>1. now' \in Times /\ now' >= now
    BY <1>0, <1>1 DEF Tick, Times
  <2>2. QED
    BY <1>0, <1>1, <2>1, OutsideSteps DEF Tick, reading
<1>2. ASSUME NEW e \in Dates, NEW p \in Payloads, Correct(e, p) PROVE Inv'
  BY <1>0, <1>2, OutsideSteps DEF Correct, reading
<1>3. ASSUME NEW c \in Recipes, ChangeRecipe(c) PROVE Inv'
  BY <1>0, <1>3, OutsideSteps DEF ChangeRecipe, reading
<1>4. ASSUME NEW w \in Refreshers,
             \/ StartRefresh(w) \/ IngestCurve(w) \/ Commit(w)
             \/ \E t \in Times : BuildVintage(w, t)
             \/ FinishRefresh(w) \/ Abort(w)
      PROVE Inv'
  BY <1>4, StartStep, IngestStep, CommitStep, BuildStep, EndStep
<1>5. ASSUME NEW a \in Readers, NEW t \in Times, ReadCurves(a, t) PROVE Inv'
  BY <1>0, <1>5, OutsideSteps DEF ReadCurves, world
<1>6. ASSUME NEW a \in Readers, ReadSeries(a) PROVE Inv'
  BY <1>0, <1>6, OutsideSteps DEF ReadSeries, world
<1>7. CASE UNCHANGED vars
  BY <1>0, <1>7, OutsideSteps DEF vars, world, reading
<1>8. QED
  BY <1>1, <1>2, <1>3, <1>4, <1>5, <1>6, <1>7 DEF Next
-----------------------------------------------------------------------------
(* Rows of a batch that is not committed are read by no one.               *)
LEMMA StagedInvisible ==
  ASSUME Inv, NEW w \in Refreshers, IngestCurve(w), NEW t
  PROVE  Visible(t)' = Visible(t)
<1>1. /\ pc[w] = "ingest" /\ committed' = committed
      /\ \/ rows' = rows
         \/ rows' = rows \union {NewRevision(job[w].next, job[w].fetched[job[w].next], job[w].batch)}
  BY DEF IngestCurve
<1>2. job[w].batch \notin committed
  BY <1>1 DEF Inv, Jobs, Staging
<1>3. NewRevision(job[w].next, job[w].fetched[job[w].next], job[w].batch).batch = job[w].batch
  BY DEF NewRevision
<1>4. Readable(t)' = Readable(t)
  BY <1>1, <1>2, <1>3 DEF Readable
<1>5. QED
  BY <1>4 DEF Visible, Supersedes

(* The information set of t loses no row and gains none but originals.     *)
Keeps(t) ==
  /\ Visible(t) \subseteq Visible(t)'
  /\ \A r \in Visible(t)' \ Visible(t) : Original(r)

(* Of what a commit brings an older information set can take only first    *)
(* revisions of dates it has none of.                                      *)
LEMMA CommitBrings ==
  ASSUME Inv, NEW w \in Refreshers, Commit(w), NEW t \in Nat, t < job[w].since,
         NEW r \in Visible(t)', r \notin Visible(t)
  PROVE  Original(r)
<1>1. /\ pc[w] = "ingest" /\ committed' = committed \union {job[w].batch} /\ rows' = rows
  BY DEF Commit
<1>2. /\ r \in rows /\ r \in Row /\ r.at <= t /\ r.batch \in committed \union {job[w].batch}
      /\ job[w].since \in Nat
  BY <1>1 DEF Visible, Readable, Inv, TypeOK, Job
<1>3. CASE r.batch = job[w].batch
  <2>1. Original(r) \/ r.at >= job[w].since
    BY <1>1, <1>2, <1>3 DEF Inv, Jobs, Staging
  <2>2. QED
    BY <2>1, <1>2 DEF Row
<1>4. CASE r.batch \in committed
  <2>1. Readable(t) \subseteq Readable(t)'
    BY <1>1 DEF Readable
  <2>2. r \in Visible(t)
    BY <1>2, <1>4, <2>1 DEF Visible, Readable, Supersedes
  <2>3. QED
    BY <2>2
<1>5. QED
  BY <1>2, <1>3, <1>4

LEMMA CommitKeeps ==
  ASSUME Inv, NEW w \in Refreshers, Commit(w), NEW t \in Nat, t < job[w].since
  PROVE  Keeps(t)
<1> SUFFICES ASSUME NEW r \in Visible(t) PROVE r \in Visible(t)'
  BY CommitBrings DEF Keeps
<1>1. /\ pc[w] = "ingest" /\ committed' = committed \union {job[w].batch} /\ rows' = rows
  BY DEF Commit
<1>2. Staging(w) /\ job[w].since \in Nat
  BY <1>1 DEF Inv, Jobs, TypeOK, Job
<1>3. /\ r \in rows /\ r \in Readable(t)
      /\ \A q \in rows : q \in Row
  BY DEF Visible, Readable, Inv, TypeOK
<1>4. ASSUME NEW q \in Readable(t)', q.date = r.date PROVE Supersedes(r, q)
  <2>1. q \in rows /\ q.at <= t /\ q.batch \in committed \union {job[w].batch}
    BY <1>1 DEF Readable
  <2>2. CASE q.batch \in committed
    BY <1>4, <2>1, <2>2 DEF Visible, Readable
  <2>3. CASE q.batch = job[w].batch
    <3>1. Original(q) \/ q.at >= job[w].since
      BY <2>1, <2>3, <1>2 DEF Staging
    <3>2. q.rev = 1
      BY <3>1, <2>1, <1>2, <1>3 DEF Row, Original
    <3>3. r.rev \in Nat /\ r.rev >= 1
      <4>1. r.rev \in 1..Cardinality(Revisions(r.date)) /\ r.rev \in Nat
        BY <1>3 DEF Inv, RevisionsOrdered, Row
      <4>2. QED
        BY <4>1
    <3>4. q.at <= r.at
      BY <1>3, <1>4, <2>1, <3>2, <3>3 DEF Inv, RevisionsOrdered, Revisions
    <3>5. QED
      BY <1>3, <2>1, <3>2, <3>3, <3>4 DEF Supersedes, Row
  <2>4. QED
    BY <2>1, <2>2, <2>3
<1>5. r \in Readable(t)'
  BY <1>1, <1>3 DEF Readable
<1>6. QED
  BY <1>4, <1>5 DEF Visible, Supersedes

LEMMA HistoryStep ==
  ASSUME Inv, [Next]_vars, NEW t \in 0..now,
         \A w \in Refreshers : pc[w] = "ingest" => t < job[w].since
  PROVE  Keeps(t)
<1>1. CASE UNCHANGED <<rows, committed>>
  BY <1>1 DEF Visible, Readable, Supersedes, Keeps
<1>2. ASSUME NEW w \in Refreshers, IngestCurve(w) PROVE Keeps(t)
  BY <1>2, StagedInvisible DEF Keeps
<1>3. ASSUME NEW w \in Refreshers, Commit(w) PROVE Keeps(t)
  <2>1. t < job[w].since /\ t \in Nat
    BY <1>3 DEF Commit
  <2>2. QED
    BY <1>3, <2>1, CommitKeeps
<1>4. \/ UNCHANGED <<rows, committed>>
      \/ \E w \in Refreshers : IngestCurve(w) \/ Commit(w)
  BY DEF Next, Tick, Correct, ChangeRecipe, StartRefresh, BuildVintage, FinishRefresh, Abort,
         ReadCurves, ReadSeries, vars, store
<1>5. QED
  BY <1>1, <1>2, <1>3, <1>4
-----------------------------------------------------------------------------
(* What a reader has validated is what it will deliver.                    *)
Validated ==
  /\ DOMAIN reader = Readers /\ DOMAIN snap = Readers /\ DOMAIN context = Readers
  /\ \A a \in Readers : reader[a] = "series" =>
       Coherent(VisibleVintage(snap[a].vintages, snap[a].asOf), snap[a].curves)
  /\ ContextCoherent

LEMMA ValidatedInit == Init => Validated
BY DEF Init, Validated, ContextCoherent

LEMMA ValidatedNext == Validated /\ [Next]_vars => Validated'
<1> SUFFICES ASSUME Validated, [Next]_vars PROVE Validated'
  OBVIOUS
<1>1. ASSUME NEW a \in Readers, NEW t \in Times, ReadCurves(a, t) PROVE Validated'
  <2>1. /\ Coherent(VisibleVintage(vintages, t), Visible(t))
        /\ reader' = [reader EXCEPT ![a] = "series"]
        /\ snap' = [snap EXCEPT ![a] = [asOf |-> t, curves |-> Visible(t), vintages |-> vintages]]
        /\ context' = [context EXCEPT ![a] = None]
    BY <1>1 DEF ReadCurves
  <2> DEFINE s == [asOf |-> t, curves |-> Visible(t), vintages |-> vintages]
  <2>2. Coherent(VisibleVintage(s.vintages, s.asOf), s.curves)
    BY <2>1
  <2>3. snap'[a] = s /\ context'[a] = None
    BY <2>1 DEF Validated
  <2>4. \A b \in Readers : b # a => /\ reader'[b] = reader[b]
                                    /\ snap'[b] = snap[b] /\ context'[b] = context[b]
    BY <2>1 DEF Validated
  <2>5. DOMAIN reader' = Readers /\ DOMAIN snap' = Readers /\ DOMAIN context' = Readers
    BY <2>1 DEF Validated
  <2> HIDE DEF s
  <2>6. ASSUME NEW b \in Readers, reader'[b] = "series"
        PROVE  Coherent(VisibleVintage(snap'[b].vintages, snap'[b].asOf), snap'[b].curves)
    <3>1. CASE b = a
      BY <3>1, <2>2, <2>3
    <3>2. CASE b # a
      BY <3>2, <2>4, <2>6 DEF Validated
    <3>3. QED
      BY <3>1, <3>2
  <2>7. ASSUME NEW b \in Readers, context'[b] # None
        PROVE  Coherent(context'[b].series, context'[b].curves)
    BY <2>3, <2>4, <2>7 DEF Validated, ContextCoherent
  <2>8. QED
    BY <2>5, <2>6, <2>7 DEF Validated, ContextCoherent, Coherent, VisibleVintage
<1>2. ASSUME NEW a \in Readers, ReadSeries(a) PROVE Validated'
  <2> DEFINE c == [asOf |-> snap[a].asOf, curves |-> snap[a].curves,
                   series |-> VisibleVintage(snap[a].vintages, snap[a].asOf)]
  <2>1. /\ reader[a] = "series"
        /\ context' = [context EXCEPT ![a] = c]
        /\ reader' = [reader EXCEPT ![a] = "idle"]
        /\ snap' = [snap EXCEPT ![a] = None]
    BY <1>2 DEF ReadSeries
  <2>2. Coherent(c.series, c.curves)
    BY <2>1 DEF Validated
  <2>3. context'[a] = c /\ reader'[a] = "idle"
    BY <2>1 DEF Validated
  <2>4. \A b \in Readers : b # a => /\ reader'[b] = reader[b]
                                    /\ snap'[b] = snap[b] /\ context'[b] = context[b]
    BY <2>1 DEF Validated
  <2>5. DOMAIN reader' = Readers /\ DOMAIN snap' = Readers /\ DOMAIN context' = Readers
    BY <2>1 DEF Validated
  <2> HIDE DEF c
  <2>6. QED
    BY <2>2, <2>3, <2>4, <2>5 DEF Validated, ContextCoherent, Coherent, VisibleVintage
<1>3. CASE UNCHANGED reading
  BY <1>3 DEF reading, Validated, ContextCoherent, Coherent, VisibleVintage
<1>4. \/ UNCHANGED reading
      \/ \E a \in Readers : ReadSeries(a) \/ \E t \in Times : ReadCurves(a, t)
  BY DEF Next, Tick, Correct, ChangeRecipe, StartRefresh, IngestCurve, Commit, BuildVintage,
         FinishRefresh, Abort, vars
<1>5. QED
  BY <1>1, <1>2, <1>3, <1>4
-----------------------------------------------------------------------------
(* The rebuild.  A set of rows precedes another when it has, for each of   *)
(* its dates, a row that is not older.                                     *)
Preceded(X, Y) == \A x \in X : \E y \in Y : y.date = x.date /\ Supersedes(y, x)

(* The vintage that belongs to an instant is there.                        *)
Served(t) == \E v \in vintages : v.at = t /\ v.inputs = Visible(t)

(* Vintages of one instant are numbered in the order of what they were     *)
(* built from, and none is missing but those a rebuild has still to make.  *)
Rebuilding ==
  /\ \A v \in vintages : v.created \in 1..Cardinality(vintages)
  /\ \A v, u \in vintages : v.at = u.at /\ v.created <= u.created => Preceded(v.inputs, u.inputs)
  /\ rebuilt => \A r \in rows : r.batch \in committed => Served(r.at)
  /\ \A w \in Refreshers : pc[w] = "build" =>
       \A r \in rows : r.batch \in committed => r.at \in job[w].cutoffs \/ Served(r.at)

(* Of the date of a readable row some row is visible, not an older one.    *)
LEMMA VisibleOfDate ==
  ASSUME TypeOK, Counted, RevisionsOrdered, NEW t \in Nat, NEW r \in Readable(t)
  PROVE  \E q \in Visible(t) : q.date = r.date /\ Supersedes(q, r)
<1> DEFINE S == {q \in Readable(t) : q.date = r.date}
           N == {q.rev : q \in S}
<1>0. r \in rows /\ r \in Row /\ r.date \in Dates /\ \A q \in rows : q \in Row
  BY DEF TypeOK, Row, Readable
<1>1. S \subseteq Revisions(r.date) /\ r \in S
  BY DEF Readable, Revisions
<1>2. \A q \in S : q.rev \in Nat /\ q.rev <= LatestRevision(r.date).rev
  BY <1>0, <1>1, LatestIsLast DEF Revisions, Row
<1>3. LatestRevision(r.date).rev \in Nat
  BY <1>0, <1>1, LatestIsLast DEF Revisions, Row
<1>4. PICK m \in N : \A n \in N : n <= m
  <2>1. N \in SUBSET Nat /\ N # {} /\ \A n \in N : n <= LatestRevision(r.date).rev
    BY <1>1, <1>2
  <2>2. QED
    BY <2>1, <1>3, Greatest
<1>5. PICK q \in S : q.rev = m
  OBVIOUS
<1>6. ASSUME NEW p \in Readable(t), p.date = r.date PROVE Supersedes(q, p)
  <2>1. p \in rows /\ q \in rows /\ p \in Row /\ q \in Row /\ q.date = r.date
    BY <1>0 DEF Readable
  <2>2. p.rev <= q.rev
    BY <1>4, <1>5, <1>6
  <2>3. p.at <= q.at
    BY <1>6, <2>1, <2>2 DEF RevisionsOrdered, Revisions
  <2>4. QED
    BY <2>1, <2>2, <2>3 DEF Supersedes, Row
<1>7. q \in Visible(t)
  BY <1>6 DEF Visible
<1>8. QED
  BY <1>6, <1>7, <1>1

(* Whatever vintage of an instant exists precedes what is visible then.    *)
LEMMA VintagePrecedes ==
  ASSUME Inv, NEW v \in vintages
  PROVE  Preceded(v.inputs, Visible(v.at))
<1>1. v.at \in Nat
  BY DEF Inv, TypeOK, SeriesSnapshot
<1>2. ASSUME NEW x \in v.inputs PROVE x \in Readable(v.at)
  BY DEF Inv, VintageCausal, Readable
<1>3. QED
  BY <1>1, <1>2, VisibleOfDate DEF Inv, Preceded

(* Two sets that precede each other and have a row per date are the same.  *)
LEMMA PrecededBothWays ==
  ASSUME TypeOK, RevisionsOrdered, NEW X \in SUBSET rows, NEW Y \in SUBSET rows,
         Preceded(X, Y), Preceded(Y, X),
         \A p, q \in X : p.date = q.date => p = q
  PROVE  X \subseteq Y
<1> SUFFICES ASSUME NEW x \in X PROVE x \in Y
  OBVIOUS
<1>1. PICK y \in Y : y.date = x.date /\ Supersedes(y, x)
  BY DEF Preceded
<1>2. PICK z \in X : z.date = y.date /\ Supersedes(z, y)
  BY DEF Preceded
<1>3. z = x
  BY <1>1, <1>2
<1>4. x \in rows /\ y \in rows /\ x \in Row /\ y \in Row
  BY DEF TypeOK
<1>5. x.rev = y.rev
  BY <1>1, <1>2, <1>3, <1>4 DEF Supersedes, Row
<1>6. x = y
  BY <1>1, <1>4, <1>5 DEF RevisionsOrdered, Revisions
<1>7. QED
  BY <1>6

(* The vintage read as of t is the last one made of the last instant.      *)
LEMMA VisibleVintageIsLast ==
  ASSUME Inv, Rebuilding, NEW t \in Nat, NEW u \in vintages, u.at <= t
  PROVE  LET V == VisibleVintage(vintages, t)
         IN  /\ V \in vintages /\ V.at <= t
             /\ \A w \in vintages : w.at <= t =>
                  V.at > w.at \/ (V.at = w.at /\ V.created >= w.created)
<1> DEFINE known == {v \in vintages : v.at <= t}
           A == {v.at : v \in known}
<1>0. /\ \A v \in vintages : v.at \in Nat /\ v.created \in 1..Cardinality(vintages)
      /\ Cardinality(vintages) \in Nat
  BY FS_CardinalityType DEF Inv, Counted, TypeOK, SeriesSnapshot, Rebuilding
<1>1. PICK m \in A : \A n \in A : n <= m
  <2>1. A \in SUBSET Nat /\ A # {} /\ \A n \in A : n <= t
    BY <1>0
  <2>2. QED
    BY <2>1, Greatest
<1> DEFINE C == {v.created : v \in {x \in known : x.at = m}}
<1>2. PICK k \in C : \A n \in C : n <= k
  <2>1. C \in SUBSET Nat /\ C # {} /\ \A n \in C : n <= Cardinality(vintages)
    BY <1>0, <1>1
  <2>2. QED
    BY <2>1, <1>0, Greatest
<1>3. PICK v \in known : v.at = m /\ v.created = k
  OBVIOUS
<1>4. \A w \in known : v.at > w.at \/ (v.at = w.at /\ v.created >= w.created)
  <2> TAKE w \in known
  <2>1. w.at <= v.at
    BY <1>1, <1>3
  <2>2. w.at = v.at => w.created <= v.created
    BY <1>2, <1>3
  <2>3. QED
    BY <1>0, <2>1, <2>2
<1>5. known # {}
  OBVIOUS
<1>6. VisibleVintage(vintages, t) =
        CHOOSE x \in known : \A w \in known :
          x.at > w.at \/ (x.at = w.at /\ x.created >= w.created)
  BY <1>5 DEF VisibleVintage
<1>7. /\ VisibleVintage(vintages, t) \in known
      /\ \A w \in known : \/ VisibleVintage(vintages, t).at > w.at
                          \/ /\ VisibleVintage(vintages, t).at = w.at
                             /\ VisibleVintage(vintages, t).created >= w.created
  BY <1>3, <1>4, <1>6
<1>8. QED
  BY <1>7

(* Where no vintage is missing every past instant is coherent.             *)
LEMMA ServedIsCoherent ==
  ASSUME Inv, Rebuilding, \A r \in rows : r.batch \in committed => Served(r.at), NEW t \in Nat
  PROVE  Coherent(VisibleVintage(vintages, t), Visible(t))
<1>1. CASE \A v \in vintages : ~ (v.at <= t)
  BY <1>1 DEF VisibleVintage, Coherent
<1>2. CASE \E v \in vintages : v.at <= t
  <2>1. PICK V : V = VisibleVintage(vintages, t)
    OBVIOUS
  <2>2. /\ V \in vintages /\ V.at <= t
        /\ \A w \in vintages : w.at <= t =>
             V.at > w.at \/ (V.at = w.at /\ V.created >= w.created)
    BY <1>2, <2>1, VisibleVintageIsLast
  <2>3. V.at \in Nat /\ \A r \in rows : r.at \in Nat
    BY <2>2 DEF Inv, TypeOK, SeriesSnapshot, Row
  <2>4. ASSUME NEW r \in rows, r.batch \in committed, r.at <= t PROVE r.at <= V.at
    <3>1. PICK v \in vintages : v.at = r.at
      BY <2>4 DEF Served
    <3>2. QED
      BY <3>1, <2>2, <2>3, <2>4
  <2>5. Readable(t) = Readable(V.at)
    BY <2>2, <2>3, <2>4 DEF Readable
  <2>6. Visible(t) = Visible(V.at)
    BY <2>5 DEF Visible
  <2>7. /\ V.inputs \subseteq rows
        /\ \E r \in V.inputs : r.at = V.at /\ r \in rows /\ r.batch \in committed
        /\ \A p, q \in V.inputs : p.date = q.date => p = q
    BY <2>2 DEF Inv, VintageCausal
  <2>8. PICK v \in vintages : v.at = V.at /\ v.inputs = Visible(V.at)
    BY <2>7 DEF Served
  <2>9. Preceded(V.inputs, v.inputs)
    BY <2>2, <2>8, VintagePrecedes
  <2>10. v.created <= V.created
    <3>1. V.at > v.at \/ (V.at = v.at /\ V.created >= v.created)
      BY <2>2, <2>8
    <3>2. v.created \in Nat /\ V.created \in Nat
      BY <2>2 DEF Inv, TypeOK, SeriesSnapshot
    <3>3. QED
      BY <3>1, <3>2, <2>3, <2>8
  <2>11. Preceded(v.inputs, V.inputs)
    BY <2>2, <2>8, <2>10 DEF Rebuilding
  <2>12. v.inputs \subseteq rows /\ \A p, q \in v.inputs : p.date = q.date => p = q
    BY DEF Inv, VintageCausal
  <2>13. v.inputs = V.inputs
    <3>1. TypeOK /\ RevisionsOrdered
      BY DEF Inv
    <3>2. V.inputs \subseteq v.inputs
      BY <3>1, <2>7, <2>9, <2>11, <2>12, PrecededBothWays
    <3>3. v.inputs \subseteq V.inputs
      BY <3>1, <2>7, <2>9, <2>11, <2>12, PrecededBothWays
    <3>4. QED
      BY <3>2, <3>3
  <2>14. QED
    BY <2>1, <2>6, <2>8, <2>13 DEF Coherent
<1>3. QED
  BY <1>1, <1>2

LEMMA RebuildingInit == Init => Rebuilding
BY DEF Init, Rebuilding

(* What no write of the store touches.                                     *)
LEMMA ServedKept ==
  ASSUME vintages \subseteq vintages', NEW t, Visible(t)' = Visible(t), Served(t)
  PROVE  Served(t)'
BY DEF Served

LEMMA RebuildingNext == Inv /\ Rebuilding /\ [Next]_vars => Rebuilding'
<1> SUFFICES ASSUME Inv, Rebuilding, [Next]_vars PROVE Rebuilding'
  OBVIOUS
<1>1. CASE UNCHANGED <<rows, committed, vintages>> /\ (\A w \in Refreshers : pc'[w] = "build" =>
             pc[w] = "build" /\ job'[w].cutoffs = job[w].cutoffs) /\ rebuilt' = rebuilt
  <2>1. \A t : Served(t)' <=> Served(t)
    BY <1>1 DEF Served, Visible, Readable, Supersedes
  <2>2. QED
    BY <1>1, <2>1 DEF Rebuilding, Preceded, Supersedes
<1>2. ASSUME NEW w \in Refreshers, IngestCurve(w) PROVE Rebuilding'
  <2>1. /\ UNCHANGED <<committed, vintages, rebuilt, pc>> /\ pc[w] = "ingest"
        /\ rows' = rows \/ rows' = rows \union {NewRevision(job[w].next, job[w].fetched[job[w].next], job[w].batch)}
    BY <1>2 DEF IngestCurve
  <2>2. job[w].batch \notin committed
    BY <2>1 DEF Inv, Jobs, Staging
  <2>3. NewRevision(job[w].next, job[w].fetched[job[w].next], job[w].batch).batch = job[w].batch
    BY DEF NewRevision
  <2>4. \A r \in rows' : r.batch \in committed => r \in rows
    BY <2>1, <2>2, <2>3
  <2>5. \A t : Served(t)' <=> Served(t)
    BY <1>2, <2>1, StagedInvisible DEF Served
  <2>6. \A v \in Refreshers : pc[v] # "build"
    BY <2>1, Alone DEF Inv, TypeOK
  <2>7. QED
    BY <2>1, <2>4, <2>5, <2>6 DEF Rebuilding, Preceded, Supersedes
<1>3. ASSUME NEW w \in Refreshers, Commit(w) PROVE Rebuilding'
  <2>1. /\ UNCHANGED <<rows, vintages>> /\ rebuilt' = FALSE
        /\ job'[w].cutoffs = {r.at : r \in {q \in rows : q.batch \in committed' /\ q.at <= now}}
        /\ pc[w] = "ingest" /\ pc' = [pc EXCEPT ![w] = "build"]
    BY <1>3 DEF Commit, Inv, TypeOK, Job
  <2>2. \A r \in rows : r.batch \in committed' => r.at \in job'[w].cutoffs
    BY <2>1 DEF Inv, RevisionsOrdered
  <2>3. \A v \in Refreshers : pc'[v] = "build" => v = w
    BY <2>1, Alone DEF Inv, TypeOK
  <2>4. QED
    BY <2>1, <2>2, <2>3 DEF Rebuilding, Preceded, Supersedes
<1>4. ASSUME NEW w \in Refreshers, NEW t \in Times, BuildVintage(w, t) PROVE Rebuilding'
  <2> DEFINE new == Vintage(t, job[w].recipe, Visible(t), Cardinality(vintages) + 1)
  <2>1. /\ UNCHANGED <<rows, committed, rebuilt, pc>> /\ pc[w] = "build"
        /\ t \in job[w].cutoffs
        /\ \/ vintages' = vintages /\ \E v \in vintages : v.at = t /\ v.inputs = Visible(t)
           \/ vintages' = vintages \union {new}
        /\ job'[w].cutoffs = job[w].cutoffs \ {t}
    BY <1>4 DEF BuildVintage, Saved, Inv, TypeOK, Job
  <2>2. /\ new.at = t /\ new.inputs = Visible(t) /\ new.created = Cardinality(vintages) + 1
        /\ Cardinality(vintages) \in Nat
    BY FS_CardinalityType DEF Vintage, Inv, Counted
  <2> HIDE DEF new
  <2>3. \A u : Visible(u)' = Visible(u)
    BY <2>1 DEF Visible, Readable, Supersedes
  <2>4. Served(t)' /\ \A u : Served(u) => Served(u)'
    BY <2>1, <2>2, <2>3 DEF Served
  <2>5. \A v \in Refreshers : pc[v] = "build" => v = w
    BY <2>1, Alone DEF Inv, TypeOK
  <2>6. \A v \in vintages : v.created \in Nat /\ v.created < new.created
    BY <2>2 DEF Rebuilding
  <2>7. \A v \in vintages' : v.created \in 1..Cardinality(vintages')
    <3>1. CASE vintages' = vintages
      BY <3>1 DEF Rebuilding
    <3>2. CASE vintages' = vintages \union {new}
      <4>1. new \notin vintages
        BY <2>2, <2>6
      <4>2. Cardinality(vintages') = Cardinality(vintages) + 1
        BY <3>2, <4>1, FS_AddElement DEF Inv, Counted
      <4>3. \A v \in vintages : v.created \in 1..Cardinality(vintages)
        BY DEF Rebuilding
      <4>4. QED
        BY <3>2, <4>2, <4>3, <2>2
    <3>3. QED
      BY <2>1, <3>1, <3>2
  <2>8. ASSUME NEW v \in vintages', NEW u \in vintages', v.at = u.at, v.created <= u.created
        PROVE  Preceded(v.inputs, u.inputs)
    <3>1. CASE v \in vintages /\ u \in vintages
      BY <3>1, <2>8 DEF Rebuilding
    <3>2. CASE u = new /\ v \in vintages
      BY <3>2, <2>2, <2>8, VintagePrecedes
    <3>3. CASE v = new /\ u \in vintages
      BY <3>3, <2>2, <2>6, <2>8
    <3>4. CASE v = new /\ u = new
      <4>1. \A r \in Visible(t) : r \in Row
        BY DEF Visible, Readable, Inv, TypeOK
      <4>2. QED
        BY <3>4, <4>1, <2>2 DEF Preceded, Supersedes, Row
    <3>5. QED
      BY <2>1, <3>1, <3>2, <3>3, <3>4
  <2>9. \A r \in rows : r.batch \in committed => r.at \in job'[w].cutoffs \/ Served(r.at)'
    BY <2>1, <2>4 DEF Rebuilding
  <2>10. rebuilt => \A r \in rows : r.batch \in committed => Served(r.at)'
    BY <2>4 DEF Rebuilding
  <2>11. QED
    BY <2>1, <2>5, <2>7, <2>8, <2>9, <2>10 DEF Rebuilding, Preceded, Supersedes
<1>5. ASSUME NEW w \in Refreshers, FinishRefresh(w) PROVE Rebuilding'
  <2>1. /\ UNCHANGED <<rows, committed, vintages>> /\ pc[w] = "build" /\ job[w].cutoffs = {}
        /\ pc' = [pc EXCEPT ![w] = "idle"]
    BY <1>5 DEF FinishRefresh, store
  <2>2. \A r \in rows : r.batch \in committed => Served(r.at)
    BY <2>1 DEF Rebuilding
  <2>3. \A t : Served(t)' <=> Served(t)
    BY <2>1 DEF Served, Visible, Readable, Supersedes
  <2>4. \A v \in Refreshers : pc'[v] # "build"
    BY <2>1, Alone DEF Inv, TypeOK
  <2>5. QED
    BY <2>1, <2>2, <2>3, <2>4 DEF Rebuilding, Preceded, Supersedes
<1>6. ASSUME NEW w \in Refreshers, StartRefresh(w) \/ Abort(w) PROVE Rebuilding'
  <2>1. /\ UNCHANGED <<rows, committed, vintages, rebuilt>>
        /\ pc' = [pc EXCEPT ![w] = "ingest"] \/ pc' = [pc EXCEPT ![w] = "idle"]
        /\ \E j : job' = [job EXCEPT ![w] = j]
    BY <1>6 DEF StartRefresh, Abort, store
  <2>2. \A v \in Refreshers : pc'[v] = "build" => pc[v] = "build" /\ job'[v].cutoffs = job[v].cutoffs
    BY <2>1 DEF Inv, TypeOK
  <2>3. QED
    BY <1>1, <2>1, <2>2
<1>7. CASE UNCHANGED <<store, refresh>>
  BY <1>1, <1>7 DEF store, refresh
<1>8. \/ UNCHANGED <<store, refresh>>
      \/ \E w \in Refreshers : \/ StartRefresh(w) \/ IngestCurve(w) \/ Commit(w)
                               \/ \E t \in Times : BuildVintage(w, t)
                               \/ FinishRefresh(w) \/ Abort(w)
  BY DEF Next, Tick, Correct, ChangeRecipe, ReadCurves, ReadSeries, vars
<1>9. QED
  BY <1>2, <1>3, <1>4, <1>5, <1>6, <1>7, <1>8
-----------------------------------------------------------------------------
(* What a refresh fetched.  No date of the store is later than its target, *)
(* and of each date it has staged the latest revision has the content it   *)
(* fetched and is its own or a committed one.                              *)
Delivering(w) ==
  /\ job[w].from <= job[w].target
  /\ \A r \in rows : r.date <= job[w].target
  /\ \A d \in Dates : job[w].from <= d /\ d <= job[w].target /\ (pc[w] = "build" \/ d < job[w].next) =>
       Unchanged(d, job[w].fetched[d], job[w].batch)
  /\ pc[w] = "build" => job[w].batch \in committed

Fetching ==
  /\ \A r \in rows : Published[r.date] <= now
  /\ \A w \in Refreshers : pc[w] # "idle" => Delivering(w)
  /\ RefreshReturnsFetched

LEMMA FetchingInit == Init => Fetching
BY DEF Init, Fetching, RefreshReturnsFetched

(* The dates a refresh works on are published.                             *)
LEMMA WorkIsPublished ==
  ASSUME Inv, NEW w \in Refreshers, pc[w] # "idle", NEW d \in Dates, d <= job[w].target
  PROVE  Published[d] <= now
<1>1. job[w].target \in Dates /\ Published[job[w].target] <= now
  BY DEF Inv, Jobs, Working
<1>2. Published[d] <= Published[job[w].target]
  BY <1>1, StoreAssumption
<1>3. Published[d] \in Nat /\ Published[job[w].target] \in Nat /\ now \in Nat
  BY <1>1, StoreAssumption DEF Inv, TypeOK, Times
<1>4. QED
  BY <1>1, <1>2, <1>3

(* A refresh that starts has every published date before it.               *)
LEMMA FetchingStart ==
  ASSUME Inv, Fetching, NEW w \in Refreshers, StartRefresh(w)
  PROVE  Fetching'
<1>1. PICK from \in RefreshedDates, target \in PublishedDates :
        /\ IsFirst(from, RefreshedDates) /\ IsLast(target, PublishedDates)
        /\ job' = [job EXCEPT ![w] =
                    [batch |-> started + 1, since |-> now, from |-> from, target |-> target,
                     fetched |-> feed, recipe |-> recipe, next |-> from, cutoffs |-> {}]]
  BY DEF StartRefresh
<1>2. /\ \A v \in Refreshers : v # w => pc'[v] = "idle"
      /\ pc'[w] = "ingest" /\ result' = None
      /\ UNCHANGED <<now, rows, committed>>
  BY StoreAssumption DEF StartRefresh, Inv, TypeOK, world
<1>3. job'[w].target = target /\ job'[w].from = from /\ job'[w].next = from
  BY <1>1 DEF Inv, TypeOK
<1>4. \A r \in rows : r.date <= target
  BY <1>1 DEF Inv, TypeOK, Row, Fetching, IsLast, PublishedDates
<1>5. /\ from \in Dates /\ target \in Dates /\ \A d \in Dates : d \in Nat
      /\ from <= target
  <2>1. from \in Dates /\ target \in Dates /\ \A d \in Dates : d \in Nat
    BY StoreAssumption, FS_CardinalityType DEF RefreshedDates, PublishedDates
  <2>2. \A r \in Visible(now) : target + Window >= r.date
    <3>1. \A r \in Visible(now) : r \in rows /\ r.date \in Dates
      BY DEF Visible, Readable, Inv, TypeOK, Row
    <3>2. QED
      BY <1>4, <2>1, <3>1, StoreAssumption
  <2>3. target \in RefreshedDates
    BY <2>1, <2>2 DEF RefreshedDates
  <2>4. QED
    BY <1>1, <2>1, <2>3 DEF IsFirst
<1>6. Delivering(w)'
  BY <1>2, <1>3, <1>4, <1>5 DEF Delivering
<1>7. QED
  BY <1>2, <1>6 DEF Fetching, RefreshReturnsFetched

(* The row a step stages is the latest of its date.                        *)
LEMMA StagedIsLatest ==
  ASSUME Inv, NEW d \in Dates, NEW hash \in Payloads, NEW batch \in Batches, Published[d] <= now,
         rows' = rows \union {NewRevision(d, hash, batch)}, committed' = committed
  PROVE  /\ Unchanged(d, hash, batch)'
         /\ \A e \in Dates : e # d => Revisions(e)' = Revisions(e)
<1>1. PICK new : new = NewRevision(d, hash, batch)
  OBVIOUS
<1>2. /\ new \in Row /\ new.date = d /\ new.hash = hash /\ new.batch = batch
      /\ \A q \in Revisions(d) : q.rev < new.rev
  BY <1>1, NewRevisionIsLast DEF Inv
<1>3. /\ Revisions(d)' = Revisions(d) \union {new}
      /\ \A e \in Dates : e # d => Revisions(e)' = Revisions(e)
  BY <1>1, <1>2 DEF Revisions
<1>4. \A q \in Revisions(d)' : q.rev \in Nat
  BY <1>2, <1>3 DEF Revisions, Inv, TypeOK, Row
<1>5. \A q \in Revisions(d)' : new.rev >= q.rev
  BY <1>2, <1>3, <1>4
<1>6. \A r \in Revisions(d)' : (\A q \in Revisions(d)' : r.rev >= q.rev) => r = new
  <2> SUFFICES ASSUME NEW r \in Revisions(d)', r.rev >= new.rev PROVE r = new
    BY <1>3
  <2>1. ~ (r.rev < new.rev)
    BY <1>3, <1>4
  <2>2. QED
    BY <2>1, <1>2, <1>3
<1>7. LatestRevision(d)' = new
  BY <1>3, <1>5, <1>6 DEF LatestRevision
<1>8. QED
  BY <1>2, <1>3, <1>7 DEF Unchanged

LEMMA FetchingIngest ==
  ASSUME Inv, Fetching, NEW w \in Refreshers, IngestCurve(w)
  PROVE  Fetching'
<1>1. PICK d, hash, batch :
        d = job[w].next /\ hash = job[w].fetched[d] /\ batch = job[w].batch
  OBVIOUS
<1>2. /\ pc[w] = "ingest" /\ d <= job[w].target
      /\ rows' = IF Unchanged(d, hash, batch) THEN rows ELSE rows \union {NewRevision(d, hash, batch)}
      /\ job' = [job EXCEPT ![w].next = d + 1]
      /\ UNCHANGED <<now, committed, pc, result>>
  BY <1>1 DEF IngestCurve, world
<1>3. /\ Working(w) /\ Delivering(w) /\ job[w] \in Job
      /\ \A v \in Refreshers : v # w => pc[v] = "idle"
  BY <1>2, Alone DEF Inv, Jobs, TypeOK, Fetching
<1>4. /\ d \in Dates /\ hash \in Payloads /\ batch \in Batches
      /\ \A e \in Dates : e \in Nat
  <2>1. job[w].target \in Dates /\ d \in Nat \ {0}
    BY <1>1, <1>3 DEF Working
  <2>2. d \in Dates /\ \A e \in Dates : e \in Nat
    BY <1>2, <2>1, StoreAssumption, FS_CardinalityType
  <2>3. batch \in Batches
    BY <1>1, <1>3, StoreAssumption DEF Working, Batches, Inv, TypeOK
  <2>4. QED
    BY <1>1, <1>3, <2>2, <2>3 DEF Working
<1>5. Published[d] <= now
  BY <1>2, <1>4, WorkIsPublished
<1>6. /\ job'[w].target = job[w].target /\ job'[w].fetched = job[w].fetched
      /\ job'[w].from = job[w].from /\ job'[w].batch = job[w].batch /\ job'[w].next = d + 1
  BY <1>2, <1>3 DEF Job, Inv, TypeOK
<1>7. /\ Unchanged(d, hash, batch)'
      /\ \A e \in Dates : e # d => Revisions(e)' = Revisions(e)
      /\ \A r \in rows' : r \in rows \/ r.date = d
  <2>1. CASE Unchanged(d, hash, batch)
    <3>1. rows' = rows
      BY <1>2, <2>1
    <3>2. \A e : Revisions(e)' = Revisions(e)
      BY <3>1 DEF Revisions
    <3>3. QED
      BY <1>2, <2>1, <3>1, <3>2 DEF Unchanged, LatestRevision
  <2>2. CASE ~ Unchanged(d, hash, batch)
    <3>1. rows' = rows \union {NewRevision(d, hash, batch)}
      BY <1>2, <2>2
    <3>2. NewRevision(d, hash, batch).date = d
      BY DEF NewRevision
    <3>3. Unchanged(d, hash, batch)' /\ \A e \in Dates : e # d => Revisions(e)' = Revisions(e)
      BY <1>2, <1>4, <1>5, <3>1, StagedIsLatest
    <3>4. QED
      BY <3>1, <3>2, <3>3
  <2>3. QED
    BY <2>1, <2>2
<1>8. ASSUME NEW e \in Dates, job[w].from <= e, e <= job[w].target, e < d + 1
      PROVE  Unchanged(e, job[w].fetched[e], batch)'
  <2>1. CASE e = d
    BY <2>1, <1>1, <1>6, <1>7
  <2>2. CASE e # d
    <3>1. e < d
      BY <1>4, <1>8, <2>2
    <3>2. Unchanged(e, job[w].fetched[e], batch)
      BY <1>1, <1>3, <1>8, <3>1 DEF Delivering
    <3>3. Revisions(e)' = Revisions(e)
      BY <1>7, <2>2
    <3>4. QED
      BY <1>2, <3>2, <3>3 DEF Unchanged, LatestRevision
  <2>3. QED
    BY <2>1, <2>2
<1>9. Delivering(w)'
  <2>1. job[w].from <= job[w].target /\ \A r \in rows' : r.date <= job[w].target
    BY <1>2, <1>3, <1>7 DEF Delivering
  <2>2. pc'[w] # "build"
    BY <1>2
  <2>3. \A e \in Dates : job'[w].from <= e /\ e <= job'[w].target /\ (pc'[w] = "build" \/ e < job'[w].next) =>
          Unchanged(e, job[w].fetched[e], batch)'
    BY <1>6, <1>8, <2>2
  <2>4. QED
    BY <1>1, <1>6, <2>1, <2>2, <2>3 DEF Delivering
<1>10. \A r \in rows' : Published[r.date] <= now'
  BY <1>2, <1>5, <1>7 DEF Fetching
<1>11. QED
  BY <1>2, <1>3, <1>9, <1>10 DEF Fetching, RefreshReturnsFetched

LEMMA FetchingCommit ==
  ASSUME Inv, Fetching, NEW w \in Refreshers, Commit(w)
  PROVE  Fetching'
<1>1. /\ pc[w] = "ingest" /\ job[w].next > job[w].target
      /\ committed' = committed \union {job[w].batch}
      /\ pc' = [pc EXCEPT ![w] = "build"]
      /\ UNCHANGED <<now, rows, result>>
      /\ \E cuts : job' = [job EXCEPT ![w].cutoffs = cuts]
  BY DEF Commit, world
<1>2. /\ Working(w) /\ Delivering(w) /\ job[w] \in Job
      /\ \A v \in Refreshers : v # w => pc'[v] = "idle"
  BY <1>1, Alone DEF Inv, Jobs, TypeOK, Fetching
<1>3. /\ job'[w].target = job[w].target /\ job'[w].fetched = job[w].fetched
      /\ job'[w].from = job[w].from /\ job'[w].batch = job[w].batch /\ pc'[w] = "build"
  BY <1>1, <1>2 DEF Job, Inv, TypeOK
<1>4. \A d \in Dates : d <= job[w].target => d < job[w].next
  BY <1>1, <1>2, StoreAssumption, FS_CardinalityType DEF Working
<1>5. \A d \in Dates : job[w].from <= d /\ d <= job[w].target => Unchanged(d, job[w].fetched[d], job[w].batch)'
  <2>1. \A d : Revisions(d)' = Revisions(d)
    BY <1>1 DEF Revisions
  <2>2. QED
    BY <1>1, <1>2, <1>4, <2>1 DEF Delivering, Unchanged, LatestRevision
<1>6. Delivering(w)'
  BY <1>1, <1>2, <1>3, <1>5 DEF Delivering
<1>7. QED
  BY <1>1, <1>2, <1>6 DEF Fetching, RefreshReturnsFetched

(* With every vintage made, the latest revisions are what is visible and a *)
(* vintage is there for them.                                              *)
LEMMA FetchingFinish ==
  ASSUME Inv, Rebuilding, Fetching, NEW w \in Refreshers, FinishRefresh(w)
  PROVE  Fetching'
<1>1. PICK from, target, fetched :
        from = job[w].from /\ target = job[w].target /\ fetched = job[w].fetched
  OBVIOUS
<1>2. /\ pc[w] = "build" /\ job[w].cutoffs = {}
      /\ Coherent(VisibleVintage(vintages, now), Visible(now))
      /\ result' = [from |-> from, target |-> target, fetched |-> fetched, recipe |-> job[w].recipe,
                    curves |-> Visible(now), series |-> VisibleVintage(vintages, now)]
      /\ pc' = [pc EXCEPT ![w] = "idle"]
      /\ UNCHANGED <<now, rows, committed>>
  BY <1>1 DEF FinishRefresh, world, store
<1>3. /\ Working(w) /\ Delivering(w) /\ now \in Nat
      /\ \A v \in Refreshers : pc'[v] = "idle"
  BY <1>2, Alone, StoreAssumption DEF Inv, Jobs, TypeOK, Times, Fetching
<1>4. ASSUME NEW d \in Dates, from <= d, d <= target
      PROVE  LatestRevision(d) \in Visible(now) /\ LatestRevision(d).hash = fetched[d]
             /\ LatestRevision(d).date = d
  <2>1. /\ Revisions(d) # {} /\ LatestRevision(d).hash = fetched[d]
        /\ LatestRevision(d).batch \in committed
    BY <1>1, <1>2, <1>3, <1>4 DEF Delivering, Unchanged
  <2>2. /\ LatestRevision(d) \in Revisions(d)
        /\ \A q \in Revisions(d) : q.rev <= LatestRevision(d).rev /\ q.at <= LatestRevision(d).at
    BY <2>1, LatestIsLast DEF Inv
  <2>3. LatestRevision(d) \in Readable(now) /\ LatestRevision(d).date = d
    BY <2>1, <2>2 DEF Readable, Revisions, Inv, RevisionsOrdered
  <2>4. ASSUME NEW q \in Readable(now), q.date = d PROVE Supersedes(LatestRevision(d), q)
    <3>1. q \in Revisions(d) /\ q \in Row /\ LatestRevision(d) \in Row
      BY <2>3, <2>4 DEF Readable, Revisions, Inv, TypeOK
    <3>2. QED
      BY <2>2, <3>1 DEF Supersedes, Row
  <2>5. QED
    BY <2>1, <2>3, <2>4 DEF Visible
<1>5. \A r \in Visible(now) : r.date <= target
  BY <1>1, <1>3 DEF Visible, Readable, Delivering
<1>6. VisibleVintage(vintages, now) \in vintages
  <2>1. target \in Dates /\ from <= target /\ target <= target
    BY <1>1, <1>3, StoreAssumption, FS_CardinalityType DEF Working, Delivering
  <2>2. PICK r \in rows : r.batch \in committed /\ r.at <= now
    BY <1>4, <2>1 DEF Visible, Readable
  <2>3. PICK v \in vintages : v.at = r.at
    BY <1>2, <2>2 DEF Rebuilding, Served
  <2>4. QED
    BY <1>3, <2>2, <2>3, VisibleVintageIsLast
<1>7. /\ VisibleVintage(vintages, now) # None
      /\ VisibleVintage(vintages, now).inputs = Visible(now)
  BY <1>2, <1>6, VintageAssumption DEF Inv, TypeOK, Coherent
<1>8. RefreshReturnsFetched'
  <2>1. /\ result'.from = from /\ result'.target = target /\ result'.fetched = fetched
        /\ result'.curves = Visible(now) /\ result'.series = VisibleVintage(vintages, now)
    BY <1>2
  <2>2. QED
    BY <1>4, <1>5, <1>7, <2>1 DEF RefreshReturnsFetched
<1>9. QED
  BY <1>2, <1>3, <1>8 DEF Fetching

LEMMA FetchingNext == Inv /\ Rebuilding /\ Fetching /\ [Next]_vars => Fetching'
<1> SUFFICES ASSUME Inv, Rebuilding, Fetching, [Next]_vars PROVE Fetching'
  OBVIOUS
<1>0. /\ now \in Nat /\ Published \in [Dates -> Nat]
      /\ \A r \in rows : r.date \in Dates
  BY StoreAssumption DEF Inv, TypeOK, Times, Row
<1>1. CASE UNCHANGED <<store, refresh>> /\ now' \in Nat /\ now' >= now
  <2>1. \A r \in rows : Published[r.date] <= now'
    BY <1>0, <1>1 DEF Fetching
  <2>2. QED
    BY <1>1, <2>1
    DEF store, refresh, Fetching, Delivering, Unchanged, LatestRevision, Revisions,
        RefreshReturnsFetched
<1>2. ASSUME NEW w \in Refreshers, NEW t \in Times, BuildVintage(w, t) PROVE Fetching'
  <2>1. /\ UNCHANGED <<now, rows, committed, pc, result>>
        /\ \E cuts : job' = [job EXCEPT ![w].cutoffs = cuts]
    BY <1>2 DEF BuildVintage, world
  <2>2. \A v \in Refreshers :
          /\ job'[v].target = job[v].target /\ job'[v].fetched = job[v].fetched
          /\ job'[v].from = job[v].from /\ job'[v].batch = job[v].batch /\ job'[v].next = job[v].next
    BY <2>1 DEF Job, Inv, TypeOK
  <2>3. QED
    BY <2>1, <2>2
    DEF Fetching, Delivering, Unchanged, LatestRevision, Revisions, RefreshReturnsFetched
<1>3. ASSUME NEW w \in Refreshers, Abort(w) PROVE Fetching'
  <2>1. UNCHANGED <<now, rows, committed, result>> /\ pc' = [pc EXCEPT ![w] = "idle"] /\ pc[w] # "idle"
    BY <1>3 DEF Abort, world, store
  <2>2. \A v \in Refreshers : pc'[v] = "idle"
    BY <2>1, Alone DEF Inv, TypeOK
  <2>3. QED
    BY <2>1, <2>2 DEF Fetching, RefreshReturnsFetched
<1>4. CASE Tick
  BY <1>0, <1>1, <1>4 DEF Tick
<1>5. CASE UNCHANGED <<store, refresh, now>>
  BY <1>0, <1>1, <1>5
<1>6. \/ Tick
      \/ UNCHANGED <<store, refresh, now>>
      \/ \E w \in Refreshers : \/ StartRefresh(w) \/ IngestCurve(w) \/ Commit(w)
                               \/ \E t \in Times : BuildVintage(w, t)
                               \/ FinishRefresh(w) \/ Abort(w)
  BY DEF Next, Correct, ChangeRecipe, ReadCurves, ReadSeries, vars, world
<1>7. QED
  BY <1>2, <1>3, <1>4, <1>5, <1>6, FetchingStart, FetchingIngest, FetchingCommit, FetchingFinish
-----------------------------------------------------------------------------
(* Types of the store, and a refresh runs only while it holds the lock:    *)
(* two refreshes never overlap (refresh.py 37-77).                         *)
THEOREM TypeCorrect == Spec => []TypeOK
<1>1. Inv => TypeOK
  BY DEF Inv
<1>2. QED
  BY InvInit, InvNext, <1>1, PTL DEF Spec

(* Revisions are numbered without gaps and their instants follow their     *)
(* numbers, whatever fails between two refreshes (repositories.py).        *)
THEOREM RevisionsStayOrdered == Spec => []RevisionsOrdered
<1>1. Inv => RevisionsOrdered
  BY DEF Inv
<1>2. QED
  BY InvInit, InvNext, <1>1, PTL DEF Spec

(* No vintage looks ahead of the instant from which it is visible.         *)
THEOREM VintagesAreCausal == Spec => []VintageCausal
<1>1. Inv => VintageCausal
  BY DEF Inv
<1>2. QED
  BY InvInit, InvNext, <1>1, PTL DEF Spec

(* Once no refresh that started before it is still to commit, the rows of  *)
(* an information set are neither taken away nor replaced; a first         *)
(* revision that arrives late may still join it (repositories.py 284-298). *)
THEOREM HistoryIsKept == Spec => HistoryKept
<1>1. Inv /\ [Next]_vars =>
        [\A t \in 0..now :
           (\A w \in Refreshers : pc[w] = "ingest" => t < job[w].since)
             => /\ Visible(t) \subseteq Visible(t)'
                /\ \A r \in Visible(t)' \ Visible(t) : r.rev = 1 /\ r.at = Published[r.date]]_vars
  BY HistoryStep DEF Keeps, Original
<1>2. QED
  BY InvInit, InvNext, <1>1, PTL DEF Spec, HistoryKept

(* A context joins curves and series of one information set                *)
(* (context_builder.py 37-44).                                             *)
THEOREM ContextsAreCoherent == Spec => []ContextCoherent
<1>1. Validated => ContextCoherent
  BY DEF Validated
<1>2. QED
  BY ValidatedInit, ValidatedNext, <1>1, PTL DEF Spec

(* When a rebuild has ended every information set of the past that has a   *)
(* curve has a vintage, and the one readers find is made from its curves,  *)
(* until the next commit.                                                  *)
THEOREM RebuildsAreComplete == Spec => []RebuildComplete
<1>1. Inv /\ Rebuilding => RebuildComplete
  <2> SUFFICES ASSUME Inv, Rebuilding, rebuilt, NEW t \in 0..now, NEW vintage,
                      vintage = VisibleVintage(vintages, t)
               PROVE  IF Visible(t) = {} THEN vintage = None
                      ELSE vintage # None /\ vintage.inputs = Visible(t)
    BY DEF RebuildComplete
  <2>1. t \in Nat
    BY StoreAssumption DEF Inv, TypeOK, Times
  <2>2. Coherent(vintage, Visible(t))
    BY <2>1, ServedIsCoherent DEF Rebuilding
  <2>3. CASE Visible(t) = {}
    <3> SUFFICES ASSUME NEW v \in vintages, v.at <= t PROVE FALSE
      BY <2>3 DEF VisibleVintage
    <3>1. vintage \in vintages
      BY <2>1, VisibleVintageIsLast
    <3>2. vintage # None
      BY <3>1, VintageAssumption DEF Inv, TypeOK
    <3>3. vintage.inputs # {}
      BY <3>1 DEF Inv, VintageCausal
    <3>4. QED
      BY <2>2, <2>3, <3>2, <3>3 DEF Coherent
  <2>4. CASE Visible(t) # {}
    <3>1. PICK r \in rows : r.batch \in committed /\ r.at <= t
      BY <2>4 DEF Visible, Readable
    <3>2. PICK v \in vintages : v.at = r.at
      BY <3>1 DEF Rebuilding, Served
    <3>3. vintage \in vintages
      BY <2>1, <3>1, <3>2, VisibleVintageIsLast
    <3>4. vintage # None
      BY <3>3, VintageAssumption DEF Inv, TypeOK
    <3>5. QED
      BY <2>2, <2>4, <3>4 DEF Coherent
  <2>5. QED
    BY <2>3, <2>4
<1>2. QED
  BY InvInit, InvNext, RebuildingInit, RebuildingNext, <1>1, PTL DEF Spec

(* A refresh that succeeds returns the data it fetched and a series built  *)
(* from them, whatever failed or was corrected before (DESIGN.md 122).     *)
THEOREM RefreshesReturnFetched == Spec => []RefreshReturnsFetched
<1>1. Fetching => RefreshReturnsFetched
  BY DEF Fetching
<1>2. QED
  BY InvInit, InvNext, RebuildingInit, RebuildingNext, FetchingInit, FetchingNext, <1>1, PTL DEF Spec
=============================================================================
