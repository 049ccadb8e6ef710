---------------------------- MODULE OutboxProofs ----------------------------
(***************************************************************************)
(* Safety of the outbox for every set of events and relays.                *)
(***************************************************************************)
EXTENDS Outbox, TLAPS

(* What a relay has sent, the broker has; and an event is in the memory of *)
(* the consumer exactly when it was processed, once.                       *)
Inv ==
  /\ TypeOK
  /\ \A r \in Relays, e \in Events : todo[r][e] = "sent" => e \in accepted
  /\ NothingStranded
  /\ ProcessedOnce

LEMMA InvInit == Init => Inv
BY DEF Init, Inv, TypeOK, Outcomes, NothingStranded, ProcessedOnce

(* What relays and the operator do to the table.                           *)
LEMMA RelaySteps ==
  ASSUME Inv, NEW r \in Relays,
         \/ Poll(r) \/ RelayCrash(r)
         \/ \E e \in Events : Send(r, e) \/ SendFails(r, e) \/ MarkPublished(r, e) \/ MarkFailed(r, e)
  PROVE  Inv'
<1> USE DEF Inv, TypeOK, NothingStranded, ProcessedOnce, Outcomes, consumer, relaying
<1>1. CASE Poll(r)
  BY <1>1 DEF Poll
<1>2. CASE RelayCrash(r)
  BY <1>2 DEF RelayCrash
<1>3. ASSUME NEW e \in Events, Send(r, e) PROVE Inv'
  BY <1>3 DEF Send
<1>4. ASSUME NEW e \in Events, SendFails(r, e) PROVE Inv'
  BY <1>4 DEF SendFails
<1>5. ASSUME NEW e \in Events, MarkPublished(r, e) PROVE Inv'
  BY <1>5 DEF MarkPublished
<1>6. ASSUME NEW e \in Events, MarkFailed(r, e) PROVE Inv'
  BY <1>6 DEF MarkFailed
<1>7. QED
  BY <1>1, <1>2, <1>3, <1>4, <1>5, <1>6

LEMMA InvNext == Inv /\ [Next]_vars => Inv'
<1> SUFFICES ASSUME Inv, [Next]_vars PROVE Inv'
  OBVIOUS
<1> USE DEF Inv, TypeOK, NothingStranded, ProcessedOnce, consumer, relaying
<1>1. ASSUME NEW e \in Events, Enqueue(e) PROVE Inv'
  BY <1>1 DEF Enqueue
<1>2. ASSUME NEW e \in Events, Consume(e) PROVE Inv'
  <2>1. CASE e \in seen
    BY <1>2, <2>1 DEF Consume
  <2>2. CASE e \notin seen
    <3>1. processed[e] = 0
      BY <2>2
    <3>2. /\ seen' = seen \union {e} /\ consumed' = consumed \union {e}
          /\ processed' = [processed EXCEPT ![e] = 1]
          /\ UNCHANGED <<status, todo, accepted>>
      BY <1>2, <2>2, <3>1 DEF Consume
    <3>3. QED
      BY <1>2, <3>2
  <2>3. QED
    BY <2>1, <2>2
<1>3. CASE \E r \in Relays :
             \/ Poll(r) \/ RelayCrash(r)
             \/ \E e \in Events :
                  Send(r, e) \/ SendFails(r, e) \/ MarkPublished(r, e) \/ MarkFailed(r, e)
  BY <1>3, RelaySteps
<1>4. CASE RetryFailed
  BY <1>4 DEF RetryFailed
<1>5. CASE ConsumerRestart
  BY <1>5 DEF ConsumerRestart
<1>6. CASE UNCHANGED vars
  BY <1>6 DEF vars
<1>7. QED
  BY <1>1, <1>2, <1>3, <1>4, <1>5, <1>6 DEF Next

(* Types of the table, the relays and the consumer.                        *)
THEOREM TypeCorrect == Spec => []TypeOK
<1>1. Inv => TypeOK
  BY DEF Inv
<1>2. QED
  BY InvInit, InvNext, <1>1, PTL DEF Spec

(* What the broker never accepted stays pending or failed (outbox.py       *)
(* 28-59).                                                                 *)
THEOREM NoEventStranded == Spec => []NothingStranded
<1>1. Inv => NothingStranded
  BY DEF Inv
<1>2. QED
  BY InvInit, InvNext, <1>1, PTL DEF Spec

(* A running consumer processes an event at most once (events.py 55-62).   *)
THEOREM EventsProcessedOnce == Spec => []ProcessedOnce
<1>1. Inv => ProcessedOnce
  BY DEF Inv
<1>2. QED
  BY InvInit, InvNext, <1>1, PTL DEF Spec
=============================================================================
