------------------------------- MODULE Outbox -------------------------------
(***************************************************************************)
(* The transactional outbox of published analyses, from the commit of an   *)
(* analysis to a consumer.  The outbox table and its four operations, and  *)
(* the consumer, are the code's; the relays that poll it, the broker and   *)
(* the operator who retries failures are not part of it, and are taken at  *)
(* their worst: relays poll independently and crash, a publish that        *)
(* reports an error may have reached the broker, the broker delivers what  *)
(* it accepted any number of times, and the consumer restarts.             *)
(***************************************************************************)
EXTENDS Naturals

CONSTANTS
  Events,  \* event ids
  Relays   \* processes that publish pending events

VARIABLES
  status,    \* fut_event_outbox.status
  todo,      \* the events a relay has polled, with the outcome of publishing
  accepted,  \* events the broker has accepted
  seen,      \* DedupingConsumer._seen
  processed, \* DedupingConsumer.processed: how often each event occurs in it
  consumed   \* history: events processed in any life of the consumer

relaying == <<todo, accepted>>
consumer == <<seen, processed, consumed>>
vars == <<status, relaying, consumer>>

Outcomes == {"none", "polled", "sent", "error"}

Init ==
  /\ status = [e \in Events |-> "absent"]
  /\ todo = [r \in Relays |-> [e \in Events |-> "none"]]
  /\ accepted = {}
  /\ seen = {}
  /\ processed = [e \in Events |-> 0]
  /\ consumed = {}
-----------------------------------------------------------------------------
(* The analysis of e commits, its pending event with it.                   *)
Enqueue(e) ==
  /\ status[e] = "absent"
  /\ status' = [status EXCEPT ![e] = "pending"]
  /\ UNCHANGED <<relaying, consumer>>

Idle(r) == \A e \in Events : todo[r][e] = "none"

(* Mutation: what is handed out is not pending any more.                   *)
Poll_Claims(r) ==
  /\ Idle(r)
  /\ \E e \in Events : status[e] = "pending"
  /\ todo' = [todo EXCEPT ![r] =
                [e \in Events |-> IF status[e] = "pending" THEN "polled" ELSE "none"]]
  /\ status' = [e \in Events |-> IF status[e] = "pending" THEN "published" ELSE status[e]]
  /\ UNCHANGED <<accepted, consumer>>

(* pending(): it hands out the same events to every relay.                 *)
Poll(r) ==
  /\ Idle(r)
  /\ \E e \in Events : status[e] = "pending"
  /\ todo' = [todo EXCEPT ![r] =
                [e \in Events |-> IF status[e] = "pending" THEN "polled" ELSE "none"]]
  /\ UNCHANGED <<status, accepted, consumer>>

Send(r, e) ==
  /\ todo[r][e] = "polled"
  /\ todo' = [todo EXCEPT ![r][e] = "sent"]
  /\ accepted' = accepted \union {e}
  /\ UNCHANGED <<status, consumer>>

SendFails(r, e) ==
  /\ todo[r][e] = "polled"
  /\ todo' = [todo EXCEPT ![r][e] = "error"]
  /\ \E reached \in {{}, {e}} : accepted' = accepted \union reached
  /\ UNCHANGED <<status, consumer>>

MarkPublished(r, e) ==
  /\ todo[r][e] = "sent"
  /\ todo' = [todo EXCEPT ![r][e] = "none"]
  /\ status' = [status EXCEPT ![e] = "published"]
  /\ UNCHANGED <<accepted, consumer>>

(* Whatever the status is: another relay may have published the event.     *)
MarkFailed(r, e) ==
  /\ todo[r][e] = "error"
  /\ todo' = [todo EXCEPT ![r][e] = "none"]
  /\ status' = [status EXCEPT ![e] = "failed"]
  /\ UNCHANGED <<accepted, consumer>>

RelayCrash(r) ==
  /\ ~Idle(r)
  /\ todo' = [todo EXCEPT ![r] = [e \in Events |-> "none"]]
  /\ UNCHANGED <<status, accepted, consumer>>

(* Mutation: failed events are handed out and stay failed.                 *)
RetryFailed_NoReset ==
  /\ \E e \in Events : status[e] = "failed"
  /\ UNCHANGED vars

RetryFailed ==
  /\ \E e \in Events : status[e] = "failed"
  /\ status' = [e \in Events |-> IF status[e] = "failed" THEN "pending" ELSE status[e]]
  /\ UNCHANGED <<relaying, consumer>>
-----------------------------------------------------------------------------
(* Mutation: duplicates are looked for among the events processed last.    *)
Consume_ForgetsOthers(e) ==
  /\ e \in accepted
  /\ IF e \in seen
     THEN UNCHANGED consumer
     ELSE /\ seen' = {e}
          /\ processed' = [processed EXCEPT ![e] = @ + 1]
          /\ consumed' = consumed \union {e}
  /\ UNCHANGED <<status, relaying>>

(* One delivery of an accepted event to DedupingConsumer.consume.          *)
Consume(e) ==
  /\ e \in accepted
  /\ IF e \in seen
     THEN UNCHANGED consumer
     ELSE /\ seen' = seen \union {e}
          /\ processed' = [processed EXCEPT ![e] = @ + 1]
          /\ consumed' = consumed \union {e}
  /\ UNCHANGED <<status, relaying>>

ConsumerRestart ==
  /\ seen # {}
  /\ seen' = {}
  /\ processed' = [e \in Events |-> 0]
  /\ UNCHANGED <<status, relaying, consumed>>
-----------------------------------------------------------------------------
Next ==
  \/ \E e \in Events : Enqueue(e) \/ Consume(e)
  \/ \E r \in Relays :
       \/ Poll(r)
       \/ RelayCrash(r)
       \/ \E e \in Events :
            Send(r, e) \/ SendFails(r, e) \/ MarkPublished(r, e) \/ MarkFailed(r, e)
  \/ RetryFailed
  \/ ConsumerRestart

Spec == Init /\ [][Next]_vars

(* Relays keep polling, an event that is tried again and again gets        *)
(* through, the operator retries failures, the broker delivers.            *)
Fairness ==
  /\ WF_vars(RetryFailed)
  /\ \A r \in Relays :
       /\ SF_vars(Poll(r))
       /\ \A e \in Events :
            SF_vars(Send(r, e)) /\ WF_vars(MarkPublished(r, e)) /\ WF_vars(MarkFailed(r, e))
  /\ \A e \in Events : WF_vars(Consume(e) /\ e \notin consumed)

FairSpec == Spec /\ Fairness
-----------------------------------------------------------------------------
TypeOK ==
  /\ status \in [Events -> {"absent", "pending", "failed", "published"}]
  /\ todo \in [Relays -> [Events -> Outcomes]]
  /\ accepted \subseteq Events
  /\ seen \subseteq Events
  /\ processed \in [Events -> Nat]
  /\ consumed \subseteq Events
  /\ \A e \in Events : processed[e] > 0 <=> e \in seen

(* An event leaves pending and failed only when the broker has it: however *)
(* relays race, crash or fail, what was never accepted is still handed out *)
(* or retried (runbook.md 58-59, outbox.py 28-59).                         *)
NothingStranded == \A e \in Events : status[e] = "published" => e \in accepted

(* Between two restarts the consumer processes an event at most once,      *)
(* although two relays may publish it and the broker repeat it (runbook.md *)
(* 60, events.py 55-62).                                                   *)
ProcessedOnce == \A e \in Events : processed[e] <= 1

(* The event of every committed analysis is consumed at last (DESIGN.md    *)
(* 320: at least once).                                                    *)
AtLeastOnce == \A e \in Events : status[e] # "absent" ~> e \in consumed
=============================================================================
