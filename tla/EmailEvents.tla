----------------------------- MODULE EmailEvents ----------------------------
(* Delivery reports from the email provider: the webhook enqueues one         *)
(* resend:event job per svix-id, and the worker runs ingestEvent, which       *)
(* records the event and then, for a hard bounce or a complaint it recorded   *)
(* first, suppresses the address.  The provider delivers at least once, jobs  *)
(* are retried, workers die, finished jobs leave the queue, and agents are    *)
(* erased with their events.                                                  *)
EXTENDS Integers, FiniteSets

CONSTANTS
  Reports,       \* svix-ids
  Emails, NoRecipient, RecipientOf,
  TypeOf,        \* the report's Resend type, without its "email." prefix
  Permanent,     \* reports whose bounce.type is "Permanent"
  MaxAttempts,   \* RETRY_POLICIES[event].attempts
  MaxStalls,     \* BullMQ maxStalledCount
  Faulty         \* bound: reports whose jobs meet transient errors and crashes

ASSUME ReportAssumption ==
  /\ NoRecipient \notin Emails
  /\ RecipientOf \in [Reports -> Emails \cup {NoRecipient}]
  /\ Permanent \subseteq Reports
ASSUME QueueAssumption ==
  /\ MaxAttempts \in Nat \ {0} /\ MaxStalls \in Nat
  /\ Faulty \subseteq Reports

VARIABLES
  pc,            \* per report: its job's state, or the handler's next statement
  created,       \* per report: what recordOrIgnore returned to this attempt
  attempts, stalls,
  recorded,      \* EmailEvent rows (unique on providerEventId)
  suppressed     \* emails with a SuppressionEntry of these reasons

jobVars == <<pc, created, attempts, stalls>>
rowVars == <<recorded, suppressed>>
vars == <<jobVars, rowVars>>

Running == {"ingest", "record", "readback", "suppress"}
Ended == {"completed", "failed"}

TypeOK ==
  /\ pc \in [Reports -> {"none", "queued"} \cup Running \cup Ended]
  /\ created \in [Reports -> BOOLEAN]
  /\ attempts \in [Reports -> 0..MaxAttempts]
  /\ stalls \in [Reports -> 0..(MaxStalls + 1)]
  /\ recorded \subseteq Reports
  /\ suppressed \subseteq Emails

Init ==
  /\ pc = [d \in Reports |-> "none"]
  /\ created = [d \in Reports |-> FALSE]
  /\ attempts = [d \in Reports |-> 0] /\ stalls = [d \in Reports |-> 0]
  /\ recorded = {} /\ suppressed = {}
-----------------------------------------------------------------------------
Goto(d, label) == pc' = [pc EXCEPT ![d] = label]

\* The webhook enqueues under the svix-id.  A repeated delivery finds the job
\* while it is in the queue or retained, and changes nothing.
Deliver(d) ==
  /\ pc[d] = "none"
  /\ Goto(d, "queued")
  /\ UNCHANGED <<created, attempts, stalls, rowVars>>

\* removeOnComplete / removeOnFail: later jobs push a finished one out, and the
\* jobId is free again.
Evict(d) ==
  /\ pc[d] \in Ended
  /\ Goto(d, "none")
  /\ attempts' = [attempts EXCEPT ![d] = 0] /\ stalls' = [stalls EXCEPT ![d] = 0]
  /\ UNCHANGED <<created, rowVars>>

Start(d) ==
  /\ pc[d] = "queued"
  /\ Goto(d, "ingest")
  /\ UNCHANGED <<created, attempts, stalls, rowVars>>

\* A type without an EmailEventType ends the job at once.
Classify(d) ==
  /\ pc[d] = "ingest"
  /\ Goto(d, IF TypeOf[d] = "sent" THEN "completed" ELSE "record")
  /\ UNCHANGED <<created, attempts, stalls, rowVars>>

\* createMany with skipDuplicates: one row per providerEventId.
Record(d) ==
  /\ pc[d] = "record"
  /\ recorded' = recorded \cup {d}
  /\ created' = [created EXCEPT ![d] = d \notin recorded]
  /\ Goto(d, "readback")
  /\ UNCHANGED <<attempts, stalls, suppressed>>

Damaging == {d \in Reports : \/ TypeOf[d] = "bounced" /\ d \in Permanent
                             \/ TypeOf[d] = "complained"}

Owes(d) == created[d] /\ d \in Damaging /\ RecipientOf[d] # NoRecipient

\* Mutant: one more attempt than the policy has.
Retry_OneMore(d) ==
  /\ attempts' = [attempts EXCEPT ![d] = @ + 1]
  /\ Goto(d, IF attempts[d] < MaxAttempts THEN "queued" ELSE "failed")
  /\ created' = [created EXCEPT ![d] = FALSE]
  /\ UNCHANGED <<stalls, rowVars>>

Retry(d) ==
  /\ attempts' = [attempts EXCEPT ![d] = @ + 1]
  /\ Goto(d, IF attempts[d] + 1 < MaxAttempts THEN "queued" ELSE "failed")
  /\ created' = [created EXCEPT ![d] = FALSE]
  /\ UNCHANGED <<stalls, rowVars>>

\* Mutant: a soft bounce suppresses too.
ReadBack_Soft(d) ==
  /\ pc[d] = "readback"
  /\ IF d \in recorded
     THEN /\ Goto(d, IF created[d] /\ RecipientOf[d] # NoRecipient
                     THEN "suppress" ELSE "completed")
          /\ UNCHANGED <<created, attempts, stalls, rowVars>>
     ELSE Retry(d)

\* findUnique after the insert; a row purged in between makes it throw.  What
\* follows is decided by `created`, the type and the recipient.
ReadBack(d) ==
  /\ pc[d] = "readback"
  /\ IF d \in recorded
     THEN /\ Goto(d, IF Owes(d) THEN "suppress" ELSE "completed")
          /\ UNCHANGED <<created, attempts, stalls, rowVars>>
     ELSE Retry(d)

Suppress(d) ==
  /\ pc[d] = "suppress"
  /\ suppressed' = suppressed \cup {RecipientOf[d]}
  /\ Goto(d, "completed")
  /\ UNCHANGED <<created, attempts, stalls, recorded>>

\* Any await may reject before taking effect; the attempt is then over.
TransientError(d) == d \in Faulty /\ pc[d] \in Running /\ Retry(d)

\* The worker dies: the stalled job is queued again, or fails.
Crash(d) ==
  /\ d \in Faulty /\ pc[d] \in Running
  /\ stalls' = [stalls EXCEPT ![d] = @ + 1]
  /\ Goto(d, IF stalls[d] < MaxStalls THEN "queued" ELSE "failed")
  /\ created' = [created EXCEPT ![d] = FALSE]
  /\ UNCHANGED <<attempts, rowVars>>

\* An agent is erased: the events of its address go in the same transaction.
Erase(e) ==
  /\ recorded' = {d \in recorded : RecipientOf[d] # e}
  /\ UNCHANGED <<jobVars, suppressed>>

JobStep(d) == Start(d) \/ Classify(d) \/ Record(d) \/ ReadBack(d) \/ Suppress(d)

Next ==
  \/ \E d \in Reports : Deliver(d) \/ Evict(d) \/ JobStep(d) \/ TransientError(d) \/ Crash(d)
  \/ \E e \in Emails : Erase(e)

Spec == Init /\ [][Next]_vars
-----------------------------------------------------------------------------
\* However often a report is redelivered, its job re-run or its row purged, the
\* pipeline keeps the promise of DeliveryReports: it suppresses at most once per
\* record, and only for damage.  The attempt that created the row carries the debt.
Promise == INSTANCE DeliveryReports WITH
  owed <- {d \in Reports : pc[d] \in {"readback", "suppress"} /\ Owes(d)}

KeepsPromise == Promise!Spec
=============================================================================
