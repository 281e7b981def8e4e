------------------------- MODULE EmailEvents_proofs -------------------------
(* EmailEvents is well typed and implements DeliveryReports, for any set of   *)
(* reports and any retry policy.                                              *)
EXTENDS EmailEvents, TLAPS

\* A job that has not ended has an attempt and a stall left.
Budget ==
  \A d \in Reports : pc[d] \notin Ended =>
    attempts[d] < MaxAttempts /\ stalls[d] <= MaxStalls

\* A handler about to suppress carries the debt of the row it created.
Debt == \A d \in Reports : pc[d] = "suppress" => Owes(d)

Inv == TypeOK /\ Budget /\ Debt

\* A step of report d's job that stays within the policy keeps the invariant.
LEMMA JobPreserves ==
  ASSUME Inv, NEW d \in Reports,
         NEW label \in {"none", "queued"} \cup Running \cup Ended,
         pc' = [pc EXCEPT ![d] = label],
         NEW flag \in BOOLEAN, created' = [created EXCEPT ![d] = flag],
         NEW n \in 0..MaxAttempts, attempts' = [attempts EXCEPT ![d] = n],
         NEW k \in 0..(MaxStalls + 1), stalls' = [stalls EXCEPT ![d] = k],
         label \notin Ended => n < MaxAttempts /\ k <= MaxStalls,
         label = "suppress" => flag /\ d \in Damaging /\ RecipientOf[d] # NoRecipient,
         recorded' \subseteq Reports, suppressed' \subseteq Emails
  PROVE  Inv'
<1> USE QueueAssumption
<1>1. TypeOK'
  BY DEF Inv, TypeOK
<1>2. Budget'
  BY DEF Inv, TypeOK, Budget
<1>3. Debt'
  BY DEF Inv, TypeOK, Debt, Owes, Damaging
<1> QED
  BY <1>1, <1>2, <1>3 DEF Inv

\* A step that leaves the queue alone keeps the invariant.
LEMMA RowsPreserve ==
  ASSUME Inv, UNCHANGED jobVars, recorded' \subseteq Reports, suppressed' \subseteq Emails
  PROVE  Inv'
BY DEF Inv, TypeOK, Budget, Debt, Owes, Damaging, jobVars

LEMMA RetryPreserves ==
  ASSUME Inv, NEW d \in Reports, pc[d] \in Running, Retry(d)
  PROVE  Inv'
<1> DEFINE label == IF attempts[d] + 1 < MaxAttempts THEN "queued" ELSE "failed"
<1>1. attempts[d] < MaxAttempts /\ attempts[d] \in Nat /\ stalls[d] \in 0..MaxStalls
  BY QueueAssumption DEF Inv, Budget, TypeOK, Running, Ended
<1>2. /\ pc' = [pc EXCEPT ![d] = label]
      /\ created' = [created EXCEPT ![d] = FALSE]
      /\ attempts' = [attempts EXCEPT ![d] = attempts[d] + 1]
      /\ stalls' = [stalls EXCEPT ![d] = stalls[d]]
      /\ recorded' \subseteq Reports /\ suppressed' \subseteq Emails
  BY <1>1 DEF Retry, Goto, rowVars, Inv, TypeOK
<1>3. /\ label \in {"none", "queued"} \cup Running \cup Ended
      /\ label # "suppress"
      /\ attempts[d] + 1 \in 0..MaxAttempts /\ stalls[d] \in 0..(MaxStalls + 1)
      /\ label \notin Ended => attempts[d] + 1 < MaxAttempts /\ stalls[d] <= MaxStalls
  BY <1>1, QueueAssumption DEF Ended
<1> HIDE DEF label
<1> QED
  BY <1>2, <1>3, JobPreserves

LEMMA InitInv == Init => Inv
BY QueueAssumption DEF Init, Inv, TypeOK, Budget, Debt, Ended, Running

LEMMA StepInv == Inv /\ [Next]_vars => Inv'
<1> SUFFICES ASSUME Inv, [Next]_vars PROVE Inv'
  OBVIOUS
<1>t. /\ pc \in [Reports -> {"none", "queued"} \cup Running \cup Ended]
      /\ created \in [Reports -> BOOLEAN]
      /\ attempts \in [Reports -> 0..MaxAttempts]
      /\ stalls \in [Reports -> 0..(MaxStalls + 1)]
      /\ recorded \subseteq Reports /\ suppressed \subseteq Emails
  BY DEF Inv, TypeOK
<1>b. \A d \in Reports : pc[d] \notin Ended =>
        attempts[d] < MaxAttempts /\ stalls[d] <= MaxStalls
  BY DEF Inv, Budget
<1>1. ASSUME NEW d \in Reports, Deliver(d) PROVE Inv'
  <2>1. /\ pc' = [pc EXCEPT ![d] = "queued"] /\ created' = [created EXCEPT ![d] = created[d]]
        /\ attempts' = [attempts EXCEPT ![d] = attempts[d]]
        /\ stalls' = [stalls EXCEPT ![d] = stalls[d]]
        /\ recorded' \subseteq Reports /\ suppressed' \subseteq Emails
    BY <1>1, <1>t DEF Deliver, Goto, rowVars
  <2>2. attempts[d] < MaxAttempts /\ stalls[d] <= MaxStalls
    BY <1>1, <1>b DEF Deliver, Ended
  <2>3. "queued" \in {"none", "queued"} \cup Running \cup Ended
    OBVIOUS
  <2> QED
    BY <2>1, <2>2, <2>3, <1>t, JobPreserves
<1>2. ASSUME NEW d \in Reports, Evict(d) PROVE Inv'
  <2>1. /\ pc' = [pc EXCEPT ![d] = "none"] /\ created' = [created EXCEPT ![d] = created[d]]
        /\ attempts' = [attempts EXCEPT ![d] = 0] /\ stalls' = [stalls EXCEPT ![d] = 0]
        /\ recorded' \subseteq Reports /\ suppressed' \subseteq Emails
    BY <1>2, <1>t DEF Evict, Goto, rowVars
  <2>2. /\ 0 \in 0..MaxAttempts /\ 0 \in 0..(MaxStalls + 1) /\ 0 < MaxAttempts
        /\ 0 <= MaxStalls
    BY QueueAssumption
  <2>3. "none" \in {"none", "queued"} \cup Running \cup Ended
    OBVIOUS
  <2> QED
    BY <2>1, <2>2, <2>3, <1>t, JobPreserves
<1>3. ASSUME NEW d \in Reports, Start(d) \/ Classify(d) PROVE Inv'
  <2>1. PICK label \in {"ingest", "completed", "record"} : pc' = [pc EXCEPT ![d] = label]
    BY <1>3 DEF Start, Classify, Goto
  <2>2. /\ created' = [created EXCEPT ![d] = created[d]]
        /\ attempts' = [attempts EXCEPT ![d] = attempts[d]]
        /\ stalls' = [stalls EXCEPT ![d] = stalls[d]]
        /\ recorded' \subseteq Reports /\ suppressed' \subseteq Emails
    BY <1>3, <1>t DEF Start, Classify, rowVars
  <2>3. attempts[d] < MaxAttempts /\ stalls[d] <= MaxStalls
    BY <1>3, <1>b DEF Start, Classify, Ended
  <2>4. label \in {"none", "queued"} \cup Running \cup Ended /\ label # "suppress"
    BY <2>1 DEF Running, Ended
  <2> QED
    BY <2>1, <2>2, <2>3, <2>4, <1>t, JobPreserves
<1>4. ASSUME NEW d \in Reports, Record(d) PROVE Inv'
  <2>1. /\ pc' = [pc EXCEPT ![d] = "readback"]
        /\ created' = [created EXCEPT ![d] = d \notin recorded]
        /\ attempts' = [attempts EXCEPT ![d] = attempts[d]]
        /\ stalls' = [stalls EXCEPT ![d] = stalls[d]]
        /\ recorded' \subseteq Reports /\ suppressed' \subseteq Emails
    BY <1>4, <1>t DEF Record, Goto
  <2>2. attempts[d] < MaxAttempts /\ stalls[d] <= MaxStalls
    BY <1>4, <1>b DEF Record, Ended
  <2>3. "readback" \in {"none", "queued"} \cup Running \cup Ended
    BY DEF Running
  <2>4. (d \notin recorded) \in BOOLEAN
    OBVIOUS
  <2> QED
    BY <2>1, <2>2, <2>3, <2>4, <1>t, JobPreserves
<1>5. ASSUME NEW d \in Reports, ReadBack(d) PROVE Inv'
  <2>1. CASE d \in recorded
    <3>1. PICK label \in {"suppress", "completed"} :
            pc' = [pc EXCEPT ![d] = label] /\ (label = "suppress" => Owes(d))
      BY <1>5, <2>1 DEF ReadBack, Goto
    <3>2. /\ created' = [created EXCEPT ![d] = created[d]]
          /\ attempts' = [attempts EXCEPT ![d] = attempts[d]]
          /\ stalls' = [stalls EXCEPT ![d] = stalls[d]]
          /\ recorded' \subseteq Reports /\ suppressed' \subseteq Emails
      BY <1>5, <2>1, <1>t DEF ReadBack, rowVars
    <3>3. attempts[d] < MaxAttempts /\ stalls[d] <= MaxStalls
      BY <1>5, <1>b DEF ReadBack, Ended
    <3>4. label \in {"none", "queued"} \cup Running \cup Ended
      BY <3>1 DEF Running, Ended
    <3>5. label = "suppress" => created[d] /\ d \in Damaging /\ RecipientOf[d] # NoRecipient
      BY <3>1 DEF Owes
    <3> QED
      BY <3>1, <3>2, <3>3, <3>4, <3>5, <1>t, JobPreserves
  <2>2. CASE d \notin recorded
    BY <1>5, <2>2, RetryPreserves DEF ReadBack, Running
  <2> QED
    BY <2>1, <2>2
<1>6. ASSUME NEW d \in Reports, Suppress(d) PROVE Inv'
  <2>1. /\ pc' = [pc EXCEPT ![d] = "completed"]
        /\ created' = [created EXCEPT ![d] = created[d]]
        /\ attempts' = [attempts EXCEPT ![d] = attempts[d]]
        /\ stalls' = [stalls EXCEPT ![d] = stalls[d]]
        /\ recorded' \subseteq Reports
    BY <1>6, <1>t DEF Suppress, Goto
  <2>2. suppressed' \subseteq Emails
    <3>1. RecipientOf[d] # NoRecipient
      BY <1>6 DEF Suppress, Inv, Debt, Owes
    <3> QED
      BY <1>6, <1>t, <3>1, ReportAssumption DEF Suppress
  <2>3. "completed" \in {"none", "queued"} \cup Running \cup Ended /\ "completed" \in Ended
    BY DEF Ended
  <2> QED
    BY <2>1, <2>2, <2>3, <1>t, JobPreserves
<1>7. ASSUME NEW d \in Reports, TransientError(d) PROVE Inv'
  BY <1>7, RetryPreserves DEF TransientError
<1>8. ASSUME NEW d \in Reports, Crash(d) PROVE Inv'
  <2>1. PICK label \in {"queued", "failed"} :
          /\ pc' = [pc EXCEPT ![d] = label]
          /\ label = "queued" => stalls[d] < MaxStalls
    BY <1>8 DEF Crash, Goto
  <2>2. /\ created' = [created EXCEPT ![d] = FALSE]
        /\ attempts' = [attempts EXCEPT ![d] = attempts[d]]
        /\ stalls' = [stalls EXCEPT ![d] = stalls[d] + 1]
        /\ recorded' \subseteq Reports /\ suppressed' \subseteq Emails
    BY <1>8, <1>t DEF Crash, rowVars
  <2>3. attempts[d] < MaxAttempts /\ stalls[d] \in 0..MaxStalls
    BY <1>8, <1>b, <1>t, QueueAssumption DEF Crash, Running, Ended
  <2>4. /\ stalls[d] + 1 \in 0..(MaxStalls + 1)
        /\ label \notin Ended => stalls[d] + 1 <= MaxStalls
    BY <2>1, <2>3, QueueAssumption DEF Ended
  <2>5. label \in {"none", "queued"} \cup Running \cup Ended /\ label # "suppress"
    BY <2>1 DEF Ended
  <2> QED
    BY <2>1, <2>2, <2>3, <2>4, <2>5, <1>t, JobPreserves
<1>9. ASSUME NEW e \in Emails, Erase(e) PROVE Inv'
  BY <1>9, <1>t, RowsPreserve DEF Erase
<1>10. CASE UNCHANGED vars
  BY <1>10, <1>t, RowsPreserve DEF vars, jobVars, rowVars
<1> QED
  BY <1>1, <1>2, <1>3, <1>4, <1>5, <1>6, <1>7, <1>8, <1>9, <1>10 DEF Next, JobStep

THEOREM InvHolds == Spec => []Inv
BY InitInv, StepInv, PTL DEF Spec

\* A delivery report's job (resend:event) stays within its retry policy and
\* touches known rows only, whatever is redelivered, retried, killed or purged.
THEOREM TypeCorrect == Spec => []TypeOK
<1>1. Inv => TypeOK
  BY DEF Inv
<1> QED
  BY <1>1, InvHolds, PTL
-----------------------------------------------------------------------------
(* Refinement *)

Owed == {d \in Reports : pc[d] \in {"readback", "suppress"} /\ Owes(d)}
promiseVars == <<recorded, Owed, suppressed>>

\* Ending or abandoning an attempt forgets its debt at most.
LEMMA Abandon ==
  ASSUME Inv, NEW d \in Reports, NEW label \in {"none", "queued"} \cup Ended \cup {"ingest", "record"},
         pc' = [pc EXCEPT ![d] = label],
         \A c \in Reports \ {d} : created'[c] = created[c],
         UNCHANGED rowVars
  PROVE  Promise!Forget(d) \/ UNCHANGED promiseVars
<1>1. d \notin Owed'
  BY DEF Inv, TypeOK, Owed, Ended
<1>2. \A c \in Reports \ {d} : c \in Owed' <=> c \in Owed
  BY DEF Inv, TypeOK, Owed, Owes, Damaging
<1>3. Owed' = Owed \ {d}
  BY <1>1, <1>2 DEF Owed
<1>4. CASE d \in Owed
  BY <1>3, <1>4 DEF Promise!Forget, rowVars, Owed
<1>5. CASE d \notin Owed
  BY <1>3, <1>5 DEF rowVars, promiseVars
<1> QED
  BY <1>4, <1>5

LEMMA StepRefines ==
  ASSUME Inv, [Next]_vars PROVE [Promise!Next]_promiseVars
<1>a. \A d \in Reports : Promise!Forget(d) \/ UNCHANGED promiseVars
                           => [Promise!Next]_promiseVars
  BY DEF Promise!Next
<1>1. ASSUME NEW d \in Reports, Deliver(d) \/ Evict(d) \/ Start(d) \/ Classify(d)
      PROVE  [Promise!Next]_promiseVars
  <2>1. PICK label \in {"none", "queued"} \cup Ended \cup {"ingest", "record"} :
          pc' = [pc EXCEPT ![d] = label]
    BY <1>1 DEF Deliver, Evict, Start, Classify, Goto, Ended
  <2>2. created' = created /\ UNCHANGED rowVars
    BY <1>1 DEF Deliver, Evict, Start, Classify
  <2> QED
    BY <1>a, <2>1, <2>2, Abandon
<1>2. ASSUME NEW d \in Reports, Record(d) PROVE [Promise!Next]_promiseVars
  <2>1. d \notin Owed
    BY <1>2 DEF Owed, Record
  <2>2. \A c \in Reports \ {d} : c \in Owed' <=> c \in Owed
    BY <1>2 DEF Inv, TypeOK, Owed, Owes, Damaging, Record, Goto
  <2>3. d \in Owed' <=> d \notin recorded /\ d \in Damaging /\ RecipientOf[d] # NoRecipient
    BY <1>2 DEF Inv, TypeOK, Owed, Owes, Damaging, Record, Goto
  <2>4. CASE d \notin recorded
    <3>1. Owed' = IF d \in Damaging /\ RecipientOf[d] # NoRecipient
                  THEN Owed \cup {d} ELSE Owed
      BY <2>1, <2>2, <2>3, <2>4 DEF Owed
    <3>2. Promise!Record(d)
      BY <1>2, <2>4, <3>1 DEF Promise!Record, Record, Owed
    <3> QED
      BY <3>2 DEF Promise!Next
  <2>5. CASE d \in recorded
    <3>1. Owed' = Owed
      BY <2>1, <2>2, <2>3, <2>5 DEF Owed
    <3> QED
      BY <1>2, <2>5, <3>1 DEF Record, promiseVars
  <2> QED
    BY <2>4, <2>5
<1>3. ASSUME NEW d \in Reports, Retry(d) PROVE [Promise!Next]_promiseVars
  <2>1. PICK label \in {"none", "queued"} \cup Ended \cup {"ingest", "record"} :
          pc' = [pc EXCEPT ![d] = label]
    BY <1>3 DEF Retry, Goto, Ended
  <2>2. (\A c \in Reports \ {d} : created'[c] = created[c]) /\ UNCHANGED rowVars
    BY <1>3 DEF Retry, Inv, TypeOK
  <2> QED
    BY <1>a, <2>1, <2>2, Abandon
<1>4. ASSUME NEW d \in Reports, ReadBack(d) PROVE [Promise!Next]_promiseVars
  <2>1. CASE d \in recorded
    <3>1. created' = created /\ UNCHANGED rowVars
      BY <1>4, <2>1 DEF ReadBack
    <3>2. \A c \in Reports : c \in Owed' <=> c \in Owed
      BY <1>4, <2>1, <3>1 DEF Inv, TypeOK, Owed, Owes, Damaging, ReadBack, Goto
    <3>3. Owed' = Owed
      BY <3>2 DEF Owed
    <3> QED
      BY <3>1, <3>3 DEF promiseVars, rowVars
  <2>2. CASE d \notin recorded
    BY <1>3, <1>4, <2>2 DEF ReadBack
  <2> QED
    BY <2>1, <2>2
<1>5. ASSUME NEW d \in Reports, Suppress(d) PROVE [Promise!Next]_promiseVars
  <2>1. d \in Owed
    BY <1>5 DEF Inv, Debt, Suppress, Owed
  <2>2. d \notin Owed'
    BY <1>5 DEF Inv, TypeOK, Owed, Suppress, Goto
  <2>3. \A c \in Reports \ {d} : c \in Owed' <=> c \in Owed
    BY <1>5 DEF Inv, TypeOK, Owed, Owes, Damaging, Suppress, Goto
  <2>4. Owed' = Owed \ {d}
    BY <2>1, <2>2, <2>3 DEF Owed
  <2>5. Promise!Suppress(d)
    BY <1>5, <2>1, <2>4 DEF Promise!Suppress, Suppress, Owed
  <2> QED
    BY <2>5 DEF Promise!Next
<1>6. ASSUME NEW d \in Reports, TransientError(d) PROVE [Promise!Next]_promiseVars
  BY <1>3, <1>6 DEF TransientError
<1>7. ASSUME NEW d \in Reports, Crash(d) PROVE [Promise!Next]_promiseVars
  <2>1. PICK label \in {"none", "queued"} \cup Ended \cup {"ingest", "record"} :
          pc' = [pc EXCEPT ![d] = label]
    BY <1>7 DEF Crash, Goto, Ended
  <2>2. (\A c \in Reports \ {d} : created'[c] = created[c]) /\ UNCHANGED rowVars
    BY <1>7 DEF Crash, Inv, TypeOK
  <2> QED
    BY <1>a, <2>1, <2>2, Abandon
<1>8. ASSUME NEW e \in Emails, Erase(e) PROVE [Promise!Next]_promiseVars
  <2>1. Owed' = Owed
    BY <1>8 DEF Erase, jobVars, Owed, Owes, Damaging
  <2>2. Promise!Purge(e)
    BY <1>8, <2>1 DEF Promise!Purge, Erase, Owed
  <2> QED
    BY <2>2 DEF Promise!Next
<1>9. CASE UNCHANGED vars
  BY <1>9 DEF vars, jobVars, rowVars, promiseVars, Owed, Owes, Damaging
<1> QED
  BY <1>1, <1>2, <1>4, <1>5, <1>6, <1>7, <1>8, <1>9 DEF Next, JobStep

LEMMA InitRefines == Init => Promise!Init
BY DEF Init, Promise!Init

\* ingestEvent implements the promise of DeliveryReports: whatever is repeated,
\* retried, killed or purged, a report suppresses at most once per time it is
\* recorded, and only if it is damage reported about a known address.
THEOREM PromiseKept == Spec => KeepsPromise
<1>1. Inv /\ [Next]_vars => [Promise!Next]_promiseVars
  BY StepRefines
<1> QED
  BY <1>1, InitRefines, InvHolds, PTL DEF Spec, KeepsPromise, Promise!Spec, promiseVars, Owed
=============================================================================
