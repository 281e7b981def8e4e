------------------------ MODULE InboundEmail_proofs ------------------------
(* InboundEmail is well typed, honours a STOP first and stays within the      *)
(* day's budget, for any set of emails, agents, failures and retry policy.    *)
EXTENDS InboundEmail, FiniteSetTheorems, TLAPS

Labels == {"none", "queued"} \cup Running \cup Ended
Live == {"queued"} \cup Running
Filing == {"reply", "read", "write", "close"}
Storing == {"store", "handoff"}
Locals == [key : Keys \cup {None}, day : Days, thread : 0..MaxThreads, status : Statuses]
Ready(label, l) ==
  /\ label \in Filing => l.thread \in Threads
  /\ label \in Storing => l.key \in Keys
Threading == [at : {"idle", "find", "create", "read", "write"}, thread : 0..MaxThreads,
              status : Statuses]

\* A job that can still run has an attempt and a stall left, one that stores a
\* listing has its key, and one that writes to a thread has the thread.
JobInv ==
  /\ pc \in [Messages -> Labels]
  /\ attempts \in [Messages -> 0..MaxAttempts]
  /\ stalls \in [Messages -> 0..(MaxStalls + 1)]
  /\ local \in [Messages -> Locals]
  /\ \A m \in Messages : pc[m] \in Live => attempts[m] < MaxAttempts /\ stalls[m] <= MaxStalls
  /\ \A m \in Messages : Ready(pc[m], local[m])

DeliveryInv ==
  deliveries \in [Messages -> Nat] /\ \A m \in Messages : deliveries[m] <= Deliveries[m]

RowInv ==
  /\ infra \subseteq Messages /\ forged \subseteq Messages
  /\ optedOut \subseteq Agents /\ suppressed \subseteq Agents \cup {NoAgent}
  /\ listings \subseteq Keys /\ analysis \subseteq Keys
  /\ source \in [Messages -> Keys \cup {None}]
  /\ replies \subseteq [message : Messages, thread : Threads]
  /\ unlinked \subseteq Messages

ThreadInv ==
  /\ threads \in [Threads -> [agent : Agents \cup {NoAgent}, status : Statuses \cup {"absent"}]]
  /\ nextThread \in 1..(MaxThreads + 1)

SendInv ==
  /\ sending \in [Agents -> Threading] /\ sends \in [Agents -> 0..MaxSends]
  /\ \A a \in Agents : sending[a].at \in {"read", "write"} => sending[a].thread \in Threads

BudgetInv == tokens \in [Days -> 0..DailyCap] /\ day \in Days /\ paid \in [Days -> Nat]

Inv == JobInv /\ DeliveryInv /\ RowInv /\ ThreadInv /\ SendInv /\ BudgetInv

LEMMA InvTypes == Inv => TypeOK
BY DEF Inv, JobInv, DeliveryInv, RowInv, ThreadInv, SendInv, BudgetInv, TypeOK, Labels, Locals,
       Threading

LEMMA FreshLocal == Fresh \in Locals
BY InboundAssumption DEF Fresh, Locals, Days, Statuses
-----------------------------------------------------------------------------
(* The job of one message *)

LEMMA JobStep ==
  ASSUME JobInv, NEW m \in Messages, NEW label \in Labels, NEW l \in Locals,
         NEW n \in 0..MaxAttempts, NEW k \in 0..(MaxStalls + 1),
         pc' = [pc EXCEPT ![m] = label], local' = [local EXCEPT ![m] = l],
         attempts' = [attempts EXCEPT ![m] = n], stalls' = [stalls EXCEPT ![m] = k],
         label \in Live => n < MaxAttempts /\ k <= MaxStalls,
         Ready(label, l)
  PROVE  JobInv'
BY InboundAssumption DEF JobInv

LEMMA Advance ==
  ASSUME JobInv, NEW m \in Messages, pc[m] \in Live, NEW label \in Running \cup Ended,
         NEW l \in Locals, Goto(m, label), Attempt(m), local' = [local EXCEPT ![m] = l],
         Ready(label, l)
  PROVE  JobInv'
<1>1. /\ attempts[m] \in 0..MaxAttempts /\ stalls[m] \in 0..(MaxStalls + 1)
      /\ attempts[m] < MaxAttempts /\ stalls[m] <= MaxStalls
  BY DEF JobInv
<1>2. /\ attempts' = [attempts EXCEPT ![m] = attempts[m]]
      /\ stalls' = [stalls EXCEPT ![m] = stalls[m]]
      /\ pc' = [pc EXCEPT ![m] = label] /\ label \in Labels
  BY DEF JobInv, Attempt, Goto, Labels
<1> QED
  BY <1>1, <1>2, JobStep

LEMMA StepToKeeps ==
  ASSUME JobInv, NEW m \in Messages, pc[m] \in Live, NEW label \in Running \cup Ended,
         StepTo(m, label), Ready(label, local[m])
  PROVE  JobInv'
<1>1. local[m] \in Locals /\ local' = [local EXCEPT ![m] = local[m]]
  BY DEF JobInv, StepTo
<1> QED
  BY <1>1, Advance DEF StepTo

LEMMA CompleteKeeps ==
  ASSUME JobInv, NEW m \in Messages, pc[m] \in Live, Complete(m) \/ Drop(m)
  PROVE  JobInv'
<1>1. PICK label \in Ended : Goto(m, label)
  BY DEF Complete, Drop, Ended
<1>2. Attempt(m) /\ local' = [local EXCEPT ![m] = Fresh] /\ Ready(label, Fresh)
  BY DEF Complete, Drop, Ended, Filing, Storing, Ready
<1> QED
  BY <1>1, <1>2, FreshLocal, Advance

LEMMA ToLinkKeeps ==
  ASSUME JobInv, NEW m \in Messages, pc[m] \in Live, ToLink(m)
  PROVE  JobInv'
<1>1. CASE StepTo(m, "thread")
  BY <1>1, StepToKeeps DEF Running, Linking, Filing, Storing, Ready
<1>2. CASE Complete(m)
  BY <1>2, CompleteKeeps
<1> QED
  BY <1>1, <1>2 DEF ToLink

LEMMA ToIngestKeeps ==
  ASSUME JobInv, NEW m \in Messages, pc[m] \in Live, ToIngest(m)
  PROVE  JobInv'
<1>1. CASE StepTo(m, "charge")
  BY <1>1, StepToKeeps DEF Running, Ingesting, Filing, Storing, Ready
<1> QED
  BY <1>1, ToLinkKeeps DEF ToIngest

LEMMA RetryKeeps ==
  ASSUME JobInv, NEW m \in Messages, pc[m] \in Live, Retry(m)
  PROVE  JobInv'
<1> DEFINE label == IF attempts[m] + 1 < MaxAttempts THEN "queued" ELSE "failed"
<1>1. /\ attempts[m] \in Nat /\ attempts[m] < MaxAttempts
      /\ stalls[m] \in 0..(MaxStalls + 1) /\ stalls[m] <= MaxStalls
  BY InboundAssumption DEF JobInv
<1>2. /\ pc' = [pc EXCEPT ![m] = label] /\ local' = [local EXCEPT ![m] = Fresh]
      /\ attempts' = [attempts EXCEPT ![m] = attempts[m] + 1]
      /\ stalls' = [stalls EXCEPT ![m] = stalls[m]]
  BY DEF Retry, Goto, JobInv
<1>3. /\ label \in Labels /\ Ready(label, Fresh) /\ attempts[m] + 1 \in 0..MaxAttempts
      /\ label \in Live => attempts[m] + 1 < MaxAttempts
  BY <1>1, InboundAssumption DEF Labels, Live, Filing, Storing, Ready, Running, Ingesting, Linking, Ended
<1> HIDE DEF label
<1> QED
  BY <1>1, <1>2, <1>3, FreshLocal, JobStep

LEMMA CrashKeeps ==
  ASSUME JobInv, NEW m \in Messages, Crash(m)
  PROVE  JobInv'
<1> DEFINE label == IF stalls[m] < MaxStalls THEN "queued" ELSE "failed"
<1>1. /\ attempts[m] \in 0..MaxAttempts /\ attempts[m] < MaxAttempts
      /\ stalls[m] \in Nat /\ stalls[m] <= MaxStalls
  BY InboundAssumption DEF JobInv, Crash, Live
<1>2. /\ pc' = [pc EXCEPT ![m] = label] /\ local' = [local EXCEPT ![m] = Fresh]
      /\ attempts' = [attempts EXCEPT ![m] = attempts[m]]
      /\ stalls' = [stalls EXCEPT ![m] = stalls[m] + 1]
  BY DEF Crash, Goto, JobInv
<1>3. /\ label \in Labels /\ Ready(label, Fresh) /\ stalls[m] + 1 \in 0..(MaxStalls + 1)
      /\ label \in Live => stalls[m] + 1 <= MaxStalls
  BY <1>1, InboundAssumption DEF Labels, Live, Filing, Storing, Ready, Running, Ingesting, Linking, Ended
<1> HIDE DEF label
<1> QED
  BY <1>1, <1>2, <1>3, FreshLocal, JobStep

LEMMA DeliverKeeps ==
  ASSUME JobInv, DeliveryInv, NEW m \in Messages, Deliver(m)
  PROVE  JobInv' /\ DeliveryInv'
<1>1. DeliveryInv'
  <2>1. deliveries[m] \in Nat /\ Deliveries[m] \in Nat /\ deliveries[m] < Deliveries[m]
    <3>1. deliveries[m] < Deliveries[m]
      BY DEF Deliver
    <3> QED
      BY <3>1, InboundAssumption DEF DeliveryInv
  <2>2. deliveries' = [deliveries EXCEPT ![m] = deliveries[m] + 1]
    BY DEF Deliver
  <2>3. deliveries' \in [Messages -> Nat]
    BY <2>1, <2>2 DEF DeliveryInv
  <2>4. ASSUME NEW q \in Messages PROVE deliveries'[q] <= Deliveries[q]
    BY <2>1, <2>2 DEF DeliveryInv
  <2> QED
    BY <2>3, <2>4 DEF DeliveryInv
<1>2. CASE pc[m] = "none"
  <2>1. /\ pc' = [pc EXCEPT ![m] = "queued"] /\ local' = [local EXCEPT ![m] = local[m]]
        /\ attempts' = [attempts EXCEPT ![m] = 0] /\ stalls' = [stalls EXCEPT ![m] = 0]
    BY <1>2 DEF Deliver, Goto, JobInv
  <2>2. local[m] \in Locals
    BY DEF JobInv
  <2>3. "queued" \in Labels /\ Ready("queued", local[m])
    BY DEF Labels, Filing, Storing, Ready
  <2>4. /\ 0 \in 0..MaxAttempts /\ 0 \in 0..(MaxStalls + 1)
        /\ 0 < MaxAttempts /\ 0 <= MaxStalls
    BY InboundAssumption
  <2> QED
    BY ONLY <1>1, <2>1, <2>2, <2>3, <2>4, JobInv, JobStep
<1>3. CASE pc[m] # "none"
  BY <1>1, <1>3 DEF Deliver, JobInv
<1> QED
  BY <1>2, <1>3

LEMMA EvictKeeps ==
  ASSUME JobInv, NEW m \in Messages, Evict(m)
  PROVE  JobInv'
<1>1. /\ pc' = [pc EXCEPT ![m] = "none"] /\ local' = [local EXCEPT ![m] = local[m]]
      /\ attempts' = [attempts EXCEPT ![m] = attempts[m]]
      /\ stalls' = [stalls EXCEPT ![m] = stalls[m]]
      /\ local[m] \in Locals /\ attempts[m] \in 0..MaxAttempts
      /\ stalls[m] \in 0..(MaxStalls + 1)
  BY DEF Evict, StepTo, Goto, Attempt, JobInv
<1>2. "none" \in Labels /\ "none" \notin Live /\ Ready("none", local[m])
  BY DEF Labels, Live, Filing, Storing, Ready, Running, Ingesting, Linking
<1> QED
  BY <1>1, <1>2, JobStep

\* What a step may put in the memory of the running attempt.
LEMMA LocalFields ==
  ASSUME NEW l \in Locals
  PROVE  /\ \A k \in Keys \cup {None} :
              [l EXCEPT !.key = k] \in Locals /\ [l EXCEPT !.key = k].thread = l.thread
         /\ \A d \in Days :
              [l EXCEPT !.day = d] \in Locals /\ [l EXCEPT !.day = d].thread = l.thread
         /\ \A t \in 0..MaxThreads :
              [l EXCEPT !.thread = t] \in Locals /\ [l EXCEPT !.thread = t].thread = t
         /\ \A s \in Statuses :
              [l EXCEPT !.status = s] \in Locals /\ [l EXCEPT !.status = s].thread = l.thread
BY DEF Locals

LEMMA IngestKeeps ==
  ASSUME Inv, NEW m \in Messages,
         \/ Start(m) \/ Gate(m) \/ Suppress(m) \/ MarkOptedOut(m)
         \/ Charge(m) \/ Extract(m) \/ Store(m) \/ HandOff(m)
  PROVE  JobInv'
<1>1. JobInv /\ local[m] \in Locals /\ day \in Days /\ m \in Keys
  BY DEF Inv, JobInv, BudgetInv, Keys
<1>2. CASE Start(m)
  BY <1>1, <1>2, StepToKeeps DEF Start, Live, Running, Ingesting, Filing, Storing, Ready
<1>3. CASE Gate(m)
  <2>1. pc[m] \in Live
    BY <1>3 DEF Gate, Live, Running, Ingesting
  <2>2. CASE Complete(m)
    BY <1>1, <2>1, <2>2, CompleteKeeps
  <2>3. CASE StepTo(m, "suppress")
    BY <1>1, <2>1, <2>3, StepToKeeps DEF Running, Ingesting, Filing, Storing, Ready
  <2>4. CASE ToIngest(m)
    BY <1>1, <2>1, <2>4, ToIngestKeeps
  <2> QED
    BY <1>3, <2>2, <2>3, <2>4 DEF Gate
<1>4. CASE Suppress(m)
  BY <1>1, <1>4, StepToKeeps DEF Suppress, Live, Running, Ingesting, Filing, Storing, Ready
<1>5. CASE MarkOptedOut(m)
  BY <1>1, <1>5, ToIngestKeeps DEF MarkOptedOut, Live, Running, Ingesting
<1>6. CASE Charge(m)
  <2>1. pc[m] \in Live
    BY <1>6 DEF Charge, Live, Running, Ingesting
  <2>2. CASE Drop(m)
    BY <1>1, <2>1, <2>2, CompleteKeeps
  <2>3. CASE Goto(m, "extract") /\ Attempt(m) /\ local' = [local EXCEPT ![m].day = day]
    <3>1. [local[m] EXCEPT !.day = day] \in Locals
      BY <1>1, LocalFields
    <3>2. "extract" \in Running /\ Ready("extract", [local[m] EXCEPT !.day = day])
      BY DEF Running, Ingesting, Filing, Storing, Ready
    <3> QED
      BY <1>1, <2>1, <2>3, <3>1, <3>2, Advance
  <2> QED
    BY <1>6, <2>2, <2>3 DEF Charge
<1>7. CASE Extract(m)
  <2>1. PICK a \in Readings[m] :
          local' = [local EXCEPT ![m].key = IF a = NoAddress THEN m ELSE a]
    BY <1>7 DEF Extract
  <2>2. (IF a = NoAddress THEN m ELSE a) \in Keys \cup {None}
    BY <1>1, InboundAssumption DEF Keys
  <2> DEFINE l == [local[m] EXCEPT !.key = IF a = NoAddress THEN m ELSE a]
  <2>3. l \in Locals /\ l.key \in Keys
    BY <1>1, <2>2, InboundAssumption, LocalFields DEF Locals, Keys
  <2>4. /\ pc[m] \in Live /\ Goto(m, "store") /\ Attempt(m)
        /\ "store" \in Running /\ Ready("store", l)
    BY <1>7, <2>3 DEF Extract, Live, Running, Ingesting, Filing, Storing, Ready
  <2>5. local' = [local EXCEPT ![m] = l]
    BY <2>1
  <2> HIDE DEF l
  <2> QED
    BY <1>1, <2>3, <2>4, <2>5, Advance
<1>8. CASE Store(m)
  <2>1. pc[m] \in Live /\ StepTo(m, "handoff") /\ Ready("handoff", local[m])
    BY <1>1, <1>8 DEF Store, JobInv, Live, Running, Ingesting, Filing, Storing, Ready
  <2> QED
    BY <1>1, <2>1, StepToKeeps DEF Running, Ingesting
<1>9. CASE HandOff(m)
  BY <1>1, <1>9, ToLinkKeeps DEF HandOff, Live, Running, Ingesting
<1> QED
  BY <1>2, <1>3, <1>4, <1>5, <1>6, <1>7, <1>8, <1>9

LEMMA LinkKeeps ==
  ASSUME Inv, NEW m \in Messages,
         \/ FindThread(m) \/ CreateThread(m) \/ StoreReply(m)
         \/ ReadStatus(m) \/ WriteStatus(m) \/ CloseThreads(m)
  PROVE  JobInv'
<1>1. /\ JobInv /\ local[m] \in Locals
      /\ pc[m] \in Live /\ Ready(pc[m], local[m])
  BY DEF Inv, JobInv, FindThread, CreateThread, StoreReply, ReadStatus, WriteStatus,
         CloseThreads, Live, Running, Linking
<1>2. /\ {"create", "reply", "read", "write", "close"} \subseteq Running
      /\ Ready("create", local[m]) /\ Threads \subseteq 0..MaxThreads
      /\ \A l \in Locals, label \in Filing : l.thread \in Threads => Ready(label, l)
      /\ {"reply", "read", "write"} \subseteq Filing
  BY DEF Running, Linking, Filing, Storing, Ready, Threads
<1>3. ASSUME NEW t \in Threads, Goto(m, "reply"), Attempt(m),
             local' = [local EXCEPT ![m].thread = t]
      PROVE  JobInv'
  <2>1. [local[m] EXCEPT !.thread = t] \in Locals /\ [local[m] EXCEPT !.thread = t].thread = t
    BY <1>1, <1>2, LocalFields
  <2>2. local' = [local EXCEPT ![m] = [local[m] EXCEPT !.thread = t]]
    BY <1>3
  <2> QED
    BY <1>1, <1>2, <1>3, <2>1, <2>2, Advance
<1>4. CASE FindThread(m)
  <2>1. CASE StepTo(m, "create")
    BY <1>1, <1>2, <2>1, StepToKeeps
  <2>2. CASE \E t \in NewestOpen(SenderOf[m]) :
               /\ Goto(m, "reply") /\ Attempt(m)
               /\ local' = [local EXCEPT ![m].thread = t]
    BY <1>3, <2>2 DEF NewestOpen, OpenThreads
  <2> QED
    BY <1>4, <2>1, <2>2 DEF FindThread
<1>5. CASE CreateThread(m)
  BY <1>3, <1>5 DEF CreateThread, createThread
<1>6. CASE StoreReply(m)
  BY <1>1, <1>2, <1>6, StepToKeeps DEF StoreReply, Filing, Storing, Ready
<1>7. CASE ReadStatus(m)
  <2>1. PICK s \in Statuses : local' = [local EXCEPT ![m].status = s]
    BY <1>7 DEF ReadStatus
  <2>2. /\ [local[m] EXCEPT !.status = s] \in Locals
        /\ [local[m] EXCEPT !.status = s].thread = local[m].thread
    BY <1>1, LocalFields
  <2>3. local' = [local EXCEPT ![m] = [local[m] EXCEPT !.status = s]]
    BY <2>1
  <2>4. Goto(m, "write") /\ Attempt(m) /\ local[m].thread \in Threads
    BY <1>1, <1>7 DEF ReadStatus, Filing, Storing, Ready
  <2> QED
    BY <1>1, <1>2, <2>2, <2>3, <2>4, Advance
<1>8. CASE WriteStatus(m)
  <2>1. CASE StepTo(m, "close")
    BY <1>1, <1>2, <1>8, <2>1, StepToKeeps DEF WriteStatus, Filing, Storing, Ready
  <2>2. CASE Complete(m)
    BY <1>1, <2>2, CompleteKeeps
  <2> QED
    BY <1>8, <2>1, <2>2 DEF WriteStatus
<1>9. CASE CloseThreads(m)
  BY <1>1, <1>9, CompleteKeeps DEF CloseThreads
<1> QED
  BY <1>4, <1>5, <1>6, <1>7, <1>8, <1>9

LEMMA FaultKeeps ==
  ASSUME Inv, NEW m \in Messages, Fault(m)
  PROVE  JobInv'
<1>1. JobInv
  BY DEF Inv
<1>2. CASE TransientError(m)
  BY <1>1, <1>2, RetryKeeps DEF TransientError, Live, Running
<1>3. CASE Crash(m)
  BY <1>1, <1>3, CrashKeeps
<1>4. CASE ExtractFails(m)
  <2>1. pc[m] \in Live
    BY <1>4 DEF ExtractFails, Live, Running, Ingesting
  <2> QED
    BY <1>1, <1>4, <2>1, RetryKeeps, CompleteKeeps DEF ExtractFails
<1>5. CASE LinkFails(m)
  BY <1>1, <1>5, CompleteKeeps DEF LinkFails, Live, Running
<1> QED
  BY <1>2, <1>3, <1>4, <1>5 DEF Fault
-----------------------------------------------------------------------------
(* The rows, the threads, the sends and the budget *)

JobAction(m) == Deliver(m) \/ Evict(m) \/ Work(m) \/ Fault(m)

LEMMA RowKeeps ==
  ASSUME Inv, NEW m \in Messages, JobAction(m)
  PROVE  RowInv'
<1>1. /\ RowInv /\ JobInv /\ SenderOf[m] \in Agents \cup {NoAgent}
      /\ Ready(pc[m], local[m])
  BY InboundAssumption DEF Inv, JobInv
<1>2. UNCHANGED mail
  BY DEF JobAction, Deliver, Evict, Work, Fault, Start, Gate, Suppress, MarkOptedOut, Charge, Extract,
         Store, HandOff, FindThread, CreateThread, StoreReply, ReadStatus, WriteStatus,
         CloseThreads, TransientError, Crash, ExtractFails, LinkFails, Elsewhere
<1>3. CASE Suppress(m)
  BY <1>1, <1>2, <1>3 DEF RowInv, Suppress, listingVars, mail
<1>4. CASE MarkOptedOut(m)
  BY <1>1, <1>2, <1>4 DEF RowInv, MarkOptedOut, listingVars, mail
<1>5. CASE Store(m)
  <2>1. local[m].key \in Keys
    BY <1>1, <1>5 DEF Store, Ready, Storing
  <2>2. listings' = listings \cup {local[m].key} /\ source' = [source EXCEPT ![m] = local[m].key]
    BY <1>5 DEF Store
  <2>3. UNCHANGED <<analysis, stopVars, replies, unlinked>>
    BY <1>5 DEF Store
  <2> QED
    BY <1>1, <1>2, <2>1, <2>2, <2>3 DEF RowInv, stopVars, mail
<1>6. CASE HandOff(m)
  <2>1. local[m].key \in Keys
    BY <1>1, <1>6 DEF HandOff, Ready, Storing
  <2> QED
    BY <1>1, <1>2, <1>6, <2>1 DEF RowInv, HandOff, stopVars, mail
<1>7. CASE StoreReply(m)
  <2>1. local[m].thread \in Threads
    BY <1>1, <1>7 DEF StoreReply, Ready, Filing
  <2>2. replies' \subseteq replies \cup {[message |-> m, thread |-> local[m].thread]}
    BY <1>7 DEF StoreReply
  <2> QED
    BY <1>1, <1>2, <1>7, <2>1, <2>2 DEF RowInv, StoreReply, stopVars, listingVars, mail
<1>8. CASE LinkFails(m)
  BY <1>1, <1>2, <1>8 DEF RowInv, LinkFails, stopVars, listingVars, mail
<1>9. CASE UNCHANGED <<stopVars, listingVars, replies, unlinked>>
  BY <1>1, <1>2, <1>9 DEF RowInv, stopVars, listingVars, mail
<1> QED
  BY <1>3, <1>4, <1>5, <1>6, <1>7, <1>8, <1>9
  DEF JobAction, Deliver, Evict, Work, Fault, Start, Gate, Charge, Extract, FindThread, CreateThread,
      ReadStatus, WriteStatus, CloseThreads, TransientError, Crash, ExtractFails

\* Writing a reduced status leaves a row a row.
LEMMA ReducedRow ==
  ASSUME NEW row \in [agent : Agents \cup {NoAgent}, status : Statuses \cup {"absent"}],
         NEW read \in Statuses, NEW event \in {"outbound_sent", "inbound_reply"}
  PROVE  Reduced(row, read, event)
           \in [agent : Agents \cup {NoAgent}, status : Statuses \cup {"absent"}]
BY DEF Reduced, advanceThreadStatus, Statuses

Rows == [agent : Agents \cup {NoAgent}, status : Statuses \cup {"absent"}]

LEMMA CreateKeeps ==
  ASSUME ThreadInv, NEW a \in Agents \cup {NoAgent}, createThread(a)
  PROVE  ThreadInv' /\ nextThread \in Threads
<1>1. /\ nextThread \in Threads /\ nextThread' = nextThread + 1
      /\ threads' = [threads EXCEPT ![nextThread] = [agent |-> a, status |-> "active"]]
  BY DEF createThread
<1>2. [agent |-> a, status |-> "active"] \in Rows
  BY DEF Rows, Statuses
<1>3. threads' \in [Threads -> Rows]
  BY <1>1, <1>2 DEF ThreadInv, Rows
<1>4. nextThread' \in 1..(MaxThreads + 1)
  BY <1>1, InboundAssumption DEF Threads
<1> QED
  BY <1>1, <1>3, <1>4 DEF ThreadInv, Rows

LEMMA WriteKeeps ==
  ASSUME ThreadInv, NEW t \in Threads, NEW read \in Statuses,
         NEW event \in {"outbound_sent", "inbound_reply"}, UNCHANGED nextThread,
         threads' = [threads EXCEPT ![t] = Reduced(@, read, event)]
  PROVE  ThreadInv'
<1>1. Reduced(threads[t], read, event) \in Rows
  BY ReducedRow DEF ThreadInv, Rows
<1> QED
  BY <1>1 DEF ThreadInv, Rows

LEMMA ThreadKeeps ==
  ASSUME Inv, NEW m \in Messages, JobAction(m)
  PROVE  ThreadInv'
<1>1. ThreadInv /\ local[m] \in Locals /\ Ready(pc[m], local[m])
  BY DEF Inv, JobInv
<1>2. CASE CreateThread(m)
  <2>1. SenderOf[m] \in Agents \cup {NoAgent}
    BY InboundAssumption
  <2> QED
    BY <1>1, <1>2, <2>1, CreateKeeps DEF CreateThread
<1>3. CASE WriteStatus(m)
  <2>1. local[m].thread \in Threads /\ local[m].status \in Statuses
    BY <1>1, <1>3 DEF WriteStatus, Ready, Filing, Locals
  <2> QED
    BY <1>1, <1>3, <2>1, WriteKeeps DEF WriteStatus
<1>4. CASE CloseThreads(m)
  <2>1. \A t \in Threads : [threads[t] EXCEPT !.status = "closed"] \in Rows /\ threads[t] \in Rows
    BY <1>1 DEF ThreadInv, Rows, Statuses
  <2>2. threads' \in [Threads -> Rows] /\ UNCHANGED nextThread
    BY <1>4, <2>1 DEF CloseThreads
  <2> QED
    BY <1>1, <2>2 DEF ThreadInv, Rows
<1>5. CASE UNCHANGED threadVars
  BY <1>1, <1>5 DEF ThreadInv, threadVars
<1> QED
  BY <1>2, <1>3, <1>4, <1>5
  DEF JobAction, Deliver, Evict, Work, Fault, Start, Gate, Suppress, MarkOptedOut, Charge, Extract, Store,
      HandOff, FindThread, StoreReply, ReadStatus, TransientError, Crash, ExtractFails, LinkFails

LEMMA BudgetKeeps ==
  ASSUME Inv, NEW m \in Messages, JobAction(m)
  PROVE  BudgetInv' /\ UNCHANGED day
<1>1. BudgetInv /\ local[m].day \in Days
  BY DEF Inv, JobInv, Locals
<1>2. CASE Charge(m)
  <2>1. CASE tokens[day] < DailyCap
    <3>1. tokens[day] \in 0..DailyCap /\ tokens[day] + 1 \in 0..DailyCap
      BY <1>1, <2>1, InboundAssumption DEF BudgetInv
    <3>2. tokens' = [tokens EXCEPT ![day] = tokens[day] + 1] /\ UNCHANGED <<day, paid>>
      BY <1>2, <2>1 DEF Charge
    <3> QED
      BY <1>1, <3>1, <3>2 DEF BudgetInv
  <2>2. CASE UNCHANGED tokens
    BY <1>1, <1>2, <2>2 DEF Charge, BudgetInv
  <2> QED
    BY <1>2, <2>1, <2>2 DEF Charge
<1>3. CASE Extract(m) \/ ExtractFails(m)
  <2>1. /\ paid' = [paid EXCEPT ![local[m].day] = paid[local[m].day] + 1]
        /\ UNCHANGED <<tokens, day>>
    BY <1>3 DEF Extract, ExtractFails
  <2>2. paid[local[m].day] + 1 \in Nat
    BY <1>1 DEF BudgetInv
  <2> QED
    BY <1>1, <2>1, <2>2 DEF BudgetInv
<1>4. CASE UNCHANGED budgetVars
  BY <1>1, <1>4 DEF BudgetInv, budgetVars
<1> QED
  BY <1>2, <1>3, <1>4
  DEF JobAction, Deliver, Evict, Work, Fault, Start, Gate, Suppress, MarkOptedOut, Store, HandOff,
      FindThread, CreateThread, StoreReply, ReadStatus, WriteStatus, CloseThreads,
      TransientError, Crash, LinkFails, Elsewhere, budgetVars
-----------------------------------------------------------------------------
(* The send path *)

LEMMA ThreadingFields ==
  ASSUME NEW r \in Threading
  PROVE  /\ \A p \in {"idle", "find", "create", "read", "write"} :
              [r EXCEPT !.at = p] \in Threading
         /\ \A t \in 0..MaxThreads :
              /\ [r EXCEPT !.at = "read", !.thread = t] \in Threading
              /\ [r EXCEPT !.at = "read", !.thread = t].thread = t
         /\ \A s \in Statuses :
              /\ [r EXCEPT !.at = "write", !.status = s] \in Threading
              /\ [r EXCEPT !.at = "write", !.status = s].thread = r.thread
BY DEF Threading

LEMMA SendStep ==
  ASSUME SendInv, NEW a \in Agents, NEW r \in Threading,
         sending' = [sending EXCEPT ![a] = r], sends' \in [Agents -> 0..MaxSends],
         r.at \in {"read", "write"} => r.thread \in Threads
  PROVE  SendInv'
BY DEF SendInv

SendAction(a) ==
  Send(a) \/ SendFinds(a) \/ SendCreates(a) \/ SendReads(a) \/ SendWrites(a)

LEMMA SendKeeps ==
  ASSUME Inv, NEW a \in Agents, SendAction(a)
  PROVE  SendInv' /\ ThreadInv'
<1>1. /\ SendInv /\ ThreadInv /\ sending[a] \in Threading /\ sends \in [Agents -> 0..MaxSends]
      /\ sending[a].at \in {"read", "write"} => sending[a].thread \in Threads
  BY DEF Inv, SendInv
<1>2. Resting \in Threading /\ Threads \subseteq 0..MaxThreads /\ Resting.at = "idle"
  BY InboundAssumption DEF Resting, Threading, Statuses, Threads
<1>3. CASE Send(a)
  <2>1. sends' \in [Agents -> 0..MaxSends]
    <3>1. sends[a] < MaxSends /\ sends' = [sends EXCEPT ![a] = sends[a] + 1]
      BY <1>3 DEF Send
    <3>2. sends[a] + 1 \in 0..MaxSends
      BY <1>1, <3>1, InboundAssumption
    <3> QED
      BY <1>1, <3>1, <3>2
  <2>2. ThreadInv'
    BY <1>1, <1>3 DEF Send, ThreadInv, threadVars
  <2>3. CASE sending' = [sending EXCEPT ![a] = [Resting EXCEPT !.at = "find"]]
    <3>1. [Resting EXCEPT !.at = "find"] \in Threading /\ [Resting EXCEPT !.at = "find"].at = "find"
      BY <1>2 DEF Threading
    <3> QED
      BY <1>1, <2>1, <2>2, <2>3, <3>1, SendStep
  <2>4. CASE \E t \in Threads :
               sending' = [sending EXCEPT ![a] = [Resting EXCEPT !.at = "read", !.thread = t]]
    <3>1. PICK t \in Threads :
            sending' = [sending EXCEPT ![a] = [Resting EXCEPT !.at = "read", !.thread = t]]
      BY <2>4
    <3>2. /\ [Resting EXCEPT !.at = "read", !.thread = t] \in Threading
          /\ [Resting EXCEPT !.at = "read", !.thread = t].thread = t
      BY <1>2, ThreadingFields
    <3> QED
      BY <1>1, <2>1, <2>2, <3>1, <3>2, SendStep
  <2> QED
    BY <1>3, <2>3, <2>4 DEF Send
<1>4. ASSUME NEW t \in Threads, UNCHANGED sends,
             sending' = [sending EXCEPT ![a].at = "read", ![a].thread = t]
      PROVE  SendInv'
  <2>1. /\ [sending[a] EXCEPT !.at = "read", !.thread = t] \in Threading
        /\ [sending[a] EXCEPT !.at = "read", !.thread = t].thread = t
    BY <1>1, <1>2, ThreadingFields
  <2>2. sending' = [sending EXCEPT ![a] = [sending[a] EXCEPT !.at = "read", !.thread = t]]
    BY <1>1, <1>4 DEF SendInv, Threading
  <2> QED
    BY <1>1, <1>4, <2>1, <2>2, SendStep
<1>5. CASE SendFinds(a)
  <2>1. ThreadInv' /\ UNCHANGED sends
    BY <1>1, <1>5 DEF SendFinds, ThreadInv, threadVars
  <2>2. CASE At(a, "create")
    <3>1. sending' = [sending EXCEPT ![a] = [sending[a] EXCEPT !.at = "create"]]
      BY <2>2 DEF At
    <3>2. /\ [sending[a] EXCEPT !.at = "create"] \in Threading
          /\ [sending[a] EXCEPT !.at = "create"].at = "create"
      BY <1>1 DEF Threading
    <3> QED
      BY <1>1, <2>1, <3>1, <3>2, SendStep
  <2>3. CASE \E t \in NewestOpen(a) :
               sending' = [sending EXCEPT ![a].at = "read", ![a].thread = t]
    BY <1>4, <2>1, <2>3 DEF NewestOpen, OpenThreads
  <2> QED
    BY <1>5, <2>1, <2>2, <2>3 DEF SendFinds
<1>6. CASE SendCreates(a)
  <2>1. ThreadInv' /\ nextThread \in Threads
    BY <1>1, <1>6, CreateKeeps DEF SendCreates
  <2> QED
    BY <1>4, <1>6, <2>1 DEF SendCreates
<1>7. CASE SendReads(a)
  <2>1. PICK s \in Statuses : sending' = [sending EXCEPT ![a].at = "write", ![a].status = s]
    BY <1>7 DEF SendReads
  <2>2. /\ [sending[a] EXCEPT !.at = "write", !.status = s] \in Threading
        /\ [sending[a] EXCEPT !.at = "write", !.status = s].thread = sending[a].thread
    BY <1>1, ThreadingFields
  <2>3. sending' = [sending EXCEPT ![a] = [sending[a] EXCEPT !.at = "write", !.status = s]]
    BY <1>1, <2>1 DEF SendInv, Threading
  <2>4. sending[a].thread \in Threads /\ UNCHANGED sends /\ ThreadInv'
    BY <1>1, <1>7 DEF SendReads, ThreadInv, threadVars
  <2> QED
    BY <1>1, <2>2, <2>3, <2>4, SendStep
<1>8. CASE SendWrites(a)
  <2>1. sending[a].thread \in Threads /\ sending[a].status \in Statuses
    BY <1>1, <1>8 DEF SendWrites, Threading
  <2>2. ThreadInv'
    BY <1>1, <1>8, <2>1, WriteKeeps DEF SendWrites
  <2>3. sending' = [sending EXCEPT ![a] = Resting] /\ UNCHANGED sends
    BY <1>8 DEF SendWrites
  <2> QED
    BY <1>1, <1>2, <2>2, <2>3, SendStep
<1> QED
  BY <1>3, <1>5, <1>6, <1>7, <1>8 DEF SendAction
-----------------------------------------------------------------------------
(* Type correctness *)

LEMMA InvInit == Init => Inv
<1> SUFFICES ASSUME Init PROVE Inv
  OBVIOUS
<1>1. JobInv
  BY FreshLocal, InboundAssumption
  DEF Init, JobInv, Labels, Live, Running, Ingesting, Linking, Ready, Filing, Storing
<1>2. DeliveryInv
  BY InboundAssumption DEF Init, DeliveryInv
<1>3. RowInv
  BY DEF Init, RowInv
<1>4. ThreadInv
  BY InboundAssumption DEF Init, ThreadInv, AbsentThread
<1>5. SendInv
  <2>1. Resting \in Threading /\ Resting.at = "idle"
    BY InboundAssumption DEF Resting, Threading, Statuses
  <2> QED
    BY <2>1, InboundAssumption DEF Init, SendInv
<1>6. BudgetInv
  BY InboundAssumption DEF Init, BudgetInv, Days
<1> QED
  BY <1>1, <1>2, <1>3, <1>4, <1>5, <1>6 DEF Inv

LEMMA InvNext == Inv /\ [Next]_vars => Inv'
<1> SUFFICES ASSUME Inv, [Next]_vars PROVE Inv'
  OBVIOUS
<1>1. ASSUME NEW m \in Messages, JobAction(m)
      PROVE  Inv'
  <2>1. JobInv'
    BY <1>1, DeliverKeeps, EvictKeeps, IngestKeeps, LinkKeeps, FaultKeeps DEF Inv, JobAction, Work
  <2>2. DeliveryInv'
    <3>1. CASE Deliver(m)
      BY <3>1, DeliverKeeps DEF Inv
    <3>2. CASE UNCHANGED deliveries
      BY <3>2 DEF Inv, DeliveryInv
    <3> QED
      BY <1>1, <3>1, <3>2
      DEF JobAction, Evict, Work, Fault, Start, Gate, Suppress, MarkOptedOut, Charge, Extract, Store,
          HandOff, FindThread, CreateThread, StoreReply, ReadStatus, WriteStatus, CloseThreads,
          TransientError, Crash, ExtractFails, LinkFails, Attempt, StepTo, Retry, Drop, Complete,
          ToLink, ToIngest
  <2>3. UNCHANGED sendVars
    BY <1>1
    DEF JobAction, Deliver, Evict, Work, Fault, Start, Gate, Suppress, MarkOptedOut, Charge, Extract, Store,
        HandOff, FindThread, CreateThread, StoreReply, ReadStatus, WriteStatus, CloseThreads,
        TransientError, Crash, ExtractFails, LinkFails, Elsewhere
  <2>4. SendInv'
    BY <2>3 DEF Inv, SendInv, sendVars
  <2>5. RowInv' /\ ThreadInv' /\ BudgetInv'
    BY <1>1, RowKeeps, ThreadKeeps, BudgetKeeps
  <2> QED
    BY <2>1, <2>2, <2>4, <2>5 DEF Inv
<1>2. ASSUME NEW a \in Agents, SendAction(a)
      PROVE  Inv'
  <2>1. Inbound
    BY <1>2 DEF SendAction, Send, SendFinds, SendCreates, SendReads, SendWrites
  <2>2. JobInv' /\ DeliveryInv'
    BY <2>1 DEF Inbound, jobVars, Inv, JobInv, DeliveryInv
  <2>3. RowInv' /\ BudgetInv'
    BY <2>1 DEF Inbound, mail, stopVars, listingVars, budgetVars, Inv, RowInv, BudgetInv
  <2> QED
    BY <1>2, <2>2, <2>3, SendKeeps DEF Inv
<1>3. CASE NextDay
  <2>1. JobInv' /\ DeliveryInv' /\ RowInv'
    BY <1>3 DEF NextDay, jobVars, mail, stopVars, listingVars, Inv, JobInv, DeliveryInv, RowInv
  <2>2. ThreadInv' /\ SendInv'
    BY <1>3 DEF NextDay, threadVars, sendVars, Inv, ThreadInv, SendInv
  <2>3. BudgetInv'
    BY <1>3, InboundAssumption DEF NextDay, Inv, BudgetInv, Days
  <2> QED
    BY <2>1, <2>2, <2>3 DEF Inv
<1>4. CASE UNCHANGED vars
  <2>1. JobInv' /\ DeliveryInv' /\ RowInv'
    BY <1>4 DEF vars, jobVars, mail, stopVars, listingVars, Inv, JobInv, DeliveryInv, RowInv
  <2>2. ThreadInv' /\ SendInv' /\ BudgetInv'
    BY <1>4 DEF vars, threadVars, sendVars, budgetVars, Inv, ThreadInv, SendInv, BudgetInv
  <2> QED
    BY <2>1, <2>2 DEF Inv
<1> QED
  BY <1>1, <1>2, <1>3, <1>4 DEF Next, JobAction, SendAction

\* Every variable of the inbound path keeps its type, and deliveries stay in bound.
THEOREM TypeCorrect == Spec => []TypeOK
<1>1. Spec => []Inv
  BY InvInit, InvNext, PTL DEF Spec
<1> QED
  BY <1>1, InvTypes, PTL
-----------------------------------------------------------------------------
(* What a job does not touch *)

LEMMA OtherJobs ==
  ASSUME Inv, NEW m \in Messages, JobAction(m), NEW q \in Messages \ {m}
  PROVE  pc'[q] = pc[q] /\ local'[q] = local[q] /\ source'[q] = source[q]
<1>1. pc \in [Messages -> Labels] /\ local \in [Messages -> Locals]
      /\ source \in [Messages -> Keys \cup {None}]
  BY DEF Inv, JobInv, RowInv
<1>2. pc'[q] = pc[q]
  <2>1. UNCHANGED pc \/ \E label : Goto(m, label)
    BY DEF JobAction, Deliver, Evict, Work, Fault, Start, Gate, Suppress, MarkOptedOut, Charge,
           Extract, Store, HandOff, FindThread, CreateThread, StoreReply, ReadStatus, WriteStatus,
           CloseThreads, TransientError, Crash, ExtractFails, LinkFails, StepTo, Retry, Drop,
           Complete, ToLink, ToIngest
  <2> QED
    BY <1>1, <2>1 DEF Goto
<1>3. local'[q] = local[q]
  <2>1. CASE Charge(m) \/ Extract(m) \/ FindThread(m) \/ CreateThread(m) \/ ReadStatus(m)
    BY <1>1, <2>1 DEF Charge, Extract, FindThread, CreateThread, ReadStatus, StepTo, Drop
  <2>2. CASE UNCHANGED local \/ local' = [local EXCEPT ![m] = Fresh]
    BY <1>1, <2>2
  <2> QED
    BY <2>1, <2>2
    DEF JobAction, Deliver, Evict, Work, Fault, Start, Gate, Suppress, MarkOptedOut, Store,
        HandOff, StoreReply, WriteStatus, CloseThreads, TransientError, Crash, ExtractFails,
        LinkFails, StepTo, Retry, Drop, Complete, ToLink, ToIngest
<1>4. source'[q] = source[q]
  <2>1. CASE Store(m)
    BY <1>1, <2>1 DEF Store
  <2>2. CASE UNCHANGED source
    BY <2>2
  <2> QED
    BY <2>1, <2>2
    DEF JobAction, Deliver, Evict, Work, Fault, Start, Gate, Suppress, MarkOptedOut, Charge,
        Extract, HandOff, FindThread, CreateThread, StoreReply, ReadStatus, WriteStatus,
        CloseThreads, TransientError, Crash, ExtractFails, LinkFails, listingVars
<1> QED
  BY <1>2, <1>3, <1>4

\* Opt-outs, listings, hand-offs, replies and swallowed failures are never undone.
LEMMA Grows ==
  ASSUME NEW m \in Messages, JobAction(m)
  PROVE  /\ UNCHANGED mail
         /\ optedOut \subseteq optedOut' /\ suppressed \subseteq suppressed'
         /\ listings \subseteq listings' /\ analysis \subseteq analysis'
         /\ replies \subseteq replies' /\ unlinked \subseteq unlinked'
<1>1. /\ optedOut \subseteq optedOut' /\ suppressed \subseteq suppressed'
  BY DEF JobAction, Deliver, Evict, Work, Fault, Start, Gate, Suppress, MarkOptedOut, Charge,
         Extract, Store, HandOff, FindThread, CreateThread, StoreReply, ReadStatus, WriteStatus,
         CloseThreads, TransientError, Crash, ExtractFails, LinkFails, stopVars
<1>2. listings \subseteq listings' /\ analysis \subseteq analysis'
  BY DEF JobAction, Deliver, Evict, Work, Fault, Start, Gate, Suppress, MarkOptedOut, Charge,
         Extract, Store, HandOff, FindThread, CreateThread, StoreReply, ReadStatus, WriteStatus,
         CloseThreads, TransientError, Crash, ExtractFails, LinkFails, listingVars
<1>3. replies \subseteq replies' /\ unlinked \subseteq unlinked'
  BY DEF JobAction, Deliver, Evict, Work, Fault, Start, Gate, Suppress, MarkOptedOut, Charge,
         Extract, Store, HandOff, FindThread, CreateThread, StoreReply, ReadStatus, WriteStatus,
         CloseThreads, TransientError, Crash, ExtractFails, LinkFails
<1>4. UNCHANGED mail
  BY DEF JobAction, Deliver, Evict, Work, Fault, Start, Gate, Suppress, MarkOptedOut, Charge,
         Extract, Store, HandOff, FindThread, CreateThread, StoreReply, ReadStatus, WriteStatus,
         CloseThreads, TransientError, Crash, ExtractFails, LinkFails, Elsewhere
<1> QED
  BY <1>1, <1>2, <1>3, <1>4

\* Sends, the clock and stutters leave every job and what it wrote alone.
LEMMA JobsRest ==
  ASSUME \/ \E a \in Agents : SendAction(a)
         \/ NextDay
         \/ UNCHANGED vars
  PROVE  UNCHANGED <<mail, jobVars, stopVars, listingVars, replies, unlinked, tokens, paid>>
BY DEF SendAction, Send, SendFinds, SendCreates, SendReads, SendWrites, Inbound, NextDay, vars,
       budgetVars
-----------------------------------------------------------------------------
(* A STOP comes first *)

Past == {"charge", "extract", "store", "handoff", "completed"} \cup Linking
Silenced(m) == SenderOf[m] \in suppressed /\ (SenderOf[m] \in Agents => SenderOf[m] \in optedOut)

\* Half of the opt-out is done when the other half is about to be.
StopInv ==
  \A m \in Stops \ infra :
    /\ pc[m] = "mark" => SenderOf[m] \in suppressed
    /\ pc[m] \in Past => Silenced(m)

LEMMA StopNext == Inv /\ StopInv /\ [Next]_vars => StopInv'
<1> SUFFICES ASSUME Inv, StopInv, [Next]_vars PROVE StopInv'
  OBVIOUS
<1>1. ASSUME NEW m \in Messages, JobAction(m)
      PROVE  StopInv'
  <2>1. /\ infra' = infra
        /\ \A q \in Messages : Silenced(q) => Silenced(q)'
        /\ \A q \in Messages : SenderOf[q] \in suppressed => SenderOf[q] \in suppressed'
    BY <1>1, Grows DEF Silenced, mail
  <2>2. ASSUME NEW q \in Messages \ {m}, q \in Stops \ infra
        PROVE  (pc[q] = "mark" => SenderOf[q] \in suppressed)' /\ (pc[q] \in Past => Silenced(q))'
    BY <1>1, <2>1, <2>2, OtherJobs DEF StopInv
  <2>3. ASSUME m \in Stops \ infra
        PROVE  (pc[m] = "mark" => SenderOf[m] \in suppressed)' /\ (pc[m] \in Past => Silenced(m))'
    <3>1. /\ pc \in [Messages -> Labels]
          /\ pc[m] = "mark" => SenderOf[m] \in suppressed
          /\ pc[m] \in Past => Silenced(m)
      BY <2>3 DEF StopInv, Inv, JobInv
    <3>2. CASE Suppress(m)
      BY <3>1, <3>2 DEF Suppress, StepTo, Goto, Past, Linking
    <3>3. CASE MarkOptedOut(m)
      <4>1. SenderOf[m] \in suppressed' /\ (SenderOf[m] \in Agents => SenderOf[m] \in optedOut')
        BY <2>1, <3>1, <3>3 DEF MarkOptedOut
      <4>2. pc'[m] # "mark"
        BY <3>1, <3>3 DEF MarkOptedOut, ToIngest, ToLink, StepTo, Complete, Goto
      <4> QED
        BY <4>1, <4>2 DEF Silenced
    <3>4. CASE Gate(m)
      BY <2>3, <3>1, <3>4 DEF Gate, StepTo, Goto, Past, Linking
    <3>5. CASE pc'[m] \notin {"mark"} \cup Past
      BY <3>5
    <3>6. CASE pc[m] \in Past /\ pc'[m] # "mark"
      BY <2>1, <3>1, <3>6
    <3>7. CASE UNCHANGED pc
      BY <2>1, <3>1, <3>7
    <3>8. CASE Charge(m) \/ Extract(m) \/ Store(m) \/ HandOff(m) \/ ExtractFails(m)
      BY <3>1, <3>6, <3>8 DEF Charge, Extract, Store, HandOff, ExtractFails, StepTo, Drop, Retry,
                              ToLink, Complete, Goto, Past
    <3>9. CASE \/ FindThread(m) \/ CreateThread(m) \/ StoreReply(m) \/ ReadStatus(m)
               \/ WriteStatus(m) \/ CloseThreads(m) \/ LinkFails(m)
      BY <3>1, <3>6, <3>9 DEF FindThread, CreateThread, StoreReply, ReadStatus, WriteStatus,
                              CloseThreads, LinkFails, StepTo, Complete, Goto, Past, Linking
    <3>10. CASE Deliver(m) \/ Evict(m) \/ Start(m) \/ TransientError(m) \/ Crash(m)
      BY <3>1, <3>5, <3>7, <3>10 DEF Deliver, Evict, Start, TransientError, Crash, StepTo, Retry,
                                     Goto, Past, Linking
    <3> QED
      BY <1>1, <3>2, <3>3, <3>4, <3>8, <3>9, <3>10 DEF JobAction, Work, Fault
  <2> QED
    BY <2>1, <2>2, <2>3, InboundAssumption DEF StopInv
<1>2. CASE (\E a \in Agents : SendAction(a)) \/ NextDay \/ UNCHANGED vars
  BY <1>2, JobsRest DEF StopInv, Silenced, mail, jobVars, stopVars
<1> QED
  BY <1>1, <1>2 DEF Next, JobAction, SendAction

\* A job past its opt-out has silenced whoever sent the STOP, however often it was
\* retried, crashed or was delivered again.
THEOREM StopComesFirst == Spec => []StopHonoured
<1>1. Init => StopInv
  BY InboundAssumption DEF Init, StopInv, Past, Linking
<1>2. Inv /\ StopInv => StopHonoured
  BY DEF StopInv, StopHonoured, Past, Silenced
<1> QED
  BY <1>1, <1>2, InvInit, InvNext, StopNext, PTL DEF Spec
-----------------------------------------------------------------------------
(* The budget of a day *)

\* Extractions whose token was taken from the bucket of day d and not yet paid with.
Paying(d) == {m \in Messages : pc[m] = "extract" /\ local[m].day = d}
PaidInv == \A d \in Days : paid[d] + Cardinality(Paying(d)) <= tokens[d]

LEMMA PayingFinite ==
  ASSUME NEW d
  PROVE  IsFiniteSet(Paying(d)) /\ Cardinality(Paying(d)) \in Nat
BY InboundAssumption, FS_Subset, FS_CardinalityType DEF Paying

LEMMA PaidNext == Inv /\ PaidInv /\ [Next]_vars => PaidInv'
<1> SUFFICES ASSUME Inv, PaidInv, [Next]_vars, NEW d \in Days
             PROVE  paid'[d] + Cardinality(Paying(d)') <= tokens'[d]
  BY DEF PaidInv
<1>1. /\ paid \in [Days -> Nat] /\ tokens \in [Days -> 0..DailyCap] /\ day \in Days
      /\ paid[d] + Cardinality(Paying(d)) <= tokens[d]
      /\ pc \in [Messages -> Labels] /\ local \in [Messages -> Locals]
      /\ tokens[d] \in Nat /\ paid[d] \in Nat
  BY InboundAssumption DEF Inv, BudgetInv, JobInv, PaidInv
<1>2. IsFiniteSet(Paying(d)) /\ Cardinality(Paying(d)) \in Nat
  BY PayingFinite
<1>3. ASSUME NEW m \in Messages, JobAction(m)
      PROVE  paid'[d] + Cardinality(Paying(d)') <= tokens'[d]
  <2>1. \A q \in Messages \ {m} : q \in Paying(d)' <=> q \in Paying(d)
    BY <1>3, OtherJobs DEF Paying
  <2>2. Paying(d)' \subseteq Messages /\ Paying(d) \subseteq Messages
    BY DEF Paying
  <2>3. CASE Paying(d)' \subseteq Paying(d) /\ UNCHANGED <<tokens, paid>>
    <3>1. Cardinality(Paying(d)') <= Cardinality(Paying(d)) /\ Cardinality(Paying(d)') \in Nat
      BY <1>2, <2>3, FS_Subset, FS_CardinalityType
    <3> QED
      BY <1>1, <1>2, <2>3, <3>1
  <2>4. CASE Charge(m)
    <3>1. pc[m] = "charge" /\ m \notin Paying(d)
      BY <2>4 DEF Charge, Paying
    <3>2. CASE tokens[day] < DailyCap
      <4>1. /\ tokens' = [tokens EXCEPT ![day] = tokens[day] + 1] /\ UNCHANGED paid
            /\ pc'[m] = "extract" /\ local'[m].day = day
        BY <1>1, <2>4, <3>2 DEF Charge, Goto, Locals
      <4>2. CASE d = day
        <5>1. Paying(d)' = Paying(d) \cup {m}
          BY <2>1, <2>2, <4>1, <4>2 DEF Paying
        <5>2. Cardinality(Paying(d)') = Cardinality(Paying(d)) + 1
          BY <1>2, <3>1, <5>1, FS_AddElement
        <5>3. tokens'[d] = tokens[d] + 1
          BY <1>1, <4>1, <4>2
        <5> QED
          BY <1>1, <1>2, <4>1, <5>2, <5>3
      <4>3. CASE d # day
        <5>1. Paying(d)' = Paying(d) /\ tokens'[d] = tokens[d]
          BY <1>1, <2>1, <2>2, <3>1, <4>1, <4>3 DEF Paying
        <5> QED
          BY <1>1, <4>1, <5>1
      <4> QED
        BY <4>2, <4>3
    <3>3. CASE ~ (tokens[day] < DailyCap)
      <4>1. pc'[m] = "failed" /\ UNCHANGED <<tokens, paid>>
        BY <1>1, <2>4, <3>3 DEF Charge, Drop, Goto
      <4> QED
        BY <2>1, <2>2, <2>3, <4>1 DEF Paying
    <3> QED
      BY <3>2, <3>3
  <2>5. CASE Extract(m) \/ ExtractFails(m)
    <3>1. /\ paid' = [paid EXCEPT ![local[m].day] = paid[local[m].day] + 1]
          /\ UNCHANGED tokens /\ pc[m] = "extract"
      BY <2>5 DEF Extract, ExtractFails
    <3>2. pc'[m] # "extract"
      BY <1>1, <2>5 DEF Extract, ExtractFails, Retry, Drop, Goto
    <3>3. CASE local[m].day = d
      <4>1. m \in Paying(d) /\ Paying(d)' = Paying(d) \ {m}
        BY <2>1, <2>2, <3>1, <3>2, <3>3 DEF Paying
      <4>2. Cardinality(Paying(d)') = Cardinality(Paying(d)) - 1
        BY <1>2, <4>1, FS_RemoveElement
      <4>3. paid'[d] = paid[d] + 1
        BY <1>1, <3>1, <3>3
      <4> QED
        BY <1>1, <1>2, <3>1, <4>2, <4>3
    <3>4. CASE local[m].day # d
      <4>1. Paying(d)' \subseteq Paying(d) /\ paid'[d] = paid[d]
        BY <1>1, <2>1, <2>2, <3>1, <3>2, <3>4 DEF Paying
      <4>2. Cardinality(Paying(d)') <= Cardinality(Paying(d)) /\ Cardinality(Paying(d)') \in Nat
        BY <1>2, <4>1, FS_Subset, FS_CardinalityType
      <4> QED
        BY <1>1, <1>2, <3>1, <4>1, <4>2
    <3> QED
      BY <3>3, <3>4
  <2>6. CASE UNCHANGED <<pc, local, tokens, paid>>
    BY <2>3, <2>6 DEF Paying
  <2>7. CASE pc'[m] # "extract" /\ UNCHANGED <<tokens, paid>>
    BY <2>1, <2>2, <2>3, <2>7 DEF Paying
  <2>8. CASE \/ Deliver(m) \/ Evict(m) \/ Start(m) \/ Gate(m) \/ Suppress(m) \/ MarkOptedOut(m)
             \/ Store(m) \/ HandOff(m) \/ TransientError(m) \/ Crash(m)
    BY <1>1, <2>6, <2>7, <2>8
    DEF Deliver, Evict, Start, Gate, Suppress, MarkOptedOut, Store, HandOff, TransientError, Crash,
        Elsewhere, StepTo, Goto, Retry, Complete, ToIngest, ToLink
  <2>9. CASE \/ FindThread(m) \/ CreateThread(m) \/ StoreReply(m) \/ ReadStatus(m)
             \/ WriteStatus(m) \/ CloseThreads(m) \/ LinkFails(m)
    BY <1>1, <2>7, <2>9
    DEF FindThread, CreateThread, StoreReply, ReadStatus, WriteStatus, CloseThreads, LinkFails,
        Elsewhere, StepTo, Goto, Complete
  <2> QED
    BY <1>3, <2>4, <2>5, <2>8, <2>9 DEF JobAction, Work, Fault
<1>4. CASE (\E a \in Agents : SendAction(a)) \/ NextDay \/ UNCHANGED vars
  <2>1. UNCHANGED <<jobVars, tokens, paid>>
    BY <1>4, JobsRest
  <2>2. Paying(d)' = Paying(d)
    BY <2>1 DEF Paying, jobVars
  <2> QED
    BY <1>1, <2>1, <2>2
<1> QED
  BY <1>3, <1>4 DEF Next, JobAction, SendAction

\* No day pays for more extractions than its cap, whatever is retried, crashes or
\* runs past midnight.
THEOREM BudgetHolds == Spec => []PaidWithinCap
<1>1. Init => PaidInv
  <2> SUFFICES ASSUME Init, NEW d \in Days PROVE paid[d] + Cardinality(Paying(d)) <= tokens[d]
    BY DEF PaidInv
  <2>1. Paying(d) = {}
    BY DEF Init, Paying
  <2> QED
    BY <2>1, FS_EmptySet DEF Init
<1>2. Inv /\ PaidInv => PaidWithinCap
  <2> SUFFICES ASSUME Inv, PaidInv, NEW d \in Days PROVE paid[d] <= DailyCap
    BY DEF PaidWithinCap
  <2>1. paid[d] + Cardinality(Paying(d)) <= tokens[d] /\ paid[d] \in Nat /\ tokens[d] \in 0..DailyCap
    BY DEF PaidInv, Inv, BudgetInv
  <2> QED
    BY <2>1, PayingFinite, InboundAssumption
<1> QED
  BY <1>1, <1>2, InvInit, InvNext, PaidNext, PTL DEF Spec
-----------------------------------------------------------------------------
(* A completed email with something to extract was handed on *)

HandedInv ==
  \A m \in Messages :
    /\ pc[m] = "handoff" => source[m] = local[m].key /\ source[m] \in listings
    /\ m \notin infra \cup Bare /\ pc[m] \in Linking \cup {"completed"} =>
         source[m] \in listings \cap analysis

LEMMA HandedNext == Inv /\ HandedInv /\ [Next]_vars => HandedInv'
<1> SUFFICES ASSUME Inv, HandedInv, [Next]_vars PROVE HandedInv'
  OBVIOUS
<1> DEFINE Holds(m) ==
      /\ pc[m] = "handoff" => source[m] = local[m].key /\ source[m] \in listings
      /\ m \notin infra \cup Bare /\ pc[m] \in Linking \cup {"completed"} =>
           source[m] \in listings \cap analysis
<1>1. ASSUME NEW m \in Messages, JobAction(m), NEW q \in Messages \ {m}
      PROVE  Holds(q)'
  BY <1>1, OtherJobs, Grows DEF HandedInv, mail
<1>2. ASSUME NEW m \in Messages, JobAction(m)
      PROVE  Holds(m)'
  <2>1. Holds(m) /\ pc \in [Messages -> Labels] /\ source \in [Messages -> Keys \cup {None}]
    BY DEF HandedInv, Inv, JobInv, RowInv
  <2>2. UNCHANGED infra /\ listings \subseteq listings' /\ analysis \subseteq analysis'
    BY <1>2, Grows DEF mail
  <2>3. CASE Store(m)
    BY <2>1, <2>3 DEF Store, StepTo, Goto, Linking
  <2>4. CASE HandOff(m)
    BY <2>1, <2>2, <2>4 DEF HandOff, ToLink, StepTo, Complete, Goto, Linking
  <2>5. CASE Gate(m) \/ MarkOptedOut(m)
    <3>1. pc'[m] \in Linking \cup {"completed"} => m \in infra \cup Bare
      BY <2>1, <2>5 DEF Gate, MarkOptedOut, ToIngest, ToLink, StepTo, Complete, Goto, Linking
    <3>2. pc'[m] # "handoff"
      BY <2>1, <2>5 DEF Gate, MarkOptedOut, ToIngest, ToLink, StepTo, Complete, Goto
    <3> QED
      BY <2>2, <3>1, <3>2
  <2>6. CASE pc'[m] \notin {"handoff", "completed"} \cup Linking
    BY <2>6
  <2>7. CASE pc[m] \in Linking /\ pc'[m] \in Linking \cup {"completed"} /\ UNCHANGED source
    BY <2>1, <2>2, <2>7 DEF Linking
  <2>8. CASE UNCHANGED <<pc, local, source>>
    BY <2>1, <2>2, <2>8
  <2>9. CASE \/ FindThread(m) \/ CreateThread(m) \/ StoreReply(m) \/ ReadStatus(m)
             \/ WriteStatus(m) \/ CloseThreads(m) \/ LinkFails(m)
    BY <2>1, <2>7, <2>9
    DEF FindThread, CreateThread, StoreReply, ReadStatus, WriteStatus, CloseThreads, LinkFails,
        StepTo, Goto, Complete, Linking, listingVars
  <2>10. CASE \/ Deliver(m) \/ Evict(m) \/ Start(m) \/ Suppress(m) \/ Charge(m) \/ Extract(m)
              \/ TransientError(m) \/ Crash(m) \/ ExtractFails(m)
    BY <2>1, <2>6, <2>8, <2>10
    DEF Deliver, Evict, Start, Suppress, Charge, Extract, TransientError, Crash, ExtractFails,
        StepTo, Goto, Retry, Drop, Linking, listingVars
  <2> QED
    BY <1>2, <2>3, <2>4, <2>5, <2>9, <2>10 DEF JobAction, Work, Fault
<1>3. CASE (\E a \in Agents : SendAction(a)) \/ NextDay \/ UNCHANGED vars
  BY <1>3, JobsRest DEF HandedInv, mail, jobVars, listingVars
<1>4. ASSUME NEW m \in Messages, JobAction(m)
      PROVE  HandedInv'
  BY <1>1, <1>2, <1>4 DEF HandedInv
<1> QED
  BY <1>3, <1>4 DEF Next, JobAction, SendAction

\* What completed was extracted, stored with its source, and handed to the analysis.
THEOREM NothingIsLostOnTheWay == Spec => []CompletedIsHandedOn
<1>1. Init => HandedInv
  BY DEF Init, HandedInv, Linking
<1>2. HandedInv => CompletedIsHandedOn
  BY DEF HandedInv, CompletedIsHandedOn
<1> QED
  BY <1>1, <1>2, InvInit, InvNext, HandedNext, PTL DEF Spec
-----------------------------------------------------------------------------
(* A completed email of a tracked agent is filed on one of his threads *)

Filed(m) == \E r \in replies : r.message = m
Owns(t, m) == SenderOf[m] \in Agents /\ threads[t].agent = SenderOf[m]

\* Rows not created yet belong to nobody; a linking job's sender is tracked, the
\* thread it found is his, so is every thread a reply of his is on, and so is the one
\* his send writes.
FiledInv ==
  /\ \A t \in Threads : nextThread <= t => threads[t] = AbsentThread
  /\ \A m \in Messages :
       /\ pc[m] \in Linking => Linked(m)
       /\ pc[m] \in Filing => Owns(local[m].thread, m)
       /\ pc[m] \in {"read", "write", "close"} => Filed(m)
       /\ m \notin infra \cup unlinked /\ Linked(m) /\ pc[m] = "completed" => Filed(m)
  /\ \A r \in replies : Owns(r.thread, r.message)
  /\ \A a \in Agents : sending[a].at \in {"read", "write"} => threads[sending[a].thread].agent = a

\* A thread never changes hands.
LEMMA OwnersStay ==
  ASSUME Inv, FiledInv, [Next]_vars
  PROVE  /\ \A t \in Threads : threads[t].agent \in Agents => threads'[t].agent = threads[t].agent
         /\ \A t \in Threads : nextThread' <= t => threads'[t] = AbsentThread
<1> DEFINE Stays ==
      /\ \A t \in Threads : threads[t].agent \in Agents => threads'[t].agent = threads[t].agent
      /\ \A t \in Threads : nextThread' <= t => threads'[t] = AbsentThread
<1>1. /\ threads \in [Threads -> Rows] /\ nextThread \in 1..(MaxThreads + 1)
      /\ \A t \in Threads : nextThread <= t => threads[t] = AbsentThread
      /\ AbsentThread.agent \notin Agents
  BY InboundAssumption DEF Inv, ThreadInv, Rows, FiledInv, AbsentThread
<1>2. ASSUME NEW a \in Agents \cup {NoAgent}, createThread(a) PROVE Stays
  <2>1. /\ nextThread \in Threads /\ nextThread' = nextThread + 1
        /\ threads' = [threads EXCEPT ![nextThread] = [agent |-> a, status |-> "active"]]
        /\ threads[nextThread].agent \notin Agents
    BY <1>1, <1>2, InboundAssumption DEF createThread, Threads
  <2>2. \A t \in Threads : nextThread + 1 <= t => nextThread <= t /\ t # nextThread
    BY <1>1, InboundAssumption DEF Threads
  <2> QED
    BY <1>1, <2>1, <2>2
<1>3. ASSUME NEW t \in Threads, threads[t].agent \in Agents, UNCHANGED nextThread,
             NEW row, row.agent = threads[t].agent, threads' = [threads EXCEPT ![t] = row]
      PROVE  Stays
  BY <1>1, <1>3
<1>4. CASE UNCHANGED threadVars
  BY <1>1, <1>4 DEF threadVars
<1>5. ASSUME NEW row \in Rows, NEW read, NEW event
      PROVE  Reduced(row, read, event).agent = row.agent
  BY DEF Reduced, Rows
<1>6. ASSUME NEW m \in Messages, WriteStatus(m)
      PROVE  Stays
  <2>1. /\ local[m].thread \in Threads /\ threads[local[m].thread].agent \in Agents
        /\ threads[local[m].thread] \in Rows
    BY <1>1, <1>6 DEF WriteStatus, Inv, JobInv, Ready, Filing, FiledInv, Owns
  <2>2. /\ UNCHANGED nextThread
        /\ threads' = [threads EXCEPT ![local[m].thread] =
               Reduced(threads[local[m].thread], local[m].status, "inbound_reply")]
    BY <1>6 DEF WriteStatus
  <2> QED
    BY <1>3, <1>5, <2>1, <2>2
<1>7. ASSUME NEW m \in Messages, CloseThreads(m)
      PROVE  Stays
  <2>1. SenderOf[m] \in Agents /\ UNCHANGED nextThread
    BY <1>7 DEF CloseThreads, FiledInv, Linked, Linking
  <2>2. \A t \in Threads : /\ threads'[t].agent = threads[t].agent
                           /\ threads[t].agent # SenderOf[m] => threads'[t] = threads[t]
    BY <1>1, <1>7 DEF CloseThreads, Rows
  <2> QED
    BY <1>1, <2>1, <2>2
<1>8. ASSUME NEW a \in Agents, SendWrites(a)
      PROVE  Stays
  <2>1. /\ sending[a].thread \in Threads /\ threads[sending[a].thread].agent \in Agents
        /\ threads[sending[a].thread] \in Rows
    BY <1>1, <1>8 DEF SendWrites, Inv, SendInv, FiledInv
  <2>2. /\ UNCHANGED nextThread
        /\ threads' = [threads EXCEPT ![sending[a].thread] =
               Reduced(threads[sending[a].thread], sending[a].status, "outbound_sent")]
    BY <1>8 DEF SendWrites
  <2> QED
    BY <1>3, <1>5, <2>1, <2>2
<1>9. ASSUME NEW a \in Agents, SendAction(a)
      PROVE  Stays
  <2>1. CASE SendCreates(a)
    BY <1>2, <2>1 DEF SendCreates
  <2> QED
    BY <1>4, <1>8, <1>9, <2>1 DEF SendAction, Send, SendFinds, SendReads
<1>10. ASSUME NEW m \in Messages, JobAction(m)
       PROVE  Stays
  <2>1. CASE CreateThread(m)
    BY <1>2, <2>1, InboundAssumption DEF CreateThread
  <2>2. CASE WriteStatus(m) \/ CloseThreads(m)
    BY <1>6, <1>7, <2>2
  <2>3. CASE UNCHANGED threadVars
    BY <1>4, <2>3
  <2> QED
    BY <1>10, <2>1, <2>2, <2>3
    DEF JobAction, Deliver, Evict, Work, Fault, Start, Gate, Suppress, MarkOptedOut, Charge,
        Extract, Store, HandOff, FindThread, StoreReply, ReadStatus, TransientError, Crash,
        ExtractFails, LinkFails
<1>11. CASE NextDay \/ UNCHANGED vars
  BY <1>4, <1>11 DEF NextDay, vars
<1> QED
  BY <1>9, <1>10, <1>11 DEF Next, JobAction, SendAction

LEMMA FiledNext == Inv /\ FiledInv /\ [Next]_vars => FiledInv'
<1> SUFFICES ASSUME Inv, FiledInv, [Next]_vars PROVE FiledInv'
  OBVIOUS
<1> DEFINE Holds(m) ==
      /\ pc[m] \in Linking => Linked(m)
      /\ pc[m] \in Filing => Owns(local[m].thread, m)
      /\ pc[m] \in {"read", "write", "close"} => Filed(m)
      /\ m \notin infra \cup unlinked /\ Linked(m) /\ pc[m] = "completed" => Filed(m)
    Sends(a) == sending[a].at \in {"read", "write"} => threads[sending[a].thread].agent = a
<1>1. /\ threads \in [Threads -> Rows]
      /\ \A t \in Threads : threads[t].agent \in Agents => threads'[t].agent = threads[t].agent
      /\ \A t \in Threads : nextThread' <= t => threads'[t] = AbsentThread
  BY OwnersStay DEF Inv, ThreadInv, Rows
<1>2. \A t \in Threads, m \in Messages : Owns(t, m) => Owns(t, m)'
  BY <1>1 DEF Owns
<1>3. \A m \in Messages : Holds(m) /\ Ready(pc[m], local[m])
  BY DEF FiledInv, Inv, JobInv
<1>4. \A a \in Agents : /\ Sends(a) /\ sending[a] \in Threading
                       /\ sending[a].at \in {"read", "write"} => sending[a].thread \in Threads
  BY DEF FiledInv, Inv, SendInv
<1>4a. ASSUME NEW b \in Agents, sending[b].at \in {"read", "write"},
              sending'[b].thread = sending[b].thread
       PROVE  threads'[sending'[b].thread].agent = b
  <2>1. sending[b].thread \in Threads /\ threads[sending[b].thread].agent = b
    BY <1>4a DEF FiledInv, Inv, SendInv
  <2> QED
    BY <1>1, <1>4a, <2>1
<1>5. \A r \in replies : r.message \in Messages /\ r.thread \in Threads /\ Owns(r.thread, r.message)
  BY DEF FiledInv, Inv, RowInv
<1>6. pc \in [Messages -> Labels] /\ local \in [Messages -> Locals]
  BY DEF Inv, JobInv
<1>7. ASSUME NEW m \in Messages, JobAction(m)
      PROVE  FiledInv'
  <2>1. /\ UNCHANGED <<infra, forged>> /\ replies \subseteq replies' /\ unlinked \subseteq unlinked'
    BY <1>7, Grows DEF mail
  <2>2. \A q \in Messages : (Linked(q) <=> Linked(q)') /\ (Filed(q) => Filed(q)')
    BY <2>1 DEF Linked, Filed
  <2>3. ASSUME NEW q \in Messages \ {m} PROVE Holds(q)'
    <3>1. pc'[q] = pc[q] /\ local'[q] = local[q]
      BY <1>7, OtherJobs
    <3>2. pc[q] \in Filing => local[q].thread \in Threads
      BY <1>3 DEF Ready
    <3> QED
      BY <1>2, <1>3, <2>1, <2>2, <3>1, <3>2
  <2>4. Holds(m)'
    <3>1. CASE Gate(m) \/ MarkOptedOut(m) \/ HandOff(m)
      <4>1. /\ pc'[m] \notin Filing
            /\ pc'[m] \in Linking => Linked(m)
            /\ pc'[m] = "completed" => m \in infra \/ ~ Linked(m)
        BY <1>6, <3>1 DEF Gate, MarkOptedOut, HandOff, ToIngest, ToLink, StepTo, Complete, Goto,
                          Linking, Filing
      <4> QED
        BY <2>1, <2>2, <4>1 DEF Filing
    <3>2. CASE FindThread(m)
      <4>1. Linked(m) /\ Linked(m)' /\ SenderOf[m] \in Agents
        BY <1>3, <2>2, <3>2 DEF FindThread, Linking, Linked
      <4>2. CASE StepTo(m, "create")
        BY <1>6, <4>1, <4>2 DEF StepTo, Goto, Filing
      <4>3. CASE \E t \in NewestOpen(SenderOf[m]) :
                   Goto(m, "reply") /\ local' = [local EXCEPT ![m].thread = t]
        <5>1. PICK t \in Threads :
                /\ threads[t].agent = SenderOf[m] /\ pc'[m] = "reply" /\ local'[m].thread = t
          BY <1>6, <4>3 DEF NewestOpen, OpenThreads, Goto, Locals
        <5>2. Owns(t, m)'
          BY <1>2, <4>1, <5>1 DEF Owns
        <5> QED
          BY <4>1, <5>1, <5>2 DEF Owns
      <4> QED
        BY <3>2, <4>2, <4>3 DEF FindThread
    <3>3. CASE CreateThread(m)
      <4>1. Linked(m) /\ Linked(m)' /\ SenderOf[m] \in Agents
        BY <1>3, <2>2, <3>3 DEF CreateThread, Linking, Linked
      <4>2. /\ nextThread \in Threads /\ pc'[m] = "reply" /\ local'[m].thread = nextThread
            /\ threads'[nextThread].agent = SenderOf[m]
        BY <1>1, <1>6, <3>3 DEF CreateThread, createThread, Goto, Locals
      <4> QED
        BY <4>1, <4>2 DEF Owns
    <3>4. CASE StoreReply(m)
      <4>1. /\ pc[m] = "reply" /\ pc'[m] = "read" /\ local'[m] = local[m]
            /\ Linked(m) /\ Owns(local[m].thread, m) /\ local[m].thread \in Threads
        BY <1>3, <1>6, <3>4 DEF StoreReply, StepTo, Goto, Linking, Filing, Ready
      <4>2. Filed(m)'
        <5>1. CASE \E r \in replies : r.message = m
          BY <2>1, <5>1 DEF Filed
        <5>2. CASE \A r \in replies : r.message # m
          <6>1. [message |-> m, thread |-> local[m].thread] \in replies'
            BY <3>4, <5>2 DEF StoreReply
          <6> QED
            BY <6>1 DEF Filed
        <5> QED
          BY <5>1, <5>2
      <4> QED
        BY <1>2, <2>2, <4>1, <4>2
    <3>5. CASE ReadStatus(m)
      <4>1. /\ pc[m] = "read" /\ pc'[m] = "write" /\ local'[m].thread = local[m].thread
            /\ local[m].thread \in Threads
        BY <1>3, <1>6, <3>5 DEF ReadStatus, Goto, Filing, Ready, Locals
      <4> QED
        BY <1>2, <1>3, <2>2, <4>1 DEF Filing, Linking
    <3>6. CASE WriteStatus(m)
      <4>1. pc[m] = "write" /\ local[m].thread \in Threads
        BY <1>3, <3>6 DEF WriteStatus, Filing, Ready
      <4>2. CASE StepTo(m, "close")
        BY <1>2, <1>3, <1>6, <2>2, <4>1, <4>2 DEF StepTo, Goto, Filing, Linking
      <4>3. CASE Complete(m)
        BY <1>3, <1>6, <2>2, <4>1, <4>3 DEF Complete, Goto, Filing, Linking
      <4> QED
        BY <3>6, <4>2, <4>3 DEF WriteStatus
    <3>7. CASE CloseThreads(m)
      BY <1>3, <1>6, <2>2, <3>7 DEF CloseThreads, Complete, Goto, Filing, Linking
    <3>8. CASE LinkFails(m)
      BY <1>6, <3>8 DEF LinkFails, Complete, Goto, Filing, Linking
    <3>9. CASE pc'[m] \notin Linking \cup {"completed"}
      BY <3>9 DEF Linking, Filing
    <3>10. CASE UNCHANGED <<pc, local>>
      BY <1>2, <1>3, <2>1, <2>2, <3>10 DEF Ready
    <3>11. CASE \/ Deliver(m) \/ Evict(m) \/ Start(m) \/ Suppress(m) \/ Charge(m) \/ Extract(m)
                \/ Store(m) \/ TransientError(m) \/ Crash(m) \/ ExtractFails(m)
      BY <1>6, <3>9, <3>10, <3>11
      DEF Deliver, Evict, Start, Suppress, Charge, Extract, Store, TransientError, Crash,
          ExtractFails, StepTo, Goto, Retry, Drop, Linking
    <3> QED
      BY <1>7, <3>1, <3>2, <3>3, <3>4, <3>5, <3>6, <3>7, <3>8, <3>11 DEF JobAction, Work, Fault
  <2>5. \A r \in replies' : Owns(r.thread, r.message)'
    <3>1. CASE StoreReply(m)
      <4>1. Owns(local[m].thread, m) /\ local[m].thread \in Threads
        BY <1>3, <3>1 DEF StoreReply, Filing, Ready
      <4>2. replies' \subseteq replies \cup {[message |-> m, thread |-> local[m].thread]}
        BY <3>1 DEF StoreReply
      <4> QED
        BY <1>2, <1>5, <4>1, <4>2
    <3>2. CASE UNCHANGED replies
      BY <1>2, <1>5, <3>2
    <3> QED
      BY <1>7, <3>1, <3>2
      DEF JobAction, Deliver, Evict, Work, Fault, Start, Gate, Suppress, MarkOptedOut, Charge,
          Extract, Store, HandOff, FindThread, CreateThread, ReadStatus, WriteStatus,
          CloseThreads, TransientError, Crash, ExtractFails, LinkFails
  <2>6. \A a \in Agents : Sends(a)'
    <3>1. UNCHANGED sending
      BY <1>7
      DEF JobAction, Deliver, Evict, Work, Fault, Start, Gate, Suppress, MarkOptedOut, Charge,
          Extract, Store, HandOff, FindThread, CreateThread, StoreReply, ReadStatus, WriteStatus,
          CloseThreads, TransientError, Crash, ExtractFails, LinkFails, Elsewhere, sendVars
    <3> QED
      BY <1>4a, <3>1
  <2>7. \A q \in Messages : Holds(q)'
    BY <2>3, <2>4
  <2> QED
    BY <1>1, <2>5, <2>6, <2>7 DEF FiledInv
<1>8. ASSUME NEW a \in Agents, SendAction(a)
      PROVE  FiledInv'
  <2>1. UNCHANGED <<mail, jobVars, replies, unlinked>>
    BY <1>8, JobsRest
  <2>2. \A q \in Messages : Holds(q)'
    BY <1>2, <1>3, <2>1 DEF mail, jobVars, Linked, Filed, Ready
  <2>3. \A r \in replies' : Owns(r.thread, r.message)'
    BY <1>2, <1>5, <2>1
  <2>4. ASSUME NEW b \in Agents \ {a} PROVE Sends(b)'
    <3>1. sending'[b] = sending[b]
      BY <1>8 DEF SendAction, Send, SendFinds, SendCreates, SendReads, SendWrites, At, Inv, SendInv
    <3> QED
      BY <1>4a, <3>1
  <2>5. Sends(a)'
    <3>1. sending \in [Agents -> Threading] /\ sending[a] \in Threading
      BY DEF Inv, SendInv
    <3>2. CASE Send(a)
      <4>1. CASE sending' = [sending EXCEPT ![a] = [Resting EXCEPT !.at = "find"]]
        <5>1. sending'[a].at = "find"
          BY <3>1, <4>1 DEF Resting
        <5> QED
          BY <5>1
      <4>2. CASE \E t \in Threads :
                   /\ threads[t] = [agent |-> a, status |-> "awaiting_reply"]
                   /\ sending' = [sending EXCEPT ![a] = [Resting EXCEPT !.at = "read", !.thread = t]]
        <5>1. PICK t \in Threads : threads[t].agent = a /\ sending'[a].thread = t
          BY <3>1, <4>2 DEF Resting
        <5> QED
          BY <1>1, <5>1
      <4> QED
        BY <3>2, <4>1, <4>2 DEF Send
    <3>3. ASSUME NEW t \in Threads, threads[t].agent = a,
                 sending' = [sending EXCEPT ![a].at = "read", ![a].thread = t]
          PROVE  Sends(a)'
      <4>1. sending'[a].thread = t
        BY <3>1, <3>3 DEF Threading
      <4> QED
        BY <1>1, <3>3, <4>1
    <3>4. CASE SendFinds(a)
      <4>1. CASE At(a, "create")
        BY <3>1, <4>1 DEF At, Threading
      <4>2. CASE \E t \in NewestOpen(a) :
                   sending' = [sending EXCEPT ![a].at = "read", ![a].thread = t]
        BY <3>3, <4>2 DEF NewestOpen, OpenThreads
      <4> QED
        BY <3>4, <4>1, <4>2 DEF SendFinds
    <3>5. CASE SendCreates(a)
      <4>1. nextThread \in Threads /\ threads'[nextThread].agent = a
        BY <1>1, <3>5 DEF SendCreates, createThread
      <4>2. sending'[a].thread = nextThread
        BY <3>1, <3>5 DEF SendCreates, Threading
      <4> QED
        BY <4>1, <4>2
    <3>6. CASE SendReads(a)
      <4>1. sending[a].at = "read" /\ sending'[a].thread = sending[a].thread
        BY <3>1, <3>6 DEF SendReads, Threading
      <4> QED
        BY <1>4a, <4>1
    <3>7. CASE SendWrites(a)
      BY <3>1, <3>7 DEF SendWrites, Resting
    <3> QED
      BY <1>8, <3>2, <3>4, <3>5, <3>6, <3>7 DEF SendAction
  <2>6. \A b \in Agents : Sends(b)'
    BY <2>4, <2>5
  <2> QED
    BY <1>1, <2>2, <2>3, <2>6 DEF FiledInv
<1>9. CASE NextDay \/ UNCHANGED vars
  BY <1>9 DEF NextDay, vars, mail, jobVars, threadVars, sendVars, FiledInv, Linked, Owns, Filed
<1> QED
  BY <1>7, <1>8, <1>9 DEF Next, JobAction, SendAction

\* Unless its linking failed, the completed email of a tracked agent is on a thread of
\* that very agent.
THEOREM RepliesAreFiled == Spec => []CompletedIsFiled
<1>1. Init => FiledInv
  BY DEF Init, FiledInv, Linking, Filing, Resting
<1>2. FiledInv => CompletedIsFiled
  BY DEF FiledInv, CompletedIsFiled, Owns, Filed
<1> QED
  BY <1>1, <1>2, InvInit, InvNext, FiledNext, PTL DEF Spec
=============================================================================
