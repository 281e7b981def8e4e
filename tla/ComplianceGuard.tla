-------------------------- MODULE ComplianceGuard ---------------------------
(* ComplianceGuard.assertCanSend with reserve: true, as the processor runs it *)
(* inside one attempt of a send or follow-up job.  The eight gates run in     *)
(* order; every gate that awaits Postgres or Redis is a step of its own, so   *)
(* other jobs, webhooks and the operator act between any two gates.           *)
EXTENDS OutreachStore

CONSTANTS
  BounceMinSample, ComplaintMinSample, \* BREAKER_*_MIN_SAMPLE
  BouncePermille, ComplaintPermille,   \* BREAKER_*_RATE, in thousandths
  MaxAttempts,  \* RETRY_POLICIES[...].attempts
  MaxStalls     \* BullMQ maxStalledCount

ASSUME GuardAssumption ==
  /\ BounceMinSample \in Nat /\ ComplaintMinSample \in Nat
  /\ BouncePermille \in Nat /\ ComplaintPermille \in Nat
  /\ MaxAttempts \in Nat \ {0} /\ MaxStalls \in Nat

VARIABLES
  pc,        \* per job: where its attempt is, or its state in the queue
  local,     \* per job: what the running attempt has read so far
  attempts,  \* per job: BullMQ attemptsMade
  stalls,    \* per job: BullMQ stalled counter
  burned,    \* history: warm-up tokens each job has consumed
  bars       \* history: what has forbidden the send ever since the attempt began

queueVars == <<pc, local, attempts, stalls>>
workerVars == <<queueVars, burned, bars>>

Idle == {"none", "queued", "completed", "failed"}
Guarding == {"fetch", "load", "suppression", "cooldown", "sends", "bounces", "complaints",
             "warmup", "token"}
Cleared == {"draft", "dispatch", "thread", "create", "persist", "read", "write", "mark"}
Running == Guarding \cup Cleared

StandingBars == {"optedOut", "suppressed", "cooldown", "killSwitch"}
RateBars == {"bounceRate", "complaintRate"}
Bars == StandingBars \cup RateBars

Fresh == [agent |-> NoAgent, dead |-> FALSE, sends |-> 0, cap |-> 0, day |-> 0,
          thread |-> NoThread, status |-> "absent"]
Local == [agent : Agents \cup {NoAgent}, dead : BOOLEAN, sends : Nat, cap : Nat,
          day : Days, thread : Threads \cup {NoThread},
          status : Statuses \cup {"absent"}]

WorkerTypeOK ==
  /\ pc \in [Jobs -> Idle \cup Running]
  /\ local \in [Jobs -> Local]
  /\ attempts \in [Jobs -> Nat] /\ stalls \in [Jobs -> Nat]
  /\ burned \in [Jobs -> Nat]
  /\ bars \in [Jobs -> SUBSET Bars]

WorkerInit ==
  /\ pc = [j \in Jobs |-> "none"]
  /\ local = [j \in Jobs |-> Fresh]
  /\ attempts = [j \in Jobs |-> 0] /\ stalls = [j \in Jobs |-> 0]
  /\ burned = [j \in Jobs |-> 0]
  /\ bars = [j \in Jobs |-> {}]

Goto(j, label) == pc' = [pc EXCEPT ![j] = label]

\* An UnrecoverableError: BullMQ fails the job whatever attempts remain.
Drop(j) ==
  /\ Goto(j, "failed") /\ local' = [local EXCEPT ![j] = Fresh]
  /\ UNCHANGED <<attempts, stalls, burned>>

\* Mutant: one more attempt than the policy has.
Retry_OneMore(j) ==
  /\ attempts' = [attempts EXCEPT ![j] = @ + 1]
  /\ Goto(j, IF attempts[j] < MaxAttempts THEN "queued" ELSE "failed")
  /\ local' = [local EXCEPT ![j] = Fresh]
  /\ UNCHANGED <<stalls, burned>>

\* Any other error: back to the queue while attempts remain.
Retry(j) ==
  /\ attempts' = [attempts EXCEPT ![j] = @ + 1]
  /\ Goto(j, IF attempts[j] + 1 < MaxAttempts THEN "queued" ELSE "failed")
  /\ local' = [local EXCEPT ![j] = Fresh]
  /\ UNCHANGED <<stalls, burned>>

\* The next gate, nothing else having changed but what the attempt remembers.
Pass(j, label) ==
  Goto(j, label) /\ UNCHANGED <<attempts, stalls, burned>>

TargetAgent(j) ==
  IF j \in SendJobs THEN SendAgent[j]
  ELSE IF ExistsThread(j.thread) THEN threads[j.thread].agent
  ELSE NoAgent

\* getThreadById: a follow-up looks up its thread, which names the agent.  A
\* missing row is a non-retryable OutreachError, here and in Load.
Fetch(j) ==
  /\ pc[j] = "fetch"
  /\ IF ExistsThread(j.thread)
     THEN /\ Pass(j, "load")
          /\ local' = [local EXCEPT ![j].agent = threads[j.thread].agent,
                                   ![j].thread = j.thread]
     ELSE Drop(j)
  /\ UNCHANGED storeVars

\* getById, then gates 1 and 2, which test the row just read.
Load(j) ==
  /\ pc[j] = "load"
  /\ LET a == IF j \in SendJobs THEN SendAgent[j] ELSE local[j].agent IN
     IF a \in present /\ a \in Corporate /\ a \notin optedOut
     THEN /\ Pass(j, "suppression")
          /\ local' = [local EXCEPT ![j].agent = a, ![j].dead = a \in undeliverable]
     ELSE Drop(j)
  /\ UNCHANGED storeVars

\* Mutant: gate 3 is skipped.
CheckSuppression_Skipped(j) ==
  /\ pc[j] = "suppression"
  /\ IF local[j].dead THEN Drop(j) ELSE Pass(j, "cooldown") /\ UNCHANGED local
  /\ UNCHANGED storeVars

\* Gate 3 reads the suppression list; gate 4 tests the row read at Load.
CheckSuppression(j) ==
  /\ pc[j] = "suppression"
  /\ IF isSuppressed(EmailOf[local[j].agent]) \/ local[j].dead
     THEN Drop(j)
     ELSE Pass(j, "cooldown") /\ UNCHANGED local
  /\ UNCHANGED storeVars

\* Gate 5: one cold approach per agency per window.
CheckCooldown(j) ==
  /\ pc[j] = "cooldown"
  /\ LET a == local[j].agent IN
     IF wasDomainContactedSince(DomainOf[EmailOf[a]], day - CooldownDays, a)
     THEN Drop(j)
     ELSE Pass(j, "sends") /\ UNCHANGED local
  /\ UNCHANGED storeVars

\* Gate 6: sends are counted first, then bounces, then complaints, all since the
\* cutoff fixed before the first count.
CountSends(j) ==
  /\ pc[j] = "sends"
  /\ local' = [local EXCEPT ![j].sends = countOutboundSince(day - BreakerDays),
                            ![j].day = day]
  /\ Pass(j, "bounces")
  /\ UNCHANGED storeVars

Tripped(type, sends, now, minSample, permille) ==
  /\ sends >= minSample
  /\ countByTypeSince(type, now - BreakerDays) * 1000 > permille * sends

\* Mutant: a sample exactly at the floor is let through.
CheckBounces_AboveFloor(j) ==
  /\ pc[j] = "bounces"
  /\ IF Tripped("bounced", local[j].sends, local[j].day, BounceMinSample + 1, BouncePermille)
     THEN Drop(j)
     ELSE Pass(j, "complaints") /\ UNCHANGED local
  /\ UNCHANGED storeVars

CheckBounces(j) ==
  /\ pc[j] = "bounces"
  /\ IF Tripped("bounced", local[j].sends, local[j].day, BounceMinSample, BouncePermille)
     THEN Drop(j)
     ELSE Pass(j, "complaints") /\ UNCHANGED local
  /\ UNCHANGED storeVars

CheckComplaints(j) ==
  /\ pc[j] = "complaints"
  /\ IF Tripped("complained", local[j].sends, local[j].day, ComplaintMinSample,
                ComplaintPermille)
     THEN Drop(j)
     ELSE Pass(j, "warmup") /\ UNCHANGED local
  /\ UNCHANGED storeVars

\* Mutant: gate 7 reads the cap and not the switch.
CheckKillSwitch_CapOnly(j) ==
  /\ pc[j] = "warmup"
  /\ Pass(j, "token")
  /\ local' = [local EXCEPT ![j].cap = dailyCap]
  /\ UNCHANGED storeVars

\* Gate 7 reads the WarmupState row; its dailyCap is used by gate 8.
CheckKillSwitch(j) ==
  /\ pc[j] = "warmup"
  /\ IF killSwitch THEN Drop(j)
     ELSE /\ Pass(j, "token")
          /\ local' = [local EXCEPT ![j].cap = dailyCap]
  /\ UNCHANGED storeVars

\* Mutants: the comparison is off by one; the worker peeks as the router does;
\* an attempt over the cap waits for budget instead of failing.
ConsumeToken_OffByOne(j) ==
  /\ pc[j] = "token"
  /\ IF tokens[day] <= local[j].cap
     THEN /\ tokens' = [tokens EXCEPT ![day] = @ + 1]
          /\ burned' = [burned EXCEPT ![j] = @ + 1]
          /\ Goto(j, "draft")
          /\ UNCHANGED <<local, attempts, stalls>>
     ELSE Retry(j) /\ UNCHANGED tokens
  /\ UNCHANGED <<agentVars, suppressed, threadVars, events, warmupVars, day, sent>>

ConsumeToken_Peeks(j) ==
  /\ pc[j] = "token"
  /\ IF tokens[day] < local[j].cap THEN Pass(j, "draft") /\ UNCHANGED local ELSE Retry(j)
  /\ UNCHANGED storeVars

ConsumeToken_Waits(j) ==
  /\ pc[j] = "token" /\ tokens[day] < local[j].cap
  /\ tokens' = [tokens EXCEPT ![day] = @ + 1]
  /\ burned' = [burned EXCEPT ![j] = @ + 1]
  /\ Goto(j, "draft")
  /\ UNCHANGED <<local, attempts, stalls, agentVars, suppressed, threadVars, events,
                 warmupVars, day, sent>>

\* Gate 8: the Lua script compares and increments the day's counter atomically.
ConsumeToken(j) ==
  /\ pc[j] = "token"
  /\ IF tokens[day] < local[j].cap
     THEN /\ tokens' = [tokens EXCEPT ![day] = @ + 1]
          /\ burned' = [burned EXCEPT ![j] = @ + 1]
          /\ Goto(j, "draft")
          /\ UNCHANGED <<local, attempts, stalls>>
     ELSE Retry(j) /\ UNCHANGED tokens
  /\ UNCHANGED <<agentVars, suppressed, threadVars, events, warmupVars, day, sent>>

\* History.  The reasons a send by job j is forbidden in the current state, and
\* the update every step applies: a reason stays in bars[j] only while it has
\* held in every state since the attempt began.
BarsNow(j) ==
  LET a == IF local[j].agent # NoAgent THEN local[j].agent ELSE TargetAgent(j)
      sends == countOutboundSince(day - BreakerDays) IN
  (IF Tripped("bounced", sends, day, BounceMinSample, BouncePermille)
   THEN {"bounceRate"} ELSE {}) \cup
  (IF Tripped("complained", sends, day, ComplaintMinSample, ComplaintPermille)
   THEN {"complaintRate"} ELSE {}) \cup
  (IF killSwitch THEN {"killSwitch"} ELSE {}) \cup
  (IF a = NoAgent THEN {} ELSE
     (IF a \in optedOut THEN {"optedOut"} ELSE {}) \cup
     (IF isSuppressed(EmailOf[a]) THEN {"suppressed"} ELSE {}) \cup
     (IF wasDomainContactedSince(DomainOf[EmailOf[a]], day - CooldownDays, a)
      THEN {"cooldown"} ELSE {}))

RecordBars ==
  bars' = [j \in Jobs |->
             IF pc'[j] \notin Running THEN {}
             ELSE IF pc[j] \in Running THEN bars[j] \cap BarsNow(j)'
             ELSE BarsNow(j)']

GuardStep(j) ==
  \/ Fetch(j) \/ Load(j) \/ CheckSuppression(j) \/ CheckCooldown(j)
  \/ CountSends(j) \/ CheckBounces(j) \/ CheckComplaints(j)
  \/ CheckKillSwitch(j) \/ ConsumeToken(j)
=============================================================================
