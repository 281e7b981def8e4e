---------------------------- MODULE OutreachSend ----------------------------
(* The outbound path: BullMQ jobs of outreach:send and outreach:followup, the *)
(* processor running OutreachService.sendOutreach / sendFollowup over them,   *)
(* and everything that acts on the same rows meanwhile: one-click unsubscribe *)
(* and STOP, replies (linkReply), delivery webhooks, the operator,            *)
(* warmup:recalc, the follow-up scan, erasure and rediscovery of agents, and  *)
(* the calendar.                                                              *)
EXTENDS ComplianceGuard

CONSTANTS
  Unsubscribers,  \* bound: mailboxes that may opt out
  Bouncers,       \* bound: agents whose mail may bounce or draw a complaint
  Erasable,       \* bound: agents the operator may erase
  Probed,         \* bound: agents whose mailbox is probed again
  Replies, ReplyFrom, \* bound: replies handled at once, and each one's mailbox
  Operator,       \* bound: whether the operator uses the kill-switch
  Flaky,          \* bound: whether awaits may reject transiently
  CadenceDays     \* OUTREACH_FOLLOWUP_HOURS, in days

ASSUME EnvironmentAssumption ==
  /\ Unsubscribers \subseteq Emails /\ Bouncers \subseteq Agents
  /\ Erasable \subseteq Agents /\ Probed \subseteq Agents
  /\ ReplyFrom \in [Replies -> Emails]
  /\ Operator \in BOOLEAN /\ Flaky \in BOOLEAN /\ CadenceDays \in Nat

VARIABLES
  unsub,       \* per mailbox: how far an opt-out request has got
  toSuppress,  \* mailboxes whose bounce is recorded and not yet suppressed
  recalc,      \* the ramp day a running warmup:recalc computed, or Never
  due,         \* follow-ups the cadence scan has listed and not yet enqueued
  reply,       \* per reply: how far its linkReply has got, and what it has read
  answered     \* history: threads some reply found or created

replyVars == <<reply, answered>>
envVars == <<unsub, toSuppress, recalc, due, replyVars>>
vars == <<storeVars, workerVars, envVars>>

NoReply == [at |-> "idle", agent |-> NoAgent, thread |-> NoThread, status |-> "absent",
            day |-> 0]
Reply == [at : {"idle", "thread", "create", "read", "write"}, agent : Agents \cup {NoAgent},
          thread : Threads \cup {NoThread}, status : Statuses \cup {"absent"}, day : Days]

TypeOK ==
  /\ StoreTypeOK /\ WorkerTypeOK
  /\ unsub \in [Emails -> {"idle", "suppressed", "marked"}]
  /\ toSuppress \subseteq Emails
  /\ recalc \in Days \cup {Never}
  /\ due \subseteq FollowupJobs
  /\ reply \in [Replies -> Reply] /\ answered \subseteq Threads

Init ==
  /\ StoreInit /\ WorkerInit
  /\ unsub = [e \in Emails |-> "idle"]
  /\ toSuppress = {} /\ recalc = Never /\ due = {}
  /\ reply = [r \in Replies |-> NoReply] /\ answered = {}
-----------------------------------------------------------------------------
(* The queue *)

\* outreach.send and approveSends enqueue under a stable jobId; a job already in
\* the queue or still retained after it ended makes a second add a no-op.
Enqueue(j) ==
  /\ pc[j] = "none"
  /\ Goto(j, "queued")
  /\ UNCHANGED <<storeVars, local, attempts, stalls, burned, envVars>>

\* Mutant: the scan takes any open thread, however new.
ScanFollowups_AnyOpen ==
  LET silent == {t \in Threads : /\ threads[t].status \in {"active", "awaiting_reply"}
                                 /\ threads[t].last < day - CadenceDays}
  IN /\ silent # {}
     /\ due' = due \cup {[thread |-> t, day |-> day] : t \in silent}
     /\ UNCHANGED <<storeVars, queueVars, burned, unsub, toSuppress, recalc, replyVars>>

\* The cadence scan fixes the clock and lists the threads silent since their
\* last send (at most 100, more than the bound on threads).
ScanFollowups ==
  LET silent == {t \in Threads : /\ threads[t].status = "awaiting_reply"
                                 /\ threads[t].last < day - CadenceDays}
  IN /\ silent # {}
     /\ due' = due \cup {[thread |-> t, day |-> day] : t \in silent}
     /\ UNCHANGED <<storeVars, queueVars, burned, unsub, toSuppress, recalc, replyVars>>

\* Each listed thread then gets its follow-up in an await of its own, whatever
\* has become of the thread, under the key of the day it was listed; adding a job
\* that is there already does nothing.
EnqueueDue(f) ==
  /\ f \in due /\ pc[f] = "none"
  /\ Goto(f, "queued") /\ due' = due \ {f}
  /\ UNCHANGED <<storeVars, local, attempts, stalls, burned, unsub, toSuppress, recalc,
                 replyVars>>

SkipDue(f) ==
  /\ f \in due /\ pc[f] # "none"
  /\ due' = due \ {f}
  /\ UNCHANGED <<storeVars, queueVars, burned, unsub, toSuppress, recalc, replyVars>>

\* An add that fails ends the scan.
ScanFail ==
  /\ due # {}
  /\ due' = {}
  /\ UNCHANGED <<storeVars, queueVars, burned, unsub, toSuppress, recalc, replyVars>>

Start(j) ==
  /\ pc[j] = "queued"
  /\ Goto(j, IF j \in SendJobs THEN "load" ELSE "fetch")
  /\ UNCHANGED <<storeVars, local, attempts, stalls, burned, envVars>>

\* Any await of the handler may reject with a transient Postgres, Redis or
\* provider error before taking effect.
TransientError(j) ==
  /\ Flaky /\ pc[j] \in Running
  /\ Retry(j)
  /\ UNCHANGED <<storeVars, burned, envVars>>

\* The processor dies: BullMQ finds the job stalled and re-queues it, without
\* counting an attempt, until it has stalled too often.
Crash(j) ==
  /\ pc[j] \in Running
  /\ stalls' = [stalls EXCEPT ![j] = @ + 1]
  /\ Goto(j, IF stalls[j] < MaxStalls THEN "queued" ELSE "failed")
  /\ local' = [local EXCEPT ![j] = Fresh]
  /\ UNCHANGED <<storeVars, attempts, burned, envVars>>
-----------------------------------------------------------------------------
(* OutreachService.dispatch *)

StepTo(j, label) == Goto(j, label) /\ UNCHANGED <<attempts, stalls, burned, envVars>>

\* After the guard: load the search draft and fix `now`, hence the follow-up key.
Draft(j) ==
  /\ pc[j] = "draft"
  /\ local' = [local EXCEPT ![j].day = day]
  /\ StepTo(j, "dispatch")
  /\ UNCHANGED storeVars

\* The Idempotency-Key: stable for a send, per (thread, UTC day) for a follow-up.
Key(j) == IF j \in SendJobs THEN j ELSE [thread |-> j.thread, day |-> local[j].day]

\* The provider emails a key once; a repeated key gets the original id back.
Accept(j) ==
  IF \E s \in sent : s.key = Key(j) THEN UNCHANGED sent
  ELSE sent' = sent \cup {[key |-> Key(j), agent |-> local[j].agent, day |-> day]}

Dispatch(j) ==
  /\ pc[j] = "dispatch"
  /\ Accept(j)
  /\ StepTo(j, IF j \in SendJobs THEN "thread" ELSE "persist")
  /\ UNCHANGED <<agentVars, suppressed, threadVars, events, warmupVars, tokens, day, local>>

\* The provider accepted the email but its answer never arrived.
LoseAnswer(j) ==
  /\ Flaky /\ pc[j] = "dispatch"
  /\ Accept(j) /\ Retry(j)
  /\ UNCHANGED <<agentVars, suppressed, threadVars, events, warmupVars, tokens, day, envVars>>

\* Mutant: every attempt creates a thread of its own.
FindThread_Creates(j) ==
  /\ pc[j] = "thread"
  /\ StepTo(j, "create") /\ UNCHANGED local
  /\ UNCHANGED storeVars

\* findOrCreateOpenThreadByAgent: findFirst, then create in a second statement.
FindThread(j) ==
  /\ pc[j] = "thread"
  /\ \/ /\ OpenThreads(local[j].agent) = {}
        /\ StepTo(j, "create") /\ UNCHANGED local
     \/ \E t \in NewestOpen(local[j].agent) :
          StepTo(j, "persist") /\ local' = [local EXCEPT ![j].thread = t]
  /\ UNCHANGED storeVars

\* The foreign key rejects a thread for an erased agent.
CreateThread(j) ==
  /\ pc[j] = "create"
  /\ IF local[j].agent \in present
     THEN /\ createThread(local[j].agent)
          /\ local' = [local EXCEPT ![j].thread = nextThread]
          /\ StepTo(j, "persist")
     ELSE Retry(j) /\ UNCHANGED <<threads, nextThread, burned, envVars>>
  /\ UNCHANGED <<agentVars, suppressed, outbound, events, warmupVars, tokens, day, sent>>

\* A plain create: the unique providerMessageId and the thread's foreign key
\* both throw, and both look retryable to the worker.
PersistMessage(j) ==
  /\ pc[j] = "persist"
  /\ IF ExistsThread(local[j].thread) /\ ~ \E m \in outbound : m.key = Key(j)
     THEN /\ outbound' = outbound \cup
               {[key |-> Key(j), thread |-> local[j].thread, day |-> local[j].day]}
          /\ StepTo(j, "read") /\ UNCHANGED local
     ELSE Retry(j) /\ UNCHANGED <<outbound, burned, envVars>>
  /\ UNCHANGED <<agentVars, suppressed, threads, nextThread, events, warmupVars, tokens,
                 day, sent>>

\* applyThreadEvent(outbound_sent): read the status, then write by id.
ReadStatus(j) ==
  /\ pc[j] = "read"
  /\ IF ExistsThread(local[j].thread)
     THEN /\ local' = [local EXCEPT ![j].status = threads[local[j].thread].status]
          /\ StepTo(j, "write")
     ELSE Retry(j) /\ UNCHANGED <<burned, envVars>>
  /\ UNCHANGED storeVars

\* Mutant: the event is written in place of the status it leads to.
WriteStatus_Event(j) ==
  /\ pc[j] = "write"
  /\ LET t == local[j].thread IN
     IF ExistsThread(t)
     THEN /\ threads' = [threads EXCEPT ![t].status = "outbound_sent",
                                       ![t].last = local[j].day]
          /\ StepTo(j, "mark") /\ UNCHANGED local
     ELSE Retry(j) /\ UNCHANGED <<threads, burned, envVars>>
  /\ UNCHANGED <<agentVars, suppressed, nextThread, outbound, events, warmupVars, tokens,
                 day, sent>>

\* `status` is written only when the reducer changed it; lastMessageAt always.
WriteStatus(j) ==
  /\ pc[j] = "write"
  /\ LET t == local[j].thread
         next == advanceThreadStatus(local[j].status, "outbound_sent") IN
     IF ExistsThread(t)
     THEN /\ threads' = [threads EXCEPT
               ![t].status = IF next = local[j].status THEN @ ELSE next,
               ![t].last = local[j].day]
          /\ StepTo(j, "mark") /\ UNCHANGED local
     ELSE Retry(j) /\ UNCHANGED <<threads, burned, envVars>>
  /\ UNCHANGED <<agentVars, suppressed, nextThread, outbound, events, warmupVars, tokens,
                 day, sent>>

MarkContacted(j) ==
  /\ pc[j] = "mark"
  /\ LET a == local[j].agent IN
     IF a \in present
     THEN /\ lastContactedAt' = [lastContactedAt EXCEPT ![a] = local[j].day]
          /\ local' = [local EXCEPT ![j] = Fresh]
          /\ StepTo(j, "completed")
     ELSE Retry(j) /\ UNCHANGED <<lastContactedAt, burned, envVars>>
  /\ UNCHANGED <<present, everPresent, optedOut, undeliverable, suppressed, threadVars,
                 events, warmupVars, tokens, day, sent>>

DispatchStep(j) ==
  \/ Draft(j) \/ Dispatch(j) \/ LoseAnswer(j) \/ FindThread(j) \/ CreateThread(j)
  \/ PersistMessage(j) \/ ReadStatus(j) \/ WriteStatus(j) \/ MarkContacted(j)
-----------------------------------------------------------------------------
(* What else acts on the same state *)

\* One-click unsubscribe: suppress, mark the agent, close its threads.  Three
\* statements, no transaction; any but the first may never run, and a repeat
\* starts again from the first.  handleOptOut runs the first two on a STOP reply.
UnsubSuppress(e) ==
  /\ unsub[e] = "idle" /\ e \in Unsubscribers
  /\ suppressed' = suppressed \cup {e}
  /\ unsub' = [unsub EXCEPT ![e] = "suppressed"]
  /\ UNCHANGED <<agentVars, threadVars, events, warmupVars, tokens, day, sent,
                 queueVars, burned, toSuppress, recalc, due, replyVars>>

UnsubMark(e) ==
  /\ unsub[e] = "suppressed"
  /\ markOptedOut(e)
  /\ unsub' = [unsub EXCEPT ![e] = "marked"]
  /\ UNCHANGED <<present, everPresent, undeliverable, lastContactedAt, suppressed,
                 threadVars, events, warmupVars, tokens, day, sent, queueVars, burned,
                 toSuppress, recalc, due, replyVars>>

UnsubClose(e) ==
  /\ unsub[e] = "marked"
  /\ closeThreadsByAgent({a \in present : EmailOf[a] = e})
  /\ unsub' = [unsub EXCEPT ![e] = "idle"]
  /\ UNCHANGED <<agentVars, suppressed, nextThread, outbound, events, warmupVars, tokens,
                 day, sent, queueVars, burned, toSuppress, recalc, due, replyVars>>

UnsubFail(e) ==
  /\ unsub[e] # "idle"
  /\ unsub' = [unsub EXCEPT ![e] = "idle"]
  /\ UNCHANGED <<storeVars, queueVars, burned, toSuppress, recalc, due, replyVars>>

\* ingestEvent: record the provider's report of a delivered email, once per
\* provider event id (an email may draw several), then (hard bounce or
\* complaint) suppress the address in a second statement.
RecordEvent(s, type, hard, id) ==
  /\ s \in sent /\ s.agent \in Bouncers
  /\ \A ev \in events : ev.id # id
  /\ events' = events \cup {[id |-> id, key |-> s.key, agent |-> s.agent, type |-> type,
                             day |-> day]}
  /\ toSuppress' = IF hard THEN toSuppress \cup {EmailOf[s.agent]} ELSE toSuppress
  /\ UNCHANGED <<agentVars, suppressed, threadVars, warmupVars, tokens, day, sent,
                 queueVars, burned, unsub, recalc, due, replyVars>>

SuppressBounced(e) ==
  /\ e \in toSuppress
  /\ suppressed' = suppressed \cup {e}
  /\ toSuppress' = toSuppress \ {e}
  /\ UNCHANGED <<agentVars, threadVars, events, warmupVars, tokens, day, sent, queueVars,
                 burned, unsub, recalc, due, replyVars>>

ToggleKillSwitch ==
  /\ Operator
  /\ killSwitch' = ~killSwitch
  /\ UNCHANGED <<agentVars, suppressed, threadVars, events, dailyCap, tokens, day, sent,
                 queueVars, burned, envVars>>

\* warmup:recalc reads the row and the clock, then writes the cap if it differs.
\* Full days since the ramp began are d or d - 1 on UTC day d, by the hour.
RecalcRead ==
  /\ recalc = Never
  /\ \E elapsed \in {day - 1, day} \cap Days :
       Cap(elapsed) # dailyCap /\ recalc' = elapsed
  /\ UNCHANGED <<storeVars, queueVars, burned, unsub, toSuppress, due, replyVars>>

RecalcWrite ==
  /\ recalc # Never
  /\ dailyCap' = Cap(recalc)
  /\ recalc' = Never
  /\ UNCHANGED <<agentVars, suppressed, threadVars, events, killSwitch, tokens, day, sent,
                 queueVars, burned, unsub, toSuppress, due, replyVars>>

\* eraseAgentById and the removal cascade: one transaction deletes the row with
\* its threads and messages and purges the delivery events of its address.
Erase(a) ==
  /\ a \in present \cap Erasable
  /\ deleteAgent(a)
  /\ events' = {ev \in events : EmailOf[ev.agent] # EmailOf[a]}
  /\ UNCHANGED <<everPresent, optedOut, undeliverable, lastContactedAt, suppressed,
                 nextThread, warmupVars, tokens, day, sent, queueVars, burned, envVars>>

\* Discovery upserts by email: a mailbox without a row gets a fresh one.
Discover(a) ==
  /\ a \notin everPresent
  /\ \A b \in present : EmailOf[b] # EmailOf[a]
  /\ present' = present \cup {a} /\ everPresent' = everPresent \cup {a}
  /\ UNCHANGED <<optedOut, undeliverable, lastContactedAt, suppressed, threadVars, events,
                 warmupVars, tokens, day, sent, queueVars, burned, envVars>>

\* A probe records its verdict on the row: dead, or deliverable or unknown.
Verify(a) ==
  /\ a \in present \cap Probed
  /\ \E dead \in BOOLEAN :
       undeliverable' = IF dead THEN undeliverable \cup {a} ELSE undeliverable \ {a}
  /\ UNCHANGED <<present, everPresent, optedOut, lastContactedAt, suppressed, threadVars,
                 events, warmupVars, tokens, day, sent, queueVars, burned, envVars>>

\* linkReply, over a reply that passed SPF or DKIM: the agent of the sender's
\* mailbox, its open thread (found or created), the reducer.  Every await may be
\* the last one, for the ingestion logs a failure and goes on.  The close a STOP
\* ends with is UnsubClose; the inbound row is left to InboundEmail.
ReplyTo(r, record) == reply' = [reply EXCEPT ![r] = record]
replyFrame == <<queueVars, burned, unsub, toSuppress, recalc, due>>

ReplyArrive(r) ==
  /\ reply[r].at = "idle"
  /\ \E a \in present, received \in 0..day :
       /\ EmailOf[a] = ReplyFrom[r]
       /\ ReplyTo(r, [NoReply EXCEPT !.at = "thread", !.agent = a, !.day = received])
  /\ UNCHANGED <<storeVars, answered, replyFrame>>

ReplyFindThread(r) ==
  /\ reply[r].at = "thread"
  /\ \/ /\ OpenThreads(reply[r].agent) = {}
        /\ ReplyTo(r, [reply[r] EXCEPT !.at = "create"]) /\ UNCHANGED answered
     \/ \E t \in NewestOpen(reply[r].agent) :
          /\ ReplyTo(r, [reply[r] EXCEPT !.at = "read", !.thread = t])
          /\ answered' = answered \cup {t}
  /\ UNCHANGED <<storeVars, replyFrame>>

ReplyCreateThread(r) ==
  /\ reply[r].at = "create" /\ reply[r].agent \in present
  /\ createThread(reply[r].agent)
  /\ ReplyTo(r, [reply[r] EXCEPT !.at = "read", !.thread = nextThread])
  /\ answered' = answered \cup {nextThread}
  /\ UNCHANGED <<agentVars, suppressed, outbound, events, warmupVars, tokens, day, sent,
                 replyFrame>>

ReplyRead(r) ==
  /\ reply[r].at = "read" /\ ExistsThread(reply[r].thread)
  /\ ReplyTo(r, [reply[r] EXCEPT !.at = "write",
                                 !.status = threads[reply[r].thread].status])
  /\ UNCHANGED <<storeVars, answered, replyFrame>>

ReplyWrite(r) ==
  /\ reply[r].at = "write" /\ ExistsThread(reply[r].thread)
  /\ LET next == advanceThreadStatus(reply[r].status, "inbound_reply") IN
     threads' = [threads EXCEPT
       ![reply[r].thread].status = IF next = reply[r].status THEN @ ELSE next,
       ![reply[r].thread].last = reply[r].day]
  /\ ReplyTo(r, NoReply)
  /\ UNCHANGED <<agentVars, suppressed, nextThread, outbound, events, warmupVars, tokens,
                 day, sent, answered, replyFrame>>

\* A statement rejects, as the foreign key does once the agent is erased.
ReplyFail(r) ==
  /\ reply[r].at # "idle"
  /\ ReplyTo(r, NoReply)
  /\ UNCHANGED <<storeVars, answered, replyFrame>>

ReplyStep(r) ==
  \/ ReplyArrive(r) \/ ReplyFindThread(r) \/ ReplyCreateThread(r) \/ ReplyRead(r)
  \/ ReplyWrite(r) \/ ReplyFail(r)

NextDay ==
  /\ day < MaxDay
  /\ day' = day + 1
  /\ UNCHANGED <<agentVars, suppressed, threadVars, events, warmupVars, tokens, sent,
                 queueVars, burned, envVars>>
-----------------------------------------------------------------------------
JobStep(j) ==
  \/ Start(j)
  \/ GuardStep(j) /\ UNCHANGED envVars
  \/ DispatchStep(j)

Fault(j) == TransientError(j) \/ Crash(j)

Environment ==
  \/ \E e \in Emails : \/ UnsubSuppress(e) \/ UnsubMark(e) \/ UnsubClose(e)
                       \/ UnsubFail(e) \/ SuppressBounced(e)
  \/ \E s \in sent, type \in {"bounced", "complained"}, hard \in BOOLEAN, id \in EventIds :
       (type = "complained" => hard) /\ RecordEvent(s, type, hard, id)
  \/ \E r \in Replies : ReplyStep(r)
  \/ ToggleKillSwitch \/ RecalcRead \/ RecalcWrite \/ NextDay
  \/ \E a \in Agents : Erase(a) \/ Discover(a) \/ Verify(a)
  \/ ScanFollowups \/ ScanFail \/ \E f \in FollowupJobs : SkipDue(f)

Next ==
  /\ \/ \E j \in SendJobs : Enqueue(j)
     \/ \E f \in FollowupJobs : EnqueueDue(f)
     \/ \E j \in Jobs : JobStep(j) \/ Fault(j)
     \/ Environment
  /\ RecordBars

\* The processor keeps taking jobs and a handler keeps running; webhooks, the
\* operator and the scheduler owe nothing.
Fairness == \A j \in Jobs : WF_vars(JobStep(j) /\ RecordBars)

Spec == Init /\ [][Next]_vars
FairSpec == Spec /\ Fairness
-----------------------------------------------------------------------------
(* Safety *)

\* No attempt gets past the guard while an opt-out, a suppression, the agency's
\* cooldown or the kill-switch has stood ever since the attempt began, whatever
\* else happened between its gates.
GuardHoldsBars == \A j \in Jobs : pc[j] \in Cleared => bars[j] \cap StandingBars = {}

\* Nor while the bounce or the complaint rate has stood over its limit all the
\* while, although sends and events are counted in separate statements and other
\* sends and webhooks move the rate between them (absent erasures, which rewrite
\* both counts).
BreakerHolds == \A j \in Jobs : pc[j] \in Cleared => bars[j] \cap RateBars = {}

\* The day's counter never passes what the ramp allows that day, although the
\* cap is read two steps before it is used and recalc writes it concurrently.
TokensWithinRamp == \A d \in Days : tokens[d] <= Cap(d)

\* A job consumes at most one token per attempt and one per stall, so a
\* flapping send costs a bounded share of the day's cap.
BurnBounded == \A j \in Jobs : burned[j] <= MaxAttempts + MaxStalls

\* The tokens consumed up to day d: <<e, n>> is the n-th of day e.
TokensThrough(d) == UNION {{e} \X (1..tokens[e]) : e \in 0..d}

\* Every physical email was paid for by a token of the same or an earlier day,
\* so no sequence of crashes, lost answers and retries mails beyond the budget.
EveryEmailPaidFor ==
  \A d \in Days :
    Cardinality({s \in sent : s.day <= d}) <= Cardinality(TokensThrough(d))

\* A stored outbound message was really emailed, under its own key, to the agent
\* its thread belongs to (the breaker divides by these rows).
FiledUnderRecipient ==
  \A m \in outbound : \E s \in sent :
    s.key = m.key /\ s.agent = threads[m.thread].agent

\* Attempts of one job never open a second conversation with the agent, wherever
\* the first was cut off: of the open threads no reply has touched there are no
\* more than send jobs for the agent.  (A reply racing a send's find opens a thread
\* by the same find-or-create, and one that read a status before an opt-out closed
\* the thread reopens it: linkReply's own threads are exempt, and no others.)
OneThreadPerJob ==
  \A a \in Agents :
    Cardinality(OpenThreads(a) \ answered) <= Cardinality({j \in SendJobs : SendAgent[j] = a})

\* A send reported complete left the whole record: the message, a thread that
\* has moved on from `active`, and the contact date the cooldown reads; or the
\* agent has been erased since.
CompletedIsRecorded ==
  \A j \in SendJobs : pc[j] = "completed" =>
    \/ SendAgent[j] \notin present
    \/ /\ lastContactedAt[SendAgent[j]] # Never
       /\ \E m \in outbound : m.key = j /\ threads[m.thread].status # "active"

\* Follow-ups go only into conversations in which a first email is on record.
FollowupContinuesThread ==
  \A f \in FollowupJobs : pc[f] # "none" /\ ExistsThread(f.thread) =>
    \E m \in outbound : m.thread = f.thread /\ m.key # f
-----------------------------------------------------------------------------
(* Liveness *)

\* Every enqueued job ends, completed or failed: no gate, crash or retry loops.
JobsSettle ==
  \A j \in Jobs : pc[j] = "queued" ~> pc[j] \in {"completed", "failed"}
=============================================================================
