---------------------------- MODULE InboundEmail ----------------------------
(* The inbound path: a webhook enqueues one outreach:inbound job per email,    *)
(* and the processor opts the sender out, pays for an extraction, stores the   *)
(* listing it found with its source, hands it to the analysis queue and files  *)
(* the email on the sender's outreach thread, which the send path writes too.  *)
EXTENDS Integers, FiniteSets, ThreadStatus

CONSTANTS
  Messages,       \* Resend email ids
  Agents, NoAgent, \* tracked agents
  SenderOf,       \* the agent a message comes from, NoAgent for anyone else
  Stops,          \* messages that ask to stop or unsubscribe
  Bare,           \* messages without attachment that are a STOP or an empty reply
  Addresses, NoAddress,
  Readings,       \* per message: the addresses the extractor may read in it
  DailyCap,       \* EXTRACTION_DAILY_CAP
  MaxAttempts, MaxStalls, \* BullMQ: attempts of a job, stalls it survives
  Faulty,         \* bound: messages whose awaits may reject
  MaxThreads, MaxDay, \* bounds: threads ever created, UTC days
  MaxSends,       \* bound: outbound emails per agent
  Deliveries      \* bound: webhook deliveries, per message

Keys == Addresses \cup Messages
None == "none"
Days == 0..MaxDay
Threads == 1..MaxThreads

ASSUME InboundAssumption ==
  /\ IsFiniteSet(Messages)
  /\ NoAgent \notin Agents /\ NoAddress \notin Keys /\ None \notin Keys
  /\ SenderOf \in [Messages -> Agents \cup {NoAgent}]
  /\ Stops \subseteq Messages /\ Bare \subseteq Messages /\ Faulty \subseteq Messages
  /\ Readings \in [Messages -> SUBSET (Addresses \cup {NoAddress})]
  /\ DailyCap \in Nat /\ MaxAttempts \in Nat \ {0} /\ MaxStalls \in Nat
  /\ MaxThreads \in Nat /\ MaxDay \in Nat /\ MaxSends \in Nat
  /\ Deliveries \in [Messages -> Nat]

VARIABLES
  infra,      \* messages without a deliverable recipient; never changes
  forged,     \* messages that fail SPF and DKIM; never changes
  pc, attempts, stalls, \* per message: its job
  local,      \* per message: what the running attempt remembers
  deliveries, \* per message: webhook deliveries so far
  optedOut, suppressed, \* agents opted out; messages' senders suppressed
  listings,   \* addressNormalized of the Listing rows
  source,     \* per message: the listing of its source record, or None
  analysis,   \* listings with an analyze:listing job, running or retained
  threads, nextThread, \* OutreachThread rows
  replies,    \* inbound OutreachMessage rows
  sending, sends, \* per agent: the statement its send awaits; emails sent
  tokens, day, \* Redis: extraction:daily:<day>; the UTC day
  paid,       \* history: extractions paid for, by the day of their token
  unlinked    \* history: messages whose linking failed and was swallowed

jobVars == <<pc, attempts, stalls, local, deliveries>>
stopVars == <<optedOut, suppressed>>
listingVars == <<listings, source, analysis>>
threadVars == <<threads, nextThread>>
mail == <<infra, forged>>
sendVars == <<sending, sends>>
budgetVars == <<tokens, day, paid>>
vars == <<mail, jobVars, stopVars, listingVars, threadVars, replies, sendVars, budgetVars, unlinked>>

Ingesting == {"gate", "suppress", "mark", "charge", "extract", "store", "handoff"}
Linking == {"thread", "create", "reply", "read", "write", "close"}
Running == Ingesting \cup Linking
Ended == {"completed", "failed"}

Fresh == [key |-> None, day |-> 0, thread |-> 0, status |-> "active"]
AbsentThread == [agent |-> NoAgent, status |-> "absent"]
Resting == [at |-> "idle", thread |-> 0, status |-> "active"]

TypeOK ==
  /\ infra \subseteq Messages /\ forged \subseteq Messages
  /\ pc \in [Messages -> {"none", "queued"} \cup Running \cup Ended]
  /\ attempts \in [Messages -> 0..MaxAttempts]
  /\ stalls \in [Messages -> 0..(MaxStalls + 1)]
  /\ local \in [Messages -> [key : Keys \cup {None}, day : Days,
                             thread : 0..MaxThreads, status : Statuses]]
  /\ deliveries \in [Messages -> Nat] /\ \A m \in Messages : deliveries[m] <= Deliveries[m]
  /\ optedOut \subseteq Agents /\ suppressed \subseteq Agents \cup {NoAgent}
  /\ listings \subseteq Keys /\ analysis \subseteq Keys
  /\ source \in [Messages -> Keys \cup {None}]
  /\ threads \in [Threads -> [agent : Agents \cup {NoAgent},
                              status : Statuses \cup {"absent"}]]
  /\ nextThread \in 1..(MaxThreads + 1)
  /\ replies \subseteq [message : Messages, thread : Threads]
  /\ sending \in [Agents -> [at : {"idle", "find", "create", "read", "write"},
                             thread : 0..MaxThreads, status : Statuses]]
  /\ sends \in [Agents -> 0..MaxSends]
  /\ tokens \in [Days -> 0..DailyCap] /\ day \in Days
  /\ paid \in [Days -> Nat]
  /\ unlinked \subseteq Messages

Init ==
  /\ infra \in SUBSET Messages /\ forged \in SUBSET Messages
  /\ pc = [m \in Messages |-> "none"] /\ attempts = [m \in Messages |-> 0]
  /\ stalls = [m \in Messages |-> 0] /\ local = [m \in Messages |-> Fresh]
  /\ deliveries = [m \in Messages |-> 0]
  /\ optedOut = {} /\ suppressed = {}
  /\ listings = {} /\ source = [m \in Messages |-> None] /\ analysis = {}
  /\ threads = [t \in Threads |-> AbsentThread] /\ nextThread = 1
  /\ replies = {}
  /\ sending = [a \in Agents |-> Resting]
  /\ sends = [a \in Agents |-> 0]
  /\ tokens = [d \in Days |-> 0] /\ day = 0 /\ paid = [d \in Days |-> 0]
  /\ unlinked = {}
-----------------------------------------------------------------------------
(* The job *)

Goto(m, label) == pc' = [pc EXCEPT ![m] = label]
Attempt(m) == UNCHANGED <<attempts, stalls, deliveries>>
StepTo(m, label) == Goto(m, label) /\ Attempt(m) /\ UNCHANGED local

\* The handler threw something retryable: BullMQ runs the job again, or gives up.
Retry(m) ==
  /\ attempts' = [attempts EXCEPT ![m] = @ + 1]
  /\ Goto(m, IF attempts[m] + 1 < MaxAttempts THEN "queued" ELSE "failed")
  /\ local' = [local EXCEPT ![m] = Fresh]
  /\ UNCHANGED <<stalls, deliveries>>

\* UnrecoverableError: the job fails at once.
Drop(m) ==
  /\ Goto(m, "failed")
  /\ local' = [local EXCEPT ![m] = Fresh]
  /\ Attempt(m)

Complete(m) ==
  /\ Goto(m, "completed")
  /\ local' = [local EXCEPT ![m] = Fresh]
  /\ Attempt(m)

Elsewhere == UNCHANGED <<mail, sendVars, tokens, day, paid>>

\* The webhook enqueues under resend:inbound:<email_id>; while a job of that id
\* exists, even ended, a redelivery adds nothing.
Deliver(m) ==
  /\ deliveries[m] < Deliveries[m]
  /\ deliveries' = [deliveries EXCEPT ![m] = @ + 1]
  /\ IF pc[m] = "none"
     THEN /\ Goto(m, "queued")
          /\ attempts' = [attempts EXCEPT ![m] = 0] /\ stalls' = [stalls EXCEPT ![m] = 0]
     ELSE UNCHANGED <<pc, attempts, stalls>>
  /\ UNCHANGED <<local, stopVars, listingVars, threadVars, replies, unlinked>>
  /\ Elsewhere

\* An ended job leaves the 100 completed or 500 failed that are retained.
Evict(m) ==
  /\ pc[m] \in Ended /\ deliveries[m] < Deliveries[m]
  /\ StepTo(m, "none")
  /\ UNCHANGED <<stopVars, listingVars, threadVars, replies, unlinked>>
  /\ Elsewhere

Start(m) ==
  /\ pc[m] = "queued"
  /\ StepTo(m, "gate")
  /\ UNCHANGED <<stopVars, listingVars, threadVars, replies, unlinked>>
  /\ Elsewhere

\* Hydration, the token bucket, the extractor, Postgres or the analysis queue
\* rejects before taking effect.
TransientError(m) ==
  /\ m \in Faulty /\ pc[m] \in Ingesting
  /\ Retry(m)
  /\ UNCHANGED <<stopVars, listingVars, threadVars, replies, unlinked>>
  /\ Elsewhere

\* The processor dies: the stalled job is re-queued, uncounted, or given up.
Crash(m) ==
  /\ m \in Faulty /\ pc[m] \in Running
  /\ stalls' = [stalls EXCEPT ![m] = @ + 1]
  /\ Goto(m, IF stalls[m] < MaxStalls THEN "queued" ELSE "failed")
  /\ local' = [local EXCEPT ![m] = Fresh]
  /\ UNCHANGED <<attempts, deliveries, stopVars, listingVars, threadVars, replies, unlinked>>
  /\ Elsewhere
-----------------------------------------------------------------------------
(* handleInbound: the recipient gate, the opt-out, whether to extract *)

\* linkReply does nothing for an unknown sender or for a forged message.
Linked(m) == SenderOf[m] \in Agents /\ m \notin forged
ToLink(m) == IF Linked(m) THEN StepTo(m, "thread") ELSE Complete(m)

\* Mutant: with nothing to extract the job is done.
ToIngest_Ends(m) == IF m \in Bare THEN Complete(m) ELSE StepTo(m, "charge")

\* With nothing to extract the paid part is skipped; the linking is not.
ToIngest(m) == IF m \in Bare THEN ToLink(m) ELSE StepTo(m, "charge")

\* Mutant: a STOP that fails SPF and DKIM is not believed.
Gate_Believes(m) ==
  /\ pc[m] = "gate"
  /\ IF m \in infra THEN Complete(m)
     ELSE IF m \in Stops \ forged THEN StepTo(m, "suppress") ELSE ToIngest(m)
  /\ UNCHANGED <<stopVars, listingVars, threadVars, replies, unlinked>>
  /\ Elsewhere

\* Mail to no real inbox completes unread; everything else is hydrated first.
Gate(m) ==
  /\ pc[m] = "gate"
  /\ IF m \in infra THEN Complete(m)
     ELSE IF m \in Stops THEN StepTo(m, "suppress") ELSE ToIngest(m)
  /\ UNCHANGED <<stopVars, listingVars, threadVars, replies, unlinked>>
  /\ Elsewhere

\* handleOptOut, whatever SPF and DKIM say: two statements, neither swallowed.
Suppress(m) ==
  /\ pc[m] = "suppress"
  /\ suppressed' = suppressed \cup {SenderOf[m]}
  /\ StepTo(m, "mark")
  /\ UNCHANGED <<optedOut, listingVars, threadVars, replies, unlinked>>
  /\ Elsewhere

MarkOptedOut(m) ==
  /\ pc[m] = "mark"
  /\ optedOut' = optedOut \cup ({SenderOf[m]} \cap Agents)
  /\ ToIngest(m)
  /\ UNCHANGED <<suppressed, listingVars, threadVars, replies, unlinked>>
  /\ Elsewhere
-----------------------------------------------------------------------------
(* ingestInboundEmail *)

\* Mutant: the cap is compared after the increment, and off by one.
Charge_OneMore(m) ==
  /\ pc[m] = "charge"
  /\ IF tokens[day] <= DailyCap
     THEN /\ tokens' = [tokens EXCEPT ![day] = @ + 1]
          /\ Goto(m, "extract") /\ Attempt(m)
          /\ local' = [local EXCEPT ![m].day = day]
     ELSE Drop(m) /\ UNCHANGED tokens
  /\ UNCHANGED <<mail, day, paid, sendVars, stopVars, listingVars, threadVars, replies, unlinked>>

\* Mutant: the bucket is asked without reserving.
Charge_Peeks(m) ==
  /\ pc[m] = "charge"
  /\ IF tokens[day] < DailyCap
     THEN /\ Goto(m, "extract") /\ Attempt(m)
          /\ local' = [local EXCEPT ![m].day = day]
     ELSE Drop(m)
  /\ UNCHANGED <<mail, tokens, day, paid, sendVars, stopVars, listingVars, threadVars,
                 replies, unlinked>>

\* consumeToken on the day's bucket; over the cap, the email is dropped for good.
Charge(m) ==
  /\ pc[m] = "charge"
  /\ IF tokens[day] < DailyCap
     THEN /\ tokens' = [tokens EXCEPT ![day] = @ + 1]
          /\ Goto(m, "extract") /\ Attempt(m)
          /\ local' = [local EXCEPT ![m].day = day]
     ELSE Drop(m) /\ UNCHANGED tokens
  /\ UNCHANGED <<mail, day, paid, sendVars, stopVars, listingVars, threadVars, replies, unlinked>>

\* The extractor is paid; it may read the same email differently each time.  The
\* key is the address, or the message when no address can be keyed on.
Extract(m) ==
  /\ pc[m] = "extract"
  /\ paid' = [paid EXCEPT ![local[m].day] = @ + 1]
  /\ \E a \in Readings[m] :
       local' = [local EXCEPT ![m].key = IF a = NoAddress THEN m ELSE a]
  /\ Goto(m, "store") /\ Attempt(m)
  /\ UNCHANGED <<mail, tokens, day, sendVars, stopVars, listingVars, threadVars, replies, unlinked>>

\* It was paid, and its answer is lost, or is one no retry can mend.
ExtractFails(m) ==
  /\ m \in Faulty /\ pc[m] = "extract"
  /\ paid' = [paid EXCEPT ![local[m].day] = @ + 1]
  /\ Retry(m) \/ Drop(m)
  /\ UNCHANGED <<mail, tokens, day, sendVars, stopVars, listingVars, threadVars, replies, unlinked>>

\* Mutant: an email that was stored before needs no analysis.
Store_Ingested(m) ==
  /\ pc[m] = "store"
  /\ listings' = listings \cup {local[m].key}
  /\ source' = [source EXCEPT ![m] = local[m].key]
  /\ IF source[m] = local[m].key THEN ToLink(m) ELSE StepTo(m, "handoff")
  /\ UNCHANGED <<analysis, stopVars, threadVars, replies, unlinked>>
  /\ Elsewhere

\* One transaction: the listing found by its key, or else upserted under it, and
\* the source record of the email, which moves if the key did.
Store(m) ==
  /\ pc[m] = "store"
  /\ listings' = listings \cup {local[m].key}
  /\ source' = [source EXCEPT ![m] = local[m].key]
  /\ StepTo(m, "handoff")
  /\ UNCHANGED <<analysis, stopVars, threadVars, replies, unlinked>>
  /\ Elsewhere

HandOff(m) ==
  /\ pc[m] = "handoff"
  /\ analysis' = analysis \cup {local[m].key}
  /\ ToLink(m)
  /\ UNCHANGED <<listings, source, stopVars, threadVars, replies, unlinked>>
  /\ Elsewhere
-----------------------------------------------------------------------------
(* linkReply: best effort, a failure is logged and the job completes *)

OpenThreads(a) == {t \in Threads : threads[t].agent = a /\ threads[t].status # "closed"}
NewestOpen(a) == {t \in OpenThreads(a) : \A u \in OpenThreads(a) : u <= t}
createThread(a) ==
  /\ nextThread \in Threads
  /\ threads' = [threads EXCEPT ![nextThread] = [agent |-> a, status |-> "active"]]
  /\ nextThread' = nextThread + 1

LinkFails(m) ==
  /\ m \in Faulty /\ pc[m] \in Linking
  /\ Complete(m)
  /\ unlinked' = unlinked \cup {m}
  /\ UNCHANGED <<stopVars, listingVars, threadVars, replies>>
  /\ Elsewhere

FindThread(m) ==
  /\ pc[m] = "thread"
  /\ \/ OpenThreads(SenderOf[m]) = {} /\ StepTo(m, "create")
     \/ \E t \in NewestOpen(SenderOf[m]) :
          /\ Goto(m, "reply") /\ Attempt(m)
          /\ local' = [local EXCEPT ![m].thread = t]
  /\ UNCHANGED <<stopVars, listingVars, threadVars, replies, unlinked>>
  /\ Elsewhere

CreateThread(m) ==
  /\ pc[m] = "create"
  /\ createThread(SenderOf[m])
  /\ local' = [local EXCEPT ![m].thread = nextThread]
  /\ Goto(m, "reply") /\ Attempt(m)
  /\ UNCHANGED <<stopVars, listingVars, replies, unlinked>>
  /\ Elsewhere

\* createInboundMessageOrIgnore: providerMessageId is unique, a duplicate is skipped.
StoreReply(m) ==
  /\ pc[m] = "reply"
  /\ replies' = replies \cup
       {r \in {[message |-> m, thread |-> local[m].thread]} :
          \A q \in replies : q.message # m}
  /\ StepTo(m, "read")
  /\ UNCHANGED <<stopVars, listingVars, threadVars, unlinked>>
  /\ Elsewhere

\* applyThreadEvent reads the status, then writes the reduced one if it differs.
ReadStatus(m) ==
  /\ pc[m] = "read"
  /\ \E s \in {threads[local[m].thread].status} \cap Statuses :
       local' = [local EXCEPT ![m].status = s]
  /\ Goto(m, "write") /\ Attempt(m)
  /\ UNCHANGED <<stopVars, listingVars, threadVars, replies, unlinked>>
  /\ Elsewhere

Reduced(row, read, event) ==
  LET next == advanceThreadStatus(read, event) IN
  [row EXCEPT !.status = IF next = read THEN @ ELSE next]

WriteStatus(m) ==
  /\ pc[m] = "write"
  /\ threads' = [threads EXCEPT ![local[m].thread] =
                   Reduced(@, local[m].status, "inbound_reply")]
  /\ IF m \in Stops THEN StepTo(m, "close") ELSE Complete(m)
  /\ UNCHANGED <<nextThread, stopVars, listingVars, replies, unlinked>>
  /\ Elsewhere

CloseThreads(m) ==
  /\ pc[m] = "close"
  /\ threads' = [t \in Threads |-> IF threads[t].agent = SenderOf[m]
                                   THEN [threads[t] EXCEPT !.status = "closed"]
                                   ELSE threads[t]]
  /\ Complete(m)
  /\ UNCHANGED <<nextThread, stopVars, listingVars, replies, unlinked>>
  /\ Elsewhere
-----------------------------------------------------------------------------
(* What else writes the threads: the send path, reduced to its statements on    *)
(* them (OutreachSend models the rest).                                         *)

At(a, label) == sending' = [sending EXCEPT ![a].at = label]
Inbound == UNCHANGED <<mail, jobVars, stopVars, listingVars, replies, budgetVars, unlinked>>

\* The guard passes, and the provider accepts the email: a first one, whose thread
\* is looked for only now, or a follow-up on a thread awaiting a reply.
Send(a) ==
  /\ sending[a].at = "idle" /\ sends[a] < MaxSends
  /\ a \notin optedOut /\ a \notin suppressed
  /\ sends' = [sends EXCEPT ![a] = @ + 1]
  /\ \/ sending' = [sending EXCEPT ![a] = [Resting EXCEPT !.at = "find"]]
     \/ \E t \in Threads :
          /\ threads[t] = [agent |-> a, status |-> "awaiting_reply"]
          /\ sending' = [sending EXCEPT ![a] = [Resting EXCEPT !.at = "read", !.thread = t]]
  /\ UNCHANGED threadVars /\ Inbound

SendFinds(a) ==
  /\ sending[a].at = "find"
  /\ \/ OpenThreads(a) = {} /\ At(a, "create")
     \/ \E t \in NewestOpen(a) :
          sending' = [sending EXCEPT ![a].at = "read", ![a].thread = t]
  /\ UNCHANGED <<threadVars, sends>> /\ Inbound

SendCreates(a) ==
  /\ sending[a].at = "create"
  /\ createThread(a)
  /\ sending' = [sending EXCEPT ![a].at = "read", ![a].thread = nextThread]
  /\ UNCHANGED <<sends>> /\ Inbound

SendReads(a) ==
  /\ sending[a].at = "read"
  /\ \E s \in {threads[sending[a].thread].status} \cap Statuses :
       sending' = [sending EXCEPT ![a].at = "write", ![a].status = s]
  /\ UNCHANGED <<threadVars, sends>> /\ Inbound

SendWrites(a) ==
  /\ sending[a].at = "write"
  /\ threads' = [threads EXCEPT ![sending[a].thread] =
                   Reduced(@, sending[a].status, "outbound_sent")]
  /\ sending' = [sending EXCEPT ![a] = Resting]
  /\ UNCHANGED <<nextThread, sends>> /\ Inbound

NextDay ==
  /\ day < MaxDay /\ day' = day + 1
  /\ UNCHANGED <<mail, jobVars, stopVars, listingVars, threadVars, replies, sendVars,
                 tokens, paid, unlinked>>
-----------------------------------------------------------------------------
Work(m) ==
  \/ Start(m) \/ Gate(m) \/ Suppress(m) \/ MarkOptedOut(m)
  \/ Charge(m) \/ Extract(m) \/ Store(m) \/ HandOff(m)
  \/ FindThread(m) \/ CreateThread(m) \/ StoreReply(m)
  \/ ReadStatus(m) \/ WriteStatus(m) \/ CloseThreads(m)

Fault(m) == TransientError(m) \/ Crash(m) \/ ExtractFails(m) \/ LinkFails(m)

Next ==
  \/ \E m \in Messages : Deliver(m) \/ Evict(m) \/ Work(m) \/ Fault(m)
  \/ \E a \in Agents : Send(a) \/ SendFinds(a) \/ SendCreates(a) \/ SendReads(a) \/ SendWrites(a)
  \/ NextDay

Spec == Init /\ [][Next]_vars
-----------------------------------------------------------------------------
\* A STOP is honoured before anything that can fail for good or be swallowed: a
\* job that got past the opt-out has its sender suppressed and opted out, forged
\* or not, across retries, stalls and redeliveries.
StopHonoured ==
  \A m \in Stops \ infra :
    pc[m] \in {"charge", "extract", "store", "handoff", "completed"} \cup Linking =>
      /\ SenderOf[m] \in suppressed
      /\ SenderOf[m] \in Agents => SenderOf[m] \in optedOut

\* However jobs are retried, crash and span midnight, no day pays for more
\* extractions than its cap allows.
PaidWithinCap == \A d \in Days : paid[d] <= DailyCap

\* A completed email of a tracked agent is on one of his threads, whether or not
\* there was anything to extract, unless linking failed, which is swallowed.
CompletedIsFiled ==
  \A m \in Messages \ infra :
    pc[m] = "completed" /\ Linked(m) /\ m \notin unlinked =>
      \E r \in replies : r.message = m /\ threads[r.thread].agent = SenderOf[m]

\* A completed email with something to extract has a source record, that source
\* points at a listing, and the listing was handed to the analysis.
CompletedIsHandedOn ==
  \A m \in Messages \ (infra \cup Bare) :
    pc[m] = "completed" => source[m] \in listings \cap analysis
=============================================================================
