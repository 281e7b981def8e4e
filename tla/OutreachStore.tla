---------------------------- MODULE OutreachStore ----------------------------
(* The state the outreach loop shares: the Postgres rows it reads and writes, *)
(* the warm-up token counters kept in Redis, and the log of the external      *)
(* email provider.  The repository operations are operators over that state;  *)
(* each is one statement, so one atomic step, in the actions that use it.     *)
EXTENDS Integers, FiniteSets, ThreadStatus

CONSTANTS
  Agents,         \* Agent ids; an id is never reused after its row is deleted
  NoAgent,
  Emails, EmailOf, \* mailboxes, and the mailbox of each agent id
  DomainOf,       \* the email domain (the agency) of each mailbox
  InitialAgents,  \* agent rows that exist at the start
  EventIds,       \* bound: provider event ids (one per reported event)
  Corporate,      \* agents whose mailboxType is corporate_subscriber
  SendJobs, SendAgent, \* outreach:send jobs, one per (search, agent) or per agent
  MaxThreads,     \* bound: thread rows ever created
  MaxDay,         \* bound: UTC days the model runs through
  DefaultCap, BaseCap, CapStep, MaxCap,  \* column default and WARMUP_* ramp
  CooldownDays,   \* DOMAIN_COOLDOWN_DAYS
  BreakerDays     \* BREAKER_WINDOW_HOURS, in days

Days == 0..MaxDay
Never == -1
Threads == 1..MaxThreads
NoThread == 0

\* A follow-up job is keyed by its thread and the UTC day it was enqueued.
FollowupJobs == [thread : Threads, day : Days]
Jobs == SendJobs \cup FollowupJobs

Cap(n) == IF BaseCap + n * CapStep < MaxCap THEN BaseCap + n * CapStep ELSE MaxCap

ASSUME AgentAssumption ==
  /\ NoAgent \notin Agents
  /\ InitialAgents \subseteq Agents
  /\ Corporate \subseteq Agents
  /\ EmailOf \in [Agents -> Emails]
  /\ \A a, b \in InitialAgents : EmailOf[a] = EmailOf[b] => a = b
ASSUME JobAssumption ==
  /\ IsFiniteSet(SendJobs) /\ SendAgent \in [SendJobs -> Agents]
  /\ SendJobs \cap FollowupJobs = {}
ASSUME BoundAssumption ==
  /\ MaxThreads \in Nat /\ MaxDay \in Nat
  /\ CooldownDays \in Nat /\ BreakerDays \in Nat
\* The shipped values (20, 20, 20, 200) satisfy this; a WARMUP_BASE_CAP below
\* the column default would let the first day run over the ramp.
ASSUME CapAssumption ==
  /\ DefaultCap \in Nat /\ BaseCap \in Nat /\ CapStep \in Nat /\ MaxCap \in Nat
  /\ DefaultCap <= BaseCap /\ DefaultCap <= MaxCap

VARIABLES
  present, everPresent,   \* agent ids with a row; ids ever given a row
  optedOut, undeliverable, \* Agent.optedOut, Agent.emailVerifyStatus
  lastContactedAt,        \* Agent.lastContactedAt
  suppressed,             \* emails with a SuppressionEntry (any reason)
  threads, nextThread,    \* OutreachThread rows; ids are allocated in order
  outbound,               \* OutreachMessage rows of direction outbound
  events,                 \* EmailEvent rows
  killSwitch, dailyCap,   \* the WarmupState row
  tokens,                 \* Redis: outreach:warmup:<day> counters
  day,                    \* the UTC day
  sent                    \* the provider's log: one record per physical email

agentVars == <<present, everPresent, optedOut, undeliverable, lastContactedAt>>
threadVars == <<threads, nextThread, outbound>>
warmupVars == <<killSwitch, dailyCap>>
storeVars == <<agentVars, suppressed, threadVars, events, warmupVars, tokens, day, sent>>

AbsentThread == [agent |-> NoAgent, status |-> "absent", last |-> Never]
ThreadRow == [agent : Agents \cup {NoAgent}, status : Statuses \cup {"absent"},
              last : Days \cup {Never}]
Outbound == [key : Jobs, thread : Threads, day : Days]
EmailEvent == [id : EventIds, key : Jobs, agent : Agents, type : {"bounced", "complained"},
               day : Days]
Sent == [key : Jobs, agent : Agents, day : Days]

StoreTypeOK ==
  /\ present \subseteq everPresent /\ everPresent \subseteq Agents
  /\ optedOut \subseteq Agents /\ undeliverable \subseteq Agents
  /\ lastContactedAt \in [Agents -> Days \cup {Never}]
  /\ suppressed \subseteq Emails
  /\ threads \in [Threads -> ThreadRow] /\ nextThread \in 1..(MaxThreads + 1)
  /\ outbound \subseteq Outbound
  /\ events \subseteq EmailEvent
  /\ killSwitch \in BOOLEAN /\ dailyCap \in Nat
  /\ tokens \in [Days -> Nat] /\ day \in Days
  /\ sent \subseteq Sent

StoreInit ==
  /\ present = InitialAgents /\ everPresent = InitialAgents
  /\ optedOut = {} /\ undeliverable = {}
  /\ lastContactedAt = [a \in Agents |-> Never]
  /\ suppressed = {}
  /\ threads = [t \in Threads |-> AbsentThread] /\ nextThread = 1
  /\ outbound = {} /\ events = {}
  /\ killSwitch = FALSE /\ dailyCap = DefaultCap
  /\ tokens = [d \in Days |-> 0] /\ day = 0
  /\ sent = {}
-----------------------------------------------------------------------------
\* Rows as the queries see them.
ExistsThread(t) == t \in Threads /\ threads[t].status # "absent"
OpenThreads(a) ==
  {t \in Threads : threads[t].agent = a /\ threads[t].status \notin {"absent", "closed"}}

\* findFirst orders by createdAt desc: ids are allocated in creation order.
NewestOpen(a) == {t \in OpenThreads(a) : \A u \in OpenThreads(a) : u <= t}

isSuppressed(e) == e \in suppressed

\* Another mailbox of this agency was contacted within the cooldown.
wasDomainContactedSince(domain, since, exclude) ==
  \E b \in present \ {exclude} :
    /\ DomainOf[EmailOf[b]] = domain
    /\ lastContactedAt[b] # Never
    /\ lastContactedAt[b] >= since

countOutboundSince(since) == Cardinality({m \in outbound : m.day >= since})
countByTypeSince(type, since) ==
  Cardinality({e \in events : e.type = type /\ e.day >= since})

createThread(a) ==
  /\ nextThread \in Threads
  /\ threads' = [threads EXCEPT ![nextThread] =
                   [agent |-> a, status |-> "active", last |-> Never]]
  /\ nextThread' = nextThread + 1

closeThreadsByAgent(as) ==
  threads' = [t \in Threads |->
                IF threads[t].agent \in as /\ ExistsThread(t)
                THEN [threads[t] EXCEPT !.status = "closed"] ELSE threads[t]]

markOptedOut(e) == optedOut' = optedOut \cup {a \in present : EmailOf[a] = e}

\* Mutant: the messages of an erased agent stay behind.
deleteAgent_NoCascade(a) ==
  /\ present' = present \ {a}
  /\ threads' = [t \in Threads |-> IF threads[t].agent = a THEN AbsentThread ELSE threads[t]]
  /\ UNCHANGED outbound

\* ON DELETE CASCADE: the agent's threads go, and with them their messages.
deleteAgent(a) ==
  /\ present' = present \ {a}
  /\ threads' = [t \in Threads |-> IF threads[t].agent = a THEN AbsentThread ELSE threads[t]]
  /\ outbound' = {m \in outbound : threads[m.thread].agent # a}
=============================================================================
