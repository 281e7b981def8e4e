------------------------ MODULE OutreachSend_proofs -------------------------
(* Proofs about OutreachSend, for every set of agents, mailboxes and jobs and  *)
(* every value of the ramp, breaker and retry parameters.                      *)
EXTENDS OutreachSend, FiniteSetTheorems, TLAPS

\* TypeOK by parts: what the store, the queue and the environment contribute.
QueueTypeOK ==
  /\ pc \in [Jobs -> Idle \cup Running]
  /\ local \in [Jobs -> Local]
  /\ attempts \in [Jobs -> Nat] /\ stalls \in [Jobs -> Nat]
  /\ burned \in [Jobs -> Nat]

EnvTypeOK ==
  /\ unsub \in [Emails -> {"idle", "suppressed", "marked"}]
  /\ toSuppress \subseteq Emails
  /\ recalc \in Days \cup {Never}
  /\ due \subseteq FollowupJobs
  /\ reply \in [Replies -> Reply] /\ answered \subseteq Threads

\* An attempt that is past its load works for a real agent.
AgentKnown ==
  \A j \in Jobs : pc[j] \in Running \ {"fetch", "load"} => local[j].agent \in Agents

\* Everything TypeOK says but the history variable `bars`; and the one fact the
\* type of `local` rests on, that the breaker counts a finite set of rows.
CoreTypeOK == StoreTypeOK /\ QueueTypeOK /\ EnvTypeOK /\ IsFiniteSet(outbound)
TypeInv == CoreTypeOK /\ AgentKnown /\ bars \in [Jobs -> SUBSET Bars]

USE DEF Days, Never, Threads, NoThread, FollowupJobs, Jobs
-----------------------------------------------------------------------------
LEMMA TypeInvGivesTypeOK == TypeInv => TypeOK
BY DEF TypeInv, CoreTypeOK, TypeOK, WorkerTypeOK, QueueTypeOK, EnvTypeOK

LEMMA InitType == Init => TypeInv
<1> SUFFICES ASSUME Init PROVE TypeInv
    OBVIOUS
<1> USE AgentAssumption, JobAssumption, BoundAssumption, CapAssumption
<1>1. StoreTypeOK
  <2>1. AbsentThread \in ThreadRow
        BY DEF ThreadRow, AbsentThread
  <2>2. threads \in [Threads -> ThreadRow]
        BY <2>1 DEF Init, StoreInit
  <2>3. nextThread \in 1..(MaxThreads + 1) /\ day \in Days /\ tokens \in [Days -> Nat]
        BY DEF Init, StoreInit
  <2> QED
      BY <2>2, <2>3 DEF Init, StoreInit, StoreTypeOK
<1>2. QueueTypeOK /\ bars \in [Jobs -> SUBSET Bars]
      BY DEF Init, WorkerInit, QueueTypeOK, Idle, Local, Fresh
<1>3. EnvTypeOK
      BY DEF Init, EnvTypeOK, NoReply, Reply
<1>4. IsFiniteSet(outbound)
      BY FS_EmptySet DEF Init, StoreInit
<1>5. AgentKnown
      BY DEF Init, WorkerInit, AgentKnown, Running, Guarding, Cleared
<1> QED
    BY <1>1, <1>2, <1>3, <1>4, <1>5 DEF TypeInv, CoreTypeOK

\* The ways an attempt moves on keep the queue well typed.
LEMMA FreshIsLocal == Fresh \in Local
BY BoundAssumption DEF Fresh, Local

LEMMA DropType ==
  ASSUME QueueTypeOK, NEW j \in Jobs, Drop(j)
  PROVE  QueueTypeOK'
BY FreshIsLocal DEF QueueTypeOK, Drop, Goto, Idle

LEMMA RetryType ==
  ASSUME QueueTypeOK, NEW j \in Jobs, Retry(j)
  PROVE  QueueTypeOK'
BY FreshIsLocal DEF QueueTypeOK, Retry, Goto, Idle

LEMMA PassType ==
  ASSUME QueueTypeOK, NEW j \in Jobs, NEW label \in Running, Pass(j, label),
         local' \in [Jobs -> Local]
  PROVE  QueueTypeOK'
BY DEF QueueTypeOK, Pass, Goto

LEMMA TargetAgentType ==
  ASSUME StoreTypeOK, NEW j \in Jobs
  PROVE  TargetAgent(j) \in Agents \cup {NoAgent}
BY JobAssumption DEF TargetAgent, StoreTypeOK, ThreadRow, ExistsThread

LEMMA CountSendsType ==
  ASSUME IsFiniteSet(outbound), NEW since
  PROVE  countOutboundSince(since) \in Nat
<1>1. IsFiniteSet({m \in outbound : m.day >= since})
      BY FS_Subset
<1> QED
    BY <1>1, FS_CardinalityType DEF countOutboundSince

\* Steps that touch only the queue leave the store and the environment typed.
LEMMA StoreUnchangedType ==
  ASSUME StoreTypeOK, IsFiniteSet(outbound), UNCHANGED storeVars
  PROVE  StoreTypeOK' /\ IsFiniteSet(outbound)'
BY DEF StoreTypeOK, storeVars, agentVars, threadVars, warmupVars, ExistsThread

LEMMA EnvUnchangedType ==
  ASSUME EnvTypeOK, UNCHANGED envVars
  PROVE  EnvTypeOK'
BY DEF EnvTypeOK, envVars, replyVars

LEMMA BarsType ==
  ASSUME bars \in [Jobs -> SUBSET Bars], RecordBars
  PROVE  bars' \in [Jobs -> SUBSET Bars]
<1>1. \A j \in Jobs : BarsNow(j)' \subseteq Bars
      BY DEF BarsNow, Bars, StandingBars, RateBars
<1> QED
    BY <1>1 DEF RecordBars
-----------------------------------------------------------------------------
LEMMA GuardType ==
  ASSUME CoreTypeOK, NEW j \in Jobs, GuardStep(j), UNCHANGED envVars
  PROVE  CoreTypeOK'
<1> USE DEF CoreTypeOK
<1>0. EnvTypeOK'
      BY EnvUnchangedType
<1>9. CASE Fetch(j)
  <2>1. StoreTypeOK' /\ IsFiniteSet(outbound)'
        BY <1>9, StoreUnchangedType DEF Fetch
  <2>2. CASE Drop(j)
        BY <2>1, <2>2, <1>0, DropType
  <2>3. CASE ~ Drop(j)
    <3>1. /\ Pass(j, "load") /\ ExistsThread(j.thread)
          /\ local' = [local EXCEPT ![j].agent = threads[j.thread].agent,
                                   ![j].thread = j.thread]
          BY <1>9, <2>3 DEF Fetch
    <3>2. j.thread \in Threads /\ threads[j.thread].agent \in Agents \cup {NoAgent}
          BY <3>1 DEF ExistsThread, StoreTypeOK, ThreadRow
    <3>3. local' \in [Jobs -> Local]
          BY <3>1, <3>2 DEF QueueTypeOK, Local
    <3> QED
        BY <3>1, <3>3, <2>1, <1>0, PassType DEF Running, Guarding
  <2> QED BY <2>2, <2>3
<1>1. CASE Load(j)
  <2>1. StoreTypeOK' /\ IsFiniteSet(outbound)'
        BY <1>1, StoreUnchangedType DEF Load
  <2>2. CASE Drop(j)
        BY <2>1, <2>2, <1>0, DropType
  <2>3. CASE ~ Drop(j)
    <3>1. PICK a \in Agents :
            /\ Pass(j, "suppression")
            /\ local' = [local EXCEPT ![j].agent = a, ![j].dead = a \in undeliverable]
          BY <1>1, <2>3 DEF Load, StoreTypeOK
    <3>2. local' \in [Jobs -> Local]
          BY <3>1 DEF QueueTypeOK, Local
    <3> QED
        BY <3>1, <3>2, <2>1, <1>0, PassType DEF Running, Guarding
  <2> QED BY <2>2, <2>3
<1>2. CASE CheckSuppression(j)
  <2>1. StoreTypeOK' /\ IsFiniteSet(outbound)'
        BY <1>2, StoreUnchangedType DEF CheckSuppression
  <2>2. QueueTypeOK'
        BY <1>2, DropType, PassType DEF CheckSuppression, QueueTypeOK, Running, Guarding
  <2> QED BY <2>1, <2>2, <1>0
<1>3. CASE CheckCooldown(j)
  <2>1. StoreTypeOK' /\ IsFiniteSet(outbound)'
        BY <1>3, StoreUnchangedType DEF CheckCooldown
  <2>2. QueueTypeOK'
        BY <1>3, DropType, PassType DEF CheckCooldown, QueueTypeOK, Running, Guarding
  <2> QED BY <2>1, <2>2, <1>0
<1>4. CASE CountSends(j)
  <2>1. StoreTypeOK' /\ IsFiniteSet(outbound)'
        BY <1>4, StoreUnchangedType DEF CountSends
  <2>2. countOutboundSince(day - BreakerDays) \in Nat /\ day \in Days
        BY CountSendsType DEF StoreTypeOK
  <2>3. local' \in [Jobs -> Local]
        BY <1>4, <2>2 DEF CountSends, QueueTypeOK, Local
  <2> QED
      BY <1>4, <2>1, <2>3, <1>0, PassType DEF CountSends, Running, Guarding
<1>5. CASE CheckBounces(j)
  <2>1. StoreTypeOK' /\ IsFiniteSet(outbound)'
        BY <1>5, StoreUnchangedType DEF CheckBounces
  <2>2. QueueTypeOK'
        BY <1>5, DropType, PassType DEF CheckBounces, QueueTypeOK, Running, Guarding
  <2> QED BY <2>1, <2>2, <1>0
<1>6. CASE CheckComplaints(j)
  <2>1. StoreTypeOK' /\ IsFiniteSet(outbound)'
        BY <1>6, StoreUnchangedType DEF CheckComplaints
  <2>2. QueueTypeOK'
        BY <1>6, DropType, PassType DEF CheckComplaints, QueueTypeOK, Running, Guarding
  <2> QED BY <2>1, <2>2, <1>0
<1>7. CASE CheckKillSwitch(j)
  <2>1. StoreTypeOK' /\ IsFiniteSet(outbound)'
        BY <1>7, StoreUnchangedType DEF CheckKillSwitch
  <2>2. CASE Drop(j)
        BY <2>1, <2>2, <1>0, DropType
  <2>3. CASE ~ Drop(j)
    <3>1. Pass(j, "token") /\ local' = [local EXCEPT ![j].cap = dailyCap]
          BY <1>7, <2>3 DEF CheckKillSwitch
    <3>2. dailyCap \in Nat
          BY DEF StoreTypeOK
    <3>3. local' \in [Jobs -> Local]
          BY <3>1, <3>2 DEF QueueTypeOK, Local
    <3> QED
        BY <3>1, <3>3, <2>1, <1>0, PassType DEF Running, Guarding
  <2> QED BY <2>2, <2>3
<1>8. CASE ConsumeToken(j)
  <2>1. StoreTypeOK' /\ IsFiniteSet(outbound)'
        BY <1>8 DEF ConsumeToken, StoreTypeOK, agentVars, threadVars, warmupVars
  <2>2. QueueTypeOK'
        BY <1>8, RetryType DEF ConsumeToken, QueueTypeOK, Goto, Running, Cleared
  <2> QED BY <2>1, <2>2, <1>0
<1> QED
    BY <1>1, <1>2, <1>3, <1>4, <1>5, <1>6, <1>7, <1>8, <1>9 DEF GuardStep
-----------------------------------------------------------------------------
LEMMA StepToType ==
  ASSUME CoreTypeOK, NEW j \in Jobs, NEW label \in Idle \cup Running, StepTo(j, label),
         local' \in [Jobs -> Local]
  PROVE  QueueTypeOK' /\ EnvTypeOK'
BY EnvUnchangedType DEF CoreTypeOK, QueueTypeOK, StepTo, Goto

LEMMA RetryKeepsEnv ==
  ASSUME CoreTypeOK, NEW j \in Jobs, Retry(j), UNCHANGED envVars
  PROVE  QueueTypeOK' /\ EnvTypeOK'
BY RetryType, EnvUnchangedType DEF CoreTypeOK

LEMMA KeyType ==
  ASSUME CoreTypeOK, NEW j \in Jobs
  PROVE  Key(j) \in Jobs
BY JobAssumption DEF CoreTypeOK, QueueTypeOK, Local, Key

LEMMA AcceptType ==
  ASSUME CoreTypeOK, NEW j \in Jobs, local[j].agent \in Agents, Accept(j)
  PROVE  sent' \subseteq Sent
<1>1. Key(j) \in Jobs
      BY KeyType
<1>2. day \in Days /\ sent \subseteq Sent
      BY DEF CoreTypeOK, StoreTypeOK
<1>3. [key |-> Key(j), agent |-> local[j].agent, day |-> day] \in Sent
      BY <1>1, <1>2 DEF Sent
<1> QED
    BY <1>2, <1>3 DEF Accept

LEMMA DispatchType ==
  ASSUME CoreTypeOK, AgentKnown, NEW j \in Jobs, DispatchStep(j)
  PROVE  CoreTypeOK'
<1> USE DEF CoreTypeOK
<1>0. pc[j] \in Cleared => local[j].agent \in Agents
      BY DEF AgentKnown, Running, Guarding, Cleared
<1>1. CASE Draft(j)
  <2>1. StoreTypeOK' /\ IsFiniteSet(outbound)'
        BY <1>1, StoreUnchangedType DEF Draft
  <2>2. day \in Days
        BY DEF StoreTypeOK
  <2>3. local' \in [Jobs -> Local]
        BY <1>1, <2>2 DEF Draft, QueueTypeOK, Local
  <2> QED
      BY <1>1, <2>1, <2>3, StepToType DEF Draft, Running, Cleared
<1>2. CASE Dispatch(j)
  <2>1. sent' \subseteq Sent
        BY <1>0, <1>2, AcceptType DEF Dispatch, Cleared
  <2>2. StoreTypeOK' /\ IsFiniteSet(outbound)'
        BY <1>2, <2>1 DEF Dispatch, StoreTypeOK, agentVars, threadVars, warmupVars
  <2> QED
      BY <1>2, <2>2, StepToType DEF Dispatch, QueueTypeOK, Running, Cleared
<1>3. CASE LoseAnswer(j)
  <2>1. sent' \subseteq Sent
        BY <1>0, <1>3, AcceptType DEF LoseAnswer, Cleared
  <2>2. StoreTypeOK' /\ IsFiniteSet(outbound)'
        BY <1>3, <2>1 DEF LoseAnswer, StoreTypeOK, agentVars, threadVars, warmupVars
  <2> QED
      BY <1>3, <2>2, RetryKeepsEnv DEF LoseAnswer
<1>4. CASE FindThread(j)
  <2>1. StoreTypeOK' /\ IsFiniteSet(outbound)'
        BY <1>4, StoreUnchangedType DEF FindThread
  <2>2. CASE StepTo(j, "create") /\ UNCHANGED local
        BY <2>1, <2>2, StepToType DEF QueueTypeOK, Running, Cleared
  <2>3. CASE \E t \in NewestOpen(local[j].agent) :
               StepTo(j, "persist") /\ local' = [local EXCEPT ![j].thread = t]
    <3>1. PICK t \in Threads :
               StepTo(j, "persist") /\ local' = [local EXCEPT ![j].thread = t]
          BY <2>3 DEF NewestOpen, OpenThreads
    <3>2. local' \in [Jobs -> Local]
          BY <3>1 DEF QueueTypeOK, Local
    <3> QED
        BY <2>1, <3>1, <3>2, StepToType DEF Running, Cleared
  <2> QED BY <1>4, <2>2, <2>3 DEF FindThread
<1>5. CASE CreateThread(j)
  <2>1. CASE local[j].agent \in present
    <3>1. /\ nextThread \in Threads /\ nextThread' = nextThread + 1
          /\ threads' = [threads EXCEPT ![nextThread] =
                           [agent |-> local[j].agent, status |-> "active", last |-> Never]]
          /\ local' = [local EXCEPT ![j].thread = nextThread]
          /\ StepTo(j, "persist")
          BY <1>5, <2>1 DEF CreateThread, createThread
    <3>2. threads' \in [Threads -> ThreadRow] /\ nextThread' \in 1..(MaxThreads + 1)
          BY <2>1, <3>1, BoundAssumption DEF StoreTypeOK, ThreadRow, Statuses
    <3>3. StoreTypeOK' /\ IsFiniteSet(outbound)'
          BY <1>5, <3>2 DEF CreateThread, StoreTypeOK, agentVars, warmupVars
    <3>4. local' \in [Jobs -> Local]
          BY <3>1 DEF QueueTypeOK, Local
    <3> QED
        BY <3>1, <3>3, <3>4, StepToType DEF Running, Cleared
  <2>2. CASE local[j].agent \notin present
    <3>1. StoreTypeOK' /\ IsFiniteSet(outbound)'
          BY <1>5, <2>2 DEF CreateThread, StoreTypeOK, agentVars, warmupVars
    <3> QED
        BY <1>5, <2>2, <3>1, RetryKeepsEnv DEF CreateThread
  <2> QED BY <2>1, <2>2
<1>6. CASE PersistMessage(j)
  <2>1. CASE Retry(j) /\ UNCHANGED <<outbound, burned, envVars>>
    <3>1. StoreTypeOK' /\ IsFiniteSet(outbound)'
          BY <1>6, <2>1 DEF PersistMessage, StoreTypeOK, agentVars, warmupVars
    <3> QED
        BY <2>1, <3>1, RetryKeepsEnv
  <2>2. CASE ~ (Retry(j) /\ UNCHANGED <<outbound, burned, envVars>>)
    <3> DEFINE m == [key |-> Key(j), thread |-> local[j].thread, day |-> local[j].day]
    <3>1. /\ ExistsThread(local[j].thread) /\ outbound' = outbound \cup {m}
          /\ StepTo(j, "read") /\ UNCHANGED local
          BY <1>6, <2>2 DEF PersistMessage
    <3>2. m \in Outbound
          BY <3>1, KeyType DEF ExistsThread, Outbound, QueueTypeOK, Local
    <3>3. IsFiniteSet(outbound)'
          BY <3>1, FS_AddElement
    <3>4. StoreTypeOK'
          BY <1>6, <3>1, <3>2 DEF PersistMessage, StoreTypeOK, agentVars, warmupVars
    <3> QED
        BY <3>1, <3>3, <3>4, StepToType DEF QueueTypeOK, Running, Cleared
  <2> QED BY <2>1, <2>2
<1>7. CASE ReadStatus(j)
  <2>1. StoreTypeOK' /\ IsFiniteSet(outbound)'
        BY <1>7, StoreUnchangedType DEF ReadStatus
  <2>2. CASE ExistsThread(local[j].thread)
    <3>1. threads[local[j].thread].status \in Statuses \cup {"absent"}
          BY <2>2 DEF ExistsThread, StoreTypeOK, ThreadRow
    <3>2. local' \in [Jobs -> Local]
          BY <1>7, <2>2, <3>1 DEF ReadStatus, QueueTypeOK, Local
    <3> QED
        BY <1>7, <2>1, <2>2, <3>2, StepToType DEF ReadStatus, Running, Cleared
  <2>3. CASE ~ ExistsThread(local[j].thread)
        BY <1>7, <2>1, <2>3, RetryKeepsEnv DEF ReadStatus
  <2> QED BY <2>2, <2>3
<1>8. CASE WriteStatus(j)
  <2> DEFINE t == local[j].thread
             next == advanceThreadStatus(local[j].status, "outbound_sent")
  <2>1. CASE ExistsThread(t)
    <3>1. next \in Statuses /\ t \in Threads /\ local[j].day \in Days
          BY <2>1 DEF advanceThreadStatus, Statuses, ExistsThread, QueueTypeOK, Local
    <3>2. threads' \in [Threads -> ThreadRow]
      <4>1. threads \in [Threads -> ThreadRow]
            BY DEF StoreTypeOK
      <4>2. ASSUME NEW row \in ThreadRow
            PROVE  [row EXCEPT !.status = IF next = local[j].status THEN @ ELSE next,
                               !.last = local[j].day] \in ThreadRow
            BY <3>1 DEF ThreadRow
      <4>3. threads' = [threads EXCEPT
                          ![t].status = IF next = local[j].status THEN @ ELSE next,
                          ![t].last = local[j].day]
            BY <1>8, <2>1 DEF WriteStatus
      <4> QED
          BY <3>1, <4>1, <4>2, <4>3
    <3>3. UNCHANGED <<agentVars, suppressed, nextThread, outbound, events, warmupVars,
                      tokens, day, sent>>
          BY <1>8 DEF WriteStatus
    <3>4. StoreTypeOK' /\ IsFiniteSet(outbound)'
          BY <3>2, <3>3 DEF StoreTypeOK, agentVars, warmupVars
    <3> QED
        BY <1>8, <2>1, <3>4, StepToType DEF WriteStatus, QueueTypeOK, Running, Cleared
  <2>2. CASE ~ ExistsThread(t)
    <3>1. StoreTypeOK' /\ IsFiniteSet(outbound)'
          BY <1>8, <2>2 DEF WriteStatus, StoreTypeOK, agentVars, warmupVars
    <3> QED
        BY <1>8, <2>2, <3>1, RetryKeepsEnv DEF WriteStatus
  <2> QED BY <2>1, <2>2
<1>9. CASE MarkContacted(j)
  <2>1. CASE local[j].agent \in present
    <3>1. lastContactedAt' \in [Agents -> Days \cup {Never}]
          BY <1>9, <2>1 DEF MarkContacted, StoreTypeOK, QueueTypeOK, Local
    <3>2. StoreTypeOK' /\ IsFiniteSet(outbound)'
          BY <1>9, <3>1 DEF MarkContacted, StoreTypeOK, threadVars, warmupVars
    <3>3. local' \in [Jobs -> Local]
          BY <1>9, <2>1, FreshIsLocal DEF MarkContacted, QueueTypeOK
    <3> QED
        BY <1>9, <2>1, <3>2, <3>3, StepToType DEF MarkContacted, Idle
  <2>2. CASE local[j].agent \notin present
    <3>1. StoreTypeOK' /\ IsFiniteSet(outbound)'
          BY <1>9, <2>2 DEF MarkContacted, StoreTypeOK, threadVars, warmupVars
    <3> QED
        BY <1>9, <2>2, <3>1, RetryKeepsEnv DEF MarkContacted
  <2> QED BY <2>1, <2>2
<1> QED
    BY <1>1, <1>2, <1>3, <1>4, <1>5, <1>6, <1>7, <1>8, <1>9 DEF DispatchStep
-----------------------------------------------------------------------------
\* What the queue and the processor do to one job, apart from running its code.
QueueStep(j) ==
  \/ j \in SendJobs /\ Enqueue(j)
  \/ j \in FollowupJobs /\ EnqueueDue(j)
  \/ Start(j) \/ Fault(j)

LEMMA QueueStepType ==
  ASSUME CoreTypeOK, NEW j \in Jobs, QueueStep(j)
  PROVE  CoreTypeOK'
<1> USE DEF CoreTypeOK
<1>1. StoreTypeOK' /\ IsFiniteSet(outbound)'
      BY StoreUnchangedType DEF QueueStep, Enqueue, EnqueueDue, Start, Fault, TransientError, Crash
<1>2. EnvTypeOK'
  <2>1. CASE UNCHANGED envVars
        BY <2>1, EnvUnchangedType
  <2>2. CASE EnqueueDue(j)
        BY <2>2 DEF EnqueueDue, EnvTypeOK, replyVars
  <2> QED
      BY <2>1, <2>2 DEF QueueStep, Enqueue, Start, Fault, TransientError, Crash
<1>3. CASE Enqueue(j) \/ EnqueueDue(j) \/ Start(j)
      BY <1>1, <1>2, <1>3
      DEF Enqueue, EnqueueDue, Start, Goto, QueueTypeOK, Idle, Running, Guarding
<1>4. CASE TransientError(j)
      BY <1>1, <1>2, <1>4, RetryType DEF TransientError
<1>5. CASE Crash(j)
      BY <1>1, <1>2, <1>5, FreshIsLocal DEF Crash, Goto, QueueTypeOK, Idle
<1> QED
    BY <1>3, <1>4, <1>5 DEF QueueStep, Fault

\* What the scan and a reply leave alone.
ScanStep == ScanFollowups \/ ScanFail \/ \E f \in FollowupJobs : SkipDue(f)

LEMMA ScanFrame ==
  ASSUME ScanStep
  PROVE  UNCHANGED <<storeVars, queueVars, burned, unsub, toSuppress, recalc, reply, answered>>
BY DEF ScanStep, ScanFollowups, ScanFail, SkipDue, replyVars

LEMMA ReplyFrame ==
  ASSUME NEW r \in Replies, ReplyStep(r)
  PROVE  UNCHANGED <<agentVars, suppressed, outbound, events, warmupVars, tokens, day, sent,
                     queueVars, burned, unsub, toSuppress, recalc, due>>
BY DEF ReplyStep, ReplyArrive, ReplyFindThread, ReplyCreateThread, ReplyRead, ReplyWrite,
       ReplyFail, replyFrame, storeVars, threadVars

\* The environment never touches the queue.
LEMMA EnvironmentKeepsQueue ==
  ASSUME Environment
  PROVE  UNCHANGED <<queueVars, burned>>
<1>1. CASE ScanStep \/ \E r \in Replies : ReplyStep(r)
      BY <1>1, ScanFrame, ReplyFrame
<1>2. CASE ~ (ScanStep \/ \E r \in Replies : ReplyStep(r))
      BY <1>2 DEF Environment, UnsubSuppress, UnsubMark, UnsubClose, UnsubFail, RecordEvent,
                  SuppressBounced, ToggleKillSwitch, RecalcRead, RecalcWrite, NextDay, Erase,
                  Discover, Verify, ScanStep
<1> QED BY <1>1, <1>2

LEMMA ClosedThreadsType ==
  ASSUME StoreTypeOK, NEW as, closeThreadsByAgent(as)
  PROVE  threads' \in [Threads -> ThreadRow]
<1>1. ASSUME NEW t \in Threads
      PROVE  /\ threads[t] \in ThreadRow
             /\ [threads[t] EXCEPT !.status = "closed"] \in ThreadRow
      BY DEF StoreTypeOK, ThreadRow, Statuses
<1> QED
    BY <1>1 DEF closeThreadsByAgent

LEMMA CapType ==
  ASSUME NEW n \in Nat
  PROVE  Cap(n) \in Nat
<1>1. n * CapStep \in Nat
      BY CapAssumption
<1> QED
    BY <1>1, CapAssumption DEF Cap

\* Whatever a reply writes or creates is a row, and what it reads a row's status.
LEMMA ReplyType ==
  ASSUME CoreTypeOK, NEW r \in Replies, ReplyStep(r)
  PROVE  StoreTypeOK' /\ IsFiniteSet(outbound)' /\ EnvTypeOK'
<1> USE DEF CoreTypeOK, ReplyTo
<1>1. UNCHANGED <<agentVars, suppressed, outbound, events, warmupVars, tokens, day, sent,
                  queueVars, burned, unsub, toSuppress, recalc, due>>
      BY ReplyFrame
<1>2. /\ reply[r] \in Reply /\ reply \in [Replies -> Reply] /\ answered \subseteq Threads
      /\ threads \in [Threads -> ThreadRow] /\ nextThread \in 1..(MaxThreads + 1)
      BY DEF EnvTypeOK, StoreTypeOK
<1>3. ASSUME threads' \in [Threads -> ThreadRow], nextThread' \in 1..(MaxThreads + 1),
             reply' \in [Replies -> Reply], answered' \subseteq Threads
      PROVE  StoreTypeOK' /\ IsFiniteSet(outbound)' /\ EnvTypeOK'
      BY <1>1, <1>3 DEF StoreTypeOK, EnvTypeOK, agentVars, warmupVars
<1>4. NoReply \in Reply
      BY BoundAssumption DEF NoReply, Reply
<1>5. CASE ReplyArrive(r) \/ ReplyFail(r)
  <2>1. UNCHANGED <<threads, nextThread, answered>>
        BY <1>5 DEF ReplyArrive, ReplyFail, storeVars, threadVars
  <2>2. reply' \in [Replies -> Reply]
    <3>1. CASE ReplyFail(r)
          BY <1>2, <1>4, <3>1 DEF ReplyFail
    <3>2. CASE ReplyArrive(r)
      <4>1. PICK a \in present, received \in 0..day :
              ReplyTo(r, [NoReply EXCEPT !.at = "thread", !.agent = a, !.day = received])
            BY <3>2 DEF ReplyArrive
      <4>2. a \in Agents /\ received \in Days
            BY BoundAssumption DEF StoreTypeOK
      <4>3. [NoReply EXCEPT !.at = "thread", !.agent = a, !.day = received] \in Reply
            BY <1>4, <4>2 DEF Reply
      <4> QED BY <1>2, <4>1, <4>3
    <3> QED BY <1>5, <3>1, <3>2
  <2> QED BY <1>2, <1>3, <2>1, <2>2
<1>6. CASE ReplyFindThread(r)
  <2>1. UNCHANGED <<threads, nextThread>>
        BY <1>6 DEF ReplyFindThread, storeVars, threadVars
  <2>2. reply' \in [Replies -> Reply] /\ answered' \subseteq Threads
    <3>1. CASE reply' = [reply EXCEPT ![r] = [reply[r] EXCEPT !.at = "create"]]
               /\ UNCHANGED answered
          BY <1>2, <3>1 DEF Reply
    <3>2. CASE \E t \in NewestOpen(reply[r].agent) :
                 /\ reply' = [reply EXCEPT ![r] = [reply[r] EXCEPT !.at = "read", !.thread = t]]
                 /\ answered' = answered \cup {t}
      <4>1. PICK t \in Threads :
              /\ reply' = [reply EXCEPT ![r] = [reply[r] EXCEPT !.at = "read", !.thread = t]]
              /\ answered' = answered \cup {t}
            BY <3>2 DEF NewestOpen, OpenThreads
      <4> QED BY <1>2, <4>1 DEF Reply
    <3> QED BY <1>6, <3>1, <3>2 DEF ReplyFindThread
  <2> QED BY <1>2, <1>3, <2>1, <2>2
<1>7. CASE ReplyCreateThread(r)
  <2> DEFINE a == reply[r].agent
  <2>1. /\ a \in present /\ nextThread \in Threads /\ nextThread' = nextThread + 1
        /\ threads' = [threads EXCEPT ![nextThread] =
                         [agent |-> a, status |-> "active", last |-> Never]]
        /\ reply' = [reply EXCEPT ![r] = [reply[r] EXCEPT !.at = "read",
                                                        !.thread = nextThread]]
        /\ answered' = answered \cup {nextThread}
        BY <1>7 DEF ReplyCreateThread, createThread
  <2>2. threads' \in [Threads -> ThreadRow] /\ nextThread' \in 1..(MaxThreads + 1)
        BY <2>1, <1>2, BoundAssumption DEF StoreTypeOK, ThreadRow, Statuses
  <2>3. reply' \in [Replies -> Reply] /\ answered' \subseteq Threads
        BY <1>2, <2>1 DEF Reply
  <2> QED BY <1>3, <2>2, <2>3
<1>8. CASE ReplyRead(r)
  <2>1. UNCHANGED <<threads, nextThread, answered>>
        BY <1>8 DEF ReplyRead, storeVars, threadVars
  <2>2. threads[reply[r].thread].status \in Statuses \cup {"absent"}
        BY <1>2, <1>8 DEF ReplyRead, ExistsThread, ThreadRow
  <2>3. reply' \in [Replies -> Reply]
        BY <1>2, <1>8, <2>2 DEF ReplyRead, Reply
  <2> QED BY <1>2, <1>3, <2>1, <2>3
<1>9. CASE ReplyWrite(r)
  <2> DEFINE t == reply[r].thread
             next == advanceThreadStatus(reply[r].status, "inbound_reply")
  <2>1. next \in Statuses /\ t \in Threads /\ reply[r].day \in Days
        BY <1>2, <1>9 DEF ReplyWrite, advanceThreadStatus, Statuses, ExistsThread, Reply
  <2>2. ASSUME NEW row \in ThreadRow
        PROVE  [row EXCEPT !.status = IF next = reply[r].status THEN @ ELSE next,
                           !.last = reply[r].day] \in ThreadRow
        BY <2>1 DEF ThreadRow
  <2>3. threads' = [threads EXCEPT
                      ![t].status = IF next = reply[r].status THEN @ ELSE next,
                      ![t].last = reply[r].day]
        BY <1>9 DEF ReplyWrite
  <2>4. threads' \in [Threads -> ThreadRow]
        BY <1>2, <2>1, <2>2, <2>3
  <2>5. nextThread' = nextThread /\ answered' = answered /\ reply' \in [Replies -> Reply]
        BY <1>2, <1>4, <1>9 DEF ReplyWrite
  <2> QED BY <1>2, <1>3, <2>4, <2>5
<1> QED
    BY <1>5, <1>6, <1>7, <1>8, <1>9 DEF ReplyStep

LEMMA EnvironmentType ==
  ASSUME CoreTypeOK, Environment
  PROVE  CoreTypeOK'
<1> USE DEF CoreTypeOK
<1>0. QueueTypeOK'
      BY EnvironmentKeepsQueue DEF QueueTypeOK, queueVars
<1>10. ASSUME NEW r \in Replies, ReplyStep(r)
      PROVE  CoreTypeOK'
      BY <1>0, <1>10, ReplyType
<1>11. CASE ScanStep
  <2>1. due' \subseteq FollowupJobs
        BY <1>11 DEF ScanStep, ScanFollowups, ScanFail, SkipDue, StoreTypeOK, EnvTypeOK
  <2>2. StoreTypeOK' /\ IsFiniteSet(outbound)'
        BY <1>11, ScanFrame, StoreUnchangedType
  <2>3. EnvTypeOK'
        BY <1>11, <2>1, ScanFrame DEF EnvTypeOK
  <2> QED BY <1>0, <2>2, <2>3
<1> USE DEF agentVars, threadVars, warmupVars, storeVars, StoreTypeOK, EnvTypeOK, envVars,
            replyVars
<1>1. ASSUME NEW e \in Emails,
             UnsubSuppress(e) \/ UnsubMark(e) \/ UnsubFail(e) \/ SuppressBounced(e)
      PROVE  CoreTypeOK'
  <2>1. CASE UnsubSuppress(e)
        BY <1>0, <2>1 DEF UnsubSuppress
  <2>2. CASE UnsubMark(e)
        BY <1>0, <2>2 DEF UnsubMark, markOptedOut
  <2>3. CASE UnsubFail(e)
        BY <1>0, <2>3 DEF UnsubFail
  <2>4. CASE SuppressBounced(e)
        BY <1>0, <2>4 DEF SuppressBounced
  <2> QED BY <1>1, <2>1, <2>2, <2>3, <2>4
<1>2. ASSUME NEW e \in Emails, UnsubClose(e)
      PROVE  CoreTypeOK'
      BY <1>0, <1>2, ClosedThreadsType DEF UnsubClose
<1>3. ASSUME NEW s \in sent, NEW type \in {"bounced", "complained"},
             NEW hard \in BOOLEAN, NEW id \in EventIds, RecordEvent(s, type, hard, id)
      PROVE  CoreTypeOK'
  <2>1. s.key \in Jobs /\ s.agent \in Agents /\ EmailOf[s.agent] \in Emails
        BY AgentAssumption DEF Sent
  <2>2. [id |-> id, key |-> s.key, agent |-> s.agent, type |-> type, day |-> day]
          \in EmailEvent
        BY <2>1 DEF EmailEvent
  <2> QED
      BY <1>0, <1>3, <2>1, <2>2 DEF RecordEvent
<1>4. CASE ToggleKillSwitch
      BY <1>0, <1>4 DEF ToggleKillSwitch
<1>5. CASE RecalcRead
      BY <1>0, <1>5 DEF RecalcRead
<1>6. CASE RecalcWrite
  <2>1. recalc \in Nat
        BY <1>6, BoundAssumption DEF RecalcWrite
  <2>2. Cap(recalc) \in Nat
        BY <2>1, CapType
  <2> QED
      BY <1>0, <1>6, <2>2 DEF RecalcWrite
<1>7. CASE NextDay
      BY <1>0, <1>7, BoundAssumption DEF NextDay
<1>8. ASSUME NEW a \in Agents, Erase(a)
      PROVE  CoreTypeOK'
  <2>1. threads' \in [Threads -> ThreadRow]
        BY <1>8 DEF Erase, deleteAgent, ThreadRow, AbsentThread
  <2>2. IsFiniteSet(outbound)' /\ outbound' \subseteq Outbound
        BY <1>8, FS_Subset DEF Erase, deleteAgent
  <2> QED
      BY <1>0, <1>8, <2>1, <2>2 DEF Erase, deleteAgent
<1>9. ASSUME NEW a \in Agents, Discover(a) \/ Verify(a)
      PROVE  CoreTypeOK'
      BY <1>0, <1>9 DEF Discover, Verify
<1> QED
    BY <1>1, <1>2, <1>3, <1>4, <1>5, <1>6, <1>7, <1>8, <1>9, <1>10, <1>11
    DEF Environment, ScanStep
-----------------------------------------------------------------------------
(* Next, seen from the jobs: some job takes a step, or none does.              *)

JobAction(j) == QueueStep(j) \/ (GuardStep(j) /\ UNCHANGED envVars) \/ DispatchStep(j)

LEMMA NextByJob ==
  ASSUME CoreTypeOK, Next
  PROVE  /\ RecordBars
         /\ (\E j \in Jobs : JobAction(j)) \/ Environment
BY DEF Next, JobStep, JobAction, QueueStep

\* A step of one job leaves every other job's place, reads and counters alone.
LEMMA JobFrame ==
  ASSUME CoreTypeOK, NEW j \in Jobs, JobAction(j), NEW i \in Jobs, i # j
  PROVE  /\ pc'[i] = pc[i] /\ local'[i] = local[i] /\ attempts'[i] = attempts[i]
         /\ stalls'[i] = stalls[i] /\ burned'[i] = burned[i]
<1> USE DEF CoreTypeOK, QueueTypeOK, Goto
<1>1. CASE QueueStep(j)
      BY <1>1 DEF QueueStep, Enqueue, EnqueueDue, Start, Fault, TransientError, Crash, Retry
<1>2. CASE GuardStep(j)
  <2> USE DEF Drop, Retry, Pass
  <2>1. CASE Fetch(j) \/ Load(j)
        BY <2>1 DEF Fetch, Load
  <2>2. CASE CheckSuppression(j) \/ CheckCooldown(j)
        BY <2>2 DEF CheckSuppression, CheckCooldown
  <2>3. CASE CountSends(j) \/ CheckBounces(j) \/ CheckComplaints(j)
        BY <2>3 DEF CountSends, CheckBounces, CheckComplaints
  <2>4. CASE CheckKillSwitch(j) \/ ConsumeToken(j)
        BY <2>4 DEF CheckKillSwitch, ConsumeToken
  <2> QED
      BY <1>2, <2>1, <2>2, <2>3, <2>4 DEF GuardStep
<1>3. CASE DispatchStep(j)
  <2> USE DEF Retry, StepTo
  <2>1. CASE Draft(j) \/ Dispatch(j) \/ LoseAnswer(j)
        BY <2>1 DEF Draft, Dispatch, LoseAnswer
  <2>2. CASE FindThread(j) \/ CreateThread(j)
        BY <2>2 DEF FindThread, CreateThread
  <2>3. CASE PersistMessage(j) \/ ReadStatus(j)
        BY <2>3 DEF PersistMessage, ReadStatus
  <2>4. CASE WriteStatus(j) \/ MarkContacted(j)
        BY <2>4 DEF WriteStatus, MarkContacted
  <2> QED
      BY <1>3, <2>1, <2>2, <2>3, <2>4 DEF DispatchStep
<1> QED
    BY <1>1, <1>2, <1>3 DEF JobAction

LEMMA AgentKnownStep ==
  ASSUME CoreTypeOK, AgentKnown, NEW j \in Jobs, JobAction(j)
  PROVE  AgentKnown'
<1> SUFFICES ASSUME pc'[j] \in Running \ {"fetch", "load"}
             PROVE  local'[j].agent \in Agents
    BY JobFrame DEF AgentKnown
<1> USE DEF CoreTypeOK, QueueTypeOK, Goto, AgentKnown, Running, Guarding, Cleared
<1>1. CASE QueueStep(j)
      BY <1>1 DEF QueueStep, Enqueue, EnqueueDue, Start, Fault, TransientError, Crash, Retry
<1>2. CASE GuardStep(j)
  <2> USE DEF Drop, Retry, Pass, Local
  <2>1. CASE Load(j)
        BY <2>1 DEF Load, StoreTypeOK
  <2>5. CASE Fetch(j)
        BY <2>5 DEF Fetch
  <2>2. CASE CheckSuppression(j) \/ CheckCooldown(j)
        BY <2>2 DEF CheckSuppression, CheckCooldown
  <2>3. CASE CountSends(j) \/ CheckBounces(j) \/ CheckComplaints(j)
        BY <2>3 DEF CountSends, CheckBounces, CheckComplaints
  <2>4. CASE CheckKillSwitch(j) \/ ConsumeToken(j)
        BY <2>4 DEF CheckKillSwitch, ConsumeToken
  <2> QED
      BY <1>2, <2>1, <2>2, <2>3, <2>4, <2>5 DEF GuardStep
<1>3. CASE DispatchStep(j)
  <2> USE DEF Retry, StepTo, Local
  <2>1. CASE Draft(j) \/ Dispatch(j) \/ LoseAnswer(j)
        BY <2>1 DEF Draft, Dispatch, LoseAnswer
  <2>2. CASE FindThread(j) \/ CreateThread(j)
        BY <2>2 DEF FindThread, CreateThread
  <2>3. CASE PersistMessage(j) \/ ReadStatus(j)
        BY <2>3 DEF PersistMessage, ReadStatus
  <2>4. CASE WriteStatus(j) \/ MarkContacted(j)
        BY <2>4 DEF WriteStatus, MarkContacted
  <2> QED
      BY <1>3, <2>1, <2>2, <2>3, <2>4 DEF DispatchStep
<1> QED
    BY <1>1, <1>2, <1>3 DEF JobAction

LEMMA NextType ==
  ASSUME TypeInv, [Next]_vars
  PROVE  TypeInv'
<1> USE DEF TypeInv
<1>1. CASE Next
  <2>1. bars' \in [Jobs -> SUBSET Bars]
        BY <1>1, NextByJob, BarsType
  <2>2. CASE \E j \in Jobs : JobAction(j)
    <3>1. PICK j \in Jobs : JobAction(j)
          BY <2>2
    <3>2. CoreTypeOK'
          BY <3>1, QueueStepType, GuardType, DispatchType DEF JobAction
    <3> QED
        BY <2>1, <3>1, <3>2, AgentKnownStep
  <2>3. CASE Environment
    <3>1. AgentKnown'
          BY <2>3, EnvironmentKeepsQueue DEF AgentKnown, queueVars
    <3> QED
        BY <2>1, <2>3, <3>1, EnvironmentType
  <2> QED
      BY <1>1, <2>2, <2>3, NextByJob
<1>2. CASE UNCHANGED vars
  <2>1. CoreTypeOK'
        BY <1>2, StoreUnchangedType, EnvUnchangedType
        DEF CoreTypeOK, QueueTypeOK, vars, workerVars, queueVars
  <2>2. AgentKnown' /\ bars' \in [Jobs -> SUBSET Bars]
        BY <1>2 DEF AgentKnown, vars, workerVars, queueVars
  <2> QED BY <2>1, <2>2
<1> QED
    BY <1>1, <1>2

THEOREM TypeInvariant == Spec => []TypeInv
BY InitType, NextType, PTL DEF Spec

\* Type correctness of the store, the queue and the environment.
THEOREM TypeCorrect == Spec => []TypeOK
BY TypeInvariant, TypeInvGivesTypeOK, PTL
-----------------------------------------------------------------------------
(* The warm-up ramp.  TokensWithinRamp is not inductive: what makes it hold is  *)
(* that every cap still in flight, in the row, in a running recalc or in an     *)
(* attempt about to consume, is one the ramp had already reached.               *)

LEMMA CapMonotone ==
  ASSUME NEW m \in Nat, NEW n \in Nat, m <= n
  PROVE  Cap(m) \in Nat /\ Cap(m) <= Cap(n)
<1> USE CapAssumption
<1>1. PICK k \in Nat : n = m + k
      BY n - m \in Nat
<1>2. m * CapStep \in Nat /\ k * CapStep \in Nat /\ n * CapStep \in Nat
      OBVIOUS
<1>3. n * CapStep = m * CapStep + k * CapStep
      BY <1>1
<1>4. Cap(m) \in Nat /\ Cap(n) \in Nat
      BY CapType
<1> QED
    BY <1>2, <1>3, <1>4 DEF Cap

RampInv ==
  /\ dailyCap <= Cap(day)
  /\ recalc <= day
  /\ \A j \in Jobs : local[j].cap <= Cap(day)
  /\ \A d \in Days : tokens[d] <= Cap(d)

LEMMA InitRamp == Init => RampInv
<1> SUFFICES ASSUME Init PROVE RampInv
    OBVIOUS
<1>1. Cap(0) \in Nat /\ \A d \in Days : 0 <= Cap(d)
      BY CapMonotone, BoundAssumption
<1>2. DefaultCap <= Cap(0)
      BY CapAssumption DEF Cap
<1> QED
    BY <1>1, <1>2, BoundAssumption DEF Init, StoreInit, WorkerInit, Fresh, RampInv

\* Only gate 7 puts a cap into an attempt, and only gate 8 moves a counter.
LEMMA JobRamp ==
  ASSUME CoreTypeOK, RampInv, NEW j \in Jobs, JobAction(j)
  PROVE  RampInv'
<1> USE DEF CoreTypeOK, StoreTypeOK, QueueTypeOK
<1>0. day \in Nat /\ Cap(day) \in Nat
  <2>1. day \in Nat /\ day <= day
        BY BoundAssumption
  <2> QED
      BY <2>1, CapMonotone
<1>1. ASSUME UNCHANGED <<dailyCap, recalc, tokens, day>>, local'[j].cap <= Cap(day)
      PROVE  RampInv'
      BY <1>1, JobFrame DEF RampInv
<1>2. Fresh.cap <= Cap(day)
      BY <1>0 DEF Fresh
<1>3. CASE QueueStep(j)
  <2>1. UNCHANGED <<dailyCap, recalc, tokens, day>>
        BY <1>3 DEF QueueStep, Enqueue, EnqueueDue, Start, Fault, TransientError, Crash, storeVars,
                    warmupVars, envVars
  <2>2. local'[j] = local[j] \/ local'[j] = Fresh
        BY <1>3 DEF QueueStep, Enqueue, EnqueueDue, Start, Fault, TransientError, Crash, Retry
  <2> QED
      BY <1>1, <1>2, <2>1, <2>2 DEF RampInv
<1>4. CASE GuardStep(j) /\ UNCHANGED envVars
  <2> USE DEF storeVars, warmupVars, envVars, Drop, Retry, Pass, Local
  <2>1. CASE Fetch(j) \/ Load(j)
    <3>1. local'[j] = Fresh \/ local'[j].cap = local[j].cap
          BY <2>1 DEF Fetch, Load
    <3> QED
        BY <1>1, <1>2, <1>4, <2>1, <3>1 DEF Fetch, Load, RampInv
  <2>2. CASE CheckSuppression(j) \/ CheckCooldown(j)
    <3>1. local'[j] = Fresh \/ local'[j].cap = local[j].cap
          BY <2>2 DEF CheckSuppression, CheckCooldown
    <3> QED
        BY <1>1, <1>2, <1>4, <2>2, <3>1 DEF CheckSuppression, CheckCooldown, RampInv
  <2>3. CASE CountSends(j) \/ CheckBounces(j) \/ CheckComplaints(j)
    <3>1. local'[j] = Fresh \/ local'[j].cap = local[j].cap
          BY <2>3 DEF CountSends, CheckBounces, CheckComplaints
    <3> QED
        BY <1>1, <1>2, <1>4, <2>3, <3>1
        DEF CountSends, CheckBounces, CheckComplaints, RampInv
  <2>4. CASE CheckKillSwitch(j)
    <3>1. local'[j] = Fresh \/ local'[j].cap = dailyCap
          BY <2>4 DEF CheckKillSwitch
    <3> QED
        BY <1>1, <1>2, <1>4, <2>4, <3>1 DEF CheckKillSwitch, RampInv
  <2>5. CASE ConsumeToken(j)
    <3>1. CASE tokens[day] < local[j].cap
      <4>1. /\ tokens' = [tokens EXCEPT ![day] = @ + 1]
            /\ UNCHANGED <<dailyCap, recalc, day, local>>
            BY <1>4, <2>5, <3>1 DEF ConsumeToken
      <4>2. tokens[day] \in Nat /\ local[j].cap \in Nat /\ local[j].cap <= Cap(day)
            BY DEF RampInv
      <4>3. tokens[day] + 1 <= Cap(day)
            BY <1>0, <3>1, <4>2
      <4> QED
          BY <4>1, <4>3 DEF RampInv
    <3>2. CASE ~ (tokens[day] < local[j].cap)
      <4>1. local'[j] = Fresh /\ UNCHANGED tokens
            BY <2>5, <3>2 DEF ConsumeToken
      <4> QED
          BY <1>1, <1>2, <1>4, <2>5, <4>1 DEF ConsumeToken
    <3> QED BY <3>1, <3>2
  <2> QED
      BY <1>4, <2>1, <2>2, <2>3, <2>4, <2>5 DEF GuardStep
<1>5. CASE DispatchStep(j)
  <2> USE DEF storeVars, warmupVars, envVars, Retry, StepTo, Local
  <2>1. UNCHANGED <<dailyCap, recalc, tokens, day>>
    <3>1. CASE Draft(j) \/ Dispatch(j) \/ LoseAnswer(j) \/ FindThread(j)
          BY <3>1 DEF Draft, Dispatch, LoseAnswer, FindThread
    <3>2. CASE CreateThread(j) \/ PersistMessage(j) \/ ReadStatus(j)
          BY <3>2 DEF CreateThread, PersistMessage, ReadStatus
    <3>3. CASE WriteStatus(j) \/ MarkContacted(j)
          BY <3>3 DEF WriteStatus, MarkContacted
    <3> QED BY <1>5, <3>1, <3>2, <3>3 DEF DispatchStep
  <2>2. local'[j] = Fresh \/ local'[j].cap = local[j].cap
    <3>1. CASE Draft(j) \/ Dispatch(j) \/ LoseAnswer(j)
          BY <3>1 DEF Draft, Dispatch, LoseAnswer
    <3>2. CASE FindThread(j) \/ CreateThread(j)
          BY <3>2 DEF FindThread, CreateThread
    <3>3. CASE PersistMessage(j) \/ ReadStatus(j)
          BY <3>3 DEF PersistMessage, ReadStatus
    <3>4. CASE WriteStatus(j) \/ MarkContacted(j)
          BY <3>4 DEF WriteStatus, MarkContacted
    <3> QED BY <1>5, <3>1, <3>2, <3>3, <3>4 DEF DispatchStep
  <2> QED
      BY <1>1, <1>2, <2>1, <2>2 DEF RampInv
<1> QED
    BY <1>3, <1>4, <1>5 DEF JobAction

LEMMA EnvironmentRamp ==
  ASSUME CoreTypeOK, RampInv, Environment
  PROVE  RampInv'
<1> USE DEF CoreTypeOK, StoreTypeOK, EnvTypeOK
<1>0. local' = local
      BY EnvironmentKeepsQueue DEF queueVars
<1>1. CASE UNCHANGED <<dailyCap, recalc, tokens, day>>
      BY <1>0, <1>1 DEF RampInv
<1>2. CASE RecalcRead
  <2>1. recalc' <= day /\ UNCHANGED <<dailyCap, tokens, day>>
        BY <1>2, BoundAssumption DEF RecalcRead, storeVars, warmupVars
  <2> QED
      BY <1>0, <2>1 DEF RampInv
<1>3. CASE RecalcWrite
  <2>1. dailyCap' <= Cap(day)
        BY <1>3, CapMonotone, BoundAssumption DEF RecalcWrite, RampInv
  <2> QED
      BY <1>0, <1>3, <2>1, BoundAssumption DEF RecalcWrite, RampInv
<1>4. CASE NextDay
  <2>1. day \in Nat /\ day + 1 \in Nat /\ day' = day + 1
        BY <1>4, BoundAssumption DEF NextDay
  <2>2. Cap(day) \in Nat /\ Cap(day + 1) \in Nat /\ Cap(day) <= Cap(day + 1)
        BY <2>1, CapMonotone
  <2>3. UNCHANGED <<dailyCap, recalc, tokens>>
        BY <1>4 DEF NextDay, warmupVars, envVars
  <2>4. \A j \in Jobs : local[j].cap \in Nat
        BY DEF QueueTypeOK, Local
  <2> QED
      BY <1>0, <2>1, <2>2, <2>3, <2>4, BoundAssumption DEF RampInv
<1> QED
    BY <1>1, <1>2, <1>3, <1>4, ScanFrame, ReplyFrame
    DEF Environment, UnsubSuppress, UnsubMark, UnsubClose, UnsubFail, RecordEvent,
        SuppressBounced, ToggleKillSwitch, Erase, Discover, Verify, ScanStep, storeVars,
        warmupVars, envVars

\* The day's counter never passes what the ramp allows that day.
THEOREM RampHolds == Spec => []TokensWithinRamp
<1>1. TypeInv /\ RampInv /\ [Next]_vars => RampInv'
  <2> SUFFICES ASSUME TypeInv, RampInv, [Next]_vars PROVE RampInv'
      OBVIOUS
  <2>1. CASE Next
        BY <2>1, NextByJob, JobRamp, EnvironmentRamp DEF TypeInv
  <2>2. CASE UNCHANGED vars
        BY <2>2 DEF RampInv, vars, storeVars, warmupVars, workerVars, queueVars, envVars
  <2> QED BY <2>1, <2>2
<1>2. RampInv => TokensWithinRamp
      BY DEF RampInv, TokensWithinRamp
<1> QED
    BY <1>1, <1>2, InitRamp, TypeInvariant, PTL DEF Spec
-----------------------------------------------------------------------------
(* The guard.  Each gate, at the moment it passes, witnesses a state in which   *)
(* its own bar does not stand; `bars` only shrinks while an attempt runs, so    *)
(* from then on that bar is out.                                                *)

Loaded == Running \ {"fetch", "load"}
Unsuppressed == Loaded \ {"suppression"}
Cooled == Unsuppressed \ {"cooldown"}
Unkilled == Cleared \cup {"token"}

BarsOut(p, b) ==
  /\ p \in Loaded => "optedOut" \notin b
  /\ p \in Unsuppressed => "suppressed" \notin b
  /\ p \in Cooled => "cooldown" \notin b
  /\ p \in Unkilled => "killSwitch" \notin b
GuardInv == \A j \in Jobs : BarsOut(pc[j], bars[j])

LEMMA BarsOnlyShrink ==
  ASSUME CoreTypeOK, RecordBars, NEW j \in Jobs, pc[j] \in Running \/ pc'[j] \notin Running
  PROVE  bars'[j] \subseteq bars[j]
BY DEF RecordBars

LEMMA SamePlaceKeepsBarsOut ==
  ASSUME CoreTypeOK, RecordBars, NEW j \in Jobs, pc'[j] = pc[j], BarsOut(pc[j], bars[j])
  PROVE  BarsOut(pc'[j], bars'[j])
<1>1. CASE pc[j] \in Running
      BY <1>1, BarsOnlyShrink DEF BarsOut
<1>2. CASE pc[j] \notin Running
      BY <1>2, BarsOnlyShrink DEF BarsOut
<1> QED BY <1>1, <1>2

\* Where a job that acts is afterwards, and which bar its gate has just tested.
LEMMA OutsideGuardBarsOut ==
  ASSUME CoreTypeOK, RecordBars, NEW j \in Jobs, BarsOut(pc[j], bars[j]),
         \/ pc'[j] \in Idle \cup {"fetch", "load"}
         \/ pc[j] \in Cleared \cup {"token"} /\ pc'[j] \in Cleared
         \/ pc[j] \in {"sends", "bounces", "complaints"}
              /\ pc'[j] \in {"bounces", "complaints", "warmup"}
  PROVE  BarsOut(pc'[j], bars'[j])
<1> USE DEF BarsOut, Loaded, Unsuppressed, Cooled, Unkilled, Idle, Running, Guarding, Cleared
<1>1. CASE pc'[j] \in Idle \cup {"fetch", "load"}
      BY <1>1
<1>2. CASE pc[j] \in Cleared \cup {"token"} /\ pc'[j] \in Cleared
  <2>1. bars'[j] \subseteq bars[j]
        BY <1>2, BarsOnlyShrink
  <2> QED BY <1>2, <2>1
<1>3. CASE /\ pc[j] \in {"sends", "bounces", "complaints"}
           /\ pc'[j] \in {"bounces", "complaints", "warmup"}
  <2>1. bars'[j] \subseteq bars[j]
        BY <1>3, BarsOnlyShrink
  <2> QED BY <1>3, <2>1
<1> QED BY <1>1, <1>2, <1>3

LEMMA LoadBarsOut ==
  ASSUME CoreTypeOK, RecordBars, NEW j \in Jobs, Load(j), BarsOut(pc[j], bars[j])
  PROVE  BarsOut(pc'[j], bars'[j])
<1> USE DEF CoreTypeOK, QueueTypeOK, Goto
<1>1. CASE Drop(j)
      BY <1>1, OutsideGuardBarsOut DEF Drop, Idle
<1>2. CASE ~ Drop(j)
  <2>1. /\ pc[j] = "load" /\ pc'[j] = "suppression" /\ optedOut' = optedOut
        /\ local'[j].agent # NoAgent /\ local'[j].agent \notin optedOut
        BY <1>2, AgentAssumption DEF Load, Pass, StoreTypeOK, Local, storeVars, agentVars
  <2>2. "optedOut" \notin BarsNow(j)'
        BY <2>1 DEF BarsNow
  <2>3. "optedOut" \notin bars'[j]
        BY <2>1, <2>2 DEF RecordBars, Running, Guarding
  <2> QED
      BY <2>1, <2>3 DEF BarsOut, Unsuppressed, Cooled, Unkilled, Cleared
<1> QED BY <1>1, <1>2

LEMMA SuppressionBarsOut ==
  ASSUME CoreTypeOK, RecordBars, NEW j \in Jobs, CheckSuppression(j),
         local[j].agent \in Agents, BarsOut(pc[j], bars[j])
  PROVE  BarsOut(pc'[j], bars'[j])
<1> USE DEF CoreTypeOK, QueueTypeOK, Goto
<1>1. CASE Drop(j)
      BY <1>1, OutsideGuardBarsOut DEF Drop, Idle
<1>2. CASE ~ Drop(j)
  <2>1. /\ pc[j] = "suppression" /\ pc'[j] = "cooldown" /\ suppressed' = suppressed
        /\ local' = local /\ EmailOf[local[j].agent] \notin suppressed
        BY <1>2 DEF CheckSuppression, Pass, storeVars, isSuppressed
  <2>2. "suppressed" \notin BarsNow(j)'
        BY <2>1, AgentAssumption DEF BarsNow, isSuppressed
  <2>3. "suppressed" \notin bars'[j] /\ bars'[j] \subseteq bars[j]
        BY <2>1, <2>2, BarsOnlyShrink DEF RecordBars, Running, Guarding
  <2> QED
      BY <2>1, <2>3 DEF BarsOut, Loaded, Running, Guarding, Cooled, Unkilled, Cleared
<1> QED BY <1>1, <1>2

LEMMA CooldownBarsOut ==
  ASSUME CoreTypeOK, RecordBars, NEW j \in Jobs, CheckCooldown(j),
         local[j].agent \in Agents, BarsOut(pc[j], bars[j])
  PROVE  BarsOut(pc'[j], bars'[j])
<1> USE DEF CoreTypeOK, QueueTypeOK, Goto
<1>1. CASE Drop(j)
      BY <1>1, OutsideGuardBarsOut DEF Drop, Idle
<1>2. CASE ~ Drop(j)
  <2> DEFINE a == local[j].agent
  <2>1. /\ pc[j] = "cooldown" /\ pc'[j] = "sends" /\ local' = local
        /\ UNCHANGED <<present, lastContactedAt, day>>
        /\ ~ wasDomainContactedSince(DomainOf[EmailOf[a]], day - CooldownDays, a)
        BY <1>2 DEF CheckCooldown, Pass, storeVars, agentVars
  <2>2. "cooldown" \notin BarsNow(j)'
        BY <2>1, AgentAssumption DEF BarsNow, wasDomainContactedSince
  <2>3. "cooldown" \notin bars'[j] /\ bars'[j] \subseteq bars[j]
        BY <2>1, <2>2, BarsOnlyShrink DEF RecordBars, Running, Guarding
  <2> QED
      BY <2>1, <2>3
      DEF BarsOut, Loaded, Unsuppressed, Running, Guarding, Unkilled, Cleared
<1> QED BY <1>1, <1>2

LEMMA KillSwitchBarsOut ==
  ASSUME CoreTypeOK, RecordBars, NEW j \in Jobs, CheckKillSwitch(j), BarsOut(pc[j], bars[j])
  PROVE  BarsOut(pc'[j], bars'[j])
<1> USE DEF CoreTypeOK, QueueTypeOK, Goto
<1>1. CASE Drop(j)
      BY <1>1, OutsideGuardBarsOut DEF Drop, Idle
<1>2. CASE ~ Drop(j)
  <2>1. /\ pc[j] = "warmup" /\ pc'[j] = "token"
        /\ killSwitch' = killSwitch /\ ~ killSwitch
        BY <1>2 DEF CheckKillSwitch, Pass, storeVars, warmupVars
  <2>2. "killSwitch" \notin BarsNow(j)'
        BY <2>1 DEF BarsNow
  <2>3. "killSwitch" \notin bars'[j] /\ bars'[j] \subseteq bars[j]
        BY <2>1, <2>2, BarsOnlyShrink DEF RecordBars, Running, Guarding
  <2> QED
      BY <2>1, <2>3
      DEF BarsOut, Loaded, Unsuppressed, Cooled, Running, Guarding, Cleared
<1> QED BY <1>1, <1>2

LEMMA JobBarsOut ==
  ASSUME CoreTypeOK, AgentKnown, RecordBars, NEW j \in Jobs, JobAction(j),
         BarsOut(pc[j], bars[j])
  PROVE  BarsOut(pc'[j], bars'[j])
<1> USE DEF CoreTypeOK, QueueTypeOK, Goto
<1>1. CASE QueueStep(j)
  <2>1. pc'[j] \in Idle \cup {"fetch", "load"}
        BY <1>1 DEF QueueStep, Enqueue, EnqueueDue, Start, Fault, TransientError, Crash, Retry, Idle
  <2> QED BY <2>1, OutsideGuardBarsOut
<1>7. CASE Fetch(j)
      BY <1>7, OutsideGuardBarsOut DEF Fetch, Pass, Drop, Idle
<1>2. CASE Load(j) \/ CheckKillSwitch(j)
      BY <1>2, LoadBarsOut, KillSwitchBarsOut
<1>3. CASE CheckSuppression(j) \/ CheckCooldown(j)
  <2>1. local[j].agent \in Agents
        BY <1>3 DEF CheckSuppression, CheckCooldown, AgentKnown, Running, Guarding
  <2> QED BY <1>3, <2>1, SuppressionBarsOut, CooldownBarsOut
<1>4. CASE CountSends(j) \/ CheckBounces(j) \/ CheckComplaints(j)
      BY <1>4, OutsideGuardBarsOut
      DEF CountSends, CheckBounces, CheckComplaints, Pass, Drop, Idle
<1>5. CASE ConsumeToken(j)
      BY <1>5, OutsideGuardBarsOut DEF ConsumeToken, Retry, Idle, Cleared
<1>6. CASE DispatchStep(j)
  <2> USE DEF Retry, StepTo, Idle, Cleared
  <2>1. CASE Draft(j) \/ Dispatch(j) \/ LoseAnswer(j)
        BY <2>1, OutsideGuardBarsOut DEF Draft, Dispatch, LoseAnswer
  <2>2. CASE FindThread(j) \/ CreateThread(j)
        BY <2>2, OutsideGuardBarsOut DEF FindThread, CreateThread
  <2>3. CASE PersistMessage(j) \/ ReadStatus(j)
        BY <2>3, OutsideGuardBarsOut DEF PersistMessage, ReadStatus
  <2>4. CASE WriteStatus(j) \/ MarkContacted(j)
        BY <2>4, OutsideGuardBarsOut DEF WriteStatus, MarkContacted
  <2> QED BY <1>6, <2>1, <2>2, <2>3, <2>4 DEF DispatchStep
<1> QED
    BY <1>1, <1>2, <1>3, <1>4, <1>5, <1>6, <1>7 DEF JobAction, GuardStep

LEMMA NextGuard ==
  ASSUME TypeInv, GuardInv, [Next]_vars
  PROVE  GuardInv'
<1> USE DEF TypeInv, GuardInv
<1>1. CASE Next
  <2>0. RecordBars
        BY <1>1, NextByJob
  <2>1. CASE \E j \in Jobs : JobAction(j)
    <3>1. PICK j \in Jobs : JobAction(j)
          BY <2>1
    <3>2. BarsOut(pc'[j], bars'[j])
          BY <2>0, <3>1, JobBarsOut
    <3>3. ASSUME NEW i \in Jobs, i # j PROVE BarsOut(pc'[i], bars'[i])
      <4>1. pc'[i] = pc[i] /\ BarsOut(pc[i], bars[i])
            BY <3>1, <3>3, JobFrame
      <4> QED BY <2>0, <4>1, SamePlaceKeepsBarsOut
    <3> QED BY <3>2, <3>3
  <2>2. CASE Environment
    <3>1. pc' = pc
          BY <2>2, EnvironmentKeepsQueue DEF queueVars
    <3> QED BY <2>0, <3>1, SamePlaceKeepsBarsOut
  <2> QED BY <1>1, <2>1, <2>2, NextByJob
<1>2. CASE UNCHANGED vars
      BY <1>2 DEF vars, workerVars, queueVars
<1> QED BY <1>1, <1>2

\* No attempt gets past the guard while an opt-out, a suppression, the agency's
\* cooldown or the kill-switch has stood ever since the attempt began.
THEOREM GuardSound == Spec => []GuardHoldsBars
<1>1. Init => GuardInv
      BY DEF Init, WorkerInit, GuardInv, BarsOut
<1>2. GuardInv => GuardHoldsBars
      BY DEF GuardInv, GuardHoldsBars, BarsOut, StandingBars, Loaded, Unsuppressed, Cooled,
             Unkilled, Running, Guarding, Cleared
<1> QED
    BY <1>1, <1>2, NextGuard, TypeInvariant, PTL DEF Spec
-----------------------------------------------------------------------------
(* Tokens against attempts.  A token is paid for by the attempt or the stall    *)
(* that ends it; the one attempt that has not ended, or that completed, may     *)
(* hold one more.                                                               *)

Live == {"none", "queued"} \cup Running
Paid == Cleared \cup {"completed"}

BurnOK(p, n, k, b) ==
  /\ p \in Live => n < MaxAttempts /\ k <= MaxStalls
  /\ p \in Live \cup {"completed"} => b <= n + k + (IF p \in Paid THEN 1 ELSE 0)
  /\ b <= MaxAttempts + MaxStalls
  /\ p = "completed" => n < MaxAttempts /\ k <= MaxStalls
BurnInv == \A j \in Jobs : BurnOK(pc[j], attempts[j], stalls[j], burned[j])

LEMMA JobBurn ==
  ASSUME CoreTypeOK, NEW j \in Jobs, JobAction(j),
         BurnOK(pc[j], attempts[j], stalls[j], burned[j])
  PROVE  BurnOK(pc'[j], attempts'[j], stalls'[j], burned'[j])
<1> USE GuardAssumption DEF CoreTypeOK, QueueTypeOK, Goto, BurnOK
<1>0. /\ pc[j] \in Idle \cup Running
      /\ attempts[j] \in Nat /\ stalls[j] \in Nat /\ burned[j] \in Nat
      OBVIOUS
<1>1. ASSUME pc[j] \in Running, Retry(j), burned' = burned
      PROVE  BurnOK(pc'[j], attempts'[j], stalls'[j], burned'[j])
  <2>1. /\ attempts'[j] = attempts[j] + 1 /\ stalls'[j] = stalls[j]
        /\ burned'[j] = burned[j]
        /\ pc'[j] = IF attempts[j] + 1 < MaxAttempts THEN "queued" ELSE "failed"
        BY <1>1 DEF Retry
  <2>2. attempts[j] < MaxAttempts /\ stalls[j] <= MaxStalls
        /\ burned[j] <= attempts[j] + stalls[j] + 1
        BY <1>0, <1>1 DEF Live
  <2> QED
      BY <1>0, <2>1, <2>2 DEF Live, Paid, Running, Guarding, Cleared
<1>2. ASSUME pc[j] \in Guarding, Drop(j)
      PROVE  BurnOK(pc'[j], attempts'[j], stalls'[j], burned'[j])
      BY <1>0, <1>2 DEF Drop, Live, Paid, Running, Guarding, Cleared
<1>3. ASSUME UNCHANGED <<attempts, stalls, burned>>,
             \/ pc[j] \in Live \ Cleared /\ pc'[j] \in Live \ Cleared
             \/ pc[j] \in Cleared /\ pc'[j] \in Paid
      PROVE  BurnOK(pc'[j], attempts'[j], stalls'[j], burned'[j])
      BY <1>0, <1>3 DEF Live, Paid, Running, Guarding, Cleared
<1>4. CASE Enqueue(j) \/ EnqueueDue(j) \/ Start(j)
      BY <1>3, <1>4 DEF Enqueue, EnqueueDue, Start, Live, Running, Guarding, Cleared
<1>5. CASE TransientError(j)
      BY <1>1, <1>5 DEF TransientError
<1>6. CASE Crash(j)
  <2>1. /\ attempts'[j] = attempts[j] /\ stalls'[j] = stalls[j] + 1
        /\ burned'[j] = burned[j]
        /\ pc'[j] = IF stalls[j] < MaxStalls THEN "queued" ELSE "failed"
        BY <1>6 DEF Crash
  <2>2. attempts[j] < MaxAttempts /\ stalls[j] <= MaxStalls
        /\ burned[j] <= attempts[j] + stalls[j] + 1
        BY <1>0, <1>6 DEF Crash, Live
  <2> QED
      BY <1>0, <2>1, <2>2 DEF Live, Paid, Running, Guarding, Cleared
<1>7. CASE GuardStep(j)
  <2> USE DEF Pass, Live, Running, Guarding, Cleared
  <2>1. CASE Fetch(j) \/ Load(j)
        BY <1>2, <1>3, <2>1 DEF Fetch, Load
  <2>2. CASE CheckSuppression(j) \/ CheckCooldown(j)
        BY <1>2, <1>3, <2>2 DEF CheckSuppression, CheckCooldown
  <2>3. CASE CountSends(j) \/ CheckBounces(j) \/ CheckComplaints(j)
        BY <1>2, <1>3, <2>3 DEF CountSends, CheckBounces, CheckComplaints
  <2>4. CASE CheckKillSwitch(j)
        BY <1>2, <1>3, <2>4 DEF CheckKillSwitch
  <2>5. CASE ConsumeToken(j)
    <3>1. CASE tokens[day] < local[j].cap
      <4>1. /\ pc[j] = "token" /\ pc'[j] = "draft" /\ burned'[j] = burned[j] + 1
            /\ attempts'[j] = attempts[j] /\ stalls'[j] = stalls[j]
            BY <2>5, <3>1 DEF ConsumeToken
      <4> QED
          BY <1>0, <4>1 DEF Paid
    <3>2. CASE ~ (tokens[day] < local[j].cap)
          BY <1>1, <2>5, <3>2 DEF ConsumeToken, Retry
    <3> QED BY <3>1, <3>2
  <2> QED
      BY <1>7, <2>1, <2>2, <2>3, <2>4, <2>5 DEF GuardStep
<1>8. CASE DispatchStep(j)
  <2> USE DEF StepTo, Live, Paid, Running, Cleared
  <2>1. CASE Draft(j) \/ Dispatch(j) \/ LoseAnswer(j)
        BY <1>1, <1>3, <2>1 DEF Draft, Dispatch, LoseAnswer, Retry
  <2>2. CASE FindThread(j) \/ CreateThread(j)
        BY <1>1, <1>3, <2>2 DEF FindThread, CreateThread
  <2>3. CASE PersistMessage(j) \/ ReadStatus(j)
        BY <1>1, <1>3, <2>3 DEF PersistMessage, ReadStatus
  <2>4. CASE WriteStatus(j) \/ MarkContacted(j)
        BY <1>1, <1>3, <2>4 DEF WriteStatus, MarkContacted
  <2> QED
      BY <1>8, <2>1, <2>2, <2>3, <2>4 DEF DispatchStep
<1> QED
    BY <1>4, <1>5, <1>6, <1>7, <1>8 DEF JobAction, QueueStep, Fault

LEMMA NextBurn ==
  ASSUME TypeInv, BurnInv, [Next]_vars
  PROVE  BurnInv'
<1> USE DEF TypeInv, BurnInv
<1>1. CASE Next
  <2>1. CASE \E j \in Jobs : JobAction(j)
    <3>1. PICK j \in Jobs : JobAction(j)
          BY <2>1
    <3>2. BurnOK(pc'[j], attempts'[j], stalls'[j], burned'[j])
          BY <3>1, JobBurn
    <3>3. ASSUME NEW i \in Jobs, i # j
          PROVE  BurnOK(pc'[i], attempts'[i], stalls'[i], burned'[i])
      <4>1. BurnOK(pc[i], attempts[i], stalls[i], burned[i])
            OBVIOUS
      <4> QED BY <3>1, <3>3, <4>1, JobFrame
    <3> QED BY <3>2, <3>3
  <2>2. CASE Environment
        BY <2>2, EnvironmentKeepsQueue DEF queueVars
  <2> QED BY <1>1, <2>1, <2>2, NextByJob
<1>2. CASE UNCHANGED vars
      BY <1>2 DEF vars, workerVars, queueVars
<1> QED BY <1>1, <1>2

\* A job consumes at most one token per attempt and one per stall.
THEOREM BurnHolds == Spec => []BurnBounded
<1>1. Init => BurnInv
      BY GuardAssumption DEF Init, WorkerInit, BurnInv, BurnOK, Live, Paid, Cleared
<1>2. BurnInv => BurnBounded
      BY DEF BurnInv, BurnBounded, BurnOK
<1> QED
    BY <1>1, <1>2, NextBurn, TypeInvariant, PTL DEF Spec
-----------------------------------------------------------------------------
(* The record of what was sent.  The three properties about it hold together:  *)
(* whatever an attempt has read of its thread and its agent stays true of them  *)
(* while others work, because rows only ever disappear with their agent, an     *)
(* agent id is never reused, and no statement makes a thread `active` again.    *)

\* Thread t is agent a's, or was until a was erased.
Owns(t, a) ==
  /\ a \in everPresent /\ t \in Threads /\ t < nextThread
  /\ threads[t].agent \in {a, NoAgent}
  /\ a \in present => threads[t].agent = a

\* A first email is on record in thread t.
SendOnRecord(t) == \E m \in outbound : m.thread = t /\ m.key \in SendJobs

Rows ==
  \A t \in Threads :
    /\ threads[t].status = "absent" <=> threads[t].agent = NoAgent
    /\ threads[t].agent # NoAgent => t < nextThread /\ threads[t].agent \in everPresent
    /\ threads[t].status = "awaiting_reply" => SendOnRecord(t)

SentTo ==
  \A s \in sent :
    /\ s.key \in SendJobs => s.agent = SendAgent[s.key]
    /\ s.key \in FollowupJobs => Owns(s.key.thread, s.agent)

Filed(m) ==
  /\ m.thread < nextThread
  /\ \E s \in sent : s.key = m.key /\ s.agent = threads[m.thread].agent

\* What a follow-up knows of its thread's agent once it has fetched the thread,
\* and what a loaded attempt knows of its agent.
Fetched(j) ==
  j \in FollowupJobs => local[j].thread = j.thread /\ Owns(j.thread, local[j].agent)
USE DEF Fetched

Target(j) ==
  /\ local[j].agent \in everPresent
  /\ j \in SendJobs => local[j].agent = SendAgent[j]
  /\ Fetched(j)

Complete(j) ==
  /\ SendAgent[j] \in everPresent
  /\ SendAgent[j] \in present =>
       /\ lastContactedAt[SendAgent[j]] # Never
       /\ \E m \in outbound : m.key = j /\ threads[m.thread].status # "active"

\* A follow-up goes into a thread that has its first email.
Continues(j) ==
  j.thread < nextThread /\ (ExistsThread(j.thread) => SendOnRecord(j.thread))

JobRecord(j) ==
  /\ pc[j] = "load" => Fetched(j)
  /\ pc[j] \in Running \ {"fetch", "load"} => Target(j)
  /\ pc[j] \in {"thread", "create"} => j \in SendJobs
  /\ pc[j] \in {"thread", "create", "persist"} => \E s \in sent : s.key = Key(j)
  /\ pc[j] \in {"persist", "read", "write", "mark"} => Owns(local[j].thread, local[j].agent)
  /\ /\ pc[j] \in {"read", "write", "mark"}
     /\ j \in SendJobs /\ ExistsThread(local[j].thread)
     => \E m \in outbound : m.key = j /\ m.thread = local[j].thread
  /\ \/ pc[j] = "write" /\ local[j].status # "active"
     \/ pc[j] = "mark"
     => threads[local[j].thread].status # "active"
  /\ pc[j] = "completed" /\ j \in SendJobs => Complete(j)
  /\ pc[j] # "none" /\ j \in FollowupJobs => Continues(j)

RecordInv ==
  /\ Rows /\ SentTo
  /\ \A m \in outbound : Filed(m)
  /\ \A j \in Jobs : JobRecord(j)
  /\ \A f \in due : Continues(f)

\* How any step changes the rows, as far as another attempt can tell.
Grows ==
  /\ sent \subseteq sent' /\ nextThread <= nextThread' /\ everPresent \subseteq everPresent'
  /\ present' \cap everPresent \subseteq present
  /\ \A a \in Agents : lastContactedAt[a] # Never => lastContactedAt'[a] # Never
  /\ \A t \in Threads : t < nextThread =>
       /\ threads'[t].agent \in {threads[t].agent, NoAgent}
       /\ threads[t].agent \in present' => threads'[t].agent = threads[t].agent
       /\ threads'[t].status # "absent" => threads[t].status # "absent"
       /\ threads[t].status # "active" => threads'[t].status # "active"
  /\ \A m \in outbound :
       \/ m \in outbound' /\ threads'[m.thread].agent = threads[m.thread].agent
       \/ /\ m \notin outbound' /\ threads'[m.thread].status = "absent"
          /\ threads[m.thread].agent \notin present'

recordVars == <<present, everPresent, lastContactedAt, threads, nextThread, outbound, sent>>

LEMMA UnchangedGrows ==
  ASSUME CoreTypeOK, Rows, \A m \in outbound : Filed(m), UNCHANGED recordVars
  PROVE  Grows
BY DEF CoreTypeOK, StoreTypeOK, Grows, recordVars

LEMMA OwnsStable ==
  ASSUME CoreTypeOK, CoreTypeOK', Grows, NEW t, NEW a, Owns(t, a)
  PROVE  Owns(t, a)'
BY DEF CoreTypeOK, StoreTypeOK, Grows, Owns

LEMMA SendOnRecordStable ==
  ASSUME CoreTypeOK, Grows, NEW t \in Threads, SendOnRecord(t),
         threads'[t].status # "absent"
  PROVE  SendOnRecord(t)'
BY DEF CoreTypeOK, StoreTypeOK, Grows, SendOnRecord

LEMMA CompleteStable ==
  ASSUME CoreTypeOK, SentTo, \A m \in outbound : Filed(m), Grows,
         NEW j \in SendJobs, Complete(j)
  PROVE  Complete(j)'
<1> USE DEF CoreTypeOK, StoreTypeOK
<1>1. SendAgent[j] \in Agents /\ SendAgent[j] \in everPresent'
      BY JobAssumption DEF Complete, Grows
<1>2. SUFFICES ASSUME SendAgent[j] \in present'
               PROVE  /\ lastContactedAt'[SendAgent[j]] # Never
                      /\ \E m \in outbound' : m.key = j /\ threads'[m.thread].status # "active"
      BY <1>1 DEF Complete
<1>3. SendAgent[j] \in present
      BY <1>2 DEF Complete, Grows
<1>4. PICK m \in outbound : m.key = j /\ threads[m.thread].status # "active"
      BY <1>3 DEF Complete
<1>5. m.thread \in Threads /\ m.thread < nextThread /\ threads[m.thread].agent = SendAgent[j]
      BY <1>4 DEF Filed, SentTo, Outbound
<1>6. m \in outbound' /\ threads'[m.thread].status # "active"
      BY <1>2, <1>4, <1>5 DEF Grows
<1> QED
    BY <1>1, <1>3, <1>4, <1>6 DEF Complete, Grows

LEMMA ContinuesStable ==
  ASSUME CoreTypeOK, CoreTypeOK', Grows, NEW j \in FollowupJobs, Continues(j)
  PROVE  Continues(j)'
<1>1. j.thread \in Threads
      OBVIOUS
<1>2. j.thread < nextThread'
      BY <1>1 DEF Continues, Grows, CoreTypeOK, StoreTypeOK
<1>3. ASSUME ExistsThread(j.thread)'
      PROVE  SendOnRecord(j.thread)'
  <2>1. threads'[j.thread].status # "absent" /\ threads[j.thread].status # "absent"
        BY <1>1, <1>3 DEF Continues, Grows, ExistsThread
  <2>2. SendOnRecord(j.thread)
        BY <1>1, <2>1 DEF Continues, ExistsThread
  <2> QED BY <1>1, <2>1, <2>2, SendOnRecordStable
<1> QED BY <1>2, <1>3 DEF Continues

\* An attempt that does not move keeps what it knows.
LEMMA JobRecordStable ==
  ASSUME CoreTypeOK, CoreTypeOK', SentTo, \A m \in outbound : Filed(m), Grows,
         NEW j \in Jobs, JobRecord(j), pc'[j] = pc[j], local'[j] = local[j]
  PROVE  JobRecord(j)'
<1> DEFINE l == local[j]
<1>0. pc[j] = "load" => Fetched(j)'
      BY OwnsStable DEF JobRecord
<1>1. pc[j] \in Running \ {"fetch", "load"} => Target(j)'
      BY OwnsStable DEF JobRecord, Target, Grows
<1>2. pc[j] \in {"persist", "read", "write", "mark"} => Owns(l.thread, l.agent)'
      BY OwnsStable DEF JobRecord
<1>3. pc[j] \in {"thread", "create", "persist"} => (\E s \in sent : s.key = Key(j))'
      BY DEF JobRecord, Grows, Key
<1>4. ASSUME Owns(l.thread, l.agent)
      PROVE  /\ threads[l.thread].status # "active" => threads'[l.thread].status # "active"
             /\ ExistsThread(l.thread)' =>
                  /\ ExistsThread(l.thread)
                  /\ \A m \in outbound : m.thread = l.thread => m \in outbound'
      BY <1>4 DEF Grows, ExistsThread, Owns
<1>5. pc[j] \in {"read", "write", "mark"} /\ j \in SendJobs /\ ExistsThread(l.thread)' =>
        \E m \in outbound' : m.key = j /\ m.thread = l.thread
      BY <1>4 DEF JobRecord
<1>6. \/ pc[j] = "write" /\ l.status # "active"
      \/ pc[j] = "mark"
      => threads'[l.thread].status # "active"
      BY <1>4 DEF JobRecord
<1>7. pc[j] = "completed" /\ j \in SendJobs => Complete(j)'
      BY CompleteStable DEF JobRecord
<1>8. pc[j] # "none" /\ j \in FollowupJobs => Continues(j)'
      BY ContinuesStable DEF JobRecord
<1> QED
    BY <1>0, <1>1, <1>2, <1>3, <1>5, <1>6, <1>7, <1>8 DEF JobRecord

\* What a step that adds no message and no email keeps of the stored rows.
LEMMA FiledStable ==
  ASSUME CoreTypeOK, CoreTypeOK', Grows, NEW m \in outbound, m \in outbound', Filed(m)
  PROVE  Filed(m)'
BY DEF CoreTypeOK, StoreTypeOK, Outbound, Grows, Filed

LEMMA SentToStable ==
  ASSUME CoreTypeOK, CoreTypeOK', Grows, NEW s \in sent,
         /\ s.key \in SendJobs => s.agent = SendAgent[s.key]
         /\ s.key \in FollowupJobs => Owns(s.key.thread, s.agent)
  PROVE  s.key \in FollowupJobs => Owns(s.key.thread, s.agent)'
BY OwnsStable

LEMMA QuietRecord ==
  ASSUME CoreTypeOK, CoreTypeOK', RecordInv, UNCHANGED recordVars
  PROVE  Grows /\ Rows' /\ SentTo' /\ \A m \in outbound' : Filed(m)'
<1>1. Grows
      BY UnchangedGrows DEF RecordInv
<1>2. Rows'
      BY DEF RecordInv, Rows, recordVars, SendOnRecord
<1>3. SentTo'
      BY <1>1, SentToStable DEF RecordInv, SentTo, recordVars
<1>4. \A m \in outbound' : Filed(m)'
      BY <1>1, FiledStable DEF RecordInv, recordVars
<1> QED
    BY <1>1, <1>2, <1>3, <1>4

\* An attempt that ends, or has not loaded yet, has nothing to remember.
LEMMA AwayRecord ==
  ASSUME CoreTypeOK, CoreTypeOK', Grows, RecordInv, NEW j \in Jobs, pc[j] # "none",
         pc'[j] \in {"queued", "failed"}
  PROVE  JobRecord(j)'
<1>1. JobRecord(j)
      BY DEF RecordInv
<1>2. j \in FollowupJobs => Continues(j)'
      BY <1>1, ContinuesStable DEF JobRecord
<1> QED
    BY <1>2 DEF JobRecord, Running, Guarding, Cleared

RecordKept(j) ==
  /\ Grows /\ Rows' /\ SentTo' /\ \A m \in outbound' : Filed(m)'
  /\ JobRecord(j)'

LEMMA QueueRecord ==
  ASSUME CoreTypeOK, CoreTypeOK', RecordInv, NEW j \in Jobs, QueueStep(j)
  PROVE  RecordKept(j)
<1> USE DEF CoreTypeOK, QueueTypeOK, Goto
<1>1. UNCHANGED recordVars
      BY DEF QueueStep, Enqueue, EnqueueDue, Start, Fault, TransientError, Crash, storeVars,
             agentVars, threadVars, recordVars
<1>2. Grows /\ Rows' /\ SentTo' /\ \A m \in outbound' : Filed(m)'
      BY <1>1, QuietRecord
\* The scan enqueues what it has listed; a send is no follow-up.
<1>3. CASE (j \in SendJobs /\ Enqueue(j)) \/ EnqueueDue(j)
  <2>1. pc'[j] = "queued"
        BY <1>3 DEF Enqueue, EnqueueDue
  <2>2. j \in FollowupJobs => Continues(j)
        BY <1>3, JobAssumption DEF EnqueueDue, RecordInv
  <2>3. j \in FollowupJobs => Continues(j)'
        BY <1>2, <2>2, ContinuesStable
  <2> QED
      BY <1>2, <2>1, <2>3 DEF RecordKept, JobRecord, Running, Guarding, Cleared
<1>4. CASE Start(j)
  <2>1. /\ pc[j] = "queued" /\ JobRecord(j)
        /\ pc'[j] = IF j \in SendJobs THEN "load" ELSE "fetch"
        BY <1>4 DEF Start, RecordInv
  <2>2. j \in FollowupJobs => Continues(j)'
        BY <1>2, <2>1, ContinuesStable DEF JobRecord
  <2>3. pc'[j] = "load" => j \notin FollowupJobs
        BY <2>1, JobAssumption
  <2> QED
      BY <1>2, <2>1, <2>2, <2>3 DEF RecordKept, JobRecord
<1>5. CASE Fault(j)
  <2>1. pc[j] # "none" /\ pc'[j] \in {"queued", "failed"}
        BY <1>5 DEF Fault, TransientError, Crash, Retry, Running, Guarding, Cleared
  <2> QED
      BY <1>2, <2>1, AwayRecord DEF RecordKept
<1> QED
    BY <1>3, <1>4, <1>5 DEF QueueStep

LEMMA GuardRecord ==
  ASSUME CoreTypeOK, CoreTypeOK', RecordInv, NEW j \in Jobs, GuardStep(j)
  PROVE  RecordKept(j)
<1> USE DEF CoreTypeOK, QueueTypeOK, Goto
<1>1. UNCHANGED recordVars
  <2> USE DEF storeVars, agentVars, threadVars, recordVars
  <2>1. CASE ConsumeToken(j)
        BY <2>1 DEF ConsumeToken
  <2>2. CASE ~ ConsumeToken(j)
        BY <2>2 DEF GuardStep, Fetch, Load, CheckSuppression, CheckCooldown, CountSends,
                    CheckBounces, CheckComplaints, CheckKillSwitch
  <2> QED BY <2>1, <2>2
<1>2. Grows /\ Rows' /\ SentTo' /\ \A m \in outbound' : Filed(m)'
      BY <1>1, QuietRecord
<1>3. JobRecord(j) /\ pc[j] \in Guarding
      BY DEF RecordInv, GuardStep, Fetch, Load, CheckSuppression, CheckCooldown, CountSends,
             CheckBounces, CheckComplaints, CheckKillSwitch, ConsumeToken, Guarding
<1>4. CASE Drop(j) \/ Retry(j)
  <2>1. pc[j] # "none" /\ pc'[j] \in {"queued", "failed"}
        BY <1>3, <1>4 DEF Drop, Retry, Guarding
  <2> QED
      BY <1>2, <2>1, AwayRecord DEF RecordKept
\* Past a gate: the same agent and thread, and the last conjunct as before.
<1>5. ASSUME pc'[j] \in (Guarding \ {"fetch", "load"}) \cup {"draft"}, Target(j)'
      PROVE  RecordKept(j)
  <2>1. j \in FollowupJobs => Continues(j)'
        BY <1>2, <1>3, ContinuesStable DEF JobRecord, Guarding
  <2> QED
      BY <1>2, <1>5, <2>1 DEF RecordKept, JobRecord, Guarding
<1>6. ASSUME pc[j] \notin {"fetch", "load"},
             pc'[j] \in (Guarding \ {"fetch", "load"}) \cup {"draft"},
             local'[j].agent = local[j].agent, local'[j].thread = local[j].thread
      PROVE  RecordKept(j)
  <2>1. Target(j)
        BY <1>3, <1>6 DEF JobRecord, Running
  <2>2. Target(j)'
        BY <1>1, <1>6, <2>1 DEF Target, Owns, recordVars
  <2> QED BY <1>5, <1>6, <2>2
<1>7. CASE ~ (Drop(j) \/ Retry(j))
  <2> USE DEF Pass, Local, Guarding
  <2>5. CASE Fetch(j)
    <3>1. /\ pc'[j] = "load" /\ ExistsThread(j.thread)
          /\ local'[j].agent = threads[j.thread].agent /\ local'[j].thread = j.thread
          BY <1>7, <2>5 DEF Fetch
    <3>2. Owns(j.thread, local'[j].agent)
          BY <3>1 DEF ExistsThread, Owns, RecordInv, Rows
    <3>3. Fetched(j)'
          BY <1>1, <3>1, <3>2 DEF Owns, recordVars
    <3>4. j \in FollowupJobs => Continues(j)'
          BY <1>2, <1>3, ContinuesStable DEF JobRecord
    <3> QED
        BY <1>2, <3>1, <3>3, <3>4 DEF RecordKept, JobRecord
  <2>1. CASE Load(j)
    <3>1. PICK a : a = IF j \in SendJobs THEN SendAgent[j] ELSE local[j].agent
          OBVIOUS
    <3>2. /\ a \in present /\ pc[j] = "load" /\ pc'[j] = "suppression"
          /\ local'[j].agent = a /\ local'[j].thread = local[j].thread
          BY <1>7, <2>1, <3>1 DEF Load
    <3>3. a \in everPresent /\ Fetched(j)
          BY <1>3, <3>2 DEF StoreTypeOK, JobRecord
    <3>4. Target(j)'
          BY <1>1, <3>1, <3>2, <3>3, JobAssumption DEF Target, Owns, recordVars
    <3> QED BY <1>5, <3>2, <3>4
  <2>2. CASE CheckSuppression(j) \/ CheckCooldown(j)
        BY <1>6, <1>7, <2>2 DEF CheckSuppression, CheckCooldown
  <2>3. CASE CountSends(j) \/ CheckBounces(j) \/ CheckComplaints(j)
        BY <1>6, <1>7, <2>3 DEF CountSends, CheckBounces, CheckComplaints
  <2>4. CASE CheckKillSwitch(j) \/ ConsumeToken(j)
        BY <1>6, <1>7, <2>4 DEF CheckKillSwitch, ConsumeToken
  <2> QED
      BY <2>1, <2>2, <2>3, <2>4, <2>5 DEF GuardStep
<1> QED
    BY <1>4, <1>7

\* Sending: the key's one email goes to the agent the attempt has loaded.
LEMMA AcceptRecord ==
  ASSUME CoreTypeOK, CoreTypeOK', RecordInv, NEW j \in Jobs, Target(j), Accept(j),
         UNCHANGED <<present, everPresent, lastContactedAt, threads, nextThread, outbound>>
  PROVE  /\ Grows /\ Rows' /\ SentTo' /\ \A m \in outbound' : Filed(m)'
         /\ \E s \in sent' : s.key = Key(j)
<1>1. Grows
      BY DEF Accept, Grows, RecordInv, Filed, CoreTypeOK, StoreTypeOK
<1>2. Rows'
      BY DEF RecordInv, Rows, SendOnRecord
<1>3. SentTo'
  <2>1. ASSUME NEW s \in sent, s.key \in FollowupJobs
        PROVE  Owns(s.key.thread, s.agent)'
        BY <1>1, <2>1, SentToStable DEF RecordInv, SentTo
  <2>2. CASE UNCHANGED sent
        BY <2>1, <2>2 DEF RecordInv, SentTo
  <2>3. CASE sent' = sent \cup {[key |-> Key(j), agent |-> local[j].agent, day |-> day]}
    <3>0. PICK s : /\ s = [key |-> Key(j), agent |-> local[j].agent, day |-> day]
                   /\ sent' = sent \cup {s}
          BY <2>3
    <3>1. s.key = Key(j) /\ s.agent = local[j].agent
          BY <3>0
    <3>2. s.key \in SendJobs => s.agent = SendAgent[s.key]
      <4>1. j \notin SendJobs => s.key \in FollowupJobs
            BY <3>1 DEF Key, Local, CoreTypeOK, QueueTypeOK
      <4>2. j \in SendJobs => s.key = j /\ local[j].agent = SendAgent[j]
            BY <3>1 DEF Target, Key
      <4> QED BY <3>1, <4>1, <4>2, JobAssumption
    <3>3. s.key \in FollowupJobs => Owns(s.key.thread, s.agent)
      <4>1. s.key \in FollowupJobs => j \notin SendJobs
            BY <3>1, JobAssumption DEF Key
      <4>2. j \notin SendJobs => s.key.thread = j.thread /\ Owns(j.thread, local[j].agent)
            BY <3>1 DEF Target, Key
      <4> QED BY <3>1, <4>1, <4>2
    <3>4. s.key \in FollowupJobs => Owns(s.key.thread, s.agent)'
          BY <1>1, <3>3, OwnsStable
    <3> QED
        BY <2>1, <3>0, <3>2, <3>4 DEF RecordInv, SentTo
  <2> QED BY <2>2, <2>3 DEF Accept
<1>4. \A m \in outbound' : Filed(m)'
      BY <1>1, FiledStable DEF RecordInv
<1>5. \E s \in sent' : s.key = Key(j)
  <2> DEFINE s == [key |-> Key(j), agent |-> local[j].agent, day |-> day]
  <2>1. s.key = Key(j)
        OBVIOUS
  <2> HIDE DEF s
  <2>2. (UNCHANGED sent /\ \E r \in sent : r.key = Key(j)) \/ s \in sent'
        BY DEF Accept, s
  <2> QED BY <2>1, <2>2
<1> QED BY <1>1, <1>2, <1>3, <1>4, <1>5

LEMMA SendRecord ==
  ASSUME CoreTypeOK, CoreTypeOK', RecordInv, NEW j \in Jobs,
         Draft(j) \/ Dispatch(j) \/ LoseAnswer(j)
  PROVE  RecordKept(j)
<1> USE DEF CoreTypeOK, QueueTypeOK, Goto, StepTo
<1>1. JobRecord(j) /\ Target(j) /\ pc[j] \in {"draft", "dispatch"}
      BY DEF RecordInv, JobRecord, Draft, Dispatch, LoseAnswer, Running, Cleared
<1>2. ASSUME Grows
      PROVE  j \in FollowupJobs => Continues(j)'
      BY <1>1, <1>2, ContinuesStable DEF JobRecord
<1>3. CASE Draft(j)
  <2>1. UNCHANGED recordVars
        BY <1>3 DEF Draft, storeVars, agentVars, threadVars, recordVars
  <2>2. Grows /\ Rows' /\ SentTo' /\ \A m \in outbound' : Filed(m)'
        BY <2>1, QuietRecord
  <2>3. /\ pc'[j] = "dispatch" /\ local'[j].agent = local[j].agent
        /\ local'[j].thread = local[j].thread
        BY <1>3 DEF Draft, Local
  <2>4. Target(j)'
        BY <1>1, <2>2, <2>3, OwnsStable DEF Target, Grows
  <2> QED
      BY <1>2, <2>2, <2>3, <2>4 DEF RecordKept, JobRecord
<1>4. ASSUME Dispatch(j) \/ LoseAnswer(j)
      PROVE  /\ Grows /\ Rows' /\ SentTo' /\ \A m \in outbound' : Filed(m)'
             /\ \E s \in sent' : s.key = Key(j)
      BY <1>1, <1>4, AcceptRecord DEF Dispatch, LoseAnswer, agentVars, threadVars
<1>5. CASE Dispatch(j)
  <2>1. /\ pc'[j] = IF j \in SendJobs THEN "thread" ELSE "persist"
        /\ local' = local /\ Key(j)' = Key(j)
        BY <1>5 DEF Dispatch, Key
  <2>2. Target(j)'
        BY <1>1, <1>4, <1>5, <2>1, OwnsStable DEF Target, Grows
  <2>3. pc'[j] = "persist" => Owns(local[j].thread, local[j].agent)'
        BY <2>1, <2>2 DEF Target
  <2> QED
      BY <1>2, <1>4, <1>5, <2>1, <2>2, <2>3 DEF RecordKept, JobRecord
<1>6. CASE LoseAnswer(j)
  <2>1. pc[j] # "none" /\ pc'[j] \in {"queued", "failed"}
        BY <1>6 DEF LoseAnswer, Retry
  <2> QED
      BY <1>4, <1>6, <2>1, AwayRecord DEF RecordKept
<1> QED
    BY <1>3, <1>5, <1>6

LEMMA FindRecord ==
  ASSUME CoreTypeOK, CoreTypeOK', RecordInv, NEW j \in Jobs, FindThread(j)
  PROVE  RecordKept(j)
<1> USE DEF CoreTypeOK, QueueTypeOK, Goto, StepTo
<1>1. JobRecord(j) /\ Target(j) /\ pc[j] = "thread" /\ j \in SendJobs
      BY DEF RecordInv, JobRecord, FindThread, Running, Cleared
<1>2. UNCHANGED recordVars
      BY DEF FindThread, storeVars, agentVars, threadVars, recordVars
<1>3. Grows /\ Rows' /\ SentTo' /\ \A m \in outbound' : Filed(m)'
      BY <1>2, QuietRecord
<1>4. j \notin FollowupJobs /\ Key(j) = j /\ Key(j)' = j
      BY <1>1, JobAssumption DEF Key
<1>5. local'[j].agent = local[j].agent
      BY DEF FindThread, Local
<1>6. Target(j)'
      BY <1>1, <1>2, <1>4, <1>5 DEF Target, recordVars
<1>7. \E s \in sent' : s.key = Key(j)'
      BY <1>1, <1>2, <1>4 DEF JobRecord, recordVars
<1>8. CASE pc'[j] = "create"
      BY <1>1, <1>3, <1>4, <1>6, <1>7, <1>8 DEF RecordKept, JobRecord
<1>9. CASE pc'[j] # "create"
  <2>1. PICK t \in NewestOpen(local[j].agent) :
          pc'[j] = "persist" /\ local'[j].thread = t
        BY <1>9 DEF FindThread, Local
  <2>2. Owns(t, local[j].agent)
        BY <1>1, <2>1 DEF RecordInv, Rows, Owns, NewestOpen, OpenThreads, Target
  <2>3. Owns(local[j].thread, local[j].agent)'
        BY <1>2, <1>5, <2>1, <2>2 DEF Owns, recordVars
  <2> QED
      BY <1>1, <1>3, <1>4, <1>6, <1>7, <2>1, <2>3 DEF RecordKept, JobRecord
<1> QED
    BY <1>8, <1>9

\* A new thread is nobody's but its agent's, and no message is in it yet.
LEMMA NewThreadRecord ==
  ASSUME CoreTypeOK, CoreTypeOK', RecordInv, NEW a \in present, createThread(a),
         NEW t, t = nextThread,
         UNCHANGED <<present, everPresent, lastContactedAt, outbound, sent>>
  PROVE  /\ Grows /\ Rows' /\ SentTo' /\ \A m \in outbound' : Filed(m)'
         /\ t \in Threads /\ Owns(t, a)'
<1> USE DEF CoreTypeOK
<1>1. t = nextThread
      OBVIOUS
<1>2. /\ t \in Threads /\ nextThread' = t + 1
      /\ threads' = [threads EXCEPT ![t] =
                       [agent |-> a, status |-> "active", last |-> Never]]
      BY <1>1 DEF createThread
<1>3. /\ threads'[t].agent = a /\ threads'[t].status = "active"
      /\ \A u \in Threads : u # t => threads'[u] = threads[u]
      BY <1>2 DEF StoreTypeOK
<1>4. t \in Int /\ a \in Agents /\ a # NoAgent /\ a \in everPresent
      BY <1>1, AgentAssumption DEF StoreTypeOK
<1>5. \A m \in outbound : m.thread \in Threads /\ m.thread # t
      BY <1>1, <1>4 DEF RecordInv, Filed, StoreTypeOK, Outbound
<1>6. Grows
      BY <1>1, <1>2, <1>3, <1>4, <1>5 DEF Grows, StoreTypeOK
<1>7. Rows'
  <2>1. ASSUME NEW u \in Threads, u # t
        PROVE  /\ threads'[u].status = "absent" <=> threads'[u].agent = NoAgent
               /\ threads'[u].agent # NoAgent =>
                    u < nextThread' /\ threads'[u].agent \in everPresent'
               /\ threads'[u].status = "awaiting_reply" => SendOnRecord(u)'
        BY <1>1, <1>2, <1>3, <1>4, <2>1 DEF RecordInv, Rows, SendOnRecord
  <2>2. t < nextThread'
        BY <1>2, <1>4
  <2> QED
      BY <1>3, <1>4, <2>1, <2>2 DEF Rows
<1>8. SentTo'
      BY <1>6, SentToStable DEF RecordInv, SentTo
<1>9. \A m \in outbound' : Filed(m)'
      BY <1>6, FiledStable DEF RecordInv
<1>10. Owns(t, a)'
      BY <1>2, <1>3, <1>4 DEF Owns
<1> QED BY <1>1, <1>2, <1>6, <1>7, <1>8, <1>9, <1>10

LEMMA CreateRecord ==
  ASSUME CoreTypeOK, CoreTypeOK', RecordInv, NEW j \in Jobs, CreateThread(j)
  PROVE  RecordKept(j)
<1> USE DEF CoreTypeOK, QueueTypeOK, Goto, StepTo
<1>1. JobRecord(j) /\ Target(j) /\ pc[j] = "create" /\ j \in SendJobs
      BY DEF RecordInv, JobRecord, CreateThread, Running, Cleared
<1>2. j \notin FollowupJobs /\ Key(j) = j /\ Key(j)' = j
      BY <1>1, JobAssumption DEF Key
<1>3. CASE local[j].agent \notin present
  <2>1. UNCHANGED recordVars /\ pc[j] # "none" /\ pc'[j] \in {"queued", "failed"}
        BY <1>1, <1>3 DEF CreateThread, Retry, agentVars, recordVars
  <2> QED
      BY <2>1, QuietRecord, AwayRecord DEF RecordKept
<1>4. CASE local[j].agent \in present
  <2>0. PICK a, t : a = local[j].agent /\ t = nextThread
        OBVIOUS
  <2>1. /\ createThread(a) /\ a \in present
        /\ pc'[j] = "persist" /\ local'[j].thread = t /\ local'[j].agent = a
        /\ UNCHANGED <<present, everPresent, lastContactedAt, outbound, sent>>
        BY <1>4, <2>0 DEF CreateThread, agentVars, Local
  <2>2. /\ Grows /\ Rows' /\ SentTo' /\ \A m \in outbound' : Filed(m)'
        /\ Owns(t, a)'
        BY <2>0, <2>1, NewThreadRecord
  <2>3. Target(j)' /\ \E s \in sent' : s.key = Key(j)'
        BY <1>1, <1>2, <2>0, <2>1 DEF Target, JobRecord
  <2>4. Owns(local[j].thread, local[j].agent)'
        BY <2>1, <2>2 DEF Owns
  <2> QED
      BY <1>1, <1>2, <2>1, <2>2, <2>3, <2>4 DEF RecordKept, JobRecord
<1> QED
    BY <1>3, <1>4

\* The message goes into a thread of the agent the key's email went to.
LEMMA PersistRecord ==
  ASSUME CoreTypeOK, CoreTypeOK', RecordInv, NEW j \in Jobs, PersistMessage(j)
  PROVE  RecordKept(j)
<1> USE DEF CoreTypeOK, QueueTypeOK, Goto, StepTo
<1>1. /\ JobRecord(j) /\ Target(j) /\ pc[j] = "persist"
      /\ Owns(local[j].thread, local[j].agent)
      BY DEF RecordInv, JobRecord, PersistMessage, Running, Cleared
<1>2. CASE Retry(j) /\ UNCHANGED outbound
  <2>1. UNCHANGED recordVars /\ pc[j] # "none" /\ pc'[j] \in {"queued", "failed"}
        BY <1>1, <1>2 DEF PersistMessage, Retry, agentVars, recordVars
  <2> QED
      BY <2>1, QuietRecord, AwayRecord DEF RecordKept
<1>3. CASE ~ (Retry(j) /\ UNCHANGED outbound)
  <2>1. PICK msg : /\ msg = [key |-> Key(j), thread |-> local[j].thread, day |-> local[j].day]
                   /\ outbound' = outbound \cup {msg}
        BY <1>3 DEF PersistMessage
  <2>2. msg.key = Key(j) /\ msg.thread = local[j].thread
        BY <2>1
  <2>3. /\ ExistsThread(local[j].thread) /\ pc'[j] = "read" /\ local' = local
        /\ UNCHANGED <<present, everPresent, lastContactedAt, threads, nextThread, sent>>
        BY <1>3 DEF PersistMessage, agentVars
  <2>4. threads[msg.thread].agent = local[j].agent
        BY <1>1, <2>2, <2>3 DEF Owns, ExistsThread, RecordInv, Rows
  <2>5. PICK s \in sent : s.key = Key(j)
        BY <1>1 DEF JobRecord
  <2>6. s.agent = local[j].agent
    <3>1. CASE j \in SendJobs
          BY <1>1, <2>5, <3>1 DEF Key, Target, RecordInv, SentTo
    <3>2. CASE j \notin SendJobs
      <4>1. s.key \in FollowupJobs /\ s.key.thread = local[j].thread
            BY <1>1, <2>5, <3>2 DEF Key, Target, Local
      <4>2. threads[s.key.thread].agent \in {s.agent, NoAgent}
            BY <4>1 DEF RecordInv, SentTo, Owns
      <4>3. local[j].agent # NoAgent
            BY <1>1, AgentAssumption DEF Owns, StoreTypeOK
      <4> QED
          BY <2>2, <2>4, <4>1, <4>2, <4>3
    <3> QED BY <3>1, <3>2
  <2>7. Grows
        BY <2>1, <2>3 DEF Grows, StoreTypeOK
  <2>8. Rows'
        BY <2>1, <2>3 DEF RecordInv, Rows, SendOnRecord
  <2>9. SentTo'
        BY <2>3, <2>7, SentToStable DEF RecordInv, SentTo
  <2>10. \A m \in outbound' : Filed(m)'
    <3>1. Filed(msg)'
          BY <1>1, <2>2, <2>3, <2>4, <2>5, <2>6 DEF Filed, Owns
    <3> QED BY <2>1, <2>7, <3>1, FiledStable DEF RecordInv
  <2>11. Target(j)' /\ Owns(local[j].thread, local[j].agent)'
        BY <1>1, <2>3 DEF Target, Owns
  <2>12. j \in FollowupJobs => Continues(j)'
        BY <1>1, <2>7, ContinuesStable DEF JobRecord
  <2>13. j \in SendJobs => \E m \in outbound' : m.key = j /\ m.thread = local'[j].thread
        BY <2>1, <2>2, <2>3 DEF Key
  <2> QED
      BY <2>3, <2>7, <2>8, <2>9, <2>10, <2>11, <2>12, <2>13 DEF RecordKept, JobRecord
<1> QED
    BY <1>2, <1>3

LEMMA ReadRecord ==
  ASSUME CoreTypeOK, CoreTypeOK', RecordInv, NEW j \in Jobs, ReadStatus(j)
  PROVE  RecordKept(j)
<1> USE DEF CoreTypeOK, QueueTypeOK, Goto, StepTo
<1>1. JobRecord(j) /\ pc[j] = "read"
      BY DEF RecordInv, ReadStatus
<1>2. UNCHANGED recordVars
      BY DEF ReadStatus, storeVars, agentVars, threadVars, recordVars
<1>3. Grows /\ Rows' /\ SentTo' /\ \A m \in outbound' : Filed(m)'
      BY <1>2, QuietRecord
<1>4. CASE Retry(j)
  <2>1. pc[j] # "none" /\ pc'[j] \in {"queued", "failed"}
        BY <1>1, <1>4 DEF Retry
  <2> QED
      BY <1>3, <2>1, AwayRecord DEF RecordKept
<1>5. CASE ~ Retry(j)
  <2>1. /\ pc'[j] = "write" /\ local'[j].status = threads[local[j].thread].status
        /\ local'[j].agent = local[j].agent /\ local'[j].thread = local[j].thread
        BY <1>5 DEF ReadStatus, Local
  <2>2. Target(j)' /\ Owns(local[j].thread, local[j].agent)'
        BY <1>1, <1>2, <2>1 DEF JobRecord, Target, Owns, recordVars, Running, Cleared
  <2>3. j \in FollowupJobs => Continues(j)'
        BY <1>1, <1>3, ContinuesStable DEF JobRecord
  <2>4. j \in SendJobs /\ ExistsThread(local[j].thread)' =>
          \E m \in outbound' : m.key = j /\ m.thread = local'[j].thread
        BY <1>1, <1>2, <2>1 DEF JobRecord, ExistsThread, recordVars
  <2>5. local'[j].status # "active" => threads'[local'[j].thread].status # "active"
        BY <1>2, <2>1 DEF recordVars
  <2> QED
      BY <1>3, <2>1, <2>2, <2>3, <2>4, <2>5 DEF RecordKept, JobRecord
<1> QED
    BY <1>4, <1>5

LEMMA WriteRecord ==
  ASSUME CoreTypeOK, CoreTypeOK', RecordInv, NEW j \in Jobs, WriteStatus(j)
  PROVE  RecordKept(j)
<1> USE DEF CoreTypeOK, QueueTypeOK, Goto, StepTo
<1>1. /\ JobRecord(j) /\ Target(j) /\ pc[j] = "write"
      /\ Owns(local[j].thread, local[j].agent)
      BY DEF RecordInv, JobRecord, WriteStatus, Running, Cleared
<1>2. CASE ~ ExistsThread(local[j].thread)
  <2>1. UNCHANGED recordVars /\ pc[j] # "none" /\ pc'[j] \in {"queued", "failed"}
        BY <1>1, <1>2 DEF WriteStatus, Retry, agentVars, recordVars
  <2> QED
      BY <2>1, QuietRecord, AwayRecord DEF RecordKept
<1>3. CASE ExistsThread(local[j].thread)
  <2>1. PICK t : t = local[j].thread
        OBVIOUS
  <2>2. t \in Threads /\ threads[t].status # "absent" /\ threads \in [Threads -> ThreadRow]
        BY <1>3, <2>1 DEF ExistsThread, StoreTypeOK
  <2>3. /\ \A u \in Threads : u # t => threads'[u] = threads[u]
        /\ threads'[t].agent = threads[t].agent
        /\ \/ /\ threads'[t].status = threads[t].status
              /\ local[j].status \in {"closed", "awaiting_reply"}
           \/ threads'[t].status \in {"closed", "awaiting_reply"}
    <3>1. PICK next : /\ next = advanceThreadStatus(local[j].status, "outbound_sent")
                      /\ threads' = [threads EXCEPT
                            ![t].status = IF next = local[j].status THEN @ ELSE next,
                            ![t].last = local[j].day]
          BY <1>3, <2>1 DEF WriteStatus
    <3>2. next \in {"closed", "awaiting_reply"}
          BY <3>1 DEF advanceThreadStatus
    <3>3. /\ threads'[t].agent = threads[t].agent
          /\ threads'[t].status =
               IF next = local[j].status THEN threads[t].status ELSE next
          BY <2>2, <3>1 DEF ThreadRow
    <3>4. \A u \in Threads : u # t => threads'[u] = threads[u]
          BY <2>2, <3>1
    <3> QED BY <3>2, <3>3, <3>4
  <2>4. /\ pc'[j] = "mark" /\ local' = local
        /\ UNCHANGED <<present, everPresent, lastContactedAt, nextThread, outbound, sent>>
        BY <1>3 DEF WriteStatus, agentVars
  <2>5. threads'[t].status \notin {"active", "absent"}
        BY <1>1, <2>1, <2>2, <2>3 DEF JobRecord
  <2>6. SendOnRecord(t)
    <3>1. CASE j \in SendJobs
          BY <1>1, <1>3, <2>1, <3>1 DEF JobRecord, SendOnRecord
    <3>2. CASE j \notin SendJobs
          BY <1>1, <1>3, <2>1, <3>2 DEF JobRecord, Target, Continues
    <3> QED BY <3>1, <3>2
  <2>14. \A u \in Threads :
          /\ threads'[u].agent = threads[u].agent
          /\ threads'[u].status = "absent" <=> threads[u].status = "absent"
          /\ threads[u].status # "active" => threads'[u].status # "active"
          /\ threads'[u].status = "awaiting_reply" =>
               u = t \/ threads[u].status = "awaiting_reply"
        BY <2>2, <2>3, <2>5
  <2>7. Grows
        BY <2>4, <2>14 DEF Grows, StoreTypeOK, Outbound
  <2>8. Rows'
        BY <2>4, <2>6, <2>14 DEF RecordInv, Rows, SendOnRecord
  <2>9. SentTo'
        BY <2>4, <2>7, SentToStable DEF RecordInv, SentTo
  <2>10. \A m \in outbound' : Filed(m)'
        BY <2>4, <2>7, FiledStable DEF RecordInv
  <2>11. Target(j)' /\ Owns(local[j].thread, local[j].agent)'
        BY <1>1, <2>4, <2>7, OwnsStable DEF Target
  <2>12. j \in FollowupJobs => Continues(j)'
        BY <1>1, <2>7, ContinuesStable DEF JobRecord
  <2>13. j \in SendJobs => \E m \in outbound' : m.key = j /\ m.thread = local'[j].thread
        BY <1>1, <1>3, <2>4 DEF JobRecord
  <2> QED
      BY <2>1, <2>4, <2>5, <2>7, <2>8, <2>9, <2>10, <2>11, <2>12, <2>13
      DEF RecordKept, JobRecord
<1> QED
    BY <1>2, <1>3

LEMMA MarkRecord ==
  ASSUME CoreTypeOK, CoreTypeOK', RecordInv, NEW j \in Jobs, MarkContacted(j)
  PROVE  RecordKept(j)
<1> USE DEF CoreTypeOK, QueueTypeOK, Goto, StepTo
<1>1. /\ JobRecord(j) /\ Target(j) /\ pc[j] = "mark"
      /\ Owns(local[j].thread, local[j].agent)
      BY DEF RecordInv, JobRecord, MarkContacted, Running, Cleared
<1>2. CASE local[j].agent \notin present
  <2>1. UNCHANGED recordVars /\ pc[j] # "none" /\ pc'[j] \in {"queued", "failed"}
        BY <1>1, <1>2 DEF MarkContacted, Retry, threadVars, recordVars
  <2> QED
      BY <2>1, QuietRecord, AwayRecord DEF RecordKept
<1>3. CASE local[j].agent \in present
  <2>1. /\ lastContactedAt' = [lastContactedAt EXCEPT ![local[j].agent] = local[j].day]
        /\ pc'[j] = "completed" /\ local[j].day # Never
        /\ UNCHANGED <<present, everPresent, threads, nextThread, outbound, sent>>
        BY <1>3 DEF MarkContacted, threadVars, Local
  <2>2. Grows
        BY <2>1 DEF Grows, StoreTypeOK
  <2>3. Rows'
        BY <2>1 DEF RecordInv, Rows, SendOnRecord
  <2>4. SentTo'
        BY <2>1, <2>2, SentToStable DEF RecordInv, SentTo
  <2>5. \A m \in outbound' : Filed(m)'
        BY <2>1, <2>2, FiledStable DEF RecordInv
  <2>6. j \in FollowupJobs => Continues(j)'
        BY <1>1, <2>2, ContinuesStable DEF JobRecord
  <2>7. ExistsThread(local[j].thread)
        BY <1>1, <1>3, AgentAssumption
        DEF Owns, ExistsThread, RecordInv, Rows, StoreTypeOK
  <2>8. j \in SendJobs =>
          \E m \in outbound : m.key = j /\ threads[m.thread].status # "active"
        BY <1>1, <2>7 DEF JobRecord
  <2>9. lastContactedAt'[local[j].agent] # Never
        BY <1>3, <2>1 DEF StoreTypeOK
  <2>10. j \in SendJobs => Complete(j)'
        BY <1>1, <2>1, <2>8, <2>9 DEF Complete, Target
  <2> QED
      BY <2>1, <2>2, <2>3, <2>4, <2>5, <2>6, <2>10
      DEF RecordKept, JobRecord, Running, Guarding, Cleared
<1> QED
    BY <1>2, <1>3
-----------------------------------------------------------------------------
LEMMA EnvironmentRecord ==
  ASSUME CoreTypeOK, CoreTypeOK', RecordInv, Environment
  PROVE  Grows /\ Rows' /\ SentTo' /\ \A m \in outbound' : Filed(m)'
<1> USE DEF CoreTypeOK
<1>1. ASSUME Grows, sent' = sent, outbound' \subseteq outbound
      PROVE  SentTo' /\ \A m \in outbound' : Filed(m)'
      BY <1>1, SentToStable, FiledStable DEF RecordInv, SentTo
<1>2. CASE UNCHANGED recordVars
      BY <1>2, QuietRecord
<1>6. CASE ScanStep
      BY <1>2, <1>6, ScanFrame DEF storeVars, agentVars, threadVars, recordVars
<1>7. ASSUME NEW r \in Replies, ReplyStep(r)
      PROVE  Grows /\ Rows' /\ SentTo' /\ \A m \in outbound' : Filed(m)'
  <2>1. UNCHANGED <<present, everPresent, lastContactedAt, outbound, sent>>
        BY <1>7, ReplyFrame DEF agentVars
  <2>2. CASE ReplyCreateThread(r)
        BY <2>1, <2>2, NewThreadRecord DEF ReplyCreateThread
  <2>3. CASE ReplyWrite(r)
    <3>1. PICK t : t = reply[r].thread
          OBVIOUS
    <3>2. PICK next : /\ next \in {"closed", "replied"}
                      /\ threads' = [threads EXCEPT
                           ![t].status = IF next = reply[r].status THEN @ ELSE next,
                           ![t].last = reply[r].day]
          BY <2>3, <3>1 DEF ReplyWrite, advanceThreadStatus
    <3>3. t \in Threads /\ threads[t].status # "absent" /\ threads \in [Threads -> ThreadRow]
          BY <2>3, <3>1 DEF ReplyWrite, ExistsThread, StoreTypeOK
    <3>4. /\ \A u \in Threads : u # t => threads'[u] = threads[u]
          /\ threads'[t].agent = threads[t].agent
          /\ threads'[t].status = threads[t].status \/ threads'[t].status \in {"closed", "replied"}
          BY <3>2, <3>3 DEF ThreadRow
    <3>5. \A u \in Threads :
            /\ threads'[u].agent = threads[u].agent
            /\ threads'[u].status = "absent" <=> threads[u].status = "absent"
            /\ threads[u].status # "active" => threads'[u].status # "active"
            /\ threads'[u].status = "awaiting_reply" => threads[u].status = "awaiting_reply"
          BY <3>3, <3>4
    <3>6. nextThread' = nextThread
          BY <2>3 DEF ReplyWrite
    <3>7. Grows
          BY <2>1, <3>5, <3>6 DEF Grows, StoreTypeOK, Outbound
    <3>8. Rows'
          BY <2>1, <3>5, <3>6 DEF RecordInv, Rows, SendOnRecord
    <3> QED BY <1>1, <2>1, <3>7, <3>8
  <2>4. CASE ~ ReplyCreateThread(r) /\ ~ ReplyWrite(r)
    <3>1. UNCHANGED <<threads, nextThread>>
          BY <1>7, <2>4 DEF ReplyStep, ReplyArrive, ReplyFindThread, ReplyRead, ReplyFail,
                            storeVars, threadVars
    <3> QED BY <1>2, <2>1, <3>1 DEF recordVars
  <2> QED BY <2>2, <2>3, <2>4
<1>3. ASSUME NEW e \in Emails, UnsubClose(e)
      PROVE  Grows /\ Rows' /\ SentTo' /\ \A m \in outbound' : Filed(m)'
  <2>1. UNCHANGED <<present, everPresent, lastContactedAt, nextThread, outbound, sent>>
        BY <1>3 DEF UnsubClose, agentVars
  <2>2. \A t \in Threads :
          \/ threads'[t] = threads[t]
          \/ /\ threads'[t].agent = threads[t].agent /\ threads'[t].status = "closed"
             /\ threads[t].status # "absent"
        BY <1>3 DEF UnsubClose, closeThreadsByAgent, ExistsThread, StoreTypeOK, ThreadRow
  <2>3. Grows
        BY <2>1, <2>2 DEF Grows, StoreTypeOK, Outbound
  <2>4. Rows'
        BY <2>1, <2>2 DEF RecordInv, Rows, SendOnRecord
  <2> QED
      BY <1>1, <2>1, <2>3, <2>4
<1>4. ASSUME NEW a \in Agents, Erase(a)
      PROVE  Grows /\ Rows' /\ SentTo' /\ \A m \in outbound' : Filed(m)'
  <2>1. /\ present' = present \ {a}
        /\ outbound' = {m \in outbound : threads[m.thread].agent # a}
        /\ UNCHANGED <<everPresent, lastContactedAt, nextThread, sent>>
        BY <1>4 DEF Erase, deleteAgent
  <2>2. \A t \in Threads :
          /\ threads[t].agent # a => threads'[t] = threads[t]
          /\ threads[t].agent = a =>
               threads'[t].agent = NoAgent /\ threads'[t].status = "absent"
        BY <1>4 DEF Erase, deleteAgent, AbsentThread
  <2>3. \A t \in Threads : threads[t].agent = a => threads[t].status # "absent"
        BY AgentAssumption DEF RecordInv, Rows
  <2>4. Grows
        BY <2>1, <2>2, <2>3 DEF Grows, StoreTypeOK, Outbound
  <2>5. Rows'
        BY <2>1, <2>2 DEF RecordInv, Rows, SendOnRecord
  <2> QED
      BY <1>1, <2>1, <2>4, <2>5
<1>5. ASSUME NEW a \in Agents, Discover(a)
      PROVE  Grows /\ Rows' /\ SentTo' /\ \A m \in outbound' : Filed(m)'
  <2>1. /\ a \notin everPresent
        /\ present' = present \cup {a} /\ everPresent' = everPresent \cup {a}
        /\ UNCHANGED <<lastContactedAt, threads, nextThread, outbound, sent>>
        BY <1>5 DEF Discover, threadVars
  <2>2. Grows
        BY <2>1 DEF Grows, StoreTypeOK
  <2>3. Rows'
        BY <2>1 DEF RecordInv, Rows, SendOnRecord
  <2> QED
      BY <1>1, <2>1, <2>2, <2>3
<1> QED
    BY <1>2, <1>3, <1>4, <1>5, <1>6, <1>7
    DEF Environment, UnsubSuppress, UnsubMark, UnsubFail, SuppressBounced, RecordEvent,
        ToggleKillSwitch, RecalcRead, RecalcWrite, NextDay, Verify, ScanStep, storeVars,
        agentVars, threadVars, recordVars

LEMMA InitRecord == Init => RecordInv
<1> SUFFICES ASSUME Init PROVE RecordInv
    OBVIOUS
<1>1. Rows /\ SentTo /\ outbound = {}
      BY DEF Init, StoreInit, Rows, SentTo, AbsentThread
<1>2. \A j \in Jobs : JobRecord(j)
      BY DEF Init, WorkerInit, JobRecord, Running, Guarding, Cleared
<1> QED
    BY <1>1, <1>2 DEF Init, RecordInv

\* What the scan lists awaits a reply at that moment; nothing else adds to the list.
LEMMA DueOrigin ==
  ASSUME CoreTypeOK, [Next]_vars, NEW f \in due', f \notin due
  PROVE  threads[f.thread].status = "awaiting_reply"
<1>1. CASE ScanStep
      BY <1>1 DEF ScanStep, ScanFollowups, ScanFail, SkipDue
<1>2. ASSUME NEW j \in Jobs, JobAction(j)
      PROVE  due' \subseteq due
  <2>1. CASE QueueStep(j)
        BY <2>1 DEF QueueStep, Enqueue, EnqueueDue, Start, Fault, TransientError, Crash, envVars
  <2>2. CASE UNCHANGED envVars
        BY <2>2 DEF envVars
  <2>3. CASE DispatchStep(j)
        BY <2>2, <2>3 DEF DispatchStep, Draft, Dispatch, LoseAnswer, FindThread, CreateThread,
                    PersistMessage, ReadStatus, WriteStatus, MarkContacted, StepTo
  <2> QED BY <1>2, <2>1, <2>2, <2>3 DEF JobAction
<1>3. CASE Environment /\ ~ ScanStep
      BY <1>3, ReplyFrame
      DEF Environment, ScanStep, UnsubSuppress, UnsubMark, UnsubClose, UnsubFail,
          SuppressBounced, RecordEvent, ToggleKillSwitch, RecalcRead, RecalcWrite, NextDay,
          Erase, Discover, Verify, envVars
<1>4. CASE UNCHANGED vars
      BY <1>4 DEF vars, envVars
<1> QED
    BY <1>1, <1>2, <1>3, <1>4, NextByJob

LEMMA DueContinues ==
  ASSUME CoreTypeOK, CoreTypeOK', RecordInv, Grows, [Next]_vars, NEW f \in due'
  PROVE  Continues(f)'
<1>1. f \in FollowupJobs /\ f.thread \in Threads
      BY DEF CoreTypeOK, EnvTypeOK
<1>2. Continues(f)
  <2>1. CASE f \in due
        BY <2>1 DEF RecordInv
  <2>2. CASE f \notin due
        BY <1>1, <2>2, DueOrigin DEF RecordInv, Rows, Continues
  <2> QED BY <2>1, <2>2
<1> QED BY <1>1, <1>2, ContinuesStable

LEMMA NextRecord ==
  ASSUME TypeInv, TypeInv', RecordInv, [Next]_vars
  PROVE  RecordInv'
<1> USE DEF TypeInv
<1>1. CASE Next
  <2>1. ASSUME NEW j \in Jobs, JobAction(j)
        PROVE  RecordInv'
    <3>1. RecordKept(j)
          BY <2>1, QueueRecord, GuardRecord, SendRecord, FindRecord, CreateRecord,
             PersistRecord, ReadRecord, WriteRecord, MarkRecord DEF JobAction, DispatchStep
    <3>2. ASSUME NEW i \in Jobs, i # j PROVE JobRecord(i)'
          BY <2>1, <3>1, <3>2, JobFrame, JobRecordStable DEF RecordKept, RecordInv
    <3>3. ASSUME NEW f \in due' PROVE Continues(f)'
          BY <3>1, DueContinues DEF RecordKept
    <3> QED
        BY <3>1, <3>2, <3>3 DEF RecordKept, RecordInv
  <2>2. CASE Environment
    <3>1. Grows /\ Rows' /\ SentTo' /\ \A m \in outbound' : Filed(m)'
          BY <2>2, EnvironmentRecord
    <3>2. ASSUME NEW i \in Jobs PROVE JobRecord(i)'
          BY <2>2, <3>1, EnvironmentKeepsQueue, JobRecordStable DEF queueVars, RecordInv
    <3>3. ASSUME NEW f \in due' PROVE Continues(f)'
          BY <3>1, DueContinues
    <3> QED
        BY <3>1, <3>2, <3>3 DEF RecordInv
  <2> QED BY <1>1, <2>1, <2>2, NextByJob
<1>2. CASE UNCHANGED vars
  <2>1. UNCHANGED recordVars /\ UNCHANGED <<pc, local>>
        BY <1>2 DEF vars, storeVars, agentVars, threadVars, recordVars, workerVars, queueVars
  <2>2. Grows /\ Rows' /\ SentTo' /\ \A m \in outbound' : Filed(m)'
        BY <2>1, QuietRecord
  <2>3. ASSUME NEW i \in Jobs PROVE JobRecord(i)'
        BY <2>1, <2>2, JobRecordStable DEF RecordInv
  <2>4. ASSUME NEW f \in due' PROVE Continues(f)'
        BY <2>2, DueContinues
  <2> QED
      BY <2>2, <2>3, <2>4 DEF RecordInv
<1> QED BY <1>1, <1>2

LEMMA NextGrows ==
  ASSUME TypeInv, TypeInv', RecordInv, [Next]_vars
  PROVE  Grows
<1> USE DEF TypeInv
<1>1. ASSUME NEW j \in Jobs, JobAction(j)
      PROVE  Grows
      BY <1>1, QueueRecord, GuardRecord, SendRecord, FindRecord, CreateRecord,
         PersistRecord, ReadRecord, WriteRecord, MarkRecord
      DEF JobAction, DispatchStep, RecordKept
<1>2. CASE Environment
      BY <1>2, EnvironmentRecord
<1>3. CASE UNCHANGED vars
      BY <1>3, QuietRecord DEF vars, storeVars, agentVars, threadVars, recordVars
<1> QED
    BY <1>1, <1>2, <1>3, NextByJob

THEOREM RecordInvariant == Spec => []RecordInv
BY InitRecord, NextRecord, TypeInvariant, PTL DEF Spec

\* A stored outbound message was really emailed, under its own key, to the agent
\* its thread belongs to.
THEOREM FilingSound == Spec => []FiledUnderRecipient
<1>1. RecordInv => FiledUnderRecipient
      BY DEF RecordInv, Filed, FiledUnderRecipient
<1> QED
    BY <1>1, RecordInvariant, PTL

\* A send reported complete left the message, a thread that moved on and the
\* contact date, unless its agent has been erased since.
THEOREM CompletionSound == Spec => []CompletedIsRecorded
<1>1. RecordInv => CompletedIsRecorded
      BY DEF RecordInv, JobRecord, Complete, CompletedIsRecorded
<1> QED
    BY <1>1, RecordInvariant, PTL

\* Follow-ups go only into conversations in which a first email is on record.
THEOREM FollowupSound == Spec => []FollowupContinuesThread
<1>1. RecordInv => FollowupContinuesThread
  <2> SUFFICES ASSUME RecordInv, NEW f \in FollowupJobs, pc[f] # "none", ExistsThread(f.thread)
               PROVE  \E m \in outbound : m.thread = f.thread /\ m.key # f
      BY DEF FollowupContinuesThread
  <2>1. SendOnRecord(f.thread)
        BY DEF RecordInv, JobRecord, Continues
  <2> QED
      BY <2>1, JobAssumption DEF SendOnRecord
<1> QED
    BY <1>1, RecordInvariant, PTL
-----------------------------------------------------------------------------
(* The breaker.  Gate 6 counts sends in one statement and events in the next    *)
(* two.  The send count it remembers is the one of the state in which it was    *)
(* taken; if the rate stood over its limit then, it still does when the events  *)
(* are counted, because events only accumulate while no agent is erased.        *)

Over(type, j, minSample, permille) ==
  Tripped(type, local[j].sends, local[j].day, minSample, permille)

RateOut(j) ==
  /\ pc[j] = "bounces" /\ "bounceRate" \in bars[j] =>
       Over("bounced", j, BounceMinSample, BouncePermille)
  /\ pc[j] \in {"bounces", "complaints"} /\ "complaintRate" \in bars[j] =>
       Over("complained", j, ComplaintMinSample, ComplaintPermille)
  /\ pc[j] \in {"complaints", "warmup", "token"} \cup Cleared => "bounceRate" \notin bars[j]
  /\ pc[j] \in {"warmup", "token"} \cup Cleared => "complaintRate" \notin bars[j]
RateInv == IsFiniteSet(events) /\ \A j \in Jobs : RateOut(j)

LEMMA EventsGrow ==
  ASSUME Erasable = {}, CoreTypeOK, IsFiniteSet(events), [Next]_vars
  PROVE  events \subseteq events' /\ IsFiniteSet(events)'
<1>1. CASE UNCHANGED events
      BY <1>1
<1>2. ASSUME NEW s \in sent, NEW type \in {"bounced", "complained"}, NEW hard \in BOOLEAN,
             NEW id \in EventIds, RecordEvent(s, type, hard, id)
      PROVE  events \subseteq events' /\ IsFiniteSet(events)'
      BY <1>2, FS_AddElement DEF RecordEvent
<1>3. CASE UNCHANGED vars
      BY <1>1, <1>3 DEF vars, storeVars
<1>4. ASSUME NEW j \in Jobs, JobAction(j)
      PROVE  UNCHANGED events
  <2>1. CASE QueueStep(j)
        BY <2>1 DEF QueueStep, Enqueue, EnqueueDue, Start, Fault, TransientError, Crash, storeVars
  <2>2. CASE GuardStep(j)
        BY <2>2 DEF GuardStep, Fetch, Load, CheckSuppression, CheckCooldown, CountSends,
                    CheckBounces, CheckComplaints, CheckKillSwitch, ConsumeToken, storeVars
  <2>3. CASE DispatchStep(j)
        BY <2>3 DEF DispatchStep, Draft, Dispatch, LoseAnswer, FindThread, CreateThread,
                    PersistMessage, ReadStatus, WriteStatus, MarkContacted, storeVars
  <2> QED BY <1>4, <2>1, <2>2, <2>3 DEF JobAction
<1>5. CASE Environment
  <2>1. \A a \in Agents : ~ Erase(a)
        BY DEF Erase
  <2> QED
      BY <1>1, <1>2, <1>5, <2>1, ScanFrame, ReplyFrame
      DEF Environment, UnsubSuppress, UnsubMark, UnsubClose, UnsubFail, SuppressBounced,
          ToggleKillSwitch, RecalcRead, RecalcWrite, NextDay, Discover, Verify, ScanStep,
          storeVars
<1> QED
    BY <1>1, <1>3, <1>4, <1>5, NextByJob

LEMMA EventCountGrows ==
  ASSUME IsFiniteSet(events), IsFiniteSet(events'), events \subseteq events',
         NEW type, NEW since
  PROVE  LET n == Cardinality({e \in events : e.type = type /\ e.day >= since})
             m == Cardinality({e \in events' : e.type = type /\ e.day >= since})
         IN  n \in Nat /\ m \in Nat /\ n <= m
<1> DEFINE S == {e \in events : e.type = type /\ e.day >= since}
           T == {e \in events' : e.type = type /\ e.day >= since}
<1>1. IsFiniteSet(T) /\ S \subseteq T
      BY FS_Subset
<1> QED
    BY <1>1, FS_Subset, FS_CardinalityType

\* What an attempt counts against a send count it has kept can only rise.
LEMMA OverStays ==
  ASSUME CoreTypeOK, CoreTypeOK', IsFiniteSet(events), IsFiniteSet(events'),
         events \subseteq events',
         NEW j \in Jobs, local'[j].sends = local[j].sends, local'[j].day = local[j].day,
         NEW type, NEW minSample \in Nat, NEW permille \in Nat,
         Over(type, j, minSample, permille)
  PROVE  Over(type, j, minSample, permille)'
<1> DEFINE since == local[j].day - BreakerDays
           n == Cardinality({e \in events : e.type = type /\ e.day >= since})
           m == Cardinality({e \in events' : e.type = type /\ e.day >= since})
           limit == permille * local[j].sends
<1>1. n \in Nat /\ m \in Nat /\ n <= m
      BY EventCountGrows
<1>2. local[j].sends \in Nat /\ limit \in Nat
      BY DEF CoreTypeOK, QueueTypeOK, Local
<1>3. local[j].sends >= minSample /\ n * 1000 > limit
      BY DEF Over, Tripped, countByTypeSince
<1> HIDE DEF n, m, limit
<1>4. m * 1000 > limit
      BY <1>1, <1>2, <1>3
<1> QED
    BY <1>3, <1>4 DEF Over, Tripped, countByTypeSince, m, limit

\* An attempt that stays where it is keeps what it knows of the rates.
LEMMA RateStable ==
  ASSUME CoreTypeOK, CoreTypeOK', IsFiniteSet(events), IsFiniteSet(events'),
         events \subseteq events', NEW j \in Jobs, RateOut(j),
         pc'[j] = pc[j], local'[j] = local[j], bars'[j] \subseteq bars[j]
  PROVE  RateOut(j)'
<1>1. Over("bounced", j, BounceMinSample, BouncePermille)
        => Over("bounced", j, BounceMinSample, BouncePermille)'
      BY OverStays, GuardAssumption
<1>2. Over("complained", j, ComplaintMinSample, ComplaintPermille)
        => Over("complained", j, ComplaintMinSample, ComplaintPermille)'
      BY OverStays, GuardAssumption
<1> QED
    BY <1>1, <1>2 DEF RateOut

LEMMA JobRate ==
  ASSUME CoreTypeOK, CoreTypeOK', IsFiniteSet(events), IsFiniteSet(events'),
         events \subseteq events', RecordBars, NEW j \in Jobs, JobAction(j), RateOut(j)
  PROVE  RateOut(j)'
<1> USE DEF CoreTypeOK, QueueTypeOK, Goto
<1>1. ASSUME pc'[j] \notin {"bounces", "complaints", "warmup", "token"} \cup Cleared
      PROVE  RateOut(j)'
      BY <1>1 DEF RateOut
<1>2. CASE QueueStep(j) \/ Fetch(j) \/ Load(j) \/ CheckSuppression(j) \/ CheckCooldown(j)
  <2>1. pc'[j] \notin {"bounces", "complaints", "warmup", "token"} \cup Cleared
        BY <1>2 DEF QueueStep, Enqueue, EnqueueDue, Start, Fault, TransientError, Crash, Retry,
                    Fetch, Load, CheckSuppression, CheckCooldown, Pass, Drop, Cleared
  <2> QED BY <1>1, <2>1
<1>3. CASE CountSends(j)
  <2>1. /\ pc[j] = "sends" /\ pc'[j] = "bounces" /\ UNCHANGED <<outbound, events, day>>
        /\ local'[j].sends = countOutboundSince(day - BreakerDays) /\ local'[j].day = day
        BY <1>3 DEF CountSends, Pass, Local, storeVars, threadVars
  <2>2. bars'[j] \subseteq BarsNow(j)'
        BY <2>1 DEF RecordBars, Running, Guarding
  <2>3. local'[j].sends = countOutboundSince(day - BreakerDays)' /\ local'[j].day = day'
        BY <2>1 DEF countOutboundSince
  <2>4. "bounceRate" \in bars'[j] => Over("bounced", j, BounceMinSample, BouncePermille)'
        BY <2>2, <2>3 DEF BarsNow, Over
  <2>5. "complaintRate" \in bars'[j] =>
          Over("complained", j, ComplaintMinSample, ComplaintPermille)'
        BY <2>2, <2>3 DEF BarsNow, Over
  <2> QED
      BY <2>1, <2>4, <2>5 DEF RateOut, Cleared
<1>4. CASE CheckBounces(j) \/ CheckComplaints(j)
  <2>1. CASE Drop(j)
        BY <1>1, <2>1 DEF Drop, Cleared
  <2>2. CASE ~ Drop(j)
    <3>1. local' = local /\ bars'[j] \subseteq bars[j]
          BY <1>4, <2>2, BarsOnlyShrink DEF CheckBounces, CheckComplaints, Running, Guarding
    <3>2. Over("complained", j, ComplaintMinSample, ComplaintPermille)
            => Over("complained", j, ComplaintMinSample, ComplaintPermille)'
          BY <3>1, OverStays, GuardAssumption
    <3>3. CASE CheckBounces(j)
      <4>1. /\ pc[j] = "bounces" /\ pc'[j] = "complaints"
            /\ ~ Over("bounced", j, BounceMinSample, BouncePermille)
            BY <2>2, <3>3 DEF CheckBounces, Pass, Over
      <4> QED
          BY <3>1, <3>2, <4>1 DEF RateOut, Cleared
    <3>4. CASE CheckComplaints(j)
      <4>1. /\ pc[j] = "complaints" /\ pc'[j] = "warmup"
            /\ ~ Over("complained", j, ComplaintMinSample, ComplaintPermille)
            BY <2>2, <3>4 DEF CheckComplaints, Pass, Over
      <4> QED
          BY <3>1, <4>1 DEF RateOut, Cleared
    <3> QED BY <1>4, <3>3, <3>4
  <2> QED BY <2>1, <2>2
<1>5. ASSUME pc[j] \in {"warmup", "token"} \cup Cleared
      PROVE  RateOut(j)'
  <2>1. pc'[j] \in {"token"} \cup Cleared \cup Idle
    <3> USE DEF Retry, StepTo, Idle, Cleared
    <3>1. CASE QueueStep(j)
          BY <1>5, <3>1 DEF QueueStep, Enqueue, EnqueueDue, Start, Fault, TransientError, Crash
    <3>2. CASE GuardStep(j)
          BY <1>5, <3>2 DEF GuardStep, Fetch, Load, CheckSuppression, CheckCooldown, CountSends,
                    CheckBounces, CheckComplaints, CheckKillSwitch, ConsumeToken, Pass, Drop
    <3>3. CASE Draft(j) \/ Dispatch(j) \/ LoseAnswer(j)
          BY <3>3 DEF Draft, Dispatch, LoseAnswer
    <3>4. CASE FindThread(j) \/ CreateThread(j)
          BY <3>4 DEF FindThread, CreateThread
    <3>5. CASE PersistMessage(j) \/ ReadStatus(j)
          BY <3>5 DEF PersistMessage, ReadStatus
    <3>6. CASE WriteStatus(j) \/ MarkContacted(j)
          BY <3>6 DEF WriteStatus, MarkContacted
    <3> QED
        BY <3>1, <3>2, <3>3, <3>4, <3>5, <3>6 DEF JobAction, DispatchStep
  <2>2. bars'[j] \subseteq bars[j]
        BY <1>5, BarsOnlyShrink DEF Running, Guarding
  <2> QED
      BY <1>5, <2>1, <2>2 DEF RateOut, Idle, Cleared
<1>6. CASE CheckKillSwitch(j) \/ ConsumeToken(j) \/ DispatchStep(j)
  <2>1. pc[j] \in {"warmup", "token"} \cup Cleared
        BY <1>6 DEF CheckKillSwitch, ConsumeToken, DispatchStep, Draft, Dispatch, LoseAnswer,
                    FindThread, CreateThread, PersistMessage, ReadStatus, WriteStatus,
                    MarkContacted, Cleared
  <2> QED BY <1>5, <2>1
<1> QED
    BY <1>2, <1>3, <1>4, <1>6 DEF JobAction, GuardStep

LEMMA NextRate ==
  ASSUME Erasable = {}, TypeInv, TypeInv', RateInv, [Next]_vars
  PROVE  RateInv'
<1> USE DEF TypeInv
<1>1. events \subseteq events' /\ IsFiniteSet(events) /\ IsFiniteSet(events)'
      BY EventsGrow DEF RateInv
<1>2. CASE Next
  <2>0. RecordBars
        BY <1>2, NextByJob
  <2>1. ASSUME NEW j \in Jobs, JobAction(j)
        PROVE  RateInv'
    <3>1. RateOut(j)'
          BY <1>1, <2>0, <2>1, JobRate DEF RateInv
    <3>2. ASSUME NEW i \in Jobs, i # j PROVE RateOut(i)'
      <4>1. pc'[i] = pc[i] /\ local'[i] = local[i] /\ RateOut(i)
            BY <2>1, <3>2, JobFrame DEF RateInv
      <4>2. bars'[i] \subseteq bars[i]
            BY <2>0, <4>1, BarsOnlyShrink
      <4> QED BY <1>1, <4>1, <4>2, RateStable
    <3> QED BY <1>1, <3>1, <3>2 DEF RateInv
  <2>2. CASE Environment
    <3>1. ASSUME NEW i \in Jobs PROVE RateOut(i)'
      <4>1. pc'[i] = pc[i] /\ local'[i] = local[i] /\ RateOut(i)
            BY <2>2, EnvironmentKeepsQueue DEF queueVars, RateInv
      <4>2. bars'[i] \subseteq bars[i]
            BY <2>0, <4>1, BarsOnlyShrink
      <4> QED BY <1>1, <4>1, <4>2, RateStable
    <3> QED BY <1>1, <3>1 DEF RateInv
  <2> QED BY <1>2, <2>1, <2>2, NextByJob
<1>3. CASE UNCHANGED vars
  <2>1. UNCHANGED <<pc, local, bars, events>>
        BY <1>3 DEF vars, storeVars, workerVars, queueVars
  <2> QED
      BY <1>1, <2>1, RateStable DEF RateInv
<1> QED BY <1>2, <1>3

\* No attempt gets past the guard while the bounce or the complaint rate has stood
\* over its limit ever since the attempt began, whatever moved the two counts
\* between gate 6's three statements; erasing an agent, which takes its messages
\* and its events out of both, is what the hypothesis leaves out.
THEOREM BreakerSound ==
  ASSUME Erasable = {}
  PROVE  Spec => []BreakerHolds
<1>1. Init => RateInv
      BY FS_EmptySet DEF Init, StoreInit, WorkerInit, RateInv, RateOut, Cleared
<1>2. RateInv => BreakerHolds
      BY DEF RateInv, RateOut, BreakerHolds, RateBars, Cleared
<1>3. TypeInv /\ TypeInv' /\ RateInv /\ [Next]_vars => RateInv'
      BY NextRate
<1> QED
    BY <1>1, <1>2, <1>3, TypeInvariant, PTL DEF Spec
-----------------------------------------------------------------------------
(* Emails against tokens.  Each email, and each attempt that has passed gate 8  *)
(* and not sent yet, is matched with a token of its own, of its day or before.  *)

Holders == {j \in Jobs : pc[j] \in {"draft", "dispatch"}}
Bought == {u \in Days \X Nat : 1 <= u[2] /\ u[2] <= tokens[u[1]]}

\* f pays for the emails, g holds for the attempts.
Pays(f, g) ==
  /\ f \in [sent -> Bought] /\ g \in [Holders -> Bought]
  /\ \A r, s \in sent : f[r] = f[s] => r = s
  /\ \A i, j \in Holders : g[i] = g[j] => i = j
  /\ \A s \in sent, j \in Holders : f[s] # g[j]
  /\ \A s \in sent : f[s][1] <= s.day
  /\ \A j \in Holders : g[j][1] <= day
PaidInv == \E f, g : Pays(f, g)

\* A step that neither sends nor consumes leaves the matching to those who remain.
LEMMA PaysOnwards ==
  ASSUME CoreTypeOK, CoreTypeOK', PaidInv, UNCHANGED <<sent, tokens>>, day <= day',
         Holders' \subseteq Holders
  PROVE  PaidInv'
<1>1. PICK f, g : Pays(f, g)
      BY DEF PaidInv
<1>2. PICK h : h = [j \in Holders' |-> g[j]]
      OBVIOUS
<1>3. Bought' = Bought
      BY DEF Bought
<1>4. day \in Int /\ day' \in Int /\ \A u \in Bought : u[1] \in Int
      BY BoundAssumption DEF CoreTypeOK, StoreTypeOK, Bought
<1>5. h \in [Holders' -> Bought] /\ \A j \in Holders' : h[j] = g[j] /\ j \in Holders
      BY <1>1, <1>2 DEF Pays
<1>6. \A j \in Holders' : h[j][1] <= day'
      BY <1>1, <1>4, <1>5 DEF Pays
<1>7. Pays(f, h)'
      BY <1>1, <1>3, <1>5, <1>6 DEF Pays
<1> QED BY <1>7 DEF PaidInv

LEMMA ConsumePaid ==
  ASSUME CoreTypeOK, CoreTypeOK', PaidInv, NEW j \in Jobs, ConsumeToken(j),
         tokens[day] < local[j].cap
  PROVE  PaidInv'
<1> USE DEF CoreTypeOK, StoreTypeOK, QueueTypeOK
<1>1. PICK f, g : Pays(f, g)
      BY DEF PaidInv
<1>2. /\ tokens' = [tokens EXCEPT ![day] = tokens[day] + 1] /\ UNCHANGED <<sent, day>>
      /\ pc' = [pc EXCEPT ![j] = "draft"] /\ pc[j] = "token"
      BY DEF ConsumeToken, Goto
<1>3. tokens[day] \in Nat /\ day \in Days
      OBVIOUS
<1>4. PICK u : u = <<day, tokens[day] + 1>>
      OBVIOUS
<1>5. u \in Bought' /\ u \notin Bought /\ u[1] = day
      BY <1>2, <1>3, <1>4 DEF Bought
<1>6. Bought \subseteq Bought'
      BY <1>2, <1>3 DEF Bought
<1>7. Holders' = Holders \cup {j} /\ j \notin Holders
      BY <1>2 DEF Holders
<1>8. PICK h : h = [i \in Holders' |-> IF i = j THEN u ELSE g[i]]
      OBVIOUS
<1>9. /\ h[j] = u /\ \A i \in Holders : h[i] = g[i] /\ g[i] \in Bought
      /\ h \in [Holders' -> Bought'] /\ f \in [sent -> Bought'] /\ f \in [sent -> Bought]
      BY <1>1, <1>5, <1>6, <1>7, <1>8 DEF Pays
<1>10. day <= day
      BY <1>3, BoundAssumption
<1>11. Pays(f, h)'
      BY <1>1, <1>2, <1>5, <1>7, <1>9, <1>10 DEF Pays
<1> QED BY <1>11 DEF PaidInv

\* The token passes from the attempt to the email, unless the key was used before.
LEMMA AcceptPaid ==
  ASSUME CoreTypeOK, CoreTypeOK', PaidInv, NEW j \in Jobs, j \in Holders, Accept(j),
         UNCHANGED <<tokens, day>>, Holders' = Holders \ {j}
  PROVE  PaidInv'
<1> USE DEF CoreTypeOK, StoreTypeOK
<1>0. day \in Nat /\ day <= day'
      BY BoundAssumption
<1>1. CASE UNCHANGED sent
      BY <1>0, <1>1, PaysOnwards
<1>2. CASE ~ UNCHANGED sent
  <2>1. PICK f, g : Pays(f, g)
        BY DEF PaidInv
  <2>2. PICK s : /\ s = [key |-> Key(j), agent |-> local[j].agent, day |-> day]
                 /\ sent' = sent \cup {s}
        BY <1>2 DEF Accept
  <2>3. s \notin sent /\ s.day = day
        BY <1>2, <2>2 DEF Accept
  <2>4. PICK e : e = [r \in sent' |-> IF r = s THEN g[j] ELSE f[r]]
        OBVIOUS
  <2>5. PICK h : h = [i \in Holders' |-> g[i]]
        OBVIOUS
  <2>6. Bought' = Bought
        BY DEF Bought
  <2>7. /\ e \in [sent' -> Bought] /\ h \in [Holders' -> Bought] /\ e[s] = g[j]
        /\ \A r \in sent : e[r] = f[r]
        /\ \A i \in Holders' : h[i] = g[i] /\ i \in Holders /\ i # j
        BY <2>1, <2>2, <2>3, <2>4, <2>5 DEF Pays
  <2>8. Pays(e, h)'
        BY <2>1, <2>2, <2>3, <2>6, <2>7 DEF Pays
  <2> QED BY <2>8 DEF PaidInv
<1> QED BY <1>1, <1>2

LEMMA JobPaid ==
  ASSUME CoreTypeOK, CoreTypeOK', PaidInv, NEW j \in Jobs, JobAction(j)
  PROVE  PaidInv'
<1>0. day \in Nat /\ \A i \in Jobs : i # j => pc'[i] = pc[i]
  <2>1. \A i \in Jobs : i # j => pc'[i] = pc[i]
        BY JobFrame
  <2> QED BY <2>1, BoundAssumption DEF CoreTypeOK, StoreTypeOK
<1> USE DEF CoreTypeOK, QueueTypeOK, Goto
<1>1. ASSUME UNCHANGED <<sent, tokens, day>>,
             pc'[j] \in {"draft", "dispatch"} => pc[j] \in {"draft", "dispatch"}
      PROVE  PaidInv'
  <2>1. Holders' \subseteq Holders
        BY <1>0, <1>1 DEF Holders
  <2> QED BY <1>0, <1>1, <2>1, PaysOnwards
<1>2. CASE QueueStep(j)
      BY <1>1, <1>2 DEF QueueStep, Enqueue, EnqueueDue, Start, Fault, TransientError, Crash, Retry,
                        storeVars
<1>3. CASE GuardStep(j)
  <2> USE DEF Drop, Retry, Pass, storeVars
  <2>1. CASE Fetch(j) \/ Load(j) \/ CheckSuppression(j) \/ CheckCooldown(j) \/ CountSends(j)
        BY <1>1, <2>1 DEF Fetch, Load, CheckSuppression, CheckCooldown, CountSends
  <2>2. CASE CheckBounces(j) \/ CheckComplaints(j) \/ CheckKillSwitch(j)
        BY <1>1, <2>2 DEF CheckBounces, CheckComplaints, CheckKillSwitch
  <2>3. CASE ConsumeToken(j) /\ ~ (tokens[day] < local[j].cap)
        BY <1>1, <2>3 DEF ConsumeToken
  <2> QED
      BY <1>3, <2>1, <2>2, <2>3, ConsumePaid DEF GuardStep
<1>4. CASE Dispatch(j) \/ LoseAnswer(j)
  <2>1. /\ pc[j] = "dispatch" /\ pc'[j] \notin {"draft", "dispatch"}
        /\ Accept(j) /\ UNCHANGED <<tokens, day>>
        BY <1>4 DEF Dispatch, LoseAnswer, Retry, StepTo
  <2>2. j \in Holders /\ Holders' = Holders \ {j}
        BY <1>0, <2>1 DEF Holders
  <2> QED BY <2>1, <2>2, AcceptPaid
<1>5. CASE DispatchStep(j) /\ ~ (Dispatch(j) \/ LoseAnswer(j))
  <2> USE DEF Retry, StepTo, storeVars
  <2>1. CASE Draft(j) \/ FindThread(j)
        BY <1>1, <2>1 DEF Draft, FindThread
  <2>2. CASE PersistMessage(j) \/ ReadStatus(j)
        BY <1>1, <2>2 DEF PersistMessage, ReadStatus
  <2>3. CASE WriteStatus(j) \/ MarkContacted(j)
        BY <1>1, <2>3 DEF WriteStatus, MarkContacted
  <2>4. CASE CreateThread(j)
        BY <1>1, <2>4 DEF CreateThread
  <2> QED BY <1>5, <2>1, <2>2, <2>3, <2>4 DEF DispatchStep
<1> QED
    BY <1>2, <1>3, <1>4, <1>5 DEF JobAction

LEMMA NextPaid ==
  ASSUME TypeInv, TypeInv', PaidInv, [Next]_vars
  PROVE  PaidInv'
<1> USE DEF TypeInv
<1>1. CASE Environment
  <2>1. Holders' = Holders
        BY <1>1, EnvironmentKeepsQueue DEF Holders, queueVars
  <2>2. UNCHANGED <<sent, tokens>> /\ (day' = day \/ day' = day + 1)
        BY <1>1, ScanFrame, ReplyFrame
        DEF Environment, UnsubSuppress, UnsubMark, UnsubClose, UnsubFail, RecordEvent,
            SuppressBounced, ToggleKillSwitch, RecalcRead, RecalcWrite, NextDay, Erase,
            Discover, Verify, ScanStep, storeVars
  <2>3. day <= day'
        BY <2>2, BoundAssumption DEF CoreTypeOK, StoreTypeOK
  <2> QED BY <2>1, <2>2, <2>3, PaysOnwards
<1>2. CASE UNCHANGED vars
  <2>1. UNCHANGED <<sent, tokens, day>> /\ Holders' = Holders
        BY <1>2 DEF Holders, vars, storeVars, workerVars, queueVars
  <2>2. day <= day'
        BY <2>1, BoundAssumption DEF CoreTypeOK, StoreTypeOK
  <2> QED BY <2>1, <2>2, PaysOnwards
<1> QED
    BY <1>1, <1>2, NextByJob, JobPaid

LEMMA TokensThroughFinite ==
  ASSUME CoreTypeOK, NEW d \in Days
  PROVE  IsFiniteSet(TokensThrough(d))
<1> DEFINE F == [e \in 0..d |-> {e} \X (1..tokens[e])]
           S == {{e} \X (1..tokens[e]) : e \in 0..d}
<1>1. d \in Int /\ IsFiniteSet(0..d)
      BY FS_Interval, BoundAssumption
<1>2. F \in [0..d -> S] /\ \A x \in S : \E e \in 0..d : F[e] = x
      OBVIOUS
<1>3. F \in Surjection(0..d, S)
      BY <1>2 DEF Surjection
<1> HIDE DEF F
<1>4. IsFiniteSet(S)
      BY <1>1, <1>3, FS_Surjection
<1>5. ASSUME NEW e \in 0..d
      PROVE  IsFiniteSet({e} \X (1..tokens[e]))
  <2>1. tokens[e] \in Int
        BY BoundAssumption DEF CoreTypeOK, StoreTypeOK
  <2>2. IsFiniteSet(1..tokens[e])
        BY <2>1, FS_Interval
  <2>3. IsFiniteSet({e})
        BY FS_Singleton
  <2> QED BY <2>2, <2>3, FS_Product
<1>6. \A x \in S : IsFiniteSet(x)
      BY <1>5
<1> HIDE DEF S
<1>7. IsFiniteSet(UNION S)
      BY <1>4, <1>6, FS_UNION
<1> QED BY <1>7 DEF S, TokensThrough

\* Every physical email was paid for by a token of the same or an earlier day.
THEOREM PaidSound == Spec => []EveryEmailPaidFor
<1>1. Init => PaidInv
  <2> SUFFICES ASSUME Init PROVE PaidInv
      OBVIOUS
  <2>1. sent = {} /\ Holders = {}
        BY DEF Init, StoreInit, WorkerInit, Holders
  <2>2. PICK f : f \in [{} -> Bought]
        BY [x \in {} |-> {}] \in [{} -> Bought]
  <2> QED BY <2>1, <2>2 DEF PaidInv, Pays
<1>2. TypeInv /\ TypeInv' /\ PaidInv /\ [Next]_vars => PaidInv'
      BY NextPaid
<1>3. TypeInv /\ PaidInv => EveryEmailPaidFor
  <2> SUFFICES ASSUME TypeInv, PaidInv, NEW d \in Days
               PROVE  Cardinality({s \in sent : s.day <= d}) <= Cardinality(TokensThrough(d))
      BY DEF EveryEmailPaidFor
  <2> DEFINE S == {s \in sent : s.day <= d}
  <2>1. PICK f, g : Pays(f, g)
        BY DEF PaidInv
  <2>2. PICK h : h = [s \in S |-> f[s]]
        OBVIOUS
  <2>3. ASSUME NEW s \in S
        PROVE  f[s] \in TokensThrough(d)
    <3>1. f[s] \in Days \X Nat /\ 1 <= f[s][2] /\ f[s][2] <= tokens[f[s][1]]
          BY <2>1 DEF Pays, Bought
    <3>2. f[s][1] <= s.day /\ s.day <= d /\ s.day \in Days
          BY <2>1 DEF Pays, TypeInv, CoreTypeOK, StoreTypeOK, Sent
    <3>3. f[s][1] \in 0..d
          BY <3>1, <3>2, BoundAssumption
    <3>4. f[s] \in {f[s][1]} \X (1..tokens[f[s][1]])
          BY <3>1, <3>3, BoundAssumption DEF TypeInv, CoreTypeOK, StoreTypeOK
    <3> QED BY <3>3, <3>4 DEF TokensThrough
  <2>4. h \in Injection(S, TokensThrough(d))
    <3>1. h \in [S -> TokensThrough(d)]
          BY <2>2, <2>3
    <3>2. \A r, s \in S : h[r] = h[s] => r = s
          BY <2>1, <2>2 DEF Pays
    <3> QED BY <3>1, <3>2 DEF Injection, IsInjective
  <2>5. IsFiniteSet(TokensThrough(d))
        BY TokensThroughFinite DEF TypeInv
  <2> QED
      BY <2>4, <2>5, FS_Injection
<1> QED
    BY <1>1, <1>2, <1>3, TypeInvariant, PTL DEF Spec
-----------------------------------------------------------------------------
(* One conversation per job.  A thread no reply has touched is in play while it *)
(* is open, or while a send has read it `active` and is about to write          *)
(* `awaiting_reply` over a close.  Each thread in play is charged to a send job *)
(* of its agent that is not about to create another: a job comes to create only *)
(* when it finds no open thread, and then those in play are the ones about to   *)
(* be reopened, each charged to the job that will do it.  A reply takes the     *)
(* thread it works on out of play for good.                                     *)

Reopens(j, t) == pc[j] = "write" /\ local[j].thread = t /\ local[j].status = "active"
InPlay(t) ==
  /\ ExistsThread(t) /\ t \notin answered
  /\ threads[t].status # "closed" \/ \E j \in SendJobs : Reopens(j, t)
ThreadsInPlay == {t \in Threads : InPlay(t)}

Charged(f) ==
  /\ f \in [ThreadsInPlay -> SendJobs]
  /\ \A t, u \in ThreadsInPlay : f[t] = f[u] => t = u
  /\ \A t \in ThreadsInPlay : SendAgent[f[t]] = threads[t].agent /\ pc[f[t]] # "create"
ChargedInv == \E f : Charged(f)

\* Only a first send finds its thread `active`, and only a reply's is `replied`.
NoReplies == \A t \in Threads \ answered : threads[t].status # "replied"
ReadOK(j) ==
  /\ pc[j] # "none" /\ j \in FollowupJobs => threads[j.thread].status # "active"
  /\ pc[j] = "write" =>
       /\ \/ local[j].thread \in answered
          \/ local[j].status \in {"active", "awaiting_reply", "closed"}
       /\ j \in FollowupJobs => local[j].status # "active"
RepliesKnown ==
  \A r \in Replies : reply[r].at \in {"read", "write"} => reply[r].thread \in answered
DueMoved == \A f \in due : threads[f.thread].status # "active"
OneInv == ChargedInv /\ NoReplies /\ RepliesKnown /\ DueMoved /\ \A j \in Jobs : ReadOK(j)

\* A job leaves the replies alone, and only takes from what the scan has listed.
LEMMA JobLeavesReplies ==
  ASSUME CoreTypeOK, NEW j \in Jobs, JobAction(j)
  PROVE  UNCHANGED <<reply, answered>> /\ due' \subseteq due
<1>1. CASE QueueStep(j)
      BY <1>1 DEF QueueStep, Enqueue, EnqueueDue, Start, Fault, TransientError, Crash, envVars,
                  replyVars
<1>2. CASE UNCHANGED envVars
      BY <1>2 DEF envVars, replyVars
<1>3. CASE DispatchStep(j)
      BY <1>2, <1>3 DEF DispatchStep, Draft, Dispatch, LoseAnswer, FindThread, CreateThread,
                  PersistMessage, ReadStatus, WriteStatus, MarkContacted, StepTo
<1> QED BY <1>1, <1>2, <1>3 DEF JobAction

\* Threads that go out of play keep no charge.
LEMMA ChargedOnwards ==
  ASSUME ChargedInv,
         \A t \in Threads : InPlay(t)' => InPlay(t) /\ threads'[t].agent = threads[t].agent,
         \A i \in SendJobs : pc'[i] = "create" => pc[i] = "create"
  PROVE  ChargedInv'
<1>1. PICK f : Charged(f)
      BY DEF ChargedInv
<1>2. PICK g : g = [t \in ThreadsInPlay' |-> f[t]]
      OBVIOUS
<1>3. ThreadsInPlay' \subseteq ThreadsInPlay
      BY DEF ThreadsInPlay
<1>4. \A t \in ThreadsInPlay' : threads'[t].agent = threads[t].agent
      BY DEF ThreadsInPlay
<1>5. g \in [ThreadsInPlay' -> SendJobs] /\ \A t \in ThreadsInPlay' : g[t] = f[t]
      BY <1>1, <1>2, <1>3 DEF Charged
<1>6. Charged(g)'
      BY <1>1, <1>3, <1>4, <1>5 DEF Charged
<1> QED BY <1>6 DEF ChargedInv

\* A step that touches no thread and brings no job to its write or its create.
LEMMA QuietCharged ==
  ASSUME CoreTypeOK, ChargedInv, UNCHANGED <<threads, answered>>, NEW j \in Jobs,
         pc'[j] \notin {"write", "create"},
         \A i \in Jobs : i # j => pc'[i] = pc[i] /\ local'[i] = local[i]
  PROVE  ChargedInv'
<1>1. ASSUME NEW t \in Threads, InPlay(t)'
      PROVE  InPlay(t)
      BY <1>1 DEF InPlay, ExistsThread, Reopens
<1>2. \A i \in SendJobs : pc'[i] = "create" => pc[i] = "create"
      OBVIOUS
<1> QED BY <1>1, <1>2, ChargedOnwards

LEMMA FindCharged ==
  ASSUME CoreTypeOK, CoreTypeOK', RecordInv, OneInv, UNCHANGED answered, NEW j \in Jobs,
         FindThread(j)
  PROVE  ChargedInv'
<1> USE DEF CoreTypeOK, QueueTypeOK, Goto, StepTo
<1>1. JobRecord(j) /\ pc[j] = "thread" /\ j \in SendJobs /\ local[j].agent = SendAgent[j]
      BY DEF RecordInv, JobRecord, Target, FindThread, Running, Cleared
<1>2. UNCHANGED threads /\ \A i \in Jobs : i # j => pc'[i] = pc[i] /\ local'[i] = local[i]
      BY DEF FindThread, storeVars, threadVars
<1>3. CASE pc'[j] = "persist"
      BY <1>2, <1>3, QuietCharged DEF OneInv
<1>4. CASE pc'[j] # "persist"
  <2>1. pc'[j] = "create" /\ local' = local /\ OpenThreads(SendAgent[j]) = {}
        BY <1>1, <1>4 DEF FindThread
  <2>2. \A i \in SendJobs, t \in Threads : Reopens(i, t)' <=> Reopens(i, t)
        BY <1>1, <1>2, <2>1 DEF Reopens
  <2>3. ThreadsInPlay' = ThreadsInPlay
        BY <1>2, <2>2 DEF ThreadsInPlay, InPlay, ExistsThread
  <2>4. PICK f : Charged(f)
        BY DEF OneInv, ChargedInv
  <2> DEFINE Ours(t) == threads[t].agent = SendAgent[j]
             Writer(t) == CHOOSE i \in SendJobs : Reopens(i, t)
  <2>5. PICK g : g = [t \in ThreadsInPlay |-> IF Ours(t) THEN Writer(t) ELSE f[t]]
        OBVIOUS
  <2>6. ASSUME NEW t \in ThreadsInPlay, Ours(t)
        PROVE  /\ g[t] \in SendJobs /\ Reopens(g[t], t)
               /\ SendAgent[g[t]] = threads[t].agent
    <3>1. t \in Threads /\ ExistsThread(t) /\ threads[t].status # "absent"
          BY DEF ThreadsInPlay, InPlay, ExistsThread
    <3>2. \E i \in SendJobs : Reopens(i, t)
          BY <2>1, <2>6, <3>1 DEF ThreadsInPlay, InPlay, OpenThreads
    <3>3. g[t] \in SendJobs /\ Reopens(g[t], t)
          BY <2>5, <2>6, <3>2
    <3>4. JobRecord(g[t]) /\ pc[g[t]] = "write" /\ local[g[t]].thread = t
          BY <3>3 DEF RecordInv, Reopens
    <3>5. local[g[t]].agent = SendAgent[g[t]] /\ Owns(t, local[g[t]].agent)
          BY <3>3, <3>4 DEF JobRecord, Target, Running, Cleared
    <3>6. threads[t].agent # NoAgent
          BY <3>1 DEF RecordInv, Rows
    <3> QED
        BY <3>3, <3>5, <3>6 DEF Owns
  <2>7. ASSUME NEW t \in ThreadsInPlay, ~ Ours(t)
        PROVE  g[t] = f[t]
        BY <2>5, <2>7
  <2>8. g \in [ThreadsInPlay -> SendJobs]
        BY <2>4, <2>5, <2>6, <2>7 DEF Charged
  <2>9. \A t \in ThreadsInPlay : SendAgent[g[t]] = threads[t].agent
        BY <2>4, <2>6, <2>7 DEF Charged
  <2>10. \A t \in ThreadsInPlay : pc[g[t]] # "create" /\ g[t] # j
    <3>1. ASSUME NEW t \in ThreadsInPlay, Ours(t)
          PROVE  pc[g[t]] # "create" /\ g[t] # j
          BY <1>1, <2>6, <3>1 DEF Reopens
    <3>2. ASSUME NEW t \in ThreadsInPlay, ~ Ours(t)
          PROVE  pc[g[t]] # "create" /\ g[t] # j
          BY <2>4, <2>7, <2>9, <3>2 DEF Charged
    <3> QED BY <3>1, <3>2
  <2>11. ASSUME NEW t \in ThreadsInPlay, NEW u \in ThreadsInPlay, g[t] = g[u]
         PROVE  t = u
    <3>1. Ours(t) <=> Ours(u)
          BY <2>9, <2>11
    <3>2. CASE Ours(t)
          BY <2>6, <2>11, <3>1, <3>2 DEF Reopens
    <3>3. CASE ~ Ours(t)
          BY <2>4, <2>7, <2>11, <3>1, <3>3 DEF Charged
    <3> QED BY <3>2, <3>3
  <2>12. \A t \in ThreadsInPlay : pc'[g[t]] # "create"
         BY <1>2, <2>8, <2>10
  <2>13. Charged(g)'
         BY <1>2, <2>3, <2>8, <2>9, <2>11, <2>12 DEF Charged
  <2> QED BY <2>13 DEF ChargedInv
<1> QED BY <1>3, <1>4

LEMMA CreateCharged ==
  ASSUME CoreTypeOK, CoreTypeOK', RecordInv, OneInv, UNCHANGED answered, NEW j \in Jobs,
         CreateThread(j)
  PROVE  ChargedInv'
<1> USE DEF CoreTypeOK, QueueTypeOK, Goto, StepTo
<1>1. /\ JobRecord(j) /\ pc[j] = "create" /\ j \in SendJobs
      /\ local[j].agent = SendAgent[j]
      BY DEF RecordInv, JobRecord, Target, CreateThread, Running, Cleared
<1>2. CASE local[j].agent \notin present
  <2>1. /\ UNCHANGED threads /\ pc'[j] \notin {"write", "create"}
        /\ \A i \in Jobs : i # j => pc'[i] = pc[i] /\ local'[i] = local[i]
        BY <1>2 DEF CreateThread, Retry
  <2> QED BY <2>1, QuietCharged DEF OneInv
<1>3. CASE local[j].agent \in present
  <2>1. PICK n : n = nextThread
        OBVIOUS
  <2>2. /\ n \in Threads /\ pc'[j] = "persist"
        /\ threads' = [threads EXCEPT ![n] =
                         [agent |-> SendAgent[j], status |-> "active", last |-> Never]]
        /\ \A i \in Jobs : i # j => pc'[i] = pc[i] /\ local'[i] = local[i]
        BY <1>1, <1>3, <2>1 DEF CreateThread, createThread
  <2>3. /\ threads'[n].agent = SendAgent[j]
        /\ \A t \in Threads : t # n => threads'[t] = threads[t]
        BY <2>2 DEF StoreTypeOK
  <2>4. n \notin ThreadsInPlay
    <3>1. n \in Int /\ ~ (n < nextThread)
          BY <2>1 DEF StoreTypeOK
    <3>2. threads[n].status = "absent"
          BY <2>2, <3>1 DEF RecordInv, Rows
    <3> QED BY <3>2 DEF ThreadsInPlay, InPlay, ExistsThread
  <2>5. ASSUME NEW t \in ThreadsInPlay', t # n
        PROVE  t \in ThreadsInPlay
        BY <2>2, <2>3, <2>5 DEF ThreadsInPlay, InPlay, ExistsThread, Reopens
  <2>6. PICK f : Charged(f)
        BY DEF OneInv, ChargedInv
  <2>7. PICK g : g = [t \in ThreadsInPlay' |-> IF t = n THEN j ELSE f[t]]
        OBVIOUS
  <2>8. \A t \in ThreadsInPlay' : t # n => g[t] = f[t] /\ f[t] \in SendJobs /\ f[t] # j
        BY <1>1, <2>5, <2>6, <2>7 DEF Charged
  <2>9. n \in ThreadsInPlay' => g[n] = j
        BY <2>7
  <2>10. g \in [ThreadsInPlay' -> SendJobs]
        BY <1>1, <2>7, <2>8
  <2>11. \A t, u \in ThreadsInPlay' : g[t] = g[u] => t = u
        BY <2>5, <2>6, <2>8, <2>9 DEF Charged
  <2>12. ASSUME NEW t \in ThreadsInPlay'
         PROVE  SendAgent[g[t]] = threads'[t].agent /\ pc'[g[t]] # "create"
    <3>1. CASE t = n
          BY <2>2, <2>3, <2>9, <3>1
    <3>2. CASE t # n
      <4>1. g[t] = f[t] /\ f[t] \in SendJobs /\ f[t] # j /\ t \in ThreadsInPlay
            BY <2>5, <2>8, <3>2
      <4>2. t \in Threads /\ threads'[t] = threads[t] /\ pc'[f[t]] = pc[f[t]]
            BY <2>2, <2>3, <3>2, <4>1 DEF ThreadsInPlay
      <4> QED BY <2>6, <4>1, <4>2 DEF Charged
    <3> QED BY <3>1, <3>2
  <2>13. Charged(g)'
         BY <2>10, <2>11, <2>12 DEF Charged
  <2> QED BY <2>13 DEF ChargedInv
<1> QED BY <1>2, <1>3

\* What the write does to its thread; only a read of `active` can reopen one.
LEMMA WriteEffect ==
  ASSUME CoreTypeOK, OneInv, NEW j \in Jobs, WriteStatus(j), ExistsThread(local[j].thread),
         NEW t, t = local[j].thread
  PROVE  /\ \A u \in Threads : threads'[u].agent = threads[u].agent
         /\ \A u \in Threads : u # t => threads'[u] = threads[u]
         /\ threads'[t].status \in {threads[t].status, "awaiting_reply", "closed"}
         /\ \/ threads'[t].status = threads[t].status
            \/ threads'[t].status = "awaiting_reply" /\ Reopens(j, t) /\ j \in SendJobs
            \/ t \in answered
<1> USE DEF CoreTypeOK, QueueTypeOK, StoreTypeOK
<1>1. /\ pc[j] = "write"
      /\ local[j].status = "closed" =>
           advanceThreadStatus(local[j].status, "outbound_sent") = "closed"
      /\ local[j].status # "closed" =>
           advanceThreadStatus(local[j].status, "outbound_sent") = "awaiting_reply"
      BY DEF WriteStatus, advanceThreadStatus
<1>2. /\ \/ t \in answered
         \/ local[j].status \in {"active", "awaiting_reply", "closed"}
      /\ j \in FollowupJobs => local[j].status # "active"
      BY <1>1 DEF OneInv, ReadOK
<1>3. PICK next : /\ next = advanceThreadStatus(local[j].status, "outbound_sent")
                  /\ threads' = [threads EXCEPT
                        ![t].status = IF next = local[j].status THEN @ ELSE next,
                        ![t].last = local[j].day]
      BY DEF WriteStatus
<1>4. t \in Threads
      BY DEF ExistsThread
<1>5. /\ threads'[t].agent = threads[t].agent
      /\ threads'[t].status = IF next = local[j].status THEN threads[t].status ELSE next
      /\ \A u \in Threads : u # t => threads'[u] = threads[u]
      BY <1>3, <1>4 DEF ThreadRow
<1>6. \/ next = local[j].status
      \/ next = "awaiting_reply" /\ local[j].status = "active"
      \/ t \in answered
      BY <1>1, <1>2, <1>3
<1>7. threads'[t].status \in {threads[t].status, "awaiting_reply", "closed"}
      BY <1>1, <1>3, <1>5
<1> QED
    BY <1>1, <1>2, <1>5, <1>6, <1>7 DEF Reopens

LEMMA ReadWriteCharged ==
  ASSUME CoreTypeOK, CoreTypeOK', OneInv, UNCHANGED answered, NEW j \in Jobs,
         ReadStatus(j) \/ WriteStatus(j)
  PROVE  ChargedInv'
<1> USE DEF CoreTypeOK, QueueTypeOK, Goto, StepTo
<1>1. /\ \A i \in Jobs : i # j => pc'[i] = pc[i] /\ local'[i] = local[i]
      /\ pc'[j] # "create"
      BY DEF ReadStatus, WriteStatus, Retry
<1>2. \A i \in SendJobs : pc'[i] = "create" => pc[i] = "create"
      BY <1>1
<1>3. CASE Retry(j) /\ UNCHANGED threads
      BY <1>1, <1>3, QuietCharged DEF Retry, OneInv
<1>4. CASE ReadStatus(j) /\ ~ Retry(j)
  <2>1. /\ UNCHANGED threads /\ local'[j].thread = local[j].thread
        /\ local'[j].status = threads[local[j].thread].status
        BY <1>4 DEF ReadStatus, storeVars, threadVars, Local
  <2>2. ASSUME NEW t \in Threads, InPlay(t)'
        PROVE  InPlay(t)
    <3>1. ExistsThread(t)
          BY <2>1, <2>2 DEF InPlay, ExistsThread
    <3>2. ASSUME NEW i \in SendJobs, Reopens(i, t)', threads[t].status = "closed"
          PROVE  Reopens(i, t)
      <4>1. i # j
            BY <2>1, <3>2 DEF Reopens
      <4> QED BY <1>1, <3>2, <4>1 DEF Reopens
    <3> QED BY <2>1, <2>2, <3>1, <3>2 DEF InPlay
  <2> QED BY <1>2, <2>1, <2>2, ChargedOnwards DEF OneInv
<1>5. CASE WriteStatus(j) /\ ExistsThread(local[j].thread)
  <2>1. PICK t : t = local[j].thread
        OBVIOUS
  <2>2. /\ \A u \in Threads : threads'[u].agent = threads[u].agent
        /\ \A u \in Threads : u # t => threads'[u] = threads[u]
        /\ \/ threads'[t].status = threads[t].status
           \/ threads'[t].status = "awaiting_reply" /\ Reopens(j, t) /\ j \in SendJobs
           \/ t \in answered
        BY <1>5, <2>1, WriteEffect
  <2>3. pc'[j] = "mark"
        BY <1>5 DEF WriteStatus
  <2>4. \A i \in Jobs, u \in Threads : Reopens(i, u)' => Reopens(i, u)
        BY <1>1, <2>3 DEF Reopens
  <2>5. ASSUME NEW u \in Threads, InPlay(u)'
        PROVE  InPlay(u)
    <3>1. CASE threads'[u].status = threads[u].status
          BY <2>4, <2>5, <3>1 DEF InPlay, ExistsThread
    <3>2. CASE threads'[u].status # threads[u].status
      <4>1. u = t /\ Reopens(j, t) /\ j \in SendJobs
            BY <2>2, <2>5, <3>2 DEF InPlay
      <4> QED BY <1>5, <2>1, <2>5, <4>1 DEF InPlay
    <3> QED BY <3>1, <3>2
  <2> QED BY <1>2, <2>2, <2>5, ChargedOnwards DEF OneInv
<1> QED
    BY <1>3, <1>4, <1>5 DEF ReadStatus, WriteStatus, storeVars, threadVars

\* The other steps of a job touch no thread.
LEMMA OtherCharged ==
  ASSUME CoreTypeOK, OneInv, NEW j \in Jobs, JobAction(j),
         ~ (FindThread(j) \/ CreateThread(j) \/ ReadStatus(j) \/ WriteStatus(j))
  PROVE  UNCHANGED threads /\ ChargedInv' /\ pc'[j] # "write"
<1> USE DEF CoreTypeOK, QueueTypeOK, Goto, storeVars, threadVars
<1>1. UNCHANGED threads /\ pc'[j] \notin {"write", "create"}
  <2> USE DEF Drop, Retry, Pass, StepTo
  <2>1. CASE QueueStep(j)
        BY <2>1 DEF QueueStep, Enqueue, EnqueueDue, Start, Fault, TransientError, Crash
  <2>2. CASE Fetch(j) \/ Load(j) \/ CheckSuppression(j) \/ CheckCooldown(j) \/ CountSends(j)
        BY <2>2 DEF Fetch, Load, CheckSuppression, CheckCooldown, CountSends
  <2>3. CASE CheckBounces(j) \/ CheckComplaints(j) \/ CheckKillSwitch(j) \/ ConsumeToken(j)
        BY <2>3 DEF CheckBounces, CheckComplaints, CheckKillSwitch, ConsumeToken
  <2>4. CASE Draft(j) \/ Dispatch(j) \/ LoseAnswer(j)
        BY <2>4 DEF Draft, Dispatch, LoseAnswer
  <2>5. CASE PersistMessage(j) \/ MarkContacted(j)
        BY <2>5 DEF PersistMessage, MarkContacted
  <2> QED
      BY <2>1, <2>2, <2>3, <2>4, <2>5 DEF JobAction, GuardStep, DispatchStep
<1>2. \A i \in Jobs : i # j => pc'[i] = pc[i] /\ local'[i] = local[i]
      BY JobFrame
<1> QED
    BY <1>1, <1>2, JobLeavesReplies, QuietCharged DEF OneInv

\* The threads a reply works on are answered before it reads or writes them.
LEMMA ReplyEffect ==
  ASSUME CoreTypeOK, OneInv, NEW r \in Replies, ReplyStep(r)
  PROVE  /\ answered \subseteq answered' /\ RepliesKnown'
         /\ \A t \in Threads : t \in answered' \/ threads'[t] = threads[t]
<1> USE DEF CoreTypeOK, EnvTypeOK, StoreTypeOK, ReplyTo, Reply
<1>1. CASE ReplyArrive(r) \/ ReplyFail(r)
  <2>1. UNCHANGED <<threads, answered>>
        BY <1>1 DEF ReplyArrive, ReplyFail, storeVars, threadVars
  <2>2. PICK v : reply' = [reply EXCEPT ![r] = v] /\ v.at \in {"thread", "idle"}
    <3>1. CASE ReplyFail(r)
      <4>1. reply' = [reply EXCEPT ![r] = NoReply] /\ NoReply.at = "idle"
            BY <3>1 DEF ReplyFail, NoReply
      <4> QED BY <4>1
    <3>2. CASE ReplyArrive(r)
      <4>1. PICK v, a, received :
              /\ v = [NoReply EXCEPT !.at = "thread", !.agent = a, !.day = received]
              /\ reply' = [reply EXCEPT ![r] = v]
            BY <3>2 DEF ReplyArrive
      <4>2. v.at = "thread"
            BY <4>1 DEF NoReply
      <4> QED BY <4>1, <4>2
    <3> QED BY <1>1, <3>1, <3>2
  <2>3. reply'[r] = v /\ \A q \in Replies : q # r => reply'[q] = reply[q]
        BY <2>2
  <2> QED BY <2>1, <2>2, <2>3 DEF OneInv, RepliesKnown
\* It finds or creates its thread, and from then on the thread is answered.
<1>7. ASSUME NEW t, answered' = answered \cup {t},
             reply' = [reply EXCEPT ![r] = [reply[r] EXCEPT !.at = "read", !.thread = t]]
      PROVE  RepliesKnown'
  <2>1. reply'[r].thread = t /\ \A q \in Replies : q # r => reply'[q] = reply[q]
        BY <1>7
  <2> QED BY <1>7, <2>1 DEF OneInv, RepliesKnown
<1>2. CASE ReplyFindThread(r)
  <2>1. UNCHANGED threads
        BY <1>2 DEF ReplyFindThread, storeVars, threadVars
  <2>2. CASE reply' = [reply EXCEPT ![r] = [reply[r] EXCEPT !.at = "create"]]
             /\ UNCHANGED answered
        BY <2>1, <2>2 DEF OneInv, RepliesKnown
  <2> QED BY <1>2, <1>7, <2>1, <2>2 DEF ReplyFindThread
<1>3. CASE ReplyCreateThread(r)
  <2>1. RepliesKnown' /\ answered' = answered \cup {nextThread}
        BY <1>3, <1>7 DEF ReplyCreateThread
  <2>2. \A t \in Threads : t # nextThread => threads'[t] = threads[t]
        BY <1>3 DEF ReplyCreateThread, createThread
  <2> QED BY <2>1, <2>2
<1>4. CASE ReplyRead(r)
      BY <1>4 DEF ReplyRead, OneInv, RepliesKnown, storeVars, threadVars
<1>5. CASE ReplyWrite(r)
  <2>1. PICK t : t = reply[r].thread /\ t \in Threads /\ t \in answered
        BY <1>5 DEF ReplyWrite, OneInv, RepliesKnown, ExistsThread
  <2>2. \A u \in Threads : u # t => threads'[u] = threads[u]
        BY <1>5, <2>1 DEF ReplyWrite
  <2>3. answered' = answered /\ RepliesKnown'
        BY <1>5 DEF ReplyWrite, NoReply, OneInv, RepliesKnown
  <2> QED BY <2>1, <2>2, <2>3
<1> QED
    BY <1>1, <1>2, <1>3, <1>4, <1>5 DEF ReplyStep

LEMMA EnvironmentCharged ==
  ASSUME CoreTypeOK, CoreTypeOK', RecordInv, OneInv, Environment
  PROVE  ChargedInv' /\ NoReplies' /\ RepliesKnown' /\ answered \subseteq answered'
<1> USE DEF CoreTypeOK
<1>1. pc' = pc /\ local' = local
      BY EnvironmentKeepsQueue DEF queueVars
<1>2. ASSUME answered \subseteq answered',
             \A t \in Threads :
               \/ threads'[t] = threads[t]
               \/ t \in answered'
               \/ threads'[t].status = "absent"
               \/ threads'[t].status = "closed" /\ threads'[t].agent = threads[t].agent
                    /\ threads[t].status # "absent"
      PROVE  ChargedInv' /\ NoReplies'
  <2>1. \A t \in Threads, i \in SendJobs : Reopens(i, t)' <=> Reopens(i, t)
        BY <1>1 DEF Reopens
  <2>2. ASSUME NEW t \in Threads, InPlay(t)'
        PROVE  InPlay(t) /\ threads'[t].agent = threads[t].agent
    <3>1. CASE threads'[t] = threads[t]
          BY <1>2, <2>1, <2>2, <3>1 DEF InPlay, ExistsThread
    <3>2. CASE threads'[t] # threads[t]
      <4>1. /\ threads'[t].status = "closed" /\ threads'[t].agent = threads[t].agent
            /\ threads[t].status # "absent"
            BY <1>2, <2>2, <3>2 DEF InPlay, ExistsThread
      <4> QED BY <1>2, <2>1, <2>2, <4>1 DEF InPlay, ExistsThread
    <3> QED BY <3>1, <3>2
  <2>3. ChargedInv'
        BY <1>1, <2>2, ChargedOnwards DEF OneInv
  <2> QED
      BY <1>2, <2>3 DEF OneInv, NoReplies
<1>3. CASE UNCHANGED <<threads, reply, answered>>
      BY <1>2, <1>3 DEF OneInv, RepliesKnown
<1>4. ASSUME NEW e \in Emails, UnsubClose(e)
      PROVE  ChargedInv' /\ NoReplies' /\ UNCHANGED <<reply, answered>>
      BY <1>2, <1>4
      DEF UnsubClose, closeThreadsByAgent, ExistsThread, StoreTypeOK, ThreadRow, replyVars
<1>5. ASSUME NEW a \in Agents, Erase(a)
      PROVE  ChargedInv' /\ NoReplies' /\ UNCHANGED <<reply, answered>>
      BY <1>2, <1>5 DEF Erase, deleteAgent, AbsentThread, envVars, replyVars
<1>6. ASSUME NEW r \in Replies, ReplyStep(r)
      PROVE  ChargedInv' /\ NoReplies' /\ RepliesKnown' /\ answered \subseteq answered'
      BY <1>2, <1>6, ReplyEffect
<1>7. CASE ScanStep
      BY <1>3, <1>7, ScanFrame DEF storeVars, threadVars
<1>8. UNCHANGED <<reply, answered>> => RepliesKnown'
      BY DEF OneInv, RepliesKnown
<1> QED
    BY <1>3, <1>4, <1>5, <1>6, <1>7, <1>8
    DEF Environment, UnsubSuppress, UnsubMark, UnsubFail, SuppressBounced, RecordEvent,
        ToggleKillSwitch, RecalcRead, RecalcWrite, NextDay, Discover, Verify, ScanStep,
        storeVars, threadVars, envVars, replyVars

LEMMA JobNoReplies ==
  ASSUME CoreTypeOK, CoreTypeOK', OneInv, NEW j \in Jobs, JobAction(j)
  PROVE  NoReplies'
<1>0. UNCHANGED answered
      BY JobLeavesReplies
<1>1. CASE UNCHANGED threads
      BY <1>0, <1>1 DEF OneInv, NoReplies
<1>2. CASE CreateThread(j)
  <2>1. \/ UNCHANGED threads
        \/ threads' = [threads EXCEPT ![nextThread] =
                         [agent |-> local[j].agent, status |-> "active", last |-> Never]]
        BY <1>2 DEF CreateThread, createThread
  <2>2. \A t \in Threads : threads'[t] = threads[t] \/ threads'[t].status = "active"
        BY <2>1 DEF CoreTypeOK, StoreTypeOK
  <2> QED BY <1>0, <2>2 DEF OneInv, NoReplies
<1>3. CASE WriteStatus(j)
  <2>1. CASE ExistsThread(local[j].thread)
    <3>1. PICK t : t = local[j].thread
          OBVIOUS
    <3>2. /\ \A u \in Threads : u # t => threads'[u] = threads[u]
          /\ threads'[t].status \in {threads[t].status, "awaiting_reply", "closed"}
          BY <1>3, <2>1, <3>1, WriteEffect
    <3> QED BY <1>0, <3>2 DEF OneInv, NoReplies
  <2>2. CASE ~ ExistsThread(local[j].thread)
        BY <1>1, <1>3, <2>2 DEF WriteStatus
  <2> QED BY <2>1, <2>2
<1>4. CASE FindThread(j) \/ ReadStatus(j)
      BY <1>1, <1>4 DEF FindThread, ReadStatus, storeVars, threadVars
<1> QED
    BY <1>1, <1>2, <1>3, <1>4, OtherCharged

\* A follow-up's thread had moved on from `active` when it was listed.
LEMMA FollowupThreadMoved ==
  ASSUME CoreTypeOK, Grows, RecordInv, OneInv, NEW j \in FollowupJobs,
         pc[j] # "none" \/ j \in due
  PROVE  threads'[j.thread].status # "active"
<1>1. j.thread \in Threads /\ j.thread < nextThread
      BY DEF RecordInv, JobRecord, Continues
<1>2. threads[j.thread].status # "active"
      BY DEF OneInv, ReadOK, DueMoved
<1> QED BY <1>1, <1>2 DEF Grows

LEMMA DueMovedKept ==
  ASSUME CoreTypeOK, CoreTypeOK', Grows, RecordInv, OneInv, [Next]_vars
  PROVE  DueMoved'
<1> SUFFICES ASSUME NEW f \in due'
             PROVE  threads'[f.thread].status # "active"
    BY DEF DueMoved
<1>1. f \in FollowupJobs /\ f.thread \in Threads
      BY DEF CoreTypeOK, EnvTypeOK
<1>2. CASE f \in due
      BY <1>1, <1>2, FollowupThreadMoved
<1>3. CASE f \notin due
  <2>1. threads[f.thread].status = "awaiting_reply"
        BY <1>3, DueOrigin
  <2>2. f.thread < nextThread
        BY <1>1, <2>1 DEF RecordInv, Rows
  <2> QED BY <1>1, <2>1, <2>2 DEF Grows
<1> QED BY <1>2, <1>3

LEMMA JobReadOK ==
  ASSUME CoreTypeOK, CoreTypeOK', Grows, RecordInv, OneInv, NEW j \in Jobs, JobAction(j)
  PROVE  ReadOK(j)'
<1> USE DEF CoreTypeOK, QueueTypeOK, Goto
<1>0. answered' = answered
      BY JobLeavesReplies
<1>1. j \in FollowupJobs /\ (pc[j] # "none" \/ j \in due) =>
        threads'[j.thread].status # "active"
      BY FollowupThreadMoved
<1>2. pc[j] # "none" \/ j \in SendJobs \/ j \in due
      BY DEF JobAction, QueueStep, EnqueueDue, Fault, Start, GuardStep, DispatchStep,
             TransientError, Crash, Fetch, Load, CheckSuppression, CheckCooldown, CountSends,
             CheckBounces, CheckComplaints, CheckKillSwitch, ConsumeToken, Draft, Dispatch,
             LoseAnswer, FindThread, CreateThread, PersistMessage, ReadStatus, WriteStatus,
             MarkContacted, Running, Guarding, Cleared
<1>3. ASSUME pc'[j] = "write"
      PROVE  /\ \/ local'[j].thread \in answered
                \/ local'[j].status \in {"active", "awaiting_reply", "closed"}
             /\ j \in FollowupJobs => local'[j].status # "active"
  <2>1. ReadStatus(j)
        BY <1>3, OtherCharged
        DEF FindThread, CreateThread, WriteStatus, ReadStatus, StepTo, Retry
  <2>2. /\ ExistsThread(local[j].thread) /\ pc[j] = "read"
        /\ local'[j].status = threads[local[j].thread].status
        /\ local'[j].thread = local[j].thread
        BY <1>3, <2>1 DEF ReadStatus, StepTo, Retry, Local
  <2>3. \/ local'[j].thread \in answered
        \/ local'[j].status \in {"active", "awaiting_reply", "closed"}
        BY <2>2 DEF OneInv, NoReplies, ExistsThread, StoreTypeOK, ThreadRow, Statuses
  <2>4. j \in FollowupJobs => local[j].thread = j.thread
        BY <2>2 DEF RecordInv, JobRecord, Target, Running, Cleared
  <2>5. j \in FollowupJobs => threads[j.thread].status # "active"
        BY <2>2 DEF OneInv, ReadOK
  <2> QED BY <2>2, <2>3, <2>4, <2>5
<1> QED
    BY <1>0, <1>1, <1>2, <1>3, JobAssumption DEF ReadOK

LEMMA NextOne ==
  ASSUME TypeInv, TypeInv', RecordInv, OneInv, [Next]_vars
  PROVE  OneInv'
<1> USE DEF TypeInv
<1>1. Grows
      BY NextGrows
<1>0. DueMoved'
      BY <1>1, DueMovedKept
<1>2. ASSUME NEW i \in Jobs, pc'[i] = pc[i], local'[i] = local[i], answered \subseteq answered'
      PROVE  ReadOK(i)'
  <2>1. i \in FollowupJobs /\ pc[i] # "none" => threads'[i.thread].status # "active"
        BY <1>1, FollowupThreadMoved
  <2>2. pc[i] = "write" =>
          /\ \/ local[i].thread \in answered
             \/ local[i].status \in {"active", "awaiting_reply", "closed"}
          /\ i \in FollowupJobs => local[i].status # "active"
        BY DEF OneInv, ReadOK
  <2> QED BY <1>2, <2>1, <2>2 DEF ReadOK
<1>3. CASE Next
  <2>1. ASSUME NEW j \in Jobs, JobAction(j)
        PROVE  OneInv'
    <3>0. UNCHANGED <<reply, answered>>
          BY <2>1, JobLeavesReplies
    <3>1. ChargedInv'
          BY <2>1, <3>0, FindCharged, CreateCharged, ReadWriteCharged, OtherCharged
    <3>2. NoReplies' /\ RepliesKnown'
          BY <2>1, <3>0, JobNoReplies DEF OneInv, RepliesKnown
    <3>3. ReadOK(j)'
          BY <1>1, <2>1, JobReadOK
    <3>4. ASSUME NEW i \in Jobs, i # j PROVE ReadOK(i)'
          BY <1>2, <2>1, <3>0, <3>4, JobFrame
    <3> QED BY <1>0, <3>1, <3>2, <3>3, <3>4 DEF OneInv
  <2>2. CASE Environment
    <3>1. ChargedInv' /\ NoReplies' /\ RepliesKnown' /\ answered \subseteq answered'
          BY <2>2, EnvironmentCharged
    <3>2. ASSUME NEW i \in Jobs PROVE ReadOK(i)'
          BY <1>2, <2>2, <3>1, EnvironmentKeepsQueue DEF queueVars
    <3> QED BY <1>0, <3>1, <3>2 DEF OneInv
  <2> QED BY <1>3, <2>1, <2>2, NextByJob
<1>4. CASE UNCHANGED vars
  <2>1. UNCHANGED <<threads, pc, local, reply, answered>>
        BY <1>4 DEF vars, storeVars, threadVars, workerVars, queueVars, envVars, replyVars
  <2>2. \A t \in Threads : InPlay(t)' => InPlay(t) /\ threads'[t].agent = threads[t].agent
        BY <2>1 DEF InPlay, ExistsThread, Reopens
  <2>3. ChargedInv'
        BY <2>1, <2>2, ChargedOnwards DEF OneInv
  <2> QED
      BY <1>0, <1>2, <2>1, <2>3 DEF OneInv, NoReplies, RepliesKnown
<1> QED BY <1>3, <1>4

\* Of the open threads no reply has touched, an agent has no more than send jobs:
\* attempts of one job never open a second conversation, wherever the first was cut
\* off, and whatever closed, answered or reopened threads meanwhile.
THEOREM OneThreadSound == Spec => []OneThreadPerJob
<1>1. Init => OneInv
  <2> SUFFICES ASSUME Init PROVE OneInv
      OBVIOUS
  <2>1. ThreadsInPlay = {}
        BY DEF Init, StoreInit, AbsentThread, ThreadsInPlay, InPlay, ExistsThread
  <2>2. PICK f : f \in [{} -> SendJobs]
        BY [x \in {} |-> {}] \in [{} -> SendJobs]
  <2>3. ChargedInv
        BY <2>1, <2>2 DEF ChargedInv, Charged
  <2> QED
      BY <2>3
      DEF Init, StoreInit, WorkerInit, AbsentThread, NoReply, OneInv, NoReplies,
          RepliesKnown, DueMoved, ReadOK
<1>2. TypeInv /\ TypeInv' /\ RecordInv /\ OneInv /\ [Next]_vars => OneInv'
      BY NextOne
<1>3. OneInv => OneThreadPerJob
  <2> SUFFICES ASSUME OneInv, NEW a \in Agents
               PROVE  Cardinality(OpenThreads(a) \ answered)
                        <= Cardinality({j \in SendJobs : SendAgent[j] = a})
      BY DEF OneThreadPerJob
  <2> DEFINE S == {j \in SendJobs : SendAgent[j] = a}
  <2>1. PICK f : Charged(f)
        BY DEF OneInv, ChargedInv
  <2>2. PICK h : h = [t \in OpenThreads(a) \ answered |-> f[t]]
        OBVIOUS
  <2>3. \A t \in OpenThreads(a) \ answered : t \in ThreadsInPlay /\ threads[t].agent = a
        BY DEF OpenThreads, ThreadsInPlay, InPlay, ExistsThread
  <2>4. /\ h \in [OpenThreads(a) \ answered -> S]
        /\ \A t, u \in OpenThreads(a) \ answered : h[t] = h[u] => t = u
        BY <2>1, <2>2, <2>3 DEF Charged
  <2>5. h \in Injection(OpenThreads(a) \ answered, S)
        BY <2>4 DEF Injection, IsInjective
  <2>6. IsFiniteSet(S)
        BY JobAssumption, FS_Subset
  <2> QED
      BY <2>5, <2>6, FS_Injection
<1> QED
    BY <1>1, <1>2, <1>3, TypeInvariant, RecordInvariant, PTL DEF Spec
=============================================================================
