----------------------------- MODULE LeaderLock -----------------------------
(* The scheduler's leader lock: a Redis lease taken with SET NX PX, renewed   *)
(* by GET then PEXPIRE on every tick and released by GET then DEL at shutdown. *)
(* The leader registers the repeatable jobs that drive the outreach loop.     *)
(* Time is abstracted: a lease may lapse between any two commands, because a  *)
(* process may be slow by any amount, and a dead holder's lease does lapse.   *)
EXTENDS Integers, FiniteSets

CONSTANTS
  Instances,   \* instanceId: hostname:pid, the same after a container restart
  Nobody,
  Cadences,    \* scheduler ids
  MaxErrors,   \* bound: Redis errors
  MaxStarts    \* bound: process starts

ASSUME InstanceAssumption == Nobody \notin Instances
ASSUME BoundAssumption == MaxErrors \in Nat /\ MaxStarts \in Nat

VARIABLES
  holder,      \* the value of the lock key
  proc,        \* per instance: up, down, or how far its shutdown has got
  tick,        \* per instance: the command its running tick awaits
  left,        \* per instance: cadences its tick has yet to register
  leads,       \* per instance: isLeader
  registered,  \* cadences with a job scheduler in Redis
  lapsed,      \* history: a lease has run out under a live holder
  errors,      \* history: Redis errors so far
  starts       \* history: process starts so far

vars == <<holder, proc, tick, left, leads, registered, lapsed, errors, starts>>

TypeOK ==
  /\ holder \in Instances \cup {Nobody}
  /\ proc \in [Instances -> {"up", "release", "delete", "closing", "down"}]
  /\ tick \in [Instances -> {"idle", "get", "extend", "register"}]
  /\ leads \in [Instances -> BOOLEAN]
  /\ registered \subseteq Cadences
  /\ left \in [Instances -> SUBSET Cadences]
  /\ lapsed \in BOOLEAN /\ errors \in 0..MaxErrors /\ starts \in 0..MaxStarts

Init ==
  /\ holder = Nobody
  /\ proc = [i \in Instances |-> "down"] /\ tick = [i \in Instances |-> "idle"]
  /\ leads = [i \in Instances |-> FALSE] /\ left = [i \in Instances |-> {}]
  /\ registered = {} /\ lapsed = FALSE /\ errors = 0 /\ starts = 0
-----------------------------------------------------------------------------
Start(i) ==
  /\ proc[i] = "down" /\ starts < MaxStarts
  /\ proc' = [proc EXCEPT ![i] = "up"]
  /\ starts' = starts + 1
  /\ UNCHANGED <<holder, tick, left, leads, registered, lapsed, errors>>

\* Mutant: cadences are registered on promotion only, not by every leading tick.
Lead_OnPromotion(i) ==
  /\ tick' = [tick EXCEPT ![i] = IF leads[i] THEN "idle" ELSE "register"]
  /\ left' = [left EXCEPT ![i] = IF leads[i] THEN {} ELSE Cadences]
  /\ leads' = [leads EXCEPT ![i] = TRUE]

\* The tick goes on to register every cadence.
Lead(i) ==
  /\ tick' = [tick EXCEPT ![i] = "register"]
  /\ left' = [left EXCEPT ![i] = Cadences]
  /\ leads' = [leads EXCEPT ![i] = TRUE]

\* Mutant: SET without NX.
Acquire_Overwrite(i) ==
  /\ proc[i] = "up" /\ tick[i] = "idle"
  /\ holder' = i
  /\ Lead(i)
  /\ UNCHANGED <<proc, registered, lapsed, errors, starts>>

\* A tick begins with SET NX PX.
Acquire(i) ==
  /\ proc[i] = "up" /\ tick[i] = "idle"
  /\ IF holder = Nobody
     THEN holder' = i /\ Lead(i)
     ELSE tick' = [tick EXCEPT ![i] = "get"] /\ UNCHANGED <<holder, left, leads>>
  /\ UNCHANGED <<proc, registered, lapsed, errors, starts>>

Read(i) ==
  /\ tick[i] = "get"
  /\ IF holder = i
     THEN tick' = [tick EXCEPT ![i] = "extend"] /\ UNCHANGED leads
     ELSE /\ tick' = [tick EXCEPT ![i] = "idle"]
          /\ leads' = [leads EXCEPT ![i] = FALSE]
  /\ UNCHANGED <<holder, proc, left, registered, lapsed, errors, starts>>

\* PEXPIRE does not look at the value; its answer is ignored.
Extend(i) ==
  /\ tick[i] = "extend"
  /\ Lead(i)
  /\ UNCHANGED <<holder, proc, registered, lapsed, errors, starts>>

\* upsertJobScheduler, once per cadence, keyed by its scheduler id.
Register(i) ==
  /\ tick[i] = "register"
  /\ \E c \in left[i] :
       /\ registered' = registered \cup {c}
       /\ left' = [left EXCEPT ![i] = @ \ {c}]
       /\ tick' = [tick EXCEPT ![i] = IF left[i] = {c} THEN "idle" ELSE @]
  /\ UNCHANGED <<holder, proc, leads, lapsed, errors, starts>>

\* A rejected command ends the tick: logged, and tried again at the next one.
TickError(i) ==
  /\ tick[i] # "idle" /\ errors < MaxErrors
  /\ errors' = errors + 1
  /\ tick' = [tick EXCEPT ![i] = "idle"] /\ left' = [left EXCEPT ![i] = {}]
  /\ UNCHANGED <<holder, proc, leads, registered, lapsed, starts>>

\* SIGTERM: no further ticks; one in flight runs on beside the release.
Signal(i) ==
  /\ proc[i] = "up"
  /\ proc' = [proc EXCEPT ![i] = "release"]
  /\ UNCHANGED <<holder, tick, left, leads, registered, lapsed, errors, starts>>

ReleaseRead(i) ==
  /\ proc[i] = "release"
  /\ proc' = [proc EXCEPT ![i] = IF holder = i THEN "delete" ELSE "closing"]
  /\ UNCHANGED <<holder, tick, left, leads, registered, lapsed, errors, starts>>

ReleaseDelete(i) ==
  /\ proc[i] = "delete"
  /\ holder' = Nobody
  /\ proc' = [proc EXCEPT ![i] = "closing"]
  /\ UNCHANGED <<tick, left, leads, registered, lapsed, errors, starts>>

\* The process ends: after its shutdown, by its force-exit timer, or by a crash.
Exit(i) ==
  /\ proc[i] # "down"
  /\ proc' = [proc EXCEPT ![i] = "down"]
  /\ tick' = [tick EXCEPT ![i] = "idle"] /\ left' = [left EXCEPT ![i] = {}]
  /\ leads' = [leads EXCEPT ![i] = FALSE]
  /\ UNCHANGED <<holder, registered, lapsed, errors, starts>>

\* The lease runs out.
Expire ==
  /\ holder # Nobody
  /\ holder' = Nobody
  /\ lapsed' = (lapsed \/ proc[holder] # "down")
  /\ UNCHANGED <<proc, tick, left, leads, registered, errors, starts>>

TickStep(i) == Acquire(i) \/ Read(i) \/ Extend(i) \/ Register(i)

Next ==
  \/ \E i \in Instances :
       \/ Start(i) \/ TickStep(i) \/ TickError(i)
       \/ Signal(i) \/ ReleaseRead(i) \/ ReleaseDelete(i) \/ Exit(i)
  \/ Expire

Spec == Init /\ [][Next]_vars

\* The lease of a holder that has stopped ticking is not renewed and runs out.
Lapse == holder # Nobody /\ proc[holder] # "up" /\ Expire

\* The interval timer keeps firing in a live process, and Redis expires the key.
Fairness == WF_vars(Lapse) /\ \A i \in Instances : WF_vars(TickStep(i))
-----------------------------------------------------------------------------
\* As long as no lease has run out under a live holder, at most one instance in
\* service believes it leads, across crashes, restarts, errors and shutdowns.
OneLeader ==
  lapsed \/ \A i, k \in Instances :
    proc[i] = "up" /\ leads[i] /\ proc[k] = "up" /\ leads[k] => i = k

\* An instance that stays up gets every cadence registered, by itself or by
\* whoever leads, whichever instances crash with the lease in hand.
CadencesRegistered ==
  \A i \in Instances : proc[i] = "up" ~> (registered = Cadences \/ proc[i] # "up")
=============================================================================
