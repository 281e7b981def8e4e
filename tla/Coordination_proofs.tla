------------------------- MODULE Coordination_proofs -------------------------
(* The two single things that several processes meet at: the scheduler's lease *)
(* in Redis, and the warm-up row in Postgres. At most one scheduler leads       *)
(* unless a lease lapsed under a live holder, and while the table has one row,  *)
(* the switch last thrown is the switch read; for any number of instances,      *)
(* clients, errors and restarts, and any length of the ramp.                    *)
EXTENDS LeaderLock, WarmupRow, TLAPS
-----------------------------------------------------------------------------
(* The lease *)

\* A dead process has no tick and no belief.
DeadIsBlank == \A i \in Instances : proc[i] = "down" => tick[i] = "idle" /\ ~leads[i]

\* Whoever, in service, leads or is about to say so still holds the lease, and so
\* does whoever is about to delete it.
HeldBy == ~lapsed =>
  \A i \in Instances :
    /\ proc[i] = "up" /\ (leads[i] \/ tick[i] = "extend") => holder = i
    /\ proc[i] = "delete" => holder = i

LeaseInv == TypeOK /\ DeadIsBlank /\ HeldBy

LEMMA LeaseInitInv == Init => LeaseInv
<1> SUFFICES ASSUME Init PROVE LeaseInv
  OBVIOUS
<1>1. TypeOK
  <2>1. left \in [Instances -> SUBSET Cadences]
    BY DEF Init
  <2>2. registered \subseteq Cadences /\ errors \in 0..MaxErrors /\ starts \in 0..MaxStarts
    BY BoundAssumption DEF Init
  <2>3. /\ holder \in Instances \cup {Nobody} /\ lapsed \in BOOLEAN
        /\ proc \in [Instances -> {"up", "release", "delete", "closing", "down"}]
        /\ tick \in [Instances -> {"idle", "get", "extend", "register"}]
        /\ leads \in [Instances -> BOOLEAN]
    BY DEF Init
  <2> QED
    BY <2>1, <2>2, <2>3 DEF TypeOK
<1>2. DeadIsBlank
  BY DEF Init, DeadIsBlank
<1>3. HeldBy
  BY DEF Init, HeldBy
<1> QED
  BY <1>1, <1>2, <1>3 DEF LeaseInv

\* A step keeps the types; the two histories and the lease follow by themselves.
LEMMA StepType == TypeOK /\ [Next]_vars => TypeOK'
<1> SUFFICES ASSUME TypeOK, [Next]_vars PROVE TypeOK'
  OBVIOUS
<1> USE InstanceAssumption, BoundAssumption DEF TypeOK
<1>1. ASSUME NEW i \in Instances, Start(i) PROVE TypeOK'
  BY <1>1 DEF Start
<1>2. ASSUME NEW i \in Instances, Acquire(i) PROVE TypeOK'
  <2>1. CASE holder = Nobody
    <3>1. holder' = i /\ Lead(i) /\ UNCHANGED <<proc, registered, lapsed, errors, starts>>
      BY <1>2, <2>1 DEF Acquire
    <3> QED
      BY <3>1 DEF Lead
  <2>2. CASE holder # Nobody
    BY <1>2, <2>2 DEF Acquire
  <2> QED
    BY <2>1, <2>2
<1>3. ASSUME NEW i \in Instances, Read(i) PROVE TypeOK'
  BY <1>3 DEF Read
<1>4. ASSUME NEW i \in Instances, Extend(i) PROVE TypeOK'
  BY <1>4 DEF Extend, Lead
<1>5. ASSUME NEW i \in Instances, Register(i) PROVE TypeOK'
  BY <1>5 DEF Register
<1>6. ASSUME NEW i \in Instances, TickError(i) PROVE TypeOK'
  BY <1>6 DEF TickError
<1>7. ASSUME NEW i \in Instances, Signal(i) PROVE TypeOK'
  BY <1>7 DEF Signal
<1>8. ASSUME NEW i \in Instances, ReleaseRead(i) PROVE TypeOK'
  BY <1>8 DEF ReleaseRead
<1>9. ASSUME NEW i \in Instances, ReleaseDelete(i) PROVE TypeOK'
  BY <1>9 DEF ReleaseDelete
<1>10. ASSUME NEW i \in Instances, Exit(i) PROVE TypeOK'
  BY <1>10 DEF Exit
<1>11. CASE Expire
  BY <1>11 DEF Expire
<1>12. CASE UNCHANGED vars
  BY <1>12 DEF vars
<1> QED
  BY <1>1, <1>2, <1>3, <1>4, <1>5, <1>6, <1>7, <1>8, <1>9, <1>10, <1>11, <1>12
     DEF Next, TickStep

\* Only Acquire and Expire move the lease, besides the DEL of its holder.
LEMMA StepHeld == TypeOK /\ DeadIsBlank /\ HeldBy /\ [Next]_vars => DeadIsBlank' /\ HeldBy'
<1> SUFFICES ASSUME TypeOK, DeadIsBlank, HeldBy, [Next]_vars
             PROVE  DeadIsBlank' /\ HeldBy'
  OBVIOUS
<1> USE InstanceAssumption DEF TypeOK, DeadIsBlank, HeldBy
<1>1. ASSUME NEW i \in Instances, Start(i) PROVE DeadIsBlank' /\ HeldBy'
  BY <1>1 DEF Start
<1>2. ASSUME NEW i \in Instances, Acquire(i) PROVE DeadIsBlank' /\ HeldBy'
  <2>1. CASE holder = Nobody
    BY <1>2, <2>1 DEF Acquire, Lead
  <2>2. CASE holder # Nobody
    BY <1>2, <2>2 DEF Acquire
  <2> QED
    BY <2>1, <2>2
<1>3. ASSUME NEW i \in Instances, Read(i) PROVE DeadIsBlank' /\ HeldBy'
  <2>1. CASE holder = i
    BY <1>3, <2>1 DEF Read
  <2>2. CASE holder # i
    BY <1>3, <2>2 DEF Read
  <2> QED
    BY <2>1, <2>2
<1>4. ASSUME NEW i \in Instances, Extend(i) PROVE DeadIsBlank' /\ HeldBy'
  BY <1>4 DEF Extend, Lead
<1>5. ASSUME NEW i \in Instances, Register(i) PROVE DeadIsBlank' /\ HeldBy'
  BY <1>5 DEF Register
<1>6. ASSUME NEW i \in Instances, TickError(i) PROVE DeadIsBlank' /\ HeldBy'
  BY <1>6 DEF TickError
<1>7. ASSUME NEW i \in Instances, Signal(i) PROVE DeadIsBlank' /\ HeldBy'
  BY <1>7 DEF Signal
<1>8. ASSUME NEW i \in Instances, ReleaseRead(i) PROVE DeadIsBlank' /\ HeldBy'
  <2>1. CASE holder = i
    BY <1>8, <2>1 DEF ReleaseRead
  <2>2. CASE holder # i
    BY <1>8, <2>2 DEF ReleaseRead
  <2> QED
    BY <2>1, <2>2
<1>9. ASSUME NEW i \in Instances, ReleaseDelete(i) PROVE DeadIsBlank' /\ HeldBy'
  BY <1>9 DEF ReleaseDelete
<1>10. ASSUME NEW i \in Instances, Exit(i) PROVE DeadIsBlank' /\ HeldBy'
  BY <1>10 DEF Exit
<1>11. CASE Expire
  BY <1>11 DEF Expire
<1>12. CASE UNCHANGED vars
  BY <1>12 DEF vars
<1> QED
  BY <1>1, <1>2, <1>3, <1>4, <1>5, <1>6, <1>7, <1>8, <1>9, <1>10, <1>11, <1>12
     DEF Next, TickStep

LEMMA LeaseStepInv == LeaseInv /\ [Next]_vars => LeaseInv'
BY StepType, StepHeld DEF LeaseInv

\* acquireOrRenewLeader and releaseLeader: the GET decides, and as long as no
\* lease runs out under a live holder its answer is still true when it is used,
\* so at most one scheduler in service believes it leads.
THEOREM OneLeaderHolds == Spec => []OneLeader
<1>1. LeaseInv => OneLeader
  BY DEF LeaseInv, HeldBy, OneLeader
<1> QED
  BY <1>1, LeaseInitInv, LeaseStepInv, PTL DEF Spec
-----------------------------------------------------------------------------
(* The row *)

\* Whoever is past getOrCreate addresses a row that exists.
Addressed == \A c \in Clients : pc[c] = "use" => Exists(mine[c])

\* Before the first row no toggle has taken effect.
Untouched == ~Exists(1) => ~thrown

RowInv == RowTypeOK /\ Addressed /\ Untouched /\ SwitchObeyed

LEMMA RowInitInv == RowInit => RowInv
<1> SUFFICES ASSUME RowInit PROVE RowInv
  OBVIOUS
<1>1. rows \in [1..0 -> Row] /\ 0 \in 0..MaxRows /\ ~Exists(1)
  BY RowAssumption DEF RowInit, Exists
<1>2. Default \in Row
  BY RowAssumption DEF Default, Row
<1>3. RowTypeOK
  <2>1. \E n \in 0..MaxRows : rows \in [1..n -> Row]
    BY <1>1
  <2>2. "guard" \in Operations
    BY DEF Operations
  <2>3. /\ pc \in [Clients -> {"idle", "find", "create", "use"}]
        /\ op \in [Clients -> Operations] /\ seen \in [Clients -> Row]
    BY <1>2, <2>2 DEF RowInit
  <2>4. mine \in [Clients -> {0} \cup Ids]
    BY DEF RowInit
  <2>5. age \in 0..MaxAge
    BY RowAssumption DEF RowInit
  <2>6. thrown \in BOOLEAN
    BY DEF RowInit
  <2> QED
    BY <2>1, <2>3, <2>4, <2>5, <2>6 DEF RowTypeOK
<1>4. Addressed /\ Untouched /\ SwitchObeyed
  BY <1>1 DEF RowInit, Addressed, Untouched, SwitchObeyed
<1> QED
  BY <1>3, <1>4 DEF RowInv

\* A step that leaves the table and the switch alone, and whose client is past
\* getOrCreate only with an existing row, keeps the invariant.
LEMMA ClientPreserves ==
  ASSUME RowInv, NEW c \in Clients,
         NEW label \in {"idle", "find", "create", "use"}, pc' = [pc EXCEPT ![c] = label],
         NEW o \in Operations, op' = [op EXCEPT ![c] = o],
         NEW m \in {0} \cup Ids, mine' = [mine EXCEPT ![c] = m],
         NEW s \in Row, seen' = [seen EXCEPT ![c] = s],
         label = "use" => Exists(m),
         UNCHANGED <<rows, age, thrown>>
  PROVE  RowInv'
<1>1. RowTypeOK'
  BY DEF RowInv, RowTypeOK
<1>2. Addressed'
  BY DEF RowInv, RowTypeOK, Addressed, Exists
<1>3. Untouched' /\ SwitchObeyed'
  BY DEF RowInv, Untouched, SwitchObeyed, Exists
<1> QED
  BY <1>1, <1>2, <1>3 DEF RowInv

\* An update through the row's id changes one column of an existing row.
LEMMA UpdatePreserves ==
  ASSUME RowInv, NEW c \in Clients, pc[c] = "use",
         NEW r \in Row, rows' = [rows EXCEPT ![mine[c]] = r],
         NEW label \in {"idle", "find"}, pc' = [pc EXCEPT ![c] = label],
         NEW o \in Operations, op' = [op EXCEPT ![c] = o],
         \/ thrown' = thrown /\ r.killSwitch = rows[mine[c]].killSwitch
         \/ thrown' = r.killSwitch,
         UNCHANGED <<age, mine, seen>>
  PROVE  RowInv'
<1>1. PICK n \in 0..MaxRows : rows \in [1..n -> Row]
  BY DEF RowInv, RowTypeOK
<1>2. mine[c] \in 1..n
  BY <1>1 DEF RowInv, Addressed, Exists
<1>3. rows' \in [1..n -> Row] /\ DOMAIN rows' = DOMAIN rows
  BY <1>1, <1>2
<1>4. thrown' \in BOOLEAN
  BY DEF RowInv, RowTypeOK, Row
<1>5. RowTypeOK'
  <2>1. /\ pc' \in [Clients -> {"idle", "find", "create", "use"}]
        /\ op' \in [Clients -> Operations]
    BY DEF RowInv, RowTypeOK
  <2>2. mine' \in [Clients -> {0} \cup Ids] /\ seen' \in [Clients -> Row] /\ age' \in 0..MaxAge
    BY DEF RowInv, RowTypeOK
  <2> QED
    BY <1>3, <1>4, <2>1, <2>2 DEF RowTypeOK
<1>6. Addressed'
  BY <1>3 DEF RowInv, RowTypeOK, Addressed, Exists
<1>7. Exists(1)
  BY <1>1, <1>2 DEF Exists
<1>8. Untouched'
  BY <1>3, <1>7 DEF Untouched, Exists
<1>9. SwitchObeyed'
  <2> SUFFICES ASSUME ~Exists(2) PROVE rows'[1].killSwitch = thrown'
    BY <1>3 DEF SwitchObeyed, Exists
  <2>1. mine[c] = 1 /\ n = 1
    BY <1>1, <1>2 DEF Exists
  <2>2. rows'[1] = r
    BY <1>1, <2>1
  <2>3. rows[1].killSwitch = thrown
    BY <1>7 DEF RowInv, SwitchObeyed
  <2> QED
    BY <2>1, <2>2, <2>3
<1> QED
  BY <1>5, <1>6, <1>8, <1>9 DEF RowInv

LEMMA CreatePreserves ==
  ASSUME RowInv, NEW c \in Clients, Create(c) PROVE RowInv'
<1>1. PICK n \in Ids :
        /\ ~Exists(n) /\ \A r \in 1..(n - 1) : Exists(r)
        /\ rows' = [r \in 1..n |-> IF r = n THEN Default ELSE rows[r]]
        /\ mine' = [mine EXCEPT ![c] = n] /\ seen' = [seen EXCEPT ![c] = Default]
  BY DEF Create
<1>2. PICK k \in 0..MaxRows : rows \in [1..k -> Row]
  BY DEF RowInv, RowTypeOK
<1>3. k = n - 1
  <2>1. DOMAIN rows = 1..k /\ k \in Nat /\ n \in Nat \ {0}
    BY <1>2, RowAssumption DEF Ids
  <2>2. n \notin 1..k
    BY <1>1, <2>1 DEF Exists
  <2>3. n > 1 => n - 1 \in 1..k
    BY <1>1, <2>1 DEF Exists
  <2> QED
    BY <2>1, <2>2, <2>3
<1>4. Default \in Row
  BY RowAssumption DEF Default, Row
<1>5. rows' \in [1..n -> Row] /\ n \in 0..MaxRows
  BY <1>1, <1>2, <1>3, <1>4, RowAssumption DEF Ids
<1>6. RowTypeOK'
  <2>1. /\ pc' \in [Clients -> {"idle", "find", "create", "use"}]
        /\ op' \in [Clients -> Operations] /\ age' \in 0..MaxAge /\ thrown' \in BOOLEAN
    BY DEF RowInv, RowTypeOK, Create, Goto
  <2>2. mine' \in [Clients -> {0} \cup Ids] /\ seen' \in [Clients -> Row]
    BY <1>1, <1>4 DEF RowInv, RowTypeOK
  <2> QED
    BY <1>5, <2>1, <2>2 DEF RowTypeOK
<1>7. DOMAIN rows' = 1..n /\ DOMAIN rows = 1..(n - 1)
  BY <1>1, <1>2, <1>3
<1>8. Addressed'
  <2> SUFFICES ASSUME NEW b \in Clients, pc'[b] = "use" PROVE mine'[b] \in DOMAIN rows'
    BY DEF Addressed, Exists
  <2>1. CASE b = c
    BY <1>1, <1>7, <2>1 DEF RowInv, RowTypeOK, Ids
  <2>2. CASE b # c
    <3>1. mine'[b] = mine[b] /\ pc'[b] = pc[b]
      BY <1>1, <2>2 DEF RowInv, RowTypeOK, Create, Goto
    <3>2. mine[b] \in 1..(n - 1)
      BY <1>7, <3>1 DEF RowInv, Addressed, Exists
    <3> QED
      BY <1>7, <3>1, <3>2 DEF Ids
  <2> QED
    BY <2>1, <2>2
<1>9. Untouched'
  BY <1>7 DEF Ids, Untouched, Exists
<1>10. SwitchObeyed'
  <2> SUFFICES ASSUME ~Exists(2)' PROVE rows'[1].killSwitch = thrown'
    BY DEF SwitchObeyed, Exists
  <2>1. n = 1
    BY <1>7 DEF Exists, Ids
  <2>2. rows'[1].killSwitch = FALSE
    BY <1>1, <2>1 DEF Default
  <2>3. ~thrown /\ thrown' = thrown /\ thrown \in BOOLEAN
    BY <1>1, <2>1 DEF RowInv, RowTypeOK, Untouched, Create
  <2> QED
    BY <2>2, <2>3
<1> QED
  BY <1>6, <1>8, <1>9, <1>10 DEF RowInv

LEMMA RowStepInv == RowInv /\ [RowNext]_rowVars => RowInv'
<1> SUFFICES ASSUME RowInv, [RowNext]_rowVars PROVE RowInv'
  OBVIOUS
<1>t. /\ \E n \in 0..MaxRows : rows \in [1..n -> Row]
      /\ pc \in [Clients -> {"idle", "find", "create", "use"}]
      /\ op \in [Clients -> Operations]
      /\ mine \in [Clients -> {0} \cup Ids] /\ seen \in [Clients -> Row]
      /\ age \in 0..MaxAge /\ thrown \in BOOLEAN
  BY DEF RowInv, RowTypeOK
<1>1. ASSUME NEW c \in Clients, NEW o \in {"guard", "on", "off", "recalc"}, Begin(c, o)
      PROVE  RowInv'
  <2>1. /\ pc' = [pc EXCEPT ![c] = "find"] /\ op' = [op EXCEPT ![c] = o] /\ o \in Operations
        /\ mine' = [mine EXCEPT ![c] = mine[c]] /\ seen' = [seen EXCEPT ![c] = seen[c]]
        /\ UNCHANGED <<rows, age, thrown>>
    BY <1>1, <1>t DEF Begin, Goto, Operations
  <2> QED
    BY <2>1, <1>t, ClientPreserves
<1>2. ASSUME NEW c \in Clients, Find(c) PROVE RowInv'
  <2>0. op' = [op EXCEPT ![c] = op[c]] /\ UNCHANGED <<rows, age, thrown>>
    BY <1>2, <1>t DEF Find
  <2>1. CASE Exists(1)
    <3>1. /\ pc' = [pc EXCEPT ![c] = "use"] /\ mine' = [mine EXCEPT ![c] = 1]
          /\ seen' = [seen EXCEPT ![c] = rows[1]] /\ rows[1] \in Row /\ 1 \in {0} \cup Ids
      BY <1>2, <1>t, <2>1, RowAssumption DEF Find, Goto, Exists, Ids
    <3> QED
      BY <2>0, <2>1, <3>1, <1>t, ClientPreserves
  <2>2. CASE ~Exists(1)
    <3>1. /\ pc' = [pc EXCEPT ![c] = "create"] /\ mine' = [mine EXCEPT ![c] = mine[c]]
          /\ seen' = [seen EXCEPT ![c] = seen[c]]
      BY <1>2, <1>t, <2>2 DEF Find, Goto
    <3> QED
      BY <2>0, <3>1, <1>t, ClientPreserves
  <2> QED
    BY <2>1, <2>2
<1>3. ASSUME NEW c \in Clients, Create(c) PROVE RowInv'
  BY <1>3, CreatePreserves
<1>4. ASSUME NEW c \in Clients, ReadRow(c) \/ ReconcileWindow(c) \/ Abandon(c) PROVE RowInv'
  <2>1. /\ pc' = [pc EXCEPT ![c] = "idle"] /\ op' = [op EXCEPT ![c] = op[c]]
        /\ mine' = [mine EXCEPT ![c] = mine[c]] /\ seen' = [seen EXCEPT ![c] = seen[c]]
        /\ UNCHANGED <<rows, age, thrown>>
    BY <1>4, <1>t DEF ReadRow, ReconcileWindow, Abandon, Goto
  <2> QED
    BY <2>1, <1>t, ClientPreserves
<1>5. ASSUME NEW c \in Clients, Toggle(c) PROVE RowInv'
  <2> DEFINE r == [rows[mine[c]] EXCEPT !.killSwitch = op[c] = "on"]
  <2>1. rows[mine[c]] \in Row
    BY <1>5, <1>t DEF RowInv, Addressed, Exists, Toggle
  <2>2. r \in Row /\ r.killSwitch = (op[c] = "on")
    BY <2>1 DEF Row
  <2>3. /\ rows' = [rows EXCEPT ![mine[c]] = r] /\ thrown' = (op[c] = "on")
        /\ pc' = [pc EXCEPT ![c] = "idle"] /\ op' = [op EXCEPT ![c] = op[c]]
        /\ pc[c] = "use" /\ UNCHANGED <<age, mine, seen>>
    BY <1>5, <1>t DEF Toggle, Goto
  <2> HIDE DEF r
  <2> QED
    BY <2>2, <2>3, <1>t, UpdatePreserves
<1>6. ASSUME NEW c \in Clients, Recalc(c) PROVE RowInv'
  <2>1. PICK o \in {"setCap", "reconcile"} : op' = [op EXCEPT ![c] = o]
    BY <1>6 DEF Recalc
  <2>2. /\ pc' = [pc EXCEPT ![c] = "find"] /\ o \in Operations
        /\ mine' = [mine EXCEPT ![c] = mine[c]] /\ seen' = [seen EXCEPT ![c] = seen[c]]
        /\ UNCHANGED <<rows, age, thrown>>
    BY <1>6, <1>t DEF Recalc, Goto, Operations
  <2> QED
    BY <2>1, <2>2, <1>t, ClientPreserves
<1>7. ASSUME NEW c \in Clients, SetDailyCap(c) PROVE RowInv'
  <2> DEFINE r == [rows[mine[c]] EXCEPT !.dailyCap = age]
  <2>1. rows[mine[c]] \in Row
    BY <1>7, <1>t DEF RowInv, Addressed, Exists, SetDailyCap
  <2>2. r \in Row /\ r.killSwitch = rows[mine[c]].killSwitch
    BY <1>t, <2>1 DEF Row
  <2>3. /\ rows' = [rows EXCEPT ![mine[c]] = r] /\ thrown' = thrown
        /\ pc' = [pc EXCEPT ![c] = "find"] /\ op' = [op EXCEPT ![c] = "reconcile"]
        /\ pc[c] = "use" /\ UNCHANGED <<age, mine, seen>> /\ "reconcile" \in Operations
    BY <1>7, <1>t DEF SetDailyCap, Goto, Operations
  <2> HIDE DEF r
  <2> QED
    BY <2>2, <2>3, <1>t, UpdatePreserves
<1>8. CASE NextDay
  BY <1>8, <1>t, RowAssumption
  DEF NextDay, RowInv, RowTypeOK, Addressed, Untouched, SwitchObeyed, Exists
<1>9. CASE UNCHANGED rowVars
  BY <1>9, <1>t DEF rowVars, RowInv, RowTypeOK, Addressed, Untouched, SwitchObeyed, Exists
<1> QED
  BY <1>1, <1>2, <1>3, <1>4, <1>5, <1>6, <1>7, <1>8, <1>9 DEF RowNext

\* WarmupStateRepository: its column-wise updates never lose a toggle, whoever
\* else updates the row, while the lazily created row is the only one.
THEOREM SwitchHolds == RowSpec => []SwitchObeyed
<1>1. RowInv => SwitchObeyed
  BY DEF RowInv
<1> QED
  BY <1>1, RowInitInv, RowStepInv, PTL DEF RowSpec
=============================================================================
