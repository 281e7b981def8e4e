----------------------------- MODULE WarmupRow ------------------------------
(* The WarmupState table and its repository: every access goes through        *)
(* getOrCreate, which reads the oldest row and, when there is none, inserts   *)
(* one in a second statement; an update then addresses the row by id.         *)
(* Clients are the send guard (reads), the operator's toggle and the          *)
(* warmup:recalc job, which reads, may set the cap, and reconciles the window. *)
EXTENDS Integers

CONSTANTS
  Clients,
  MaxRows,    \* bound: rows ever inserted
  MaxAge      \* bound: days of the ramp

ASSUME RowAssumption == MaxRows \in Nat \ {0} /\ MaxAge \in Nat

VARIABLES
  rows,    \* row ids 1..n in creation order, with their switch and cap
  age,     \* days since the ramp began; the cap recalc computes from it
  pc, op,  \* per client: its next statement, and the operation it belongs to
  mine,    \* per client: the id of the row getOrCreate returned
  seen,    \* per client: that row as it was read
  thrown   \* history: the value of the last toggle that took effect

rowVars == <<rows, age, pc, op, mine, seen, thrown>>

Row == [killSwitch : BOOLEAN, dailyCap : 0..MaxAge]
Default == [killSwitch |-> FALSE, dailyCap |-> 0]
Ids == 1..MaxRows
Exists(r) == r \in DOMAIN rows

Operations == {"guard", "on", "off", "recalc", "setCap", "reconcile"}

RowTypeOK ==
  /\ \E n \in 0..MaxRows : rows \in [1..n -> Row]
  /\ age \in 0..MaxAge
  /\ pc \in [Clients -> {"idle", "find", "create", "use"}]
  /\ op \in [Clients -> Operations]
  /\ mine \in [Clients -> {0} \cup Ids] /\ seen \in [Clients -> Row]
  /\ thrown \in BOOLEAN

RowInit ==
  /\ rows = [r \in 1..0 |-> Default]
  /\ age = 0
  /\ pc = [c \in Clients |-> "idle"] /\ op = [c \in Clients |-> "guard"]
  /\ mine = [c \in Clients |-> 0] /\ seen = [c \in Clients |-> Default]
  /\ thrown = FALSE
-----------------------------------------------------------------------------
Goto(c, label) == pc' = [pc EXCEPT ![c] = label]

Begin(c, o) ==
  /\ pc[c] = "idle"
  /\ Goto(c, "find") /\ op' = [op EXCEPT ![c] = o]
  /\ UNCHANGED <<rows, age, mine, seen, thrown>>

\* findFirst ordered by createdAt: the oldest row is the one that counts.
Find(c) ==
  /\ pc[c] = "find"
  /\ IF Exists(1)
     THEN /\ Goto(c, "use")
          /\ mine' = [mine EXCEPT ![c] = 1] /\ seen' = [seen EXCEPT ![c] = rows[1]]
     ELSE Goto(c, "create") /\ UNCHANGED <<mine, seen>>
  /\ UNCHANGED <<rows, age, op, thrown>>

\* No unique constraint: the insert succeeds whatever others inserted meanwhile.
Create(c) ==
  /\ pc[c] = "create"
  /\ \E n \in Ids :
       /\ ~Exists(n) /\ \A r \in 1..(n - 1) : Exists(r)
       /\ rows' = [r \in 1..n |-> IF r = n THEN Default ELSE rows[r]]
       /\ mine' = [mine EXCEPT ![c] = n] /\ seen' = [seen EXCEPT ![c] = Default]
  /\ Goto(c, "use")
  /\ UNCHANGED <<age, op, thrown>>

\* The guard and the queries only read.
ReadRow(c) ==
  /\ pc[c] = "use" /\ op[c] = "guard"
  /\ Goto(c, "idle")
  /\ UNCHANGED <<rows, age, op, mine, seen, thrown>>

Toggle(c) ==
  /\ pc[c] = "use" /\ op[c] \in {"on", "off"}
  /\ rows' = [rows EXCEPT ![mine[c]].killSwitch = op[c] = "on"]
  /\ thrown' = (op[c] = "on")
  /\ Goto(c, "idle")
  /\ UNCHANGED <<age, op, mine, seen>>

\* recalc compares the row it read with the ramp; setDailyCap and
\* reconcileWindow each start with a getOrCreate of their own.
Recalc(c) ==
  /\ pc[c] = "use" /\ op[c] = "recalc"
  /\ op' = [op EXCEPT ![c] = IF age # seen[c].dailyCap THEN "setCap" ELSE "reconcile"]
  /\ Goto(c, "find")
  /\ UNCHANGED <<rows, age, mine, seen, thrown>>

\* Mutant: the update writes back the whole row that was read.
SetDailyCap_WholeRow(c) ==
  /\ pc[c] = "use" /\ op[c] = "setCap"
  /\ rows' = [rows EXCEPT ![mine[c]] = [seen[c] EXCEPT !.dailyCap = age]]
  /\ op' = [op EXCEPT ![c] = "reconcile"]
  /\ Goto(c, "find")
  /\ UNCHANGED <<age, mine, seen, thrown>>

SetDailyCap(c) ==
  /\ pc[c] = "use" /\ op[c] = "setCap"
  /\ rows' = [rows EXCEPT ![mine[c]].dailyCap = age]
  /\ op' = [op EXCEPT ![c] = "reconcile"]
  /\ Goto(c, "find")
  /\ UNCHANGED <<age, mine, seen, thrown>>

\* reconcileWindow writes the displayed counters only.
ReconcileWindow(c) ==
  /\ pc[c] = "use" /\ op[c] = "reconcile"
  /\ Goto(c, "idle")
  /\ UNCHANGED <<rows, age, op, mine, seen, thrown>>

\* A statement is rejected, or the process dies: the operation is abandoned.
Abandon(c) ==
  /\ pc[c] # "idle"
  /\ Goto(c, "idle")
  /\ UNCHANGED <<rows, age, op, mine, seen, thrown>>

NextDay ==
  /\ age < MaxAge
  /\ age' = age + 1
  /\ UNCHANGED <<rows, pc, op, mine, seen, thrown>>

RowNext ==
  \/ \E c \in Clients :
       \/ \E o \in {"guard", "on", "off", "recalc"} : Begin(c, o)
       \/ Find(c) \/ Create(c) \/ ReadRow(c) \/ Toggle(c)
       \/ Recalc(c) \/ SetDailyCap(c) \/ ReconcileWindow(c) \/ Abandon(c)
  \/ NextDay

RowSpec == RowInit /\ [][RowNext]_rowVars
-----------------------------------------------------------------------------
\* The runbook says that flipping the kill-switch takes effect on the next send:
\* the switch the guard reads is the one last thrown, although recalc rewrites
\* the same row and operators toggle concurrently.  It holds until a second row
\* exists: a toggle that raced the first reader throws the switch of a younger
\* row, which no guard reads.
SwitchObeyed == Exists(1) /\ ~Exists(2) => rows[1].killSwitch = thrown
=============================================================================
