\* Two scheduler instances that crash, restart under the same id, shut down and meet
\* Redis errors; and the guard, the operators' toggles and recalc jobs, from an empty
\* table on.
SPECIFICATION Either
CONSTANTS
  Instances = {i1, i2}
  Nobody = Nobody
  Cadences = {warmup, followup}
  MaxErrors = 2
  MaxStarts = 4
  Clients = {c1, c2}
  MaxRows = 2
  MaxAge = 2
INVARIANTS
  OneLeader
  SwitchObeyed
PROPERTIES
  CadencesRegistered
CHECK_DEADLOCK FALSE
