\* One mailbox, one send job over two attempts, a stall and transient errors, while the
\* agent answers and opts out: replies find or create threads and move them on, an
\* opt-out closes them.
SPECIFICATION Spec
CONSTANTS
  a1 = a1
  a2 = a2
  s1 = s1
  s2 = s2
  r1 = r1
  v1 = v1
  v2 = v2
  Agents = {a1}
  NoAgent = NoAgent
  Emails <- M1
  EmailOf <- Mailboxes
  DomainOf <- OneAgency
  InitialAgents = {a1}
  EventIds = {v1}
  Corporate = {a1}
  SendJobs = {s1}
  SendAgent <- ToEach
  MaxThreads = 2
  MaxDay = 0
  DefaultCap = 2
  BaseCap = 2
  CapStep = 1
  MaxCap = 2
  CooldownDays = 1
  BreakerDays = 0
  BounceMinSample = 1
  ComplaintMinSample = 2
  BouncePermille = 20
  ComplaintPermille = 1
  MaxAttempts = 2
  MaxStalls = 1
  Unsubscribers = {"m1"}
  Bouncers = {}
  Erasable = {}
  Probed = {}
  Replies = {r1}
  ReplyFrom <- FromM1
  Operator = FALSE
  Flaky = TRUE
  CadenceDays = 0
INVARIANTS
  OneThreadPerJob
CHECK_DEADLOCK FALSE
