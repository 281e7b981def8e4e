\* A hard and a soft bounce of one mailbox, a complaint without a recipient and a
\* type that is not stored, redelivered, retried, stalled and purged.
SPECIFICATION Spec
CONSTANTS
  hard = hard
  soft = soft
  lost = lost
  ping = ping
  m1 = m1
  Reports = {hard, soft, lost, ping}
  Emails = {m1}
  NoRecipient = NoRecipient
  RecipientOf <- Recipients
  TypeOf <- Types
  Permanent = {hard}
  MaxAttempts = 2
  MaxStalls = 1
  Faulty = {hard, soft}
INVARIANTS
  TypeOK
PROPERTIES
  KeepsPromise
CHECK_DEADLOCK FALSE
