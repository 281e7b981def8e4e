--------------------------- MODULE DeliveryReports --------------------------
(* What the delivery-event pipeline promises, however webhooks are repeated,  *)
(* jobs retried and workers killed: a report is recorded once, a damaging one *)
(* owes a suppression from then on, and only such a debt ever suppresses.     *)
(* The debt may be forgotten (the code does: see EmailEvents), never invented *)
(* and never paid twice.                                                      *)
CONSTANTS
  Reports, Emails, NoRecipient,
  RecipientOf,  \* the address a report is about
  Damaging      \* hard bounces and spam complaints

VARIABLES recorded, owed, suppressed

Init == recorded = {} /\ owed = {} /\ suppressed = {}

Record(d) ==
  /\ d \notin recorded
  /\ recorded' = recorded \cup {d}
  /\ owed' = IF d \in Damaging /\ RecipientOf[d] # NoRecipient THEN owed \cup {d} ELSE owed
  /\ UNCHANGED suppressed

Suppress(d) ==
  /\ d \in owed
  /\ suppressed' = suppressed \cup {RecipientOf[d]}
  /\ owed' = owed \ {d}
  /\ UNCHANGED recorded

Forget(d) ==
  /\ d \in owed
  /\ owed' = owed \ {d}
  /\ UNCHANGED <<recorded, suppressed>>

\* Erasing an agent purges what was reported about its address.
Purge(e) ==
  /\ recorded' = {d \in recorded : RecipientOf[d] # e}
  /\ UNCHANGED <<owed, suppressed>>

Next ==
  \/ \E d \in Reports : Record(d) \/ Suppress(d) \/ Forget(d)
  \/ \E e \in Emails : Purge(e)

Spec == Init /\ [][Next]_<<recorded, owed, suppressed>>
=============================================================================
