---------------------------- MODULE ThreadStatus ----------------------------
(* The OutreachThread lifecycle: the status enum and the pure reducer that    *)
(* every writer of a thread's status is meant to go through                   *)
(* (packages/backend-core/src/lib/outreach/thread-status.ts).                 *)
-----------------------------------------------------------------------------
Statuses == {"active", "awaiting_reply", "replied", "closed"}

ThreadEvents == {"outbound_sent", "inbound_reply", "closed"}

\* Mutant: a sent message leaves the status alone.
advanceThreadStatus_Forgets(current, event) ==
  IF current = "closed" \/ event = "closed" THEN "closed"
  ELSE IF event = "outbound_sent" THEN current ELSE "replied"

\* `closed` absorbs; otherwise the event alone decides the next status.
advanceThreadStatus(current, event) ==
  IF current = "closed" \/ event = "closed" THEN "closed"
  ELSE IF event = "outbound_sent" THEN "awaiting_reply"
  ELSE "replied"
=============================================================================
