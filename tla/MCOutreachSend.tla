--------------------------- MODULE MCOutreachSend ---------------------------
(* Small instances of OutreachSend for TLC. *)
EXTENDS OutreachSend, TLC

CONSTANTS a1, a2, s1, s2, r1, v1, v2

\* Two mailboxes of one agency.
OneAgency == [e \in Emails |-> "agency"]
Mailboxes == [a \in Agents |-> IF a = a1 THEN "m1" ELSE "m2"]
ToEach == [j \in SendJobs |-> IF j = s1 THEN a1 ELSE a2]

\* One mailbox whose row can be erased and found again under a new id.
SameMailbox == [a \in Agents |-> "m1"]

\* Replies come from the first mailbox.
FromM1 == [r \in Replies |-> "m1"]

\* Provider event ids are only compared with one another.
EventSymmetry == Permutations({v1, v2})

M1 == {"m1"}
M1M2 == {"m1", "m2"}
=============================================================================
