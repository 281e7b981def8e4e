--------------------------- MODULE MCEmailEvents ----------------------------
(* Small instances of EmailEvents for TLC. *)
EXTENDS EmailEvents

CONSTANTS hard, soft, lost, ping, m1

\* A hard and a soft bounce of one mailbox, a complaint without a recipient, and
\* a type that is not stored.
Recipients == [d \in Reports |-> IF d = lost THEN NoRecipient ELSE m1]
Types == [d \in Reports |-> CASE d \in {hard, soft} -> "bounced"
                              [] d = ping -> "sent"
                              [] OTHER -> "complained"]
=============================================================================
