---------------------------- MODULE EmailVerifiers ----------------------------
(* Whether a mailbox is worth writing to, by an SMTP conversation that stops at *)
(* RCPT TO or by a verification service. Only "undeliverable" blocks a send, so *)
(* every doubt is "unknown".                                                    *)
EXTENDS Integers, Sequences, SequencesExt

EmailDeliverability == {"unknown", "deliverable", "undeliverable"}

\* A line of a server: a code (0: none), `more` lines of this reply to come, the
\* class of its enhanced status (0: none), and whether its text reads as a policy
\* block or as naming a dead mailbox.
Line(code, more, klass, policy, dead) ==
  [code |-> code, more |-> more, klass |-> klass, policy |-> policy, dead |-> dead]

\* A reply has the code of its last line and the text of all of them.
Joined(lines) ==
  LET classes == SelectSeq(lines, LAMBDA l : l.klass # 0)
  IN  Line(Last(lines).code, FALSE, IF classes = <<>> THEN 0 ELSE classes[1].klass,
           \E i \in DOMAIN lines : lines[i].policy, \E i \in DOMAIN lines : lines[i].dead)
nextReply(lines) ==
  LET ends == {i \in DOMAIN lines : ~lines[i].more /\ lines[i].code # 0}
      end == CHOOSE i \in ends : \A k \in ends : i <= k
  IN  IF ends = {} THEN [got |-> FALSE, reply |-> Line(0, FALSE, 0, FALSE, FALSE), rest |-> <<>>]
      ELSE [got |-> TRUE, reply |-> Joined(SubSeq(lines, 1, end)),
            rest |-> SubSeq(lines, end + 1, Len(lines))]

\* A 5xx for a policy is about our address, not about the mailbox.
classifyRcptReply(r) ==
  IF r.code \in 200..299 THEN "deliverable"
  ELSE IF r.code < 500 \/ r.klass = 7 \/ r.policy THEN "unknown"
  ELSE IF r.klass = 1 \/ r.dead THEN "undeliverable" ELSE "unknown"

\* Greeting, EHLO, MAIL FROM, RCPT TO; the lines end where the server hangs up or
\* stops answering.
probe(lines) ==
  LET greeting == nextReply(lines)
      ehlo == nextReply(greeting.rest)
      mailFrom == nextReply(ehlo.rest)
      rcpt == nextReply(mailFrom.rest)
      Goes(r) == r.got /\ r.reply.code < 400
  IN  IF Goes(greeting) /\ Goes(ehlo) /\ Goes(mailFrom) /\ rcpt.got
      THEN classifyRcptReply(rcpt.reply) ELSE "unknown"

mapNeverBounceResult(result) ==
  CASE result = "valid" -> "deliverable" [] result = "invalid" -> "undeliverable"
    [] OTHER -> "unknown"

\* Role inboxes, the ones we write to, come as do_not_mail.
mapZeroBounceResult(status, subStatus) ==
  CASE status = "valid" -> "deliverable"
    [] status \in {"invalid", "spamtrap"} -> "undeliverable"
    [] status = "do_not_mail" /\ subStatus \in {"disposable", "toxic", "global_suppression", "possible_trap"}
         -> "undeliverable"
    [] OTHER -> "unknown"

\* An answer is [by, lines, ok, status, sub]: by SMTP lines, or a service's two words
\* when the call came back well.
zeroBounce(answer) == IF answer.ok THEN mapZeroBounceResult(answer.status, answer.sub) ELSE "unknown"
neverBounce(answer) == IF answer.ok THEN mapNeverBounceResult(answer.status) ELSE "unknown"
smtp(answer) == IF answer.ok THEN probe(answer.lines) ELSE "unknown" \* ok: the domain has a host
verify(answer) ==
  CASE answer.by = "zerobounce" -> zeroBounce(answer) [] answer.by = "neverbounce" -> neverBounce(answer)
    [] OTHER -> smtp(answer)
=============================================================================
