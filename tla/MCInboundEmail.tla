--------------------------- MODULE MCInboundEmail ---------------------------
(* Small instances of InboundEmail for TLC.  The emails are given by what is in *)
(* them; what InboundEmail takes as given is what MailReading reads there.      *)
EXTENDS InboundEmail, MailReading

CONSTANTS stop, offer, a1,
  Named  \* messages whose From header carries a display name

Mailbox(name, form) ==
  [form |-> form, mailbox |-> name \o "@agency.uk", local |-> name, domain |-> <<"agency", "uk">>]
Attached(mimeType, byteSize, shows) ==
  [mimeType |-> mimeType, byteSize |-> byteSize, declared |-> {}, shows |-> shows]

\* The STOP quotes our email and carries a brochure too big to be kept; the offer
\* names the street in its text and the postcode in its attachment.
Emails ==
  [m \in Messages |->
     [from |-> Mailbox("jane", IF m \in Named THEN "named" ELSE "bare"), subject |-> "words",
      text |-> IF m = stop THEN <<"stop", "blank", "On ... wrote:", "> ...", "street">>
               ELSE <<"words", "street", "blank", "From:", "Sent:", "asks">>,
      attachments |-> IF m = stop THEN <<Attached("pdf", 12, "postcode")>>
                      ELSE <<Attached("image", 6, "street"), Attached("pdf", 3, "postcode")>>]]

Senders == [m \in Messages |->
  findByEmail(Emails[m].from, [mailbox \in {"jane@agency.uk"} |-> a1], NoAgent)]
Asking == {m \in Messages : isUnsubscribeIntent(Emails[m].text)}
Empty == {m \in Messages : nothingToExtract(Emails[m])}
Read == [m \in Messages |-> ReadingsOf(Emails[m], 100, NoAddress)]

\* What the provider posts: the STOP twice, and each email once more too late.
Secret == [configured |-> TRUE, bytes |-> 24]
Post(age) == [headers |-> {"svix-id", "webhook-timestamp", "svix-signature"}, dated |-> TRUE, age |-> age,
              signatures |-> {FALSE, TRUE}, body |-> "email.received"]
Posts == [m \in Messages |-> IF m = stop THEN <<Post(2), Post(300), Post(301)>>
                             ELSE <<Post(-300), Post(301)>>]
Posted == [m \in Messages |-> Cardinality({i \in DOMAIN Posts[m] : Enqueued(Posts[m][i], Secret)})]

\* Either email may go to one of these, and come with one of these results.
Recipients == {{}, {Mailbox("dmarc", "named")}, {Mailbox("dmarc", "bare"), Mailbox("bryan", "named")}}
Result(verdict, identity) == [verdict |-> verdict, identity |-> identity]
Results == {[spf |-> Result("softfail", {}), dkim |-> Result("pass", {<<"mail", "agency", "uk">>})],
            [spf |-> Result("pass", {<<"bulk", "uk">>}), dkim |-> Result("none", {})],
            [spf |-> Result("fail", {}), dkim |-> Result("pass", {})]}

\* The envelopes decide who is turned away and who is not believed.
ReadInit ==
  /\ Init
  /\ \E to \in [Messages -> Recipients] : infra = {m \in Messages : ~hasDeliverableRecipient(to[m])}
  /\ \E results \in [Messages -> Results] :
       forged = {m \in Messages : ~isAuthenticatedSender(results[m], Emails[m].from)}
ReadSpec == ReadInit /\ [][Next]_vars

\* Whatever stands below a quoted line, and a From: line that no Sent: follows,
\* changes nothing of what the sender is taken to say.
Lines == {"stop", "asks", "words", "blank", "> ...", "From:", "Sent:"}
Texts == UNION {[1..n -> Lines] : n \in 0..3}
ASSUME QuotesAreNotRead ==
  \A text \in Texts, below \in Lines :
    /\ extractReplyText(text \o <<"> ...", below>>) = extractReplyText(text)
    /\ isUnsubscribeIntent(text) =>
         \E i \in DOMAIN text : text[i] \in {"stop", "asks"} /\ \A j \in 1..i : ~MarkerAt(text, j)

\* A STOP suppresses the agent whose mailbox it came from.
StopSuppressesItsAuthor ==
  \A m \in Stops \ infra : pc[m] = "completed" => a1 \in suppressed /\ a1 \in optedOut
=============================================================================
