----------------------------- MODULE MailReading ----------------------------
(* What the inbound path reads in an email before anything is written: which   *)
(* posts of the webhook are taken, who the email is to and from and whether    *)
(* that is believed, what the sender wrote himself, which attachments are      *)
(* kept, and which address the extractor can find in all that.  A body is a    *)
(* sequence of lines, each reduced to its kind or to the address it gives;     *)
(* sizes are megabytes.                                                        *)
EXTENDS Integers, FiniteSets, Sequences, SequencesExt
-----------------------------------------------------------------------------
(* POST /webhooks/resend/inbound.  age: seconds between the post's timestamp   *)
(* and now; signatures: for each entry of the header, whether it is over these *)
(* bytes.                                                                      *)

SVIX_TIMESTAMP_TOLERANCE_SECONDS == 300
MIN_SVIX_SECRET_BYTES == 16

\* Each header goes by two names.
extractSvixHeaders(headers) ==
  {name \in {"id", "timestamp", "signature"} :
     {"svix-" \o name, "webhook-" \o name} \cap headers # {}}

verifySvixSignature(post, secret) ==
  IF extractSvixHeaders(post.headers) # {"id", "timestamp", "signature"} THEN "missing_headers"
  ELSE IF ~post.dated THEN "invalid_timestamp"
  ELSE IF post.age \notin -SVIX_TIMESTAMP_TOLERANCE_SECONDS..SVIX_TIMESTAMP_TOLERANCE_SECONDS
       THEN "stale_timestamp"
  ELSE IF secret.bytes < MIN_SVIX_SECRET_BYTES THEN "invalid_secret"
  ELSE IF TRUE \in post.signatures THEN "ok" ELSE "signature_mismatch"

\* The HTTP answer; an event of another type is accepted and comes to nothing.
respond(post, secret) ==
  LET verdict == verifySvixSignature(post, secret) IN
  IF ~secret.configured THEN 401
  ELSE IF post.body = "none" \/ verdict \in {"missing_headers", "invalid_timestamp"} THEN 400
  ELSE IF verdict = "stale_timestamp" THEN 408
  ELSE IF verdict # "ok" THEN 401
  ELSE IF post.body = "malformed" THEN 400 ELSE 202

Enqueued(post, secret) == respond(post, secret) = 202 /\ post.body = "email.received"
-----------------------------------------------------------------------------
(* Addresses: a header gives one bare, with a display name, or garbled.        *)

INFRA_RECIPIENT_LOCAL_PARTS ==
  {"dmarc", "postmaster", "abuse", "mailer-daemon", "bounce", "bounces", "noreply", "no-reply"}

\* Both forms of an address are read; only a garbled one has no local part.
hasDeliverableRecipient(to) ==
  \E addr \in to : addr.form = "garbled" \/ addr.local \notin INFRA_RECIPIENT_LOCAL_PARTS

\* The sender is looked up and suppressed under the From header as it stands,
\* trimmed and lower-cased: behind a display name no agent is found.
findByEmail(from, owners, nobody) ==
  IF from.form = "bare" /\ from.mailbox \in DOMAIN owners THEN owners[from.mailbox] ELSE nobody

\* The domain behind a sender; a domain is the sequence of its labels.
fromDomain(from) == IF from.form = "garbled" THEN {} ELSE {from.domain}
domainsAligned(a, b) == IsSuffix(a, b) \/ IsSuffix(b, a)

\* A pass for a domain unlike the sender's is a fail; one for a domain that the
\* header does not name, or with a sender that has none, stands.
authVerdict(result, from) ==
  IF /\ result.verdict = "pass"
     /\ \E identity \in result.identity, domain \in fromDomain(from) : ~domainsAligned(identity, domain)
  THEN "fail" ELSE result.verdict

isAuthenticatedSender(results, from) ==
  \E kind \in DOMAIN results : authVerdict(results[kind], from) = "pass"
-----------------------------------------------------------------------------
(* The body *)

QUOTE_MARKERS == {"On ... wrote:", "Original Message", "____", "> ..."}

\* From: is a marker only right above Sent:.
MarkerAt(text, i) ==
  \/ text[i] \in QUOTE_MARKERS
  \/ text[i] = "From:" /\ i < Len(text) /\ text[i + 1] = "Sent:"

\* What stands above the first marker, blank lines apart.
extractReplyText(text) ==
  LET cut == {i \in 1..(Len(text) + 1) : i = Len(text) + 1 \/ MarkerAt(text, i)}
      first == CHOOSE i \in cut : \A j \in cut : i <= j
  IN SelectSeq(SubSeq(text, 1, first - 1), LAMBDA line : line # "blank")

\* "asks" is a line with one of the phrases: unsubscribe, opt out, remove me, ...
isUnsubscribeIntent(text) ==
  LET reply == extractReplyText(text) IN
  reply = <<"stop">> \/ \E i \in DOMAIN reply : reply[i] = "asks"
-----------------------------------------------------------------------------
(* Attachments: first the hydrator's budget, then what the extractor can see.  *)

MAX_ATTACHMENTS_PER_EMAIL == 10
MAX_ATTACHMENT_BYTES == 10
MAX_ATTACHMENT_TOTAL_BYTES == 20
MAX_INLINE_PDF_BYTES == 28
MAX_IMAGE_BYTES == 5

OverBudget(bytes, total) ==
  bytes > MAX_ATTACHMENT_BYTES \/ total + bytes > MAX_ATTACHMENT_TOTAL_BYTES

\* An attachment over a budget, as declared or as downloaded, is skipped; after
\* the tenth that is kept no more are fetched.
hydrate(attachments) ==
  FoldLeft(LAMBDA acc, att :
             IF \/ Len(acc.kept) >= MAX_ATTACHMENTS_PER_EMAIL
                \/ \E bytes \in att.declared \cup {att.byteSize} : OverBudget(bytes, acc.total)
             THEN acc
             ELSE [kept |-> Append(acc.kept, att), total |-> acc.total + att.byteSize],
           [kept |-> <<>>, total |-> 0], attachments)

\* A PDF goes in as it is or flattened, an image if it is small enough, anything
\* else is left out.
toAttachmentInput(att) ==
  CASE att.mimeType = "pdf" ->
         {[kind |-> IF att.byteSize > MAX_INLINE_PDF_BYTES THEN "text" ELSE "document",
           shows |-> att.shows]}
    [] att.mimeType = "image" /\ att.byteSize <= MAX_IMAGE_BYTES ->
         {[kind |-> "image", shows |-> att.shows]}
    [] OTHER -> {}

extractInputs(attachments) ==
  FoldLeft(LAMBDA blocks, att :
             IF Len(blocks) >= MAX_ATTACHMENTS_PER_EMAIL THEN blocks
             ELSE blocks \o SetToSeq(toAttachmentInput(att)),
           <<>>, attachments)
-----------------------------------------------------------------------------
(* The extraction *)

nothingToExtract(email) ==
  /\ hydrate(email.attachments).kept = <<>>
  /\ isUnsubscribeIntent(email.text) \/ extractReplyText(email.text) = <<>>

\* The user's message: subject, sender and the capped reply, then the blocks.  The
\* HTML part is not among it.
buildUserContent(email, maxInput) ==
  LET reply == extractReplyText(email.text)
      blocks == extractInputs(hydrate(email.attachments).kept)
  IN {email.subject} \cup ToSet(SubSeq(reply, 1, IF Len(reply) < maxInput THEN Len(reply) ELSE maxInput))
       \cup {blocks[i].shows : i \in DOMAIN blocks}

\* Anything that is not a string with something in it is null.
asNullableString(value, null) == IF value \in {"blank", "number"} THEN null ELSE value

\* The answers the model may give: the street and the postcode it was shown, or
\* nothing in their place; inventing is ruled out by its instruction.
Said(email, maxInput) ==
  LET shown == buildUserContent(email, maxInput) IN
  [addressRaw : (shown \cap {"street"}) \cup {"blank", "number"},
   postcode : (shown \cap {"postcode"}) \cup {"blank"}]

parseListing(said, null) ==
  [addressRaw |-> asNullableString(said.addressRaw, null),
   postcode |-> asNullableString(said.postcode, null)]

\* The key of a listing is its street, its postcode, or both; with neither it has
\* no key.
buildAddressKey(listing, null) ==
  CASE listing.addressRaw = null -> listing.postcode
    [] listing.postcode = null -> listing.addressRaw
    [] OTHER -> listing.addressRaw \o " " \o listing.postcode

ReadingsOf(email, maxInput, null) ==
  {buildAddressKey(parseListing(said, null), null) : said \in Said(email, maxInput)}
=============================================================================
