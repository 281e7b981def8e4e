# HomeRanger in TLA+

HomeRanger finds UK estate agents, sends them cold B2B email under a legal and
reputational safety model, reads their replies and scrapes listing sites, and
turns what it finds into a catalogue scored against the operator's saved
searches. The TLA+ modules in this directory model that system where a mistake
is expensive and a unit test is weak: the outbound email path and everything
that runs beside it first, then the way of a listing into the catalogue and its
scores, the pool of agents behind a search, and the operator's screens over the
API. TLC checks small instances; TLAPS proves the most important results for
every value of the constants.

Paths below are relative to the repository; `core` stands for
`packages/backend-core/src`.

## 1. The system

Four processes share one Postgres database and one Redis: the **API** (tRPC
routers for the operator, webhook routes, the unsubscribe link), the
**processor** (one BullMQ worker per queue, concurrency 4, may be replicated),
the **scheduler** (one leader registers repeatable jobs) and the **web client**.
They interact through rows, through jobs, and through the email provider's
webhooks.

| Component | State it keeps | Operations | What is hard | What makes it correct |
|---|---|---|---|---|
| Compliance guard (`core/lib/compliance`, `core/lib/rate-limit`) | none of its own; reads agents, suppressions, messages, events, the warm-up row; the Redis day counter | `assertCanSend`, eight gates in order | every gate that awaits is a separate read; the world moves between them | what stood all along is never passed over; the cap is never exceeded |
| Outreach send (`core/services/outreach.service.ts`, `core/repositories/outreach.repository.ts`, processor handlers) | threads, messages, `lastContactedAt` | send, follow-up, cadence scan | emails first and records later; crashes, retries, lost answers, concurrent jobs for one agent or agency | one email per key, paid for by a token, filed with its recipient, recorded when reported complete |
| Thread status (`core/lib/outreach/thread-status.ts`) | `OutreachThread.status` | the reducer | read, reduce, write back is not atomic | `closed` is terminal |
| Warm-up and kill-switch (`core/services/warmup.service.ts`, `core/repositories/warmup-state.repository.ts`, `core/routers/outreach.router.ts`) | one `WarmupState` row | recalc, toggle, get-or-create | recalc and toggle race with reads; creation on first use races with itself | the cap follows the ramp; the switch that was thrown is the one that is read |
| Opt-out (`core/routes/outreach-unsubscribe.route.ts`, `core/services/outreach-reply.service.ts`) | suppressions, `optedOut`, closed threads | one-click route, STOP reply | three writes, no transaction | an address that opted out is not mailed by a later attempt |
| Delivery events (`core/services/email-event.service.ts`, `core/routes/resend-events.route.ts`) | events, suppressions | webhook, `resend:event` job | at-least-once delivery; two writes | a hard bounce or complaint is counted once and suppresses |
| Erasure and discovery (`core/services/agent-removal.service.ts`, `core/repositories/agent.repository.ts`) | agents and what cascades from them | erase, upsert by email, probe | an erased agent's send may be in flight; the mailbox may come back under a new id | nothing of an erased agent is left behind or filed with another |
| Job queue (`core/lib/queue`) | Redis jobs | enqueue by id, attempts, back-off, stalls, retention | at-least-once execution | every job ends |
| Replies (`core/services/outreach-reply.service.ts`, processor `inbound-handler.ts`) | threads, inbound messages | link a reply, honour a STOP | a reply races a send and a follow-up | a reply is filed with its sender; an opt-out comes first |
| Inbound ingestion and deduplication (`core/lib/inbound`, `core/services/inbound-ingestion.service.ts`, `dedup.service.ts`) | listings and their sources, the daily extraction counter | read the email, extract, resolve duplicates, upsert | retries re-bill and may read another address; what an email says decides what happens to it | one listing per property, one source row per source; a completed email is handed on |
| Listing scrape (`core/lib/listing-scrape`, `core/services/listing-scrape.service.ts`) | listings and their sources | walk three sites, parse, file, enqueue the analysis | redirects, repeated lots, pages that fail one by one, retries, agents' tips on the same rows | a whole scan files its patch, as it is, and nothing else |
| Analysis and matching (`core/services/listing-analysis.service.ts`, `preference-match.service.ts`, `core/lib/queue/preference-triggers.ts`) | photo records, embeddings, scores | analyse, recompute one search or all | two jobs write one score from rows read earlier; fixed job ids | what is owed a score gets one; an edit reaches the scores; the budget holds |
| Searches and their patch (`core/routers/searches.router.ts`, `core/services/search-removal.service.ts`, `agent-discovery.service.ts`, `core/lib/discovery`) | searches, agents | create, edit, launch, remove, discover, erase, backfill | the agents to erase are chosen outside the transaction that erases them; discovery runs beside it | agencies are found once and kept while a search needs them; who opted out stays out |
| Reads and console (`core/repositories/listing.repository.ts`, `core/lib/pagination`, `core/routers`, `apps/web/src`) | bookmarks, hidden homes; in the browser: cached answers, two overlay sets, dialogs, filters | page, filter, sort; every click of five screens | answers come late, out of order or not at all; rows move between pages | pages tile; what is shown is what the server holds; only what was ticked is sent |
| Scheduler lock (`core/lib/scheduler/leader-lock.ts`, `apps/scheduler`) | a Redis lease | acquire or renew, release | GET then PEXPIRE or DEL | one leader |
| The rest | | storage, API server and sign-in, infrastructure, design prototypes | I/O or presentation | |

`PROJECT.json` lists every component with what is modelled of it, and every
hazard with the line where it bites.

## 2. The modules and the code

Each module models whole handlers: one action is one statement the handler
awaits, so another actor may run between any two of them, and code that runs
between two awaits belongs to the action before or after it. Emails, agents,
reports and drafts are model values; wording, logging and read-only queries are
left out.

A module without variables is a set of operators: pure functions of the code, which
the machine named after it evaluates.

```
ThreadStatus -- OutreachStore -- ComplianceGuard -- OutreachSend -- MCOutreachSend
                                                         \-- OutreachSend_proofs
DeliveryReports <== EmailEvents -- MCEmailEvents      (<== implements)
                         \-- EmailEvents_proofs
ThreadStatus -- InboundEmail -- MCInboundEmail -- MailReading
                      \-- InboundEmail_proofs
AiProviders -- SearchScoring -- MCSearchScoring
                     \-- SearchScoring_proofs
Subsequences -- ListingPages -- ListingScrape -- MCListingScrape
     |                                \-- ListingScrape_proofs
     \-- AgencyPages, UkPlaces, EmailVerifiers -- SearchPatch -- MCSearchPatch
                                                       \-- SearchPatch_proofs
ListingFeed -- FeedView, SearchDesk -- OperatorConsole -- MCOperatorConsole
                                              \-- OperatorConsole_proofs
LeaderLock, WarmupRow -- MCCoordination, Coordination_proofs
```

**ThreadStatus** is the reducer `advanceThreadStatus` and the status enum.

**OutreachStore** is the state the outreach loop shares: rows of Postgres
(agents, suppressions, threads, outbound messages, events, the warm-up row), the
day counters in Redis, the day, and `sent`, the log of the external email
provider. A repository method is an operator over that state under the method's
own name. Times are whole UTC days, because every window the code computes
(cooldown, breaker, cadence, counter) is a number of days or hours cut off from
"now", and the day is what the counter and the follow-up key are named after.
An id of an erased agent is never reused; the mailbox may come back under
another id.

**ComplianceGuard** is one attempt's run through `assertCanSend` with
`reserve: true`. `pc[j]` says at which gate job `j` is, `local[j]` what the
attempt has read so far: a follow-up reads its thread at `Fetch`; the agent row
tested by gates 1, 2 and 4 is read once, at `Load`; the number of sends is read one step before the bounces it divides;
the cap is read at gate 7 and used at gate 8. The refusal of gates 1 to 7 is
`Drop` (an `UnrecoverableError`, the job fails at once); a refusal at gate 8
and every transient error is `Retry`. `bars` and `burned` are history
variables: `bars[j]` holds the reasons to refuse that have been true in *every*
state since the attempt began.

**OutreachSend** adds the queue (`Enqueue`, `Start`, `TransientError`, `Crash`),
the cadence scan, which lists the silent threads (`ScanFollowups`) and enqueues
them one await after another, whatever has become of them since (`EnqueueDue`,
`SkipDue` for an id that is taken, `ScanFail`), `dispatch` statement by statement (`Draft`,
`Dispatch`, `LoseAnswer`, `FindThread`, `CreateThread`, `PersistMessage`,
`ReadStatus`, `WriteStatus`, `MarkContacted`) and the environment: the three
writes of an opt-out (`UnsubSuppress`, `UnsubMark`, `UnsubClose`, any suffix of
which may fail to happen), the two of a delivery report (recorded once per event
id of the provider, `EventIds`), the operator's kill-switch, `warmup:recalc`,
erasure, rediscovery, a mailbox probe, midnight, and replies. A reply is linked
statement by statement beside the send path (`ReplyArrive` to `ReplyWrite`,
`ReplyFail` after any of them), with the same find-or-create and the same reducer;
its own inbound row is InboundEmail's. The history variable `answered` holds the
threads a reply has found or created. The provider's idempotency key decides whether a dispatch is a new
email: a send's key is its job, a follow-up's its thread and the UTC day of the
*attempt*.

**EmailEvents** is the delivery-report pipeline from webhook to suppression,
with redelivery, the retained and evicted jobId, attempts, stalls and the purge
by an erasure. **DeliveryReports** is what it promises: a report is recorded
once, a damaging one owes a suppression from then on, a debt may be forgotten
but is never invented or paid twice. The refinement maps the debt to the running
attempt that carries it: `owed` is the set of reports whose handler is between
the insert and the suppression with `created = true`.

**InboundEmail** is the way of an incoming email: the webhook enqueues a job
under the email's id (`Deliver`; `Evict` frees the id again), the handler turns
away mail to no real inbox (`Gate`), honours a STOP in two statements
(`Suppress`, `MarkOptedOut`), takes a token from the day's extraction bucket
(`Charge`), pays the extractor (`Extract`, `ExtractFails`), stores listing and
source record in one transaction (`Store`), enqueues the analysis (`HandOff`)
and last, best effort, links the email to the sender's thread (`FindThread` to
`CloseThreads`, `LinkFails`). What an email *is* (sender, STOP, nothing to
extract) and what the extractor may read in it, which differs from call to call
and with it the key of the listing, are constants here; whether it went to a real
inbox and whether its sender is believed is chosen at the start (`infra`,
`forged`). The instance takes all of it from **MailReading**. The send path, whose thread writes race with the linking, is reduced to its
statements on threads (`Send` to `SendWrites`); OutreachSend has the rest of it.
The extraction kill-switch skips like an empty reply and is covered by `Bare`;
the embedding branch of the duplicate search never runs in production, where no
embedder is supplied; `lastMessageAt` is read by nothing modelled.

**MailReading** is the pure part of that path: which posts of the webhook are taken
(signature entries, age, body), the recipient gate, the From header in both its
forms, SPF and DKIM against its domain, the reply text above the quote and the STOP
in it, the attachment budgets, what the extractor is shown and may answer, and the
address key. MCInboundEmail writes two emails down (lines of a body reduced to
their kinds, sizes in megabytes) with the envelopes they may come in and derives
the constants of InboundEmail from them. The body's HTML is not shown to the
extractor, and an attachment over the budget is dropped, so a STOP under which
somebody's mail client put a big brochure has nothing to extract.

**SearchScoring** is who scores what: `analyze:listing` (budget, photos one by one,
embedding, the searches of the listing's outcode, one score each) and
`analyze:recompute` (one search's nearest candidates, or all searches'), statement
by statement, while the router creates, edits, pauses and removes searches and then
triggers a recompute under a job id that stays taken. Briefs have versions, and a
score and a search's vector say which version they were made from. Which vectors
are near is left open. A score written for a search that was removed violates the
foreign key and fails the attempt (`Orphaned`), of whichever job. **AiProviders** says what a provider's answer comes to: ok,
ask again, or give up.

**ListingScrape** is the `scrape:listings` job: the patch from the active searches,
then site by site the index pages, the pager, the detail pages, and per lot the
upsert, the source record and the hand-off to the analysis queue. Every fetch may
fail or redirect, every statement of a faulty job may fail, a retry starts over,
the patch may be edited and an agent's tip may write the same listing in between.
**ListingPages** is what the parsers of the three sites read from a page, a page
being the sequence of the parts they look for. The form on a search page may point
anywhere: the code takes any action in which the search page's name occurs and pins
the host, not the path (`uklfSearchEndpoint`, `OnMainHost`). `Crawlable` says which URLs a
site's `robots.txt` leaves open, a `Course` is a sequence of such URLs.

**Subsequences** is what `filter` and a set of seen keys leave of an array. It does
by a recursive function what `SelectSeq` and the folds of the community modules do,
because the prover has no definition of those to expand.

**SearchPatch** is a search and the agents around it: the router's create, edit,
launch and remove (reads, then one transaction), the `discover:agents` job from
queries over pages and candidates to the sift and the upsert, the operator's
erasure of one agent, the backfill that clears out old junk, opt-outs and first
emails. A job that ended may be evicted from the queue, and its search launched
again (`Evict`); one whose queries all fail is retried or not, as the search
provider's answer says. **AgencyPages** extracts mailboxes from results and pages, judges them and
keeps one per domain; **EmailVerifiers** are the SMTP conversation and the two
services that say whether a mailbox exists; **UkPlaces** resolves a location to
outcodes and outcodes to a label.

**OperatorConsole** is the browser against the API. A query's answer is cached,
grows stale and is read again; a change is a request that is answered in any
order, fails, or is done although its answer is lost. The Listings screen keeps
two sets of its own (interested, dismissed), seeded once and toggled before the
server knows; dialogs hold a form, a removal preview or a review with its ticks;
drill-ins carry a filter from one screen to the next; a client pages through a
list while rows change. **ListingFeed** is the read side of the API (filters,
sorts, both kinds of cursor, the joins of scores), **FeedView** what the Listings
screen shows of its rows, **SearchDesk** the form, the drafted email, the tables
and counters of the other screens. A review shows what the guard would refuse
each agent for: what the agent's row says, a suppressed address, *another* mailbox of
its domain that was contacted, or one brake that stands for breaker, kill-switch and
cap (`assertCanSend`, over the agents and `sending`, which starts as `Emailed` and
takes the `Brakes`; a contact is taken to be within the cooldown for as long as an
errand lasts). ORDER BY is `Sorted` (each row stands behind as
many as come before it) and the loop over an agent list's pages is a recursive
function, so that both can be reasoned about.

**LeaderLock** is the scheduler's lease, one action per Redis command of
`acquireOrRenewLeader` and `releaseLeader`, with the tick that registers the
cadences, Redis errors, shutdown beside a tick in flight, forced exit, crash and
restart under the same instance id. Time is abstracted to the possibility that
the lease lapses between any two commands; `lapsed` remembers whether it did so
under a holder that was alive.

**WarmupRow** is the repository of the kill-switch and the cap, where every
operation first gets or creates the row: rows are numbered in creation order and
the oldest counts.

Some constants have assumptions that say how the outside world is shaped, and TLC
evaluates them on the instances. `JobAssumption`: there are finitely many send jobs.
`ScoringAssumption`: listings and searches are finite and disjoint, briefs have
outcodes, photos are sequences. `ScrapeAssumption`: the index pages a site's
provider is configured with are the site's own and open to crawlers, and the links
of a page are a sequence; nothing is assumed of where they lead. `PatchAssumption`:
every query a search may ask has an answer, and every agency address in it is in
`Mails`, the set of all mailboxes there are. OperatorConsole's say what a table
holds, no more: a table to begin with has one row per id, a listing has numbers or
NULL in its columns, and a variant of a row is a row (`ListingAssumption`,
`AgentAssumption`, `SearchAssumption`); an agent list has no more agents than
`MAX_PAGES` pages hold, beyond which the code stops reading (`AgentAssumption`);
limits are positive, NULL is no postcode (`PageAssumption`, `MapAssumption`); and a
client that pages asks for a list there is and starts at its beginning
(`InputAssumption`). Which answers arrive, when, and who changes what is open.

Bounds are constants with a comment that says so (`MaxThreads`, `MaxDay`,
`EventIds`, `Replies`, `Forgotten`, `MaxIds`, `MaxErrors`, `MaxStarts`, `MaxRows`, `MaxAge`, `MaxSends`, `MaxCalls`, `Deliveries`,
`AtOnce`, `Flaky`, the clicks, changes and faults of an errand, and the sets that
say who may opt out, bounce, be erased, edited or misbehave). The proofs hold for
every value of them.

## 3. What the runs check

| Run | Instance | Checks |
|---|---|---|
| `OutreachAgency` | two mailboxes of one agency, a job each, two attempts and one stall per job, a cap of 2, the operator and transient errors active | types; `GuardHoldsBars`; `EveryEmailPaidFor` |
| `OutreachMailbox` | one mailbox erased and rediscovered under a second id, a job for each id, opt-out, delivery reports and crashes active, breaker floor of one send, a cap above one job's share | `GuardHoldsBars`; `BreakerHolds`; `BurnBounded`; `FiledUnderRecipient`; `CompletedIsRecorded` |
| `OutreachFollowup` | one thread, two days, a cap of 1 then 2 of at most 3, a crash per job | `TokensWithinRamp`; `FollowupContinuesThread`; `JobsSettle` |
| `OutreachReplies` | one mailbox, one send job with two attempts, a stall and transient errors, two threads at most; its agent replies again and again, one reply at a time, and opts out | `OneThreadPerJob` |
| `EmailEvents` | a hard and a soft bounce of one mailbox, a complaint without recipient, an unstored type; two attempts and one stall for the first two | types; `KeepsPromise` (refinement of `DeliveryReports`) |
| `InboundEmail` | a STOP posted twice in time and once too late, quoting our email and carrying too big a PDF, and an offer that names the street in its text and the postcode in its PDF, both from one agent, to three sets of recipients and with three authentication results each, against one send to him; two attempts, crashes and errors for the offer, one extraction a day, two days | types; `StopHonoured`; `PaidWithinCap`; `CompletedIsFiled`; `CompletedIsHandedOn`; the assumption `QuotesAreNotRead` over all bodies of up to three lines |
| `InboundNamed` | the same with the STOP's From header as "Name <address>" | `StopSuppressesItsAuthor` (violated) |
| `Coordination` | two scheduler instances, four starts, two Redis errors, two cadences; two clients of the warm-up row running any operation, two rows, a ramp of two days; as the two share no state, a behaviour moves one and leaves the other as it began | `OneLeader`; `CadencesRegistered`; `SwitchObeyed` |
| `SearchScoring` | a search edited from a price to a place with words, one that stays, a blank one; two listings with three photos, a budget of one image, one candidate per recompute, one search per listing, failures for one listing's job | `AnalysedIsScored`; `EditReachesScores`; `SpendBounded`; `RemovedIsUnscored` |
| `ListingScrape` | two scans, one of them faulty, of three sites with paged results, a redirect, a featured lot on two pages, a form on a foreign host and one that leads off the search path, a lot that stands twice at one auction house and lots without a price; the patch edited, a tip received | `ScanFilesPatch`; `FiledAsItIs`; `StaysOnSite`; `FiledIsAnalysed` |
| `SearchPatch` | two searches of the operator with an outcode in common, one edited and its job faulty, the other meeting the analysis kill-switch, its ended job evicted, one removal, two agencies and junk beside them, opt-outs, erasure, backfill | types; `CountsAddUp`; `AgencyReached`; `NeverResourced`; `KeptForOthers` |
| `OperatorConsole` | six errands: marking and hiding homes (three clicks, a fault), drilling into lists from the cards and the sources (three clicks, a change elsewhere), editing, pausing and launching searches (three clicks and a change or a fault), erasing and removing (three clicks, a change), every combination of a brief's fields, every walk through a list with a change in between | `PagesTile`; `BucketsMatchServer`; `QueuedOnConsent`; `SettledTables`; `PreviewIsTheEmail` |

The properties in words:

- `GuardHoldsBars`: no attempt gets past the guard while an opt-out, a
  suppression, the agency's cooldown or the kill-switch has stood ever since the
  attempt began. The guard cannot promise more, as its gates read at different
  moments: a bar thrown *after* its gate cannot stop that attempt, and a bar
  lifted in the middle need not.
- `BreakerHolds`: nor while the bounce or complaint rate has stood over its
  limit throughout, although numerator and denominator are counted in separate
  statements.
- `TokensWithinRamp`: the day's counter never exceeds the ramp's cap for that
  day, although the cap is read before it is used and recalc writes meanwhile.
- `EveryEmailPaidFor`: the physical emails up to any day are at most the tokens
  consumed up to that day (`TokensThrough`, a set of tokens rather than a sum).
- `BurnBounded`: a job consumes at most one token per attempt and one per stall.
  (The comment at `queue-config.ts:243` counts the three attempts only; a stalled
  job runs once more.)
- `OneThreadPerJob`: retries of one job never open a second conversation: of an
  agent's open threads that no reply has touched there are no more than send jobs
  for it. The threads of replies are exempt because the bound is false of them: a
  reply finds or creates a thread in two statements as a send does, so the two can
  create one each, and a reply that read a status before an opt-out closed the thread
  writes it open again.
- `FiledUnderRecipient`: a stored outbound message was emailed, under its key,
  to the agent its thread belongs to, across erasure and rediscovery.
- `CompletedIsRecorded`: a send reported complete left message, status and
  contact date, or the agent was erased since.
- `FollowupContinuesThread`: a follow-up is only ever enqueued into a
  conversation in which another email is on record.
- `JobsSettle`: every queued job ends.
- `StopHonoured`: a job that got past its opt-out has its sender suppressed and
  opted out, forged or not, before anything that can fail for good (the cap, the
  extractor) or be swallowed (the linking).
- `PaidWithinCap`: no day pays for more extractions than its cap, although
  tokens are not keyed by email, retries take new ones and an attempt may run
  past midnight.
- `CompletedIsFiled`: a completed email of a tracked agent is on one of that
  agent's threads, unless the linking failed and the failure was swallowed.
- `CompletedIsHandedOn`: a completed email with something to extract has a source
  record, the record points at a listing, and that listing was handed to the
  analysis, also when a retry found the listing already there or read another
  address.
- `StopSuppressesItsAuthor`: a STOP that was processed suppresses the address of the
  agent whose mailbox it came from and opts that agent out.
- `AnalysedIsScored`: a listing whose analysis completed has a score for every
  search that has deserved one in *every* state since its job listed the searches,
  although they are embedded and scored one by one.
- `EditReachesScores`: when no recompute of an active search is under way, its
  vector and the scores of its candidates are those of its latest brief. `lost`
  names the exceptions: the trigger failed, met a job id that was taken, or
  overtook a job that had read the older brief (the edit is then not redone).
- `SpendBounded`: the image budget is overshot by at most the images of the jobs
  that run at a time, as each looks at the spend once.
- `RemovedIsUnscored`: no score outlives its search, whatever jobs still hold it.
- `ScanFilesPatch`: a completed scan that could have every page it asked for has
  filed every lot of its patch: no walk ends early, no lot is lost between sites
  or attempts.
- `FiledAsItIs`: what is filed stands where the property is and costs what it
  costs, although pages also show offices, neighbours' prices and calculators.
- `StaysOnSite`: the scraper sets out for no index page, lot or auction on another
  site or on a path that `robots.txt` keeps crawlers out of, whatever pages link to;
  and the walk over a region's results stays on the site's main host, whatever form
  and pager say. (The code does not pin the *path* of that form, so about
  `robots.txt` nothing is claimed there; and a redirect may still lead anywhere.)
- `FiledIsAnalysed`: what a completed scan filed was handed to the analysis.
- `CountsAddUp`: at every step of a discovery each candidate it has been through is
  filed, dropped, judged out, one of several of its agency, or waiting for its
  agency's turn (`Waiting`), and is counted once.
- `AgencyReached`: an agency the results lead to is found, not judged junk, not
  dropped unless suppressed, and keeps its live mailbox sendable.
- `NeverResourced`: a discovery never writes the row of a mailbox that was
  suppressed before the run began.
- `KeptForOthers`: a removal erases an agent another search covers only if that
  search or that agent changed after the removal had read it.
- `PagesTile`: a client that follows the cursors meets every row that stays as it
  was exactly once, under every order, direction, filter and lens, with null keys
  and ties, whatever happens to the other rows.
- `BucketsMatchServer`: with every request answered and every query read, Active,
  Saved and Dismissed, the bar, the table and the map hold what the server holds,
  except for homes something went wrong with (`astray`).
- `QueuedOnConsent`: a send is queued only for an agent that a review showed as
  eligible and that was ticked when the operator approved.
- `SettledTables`: once answered, the searches, the agents and their tiles are the
  server's; and the counters of a card, which the database counts, agree with what
  its dialog and its link page through: it has as many agents as the review of its
  patch has drafts and the Agents table has rows, and as many contacted ones as that
  table, those who opted out aside. (How many a review *refuses* is another number:
  the guard looks at the other mailboxes of a domain.)
- `PreviewIsTheEmail`: the email previewed in the editor is the one drafted from
  the row the form becomes, unless its place is spaces alone, and a saved form
  reopens as it was.
- `KeepsPromise`, `OneLeader`, `CadencesRegistered`, `SwitchObeyed`: as stated
  at their modules above. `OneLeader` is stated up to the first lapse under a
  live holder and `SwitchObeyed` up to a second row: TLC finds both false
  without these qualifiers, because PEXPIRE and DEL do not look at the lease's
  value and because the table has no unique constraint.

The bounds are enough for the interesting cases to occur: two attempts and one
stall give a retry after a crash, a crash after a retry and the last attempt;
two jobs give every pairwise race (the code shares no state among three that it
does not share among two); caps of 1 to 3 make the budget run out in mid-run;
two days let an attempt, a follow-up key and a cap cross midnight.

Of the newer instances: three searches and two listings let an edit fall between
any two statements of a listing's job, of the search's own recompute and of the
recompute of all, and one place per queue (`Workers`, `TopK`,
`MaxSearchesPerListing` = 1) makes every limit bite; photo records, not calls, are
counted. Three sites with two to three pages each hold every kind of page the
parsers distinguish; two scans suffice, because scans share listings only.
SearchPatch runs one discovery at a time (`AtOnce`; the worker allows four), evicts
the ended job of one search (`Forgotten`) as long as no mailbox came back under a
new id more often than `MaxIds`, and lets the operator act on single agents only while none runs (`Quiet`); removals,
edits and opt-outs interleave with everything. In the console an errand is one
user in one browser with the clicks that matter to it; pages of two rows stand for
100, three pages for 50 and two postcodes for 100; a request's service and its
answer are one step, the client's single retry is part of a fault, and 30 seconds of
staleness are a choice at each visit. Sets stand for arrays, so homes that tie are
in a fixed order.

Each property
comes with a mutant of the code (a dropped gate, an off-by-one comparison, a
stall that is not counted, a SET without NX, ...) that breaks it in the same
run, so none of them holds for want of behaviour.

CHECK_DEADLOCK is off everywhere: the bounds on days, threads, attempts and
starts make every instance stop eventually, as the system does when nobody
sends.

### Where the code and its documentation part

One run expects a violation: it states a sentence of the code's own comments, and
TLC shows how the code does not keep it.

| Run | Sentence | What happens |
|---|---|---|
| `InboundNamed` | a STOP writes a suppression and opts the agent out, "compliance-critical" (`outreach-reply.service.ts:63`) | the hydrator hands on the whole From header (`resend-hydrator.ts:272`), "Branch <branch@agency.co.uk>"; that string is suppressed, no agent has it, and every later send looks up the bare address |

Other sentences the models contradict, without a run of their own. The outreach loop:

- `compliance-guard.ts:17,250`, one agency gets at most one cold approach per
  window: the gate reads `lastContactedAt`, which a send writes at its very end;
  two workers pass it together. (`GuardHoldsBars` speaks of a cooldown that stood
  since the attempt began.)
- `outreach.service.ts:336`, a crash between send and persist is retry-safe: a
  crash *after* the persist is not. Every retry fails on the unique provider id,
  and status and contact date are never written. (`CompletedIsRecorded` speaks of
  completed sends.)
- `email-provider.ts:9`, a retry never sends a second physical email: the
  follow-up's key is recomputed per attempt and changes at midnight UTC
  (`outreach.service.ts:303`).
- `email-event.service.ts:4`, a hard bounce inserts a suppression, idempotent end to
  end: after a crash between event and suppression the retry sees an existing event
  and completes without suppressing. (`DeliveryReports` lets a debt be forgotten.)
- `outreach.repository.ts:211`, a thread awaiting a reply has had none since the
  last send: a reply to that very email may be filed before the send has recorded
  itself; the send's status write then puts the thread back to `awaiting_reply`,
  and the cadence scan picks it up.
- `thread-status.ts:12`, `closed` is terminal: the reducer keeps it, the
  read-reduce-write around it does not; a status read before an opt-out is
  written after it (the same race as the one before).
- `outreach.repository.ts:126`, one open thread per agent: find-or-create is two
  statements without a constraint, so two jobs, or a job and a reply, can each
  create one. (`OneThreadPerJob` bounds what the jobs create.)
- `outreach.repository.ts:211` again: a thread that was listed as silent is enqueued
  also when a reply comes in before its turn in the loop (`EnqueueDue`), and
  `sendFollowup` does not look at the thread's status.
- `inbound-handler.ts:100`, the reply is recorded in every case: linking comes
  after extraction, so a reply is lost when its extraction fails for good or the
  daily cap is reached. `CompletedIsFiled` therefore speaks of completed jobs.
- `outreach-reply.service.ts:7`, a redelivered reply is a no-op: the message is
  not stored twice, but the thread's status moves again, and a new thread is
  opened if the old one was closed.
- `inbound-ingestion.service.ts:257`, three attempts and so at most three tokens:
  `RETRY_POLICIES` gives inbound jobs five attempts (`queue-config.ts:227`), and
  a stall adds one.

The catalogue and the pool:

- `listing-scrape.service.ts:201`, the writes of a lot share one fate and a retry is
  safe: upsert, source record and enqueue are statements of their own; the row of
  an attempt that died stays without source record and analysis if the retry no
  longer sees the lot. (`FiledIsAnalysed` speaks of completed scans.) A scrape that
  meets an agent's tip also overwrites its fields, the agent's address with none.
- `listing-search.ts:653`, never the agent's office: a page whose only postcode is
  that of the office yields it. The instance assumes that the property's own
  postcode is named as often as any other (`Property`).
- `search-removal.service.ts:21`, safe against overlapping searches: the agents to
  erase are read before the transaction, so an agent that another search came to
  need meanwhile is still erased, and two removals that overlap each spare an agent
  for the other's sake. `KeptForOthers` says what is left of it. The preview the
  operator confirms may differ from the removal in the same way.
- A discovery in flight brings erased agents back and files agents for a search
  that is gone; suppression is looked up at the sift and not again at the upsert;
  an upsert overwrites `coveredOutcodes` with the latest search's; one classifier
  answer that is no JSON drops the whole job; a launch reports `enqueued: true`
  although its fixed job id was taken (`queue-client.ts:111`); the backfill reads
  contact dates when it loads a page of agents and erases later.

The console:

- `SearchesPage.tsx` at `remove`, hidden homes show at once as dismissed: a
  Listings screen seeded from the kept answer does not follow (`astray`).
- The review of a search without outcodes lists every agent there is (the repository
  skips an empty filter), against the patch it is said to show in
  `searches.router.ts`. `SettledTables` leaves such searches out.
- `ListingsPage.tsx`, at most one drill-in filter is set: Back and then "View homes"
  leaves the source filter in place beside the search's.
- `ListingsPage.tsx`, a bookmarked home stays reachable when it falls out of the
  page: the refetch hangs on the callback of a single `mutate` call, which a later
  call of the same kind or leaving the screen drops. A failed toggle is not rolled
  back; clearing and coming back may show cleared homes again.
- A ticked agent that a later review shows as blocked stays ticked and is approved
  (the worker's guard decides); `approveSends` counts ids, also of jobs that were
  taken; a brief edited between review and send changes the email; the poll after a
  launch stops at the first agents.
- The editor's form carries the status it was opened with, so saving resumes a
  search paused meanwhile; a save that succeeds closes whichever editor is open.
- A card's counters leave out opted-out agents and the review includes them; the
  table and its tiles are read separately; counters and removal previews are not
  invalidated by every change that touches them; a removal hides homes that other
  searches' patches share.
- `SearchesPage.tsx:130`, the preview mirrors `draftSearchEmail` exactly and trims
  the location: it falls back to "your area" for an empty one before it trims
  (`SearchesPage.tsx:132`), so that a location of spaces alone leaves a gap where the
  email says "your area". `PreviewIsTheEmail` leaves that location out.

## 4. Fairness

`FairSpec` of OutreachSend assumes weak fairness of each job's own steps: a
BullMQ worker keeps taking waiting jobs and the event loop keeps running a
handler whose await has settled. Nothing is assumed of users, webhooks, the
scheduler or the calendar, so `JobsSettle` does not depend on a new day bringing
budget. Crashes and transient errors are not fair and are bounded by the queue's
own counters, not by the model. `Fairness` of LeaderLock assumes that the
interval timer of a live process keeps ticking and that Redis drops a lease
whose holder no longer ticks. The refinement and all safety properties assume
no fairness. The newer modules state safety only: whether a scan, a discovery or a
request ever ends hangs on remote servers, of which nothing may be assumed.
Back-off delays are abstracted to waiting.

## 5. What is proved

For every value of the constants that satisfies the named ASSUMEs:

| Theorem | States | Argument |
|---|---|---|
| `OutreachSend_proofs!TypeCorrect` | `TypeOK` | `TypeInv`: the type of `local` needs that an attempt past `Load` has a real agent (`AgentKnown`) and that the breaker counts a finite set of rows |
| `OutreachSend_proofs!RampHolds` | `TokensWithinRamp` | `RampInv`: not only the counter but every cap in flight (in the row, in a running recalc, in an attempt) is one the ramp has reached; needs the ramp monotone (`CapMonotone`) and the column default within the base (`CapAssumption`) |
| `OutreachSend_proofs!GuardSound` | `GuardHoldsBars` | `GuardInv`: a gate that passes witnesses a state without its bar, and bars only shrink during an attempt, so behind each gate that bar is out |
| `OutreachSend_proofs!BurnHolds` | `BurnBounded` | `BurnInv`: a job that can still run has an attempt and a stall left, and holds at most one token beyond those that ended |
| `OutreachSend_proofs!FilingSound`, `!CompletionSound`, `!FollowupSound` | `FiledUnderRecipient`, `CompletedIsRecorded`, `FollowupContinuesThread` | one invariant, `RecordInv` (theorem `RecordInvariant`): every email went to the agent its key names, every stored message lies with that agent (`Filed`), and what an attempt has done so far is on record (`JobRecord`: at `persist` an email left, past it the message is stored in a thread the agent owns, at `mark` the thread has moved on). `Grows` says how any step changes the rows as far as another attempt can tell: ids and emails are only added, a thread changes hands only to nobody and only when its agent goes, a message goes only with its agent. A thread the scan has listed and not yet enqueued already has an email on record (`Continues`) |
| `OutreachSend_proofs!BreakerSound` | `BreakerHolds`, if nobody is erased (`Erasable = {}`) | `RateInv`: while a rate has stood all along and its gate is still ahead, the gate's test with the number of sends the attempt counted earlier trips as well, and behind each gate that bar is out. It rests on `EventsGrow`: reports are only added and sends are counted before them. An erasure takes reports away, so with erasures this argument does not carry and the claim stays with TLC |
| `OutreachSend_proofs!PaidSound` | `EveryEmailPaidFor` | `PaidInv`: two injections with disjoint values, one from the emails that left and one from the attempts that hold a token, into the tokens consumed, no email before its token's day. A cardinality alone is not inductive: it does not say that the attempt about to send has a token of its own |
| `OutreachSend_proofs!OneThreadSound` | `OneThreadPerJob` | `OneInv`, for any number of replies at once: every thread no reply has touched that is open, or may be reopened by a status in flight, is charged to a send job of its agent that is not about to create one, no two to the same (`ChargedInv`). It needs that a reply about to write has its thread in `answered` (`RepliesKnown`), that no other thread is `replied` (`NoReplies`), and that only a first send finds its thread `active`, for which what the scan has listed must have left that status (`DueMoved`) |
| `EmailEvents_proofs!TypeCorrect` | `TypeOK` | with `Budget`: a job that has not ended has an attempt and a stall left |
| `EmailEvents_proofs!PromiseKept` | `KeepsPromise` | `Debt`: a handler about to suppress owns the row it created; every step maps to a step of DeliveryReports or a stutter |
| `InboundEmail_proofs!TypeCorrect` | `TypeOK` | `Inv`: a job that can still run has an attempt and a stall left, one that stores has its key, one that writes to a thread has the thread |
| `InboundEmail_proofs!StopComesFirst` | `StopHonoured` | `StopInv`: at `mark` half of the opt-out is done; opt-outs only grow (`Grows`) and a job's step moves no other job (`OtherJobs`) |
| `InboundEmail_proofs!BudgetHolds` | `PaidWithinCap` | `PaidInv`: what a day has paid plus the extractions about to be paid with its tokens is at most the tokens taken (a cardinality, so the set of emails is assumed finite) |
| `InboundEmail_proofs!NothingIsLostOnTheWay` | `CompletedIsHandedOn` | `HandedInv`: at `handoff` the source record already points at the stored listing |
| `InboundEmail_proofs!RepliesAreFiled` | `CompletedIsFiled` | `FiledInv` with `OwnersStay`: a thread never changes hands, a linking job's thread is its sender's, rows not yet created belong to nobody |
| `Coordination_proofs!OneLeaderHolds` | `OneLeader` | until a lapse, whoever leads or renews in service is the holder of the lease |
| `Coordination_proofs!SwitchHolds` | `SwitchObeyed` | whoever is past getOrCreate addresses a row that exists (`Addressed`), and before the first row no toggle took effect |
| `ListingScrape_proofs!FilingIsHandedOn` | `FiledIsAnalysed` | `FiledAhead`: whatever a running scan has filed has its job or is the lot in hand between `WriteListing` and `enqueueAnalyze`; every other statement walks on with nothing filed and nothing in hand (`Walking`), whatever the pages hold |
| `ListingScrape_proofs!CourseSound` | `StaysOnSite` | `SiteInv`: a walk has only URLs of the site it is at before it, between sites it has none (`Bound`), and the pager of the one that is walked by its results pages is on its main host, whatever forms and pagers hold. What the parsers return of any page is a `Course`: the lemmas follow each filter, deduplication and concatenation (`TakenIn`, `FlattenIn`) |
| `SearchScoring_proofs!ScoringTypes` | every variable in its range (`Types`) | with `PlaceOK`: a job that works on a search has one left to work on |
| `SearchScoring_proofs!SpendSound` | `SpendBounded` | `Charged`: the recorded images are fewer than the budget, as some job found them, plus those of at most as many listings as there are workers, the running ones among them |
| `SearchScoring_proofs!EditSound` | `EditReachesScores` | `RowInv` (no row a job holds is newer than the search, and unless the search is `lost` none is older) and `EditInv` (a recompute that has got to the scores has reached the vector, and every candidate it has left behind has the latest brief's score) |
| `SearchScoring_proofs!AnalysisSound` | `AnalysedIsScored` | `OwedInv`: what a running job owes is still on its list or has its score; the list is read by one statement, and `owed` only shrinks from then on |
| `SearchScoring_proofs!RemovedSearchHasNoScore` | `RemovedIsUnscored` | inductive with the shape of the tables; a running job may hold a removed search, but `upsertByListingAndSearch` needs its row |
| `SearchPatch_proofs!RemovalSparesOthers` | `KeptForOthers` | `Stands`: what a removal has read still holds or is noted as changed; a step of anyone else leaves the removal where it is and notes what it touches (`Undisturbed`), and a removal that does not cascade reads no agents |
| `SearchPatch_proofs!CountsSound` | `CountsAddUp` | `RunInv`: the groups of a run are not empty and of different agencies (`Apart`), so appending a mailbox adds one to `Waiting` and taking the first group away removes exactly its length |
| `SearchPatch_proofs!SuppressedStayOut` | `NeverResourced` | the same invariant: every mailbox in a group may be filed (`Fit`), that is, it is corporate and was not suppressed when the run began, and the one `Chosen` is in the group |
| `SearchPatch_proofs!PoolSound` | `TypeOK` | `QueueInv` (a job on its way carries a location's brief, and what a run found are mailboxes there are, not of councils or portals), `PoolInv`, `TodoInv`; `DiscoveredCandidates` follows the whole of `discover`, from the queries over snippets, hidden addresses and pages to the candidates |
| `OperatorConsole_proofs!ConsoleIsTyped` | the shape of the state (`Tables`, `Shapes`) | tables keep one row per id and stay finite, requests are a sequence of requests, kept answers and dialogs keep their fields; every later invariant rests on it |
| `OperatorConsole_proofs!EveryPageTiles` | `PagesTile` | `TileInv`: of the rows that stayed as they were, those met are the ones that are not behind the cursor, each met once. Each cursor filter asks for exactly the rows that stand after the cursor in the list's ORDER BY, nulls included (`After`, `AfterLine`, `ScoreFilterByPlace`, `ColumnFilterByPlace`, `AgentFilterByPlace`), and a page is the beginning of what is left (`PageIs`, `PageCovers`) |
| `OperatorConsole_proofs!BucketsFollowServer` | `BucketsMatchServer` | `ItemInv` (kept homes are of the catalogue, one per id) and `MarkInv`: of a home that is not `astray`, the *last* change on its way decides what the screen marks, and without one the server's set does (`Agrees`); and a home of the server's set is in the answer kept, or a change whose callback will read it again is on its way, or the answer is not fresh; behind every change whose callback was dropped stands one whose callback was not (`Keeps`). With no change left that is the claim for ids (`RestIs`); what remains is about functions of the screen: `byId` keeps one row per id (`ScreenIs`), the sort is a total order (`SortIs`), a home is in one note (`NotesAre`), and the batches of postcodes leave none out (`ChunksCover`) |
| `OperatorConsole_proofs!SendsAreConsented` | `QueuedOnConsent` | `ConsentInv`: approvals on their way are consented, and the launch dialog has ticked only what it has noted as eligible from the reviews it was given |
| `OperatorConsole_proofs!TablesSettle` | `SettledTables` | `FreshInv`: a fresh answer that others did not outdate is the server's; every change invalidates what it touches. The counters agree with the review and the Agents table because reading page after page until the cursor ends yields the whole patch (`CollectsThePatch`, an induction over the pages); whatever gates refuse, a draft stays a draft |
| `OperatorConsole_proofs!PreviewIsAlwaysTheEmail` | `PreviewIsTheEmail` | `BriefInv`: whatever is typed, sent or kept is a form or a search; then a case split over the fields |

`CapAssumption` deserves a remark: with the shipped defaults (20, 20, 20, 200) it
holds; a deployment that sets `WARMUP_BASE_CAP` below the column default runs
over its own ramp until the first recalc. Of pages, answers of the providers and
limits the theorems about ListingScrape, SearchScoring, SearchPatch and
OperatorConsole use what the assumptions of section 2 say, and nothing else: what a
page shows, which vectors are near and what a model answers may be anything.

`MarkInv` is worth a remark too. That the screen's sets equal the server's is not
inductive, nor is it when every change on its way is added: changes are answered in
any order, and a later change of the same kind drops the callback of an earlier one,
which alone would have read the answer again. `Agrees` and `Keeps` say what is left
of it at any moment, per home and in the order the changes were sent; `WithoutWas`
follows the order when one in the middle is answered. The proof also shows what
`astray` has to name: the homes of the changes that a settling one overtook, of a
failed one, and of those a fresh seed met on their way, and no others.

The step lemmas of OutreachSend_proofs rest on a frame: `NextByJob` splits a step
into one by a job and one by the environment, `JobFrame` says that a job's step
touches no other job, `EnvironmentKeepsQueue` that the environment touches none.

Filters and concatenations are recursive functions on 0..n. That a property of all
their values holds needs an induction, and the library's induction rules take an
operator, which the provers here cannot instantiate. Where it is needed it is
carried out over a *set* of numbers (`NatSetInduction`, from the library's fact that
strict inclusion of finite sets is well-founded), and that such a function exists at
all is proved from it (`Recursion`).

Only model-checked:

- `JobsSettle` and `CadencesRegistered`: liveness under fairness is out of the
  prover's reach.
- `ScanFilesPatch`, `FiledAsItIs` and `AgencyReached`: they compare what the code
  makes of pages with what those pages are about, and what a page is about is a
  constant of the instance. Without an assumption that states half of the claim they
  do not hold for every value of the constants.
- `BreakerHolds` where agents are erased (the run `OutreachMailbox` does erase).

### Not modelled

- The router's `reserve: false` peek before `outreach.send` enqueues: it changes
  nothing, search approvals enqueue without it, and the worker's own guard decides.
- Retention of finished jobs and rate limiters in the send path: a finished send
  or follow-up job keeps its id for good (EmailEvents does model eviction).
- A stalled worker that is alive after all and goes on beside the re-run of its
  job; the provider's 24-hour limit on idempotency keys, far beyond the back-off
  of three attempts.
- Hours: the cooldown, breaker and cadence windows are whole days, so their
  boundary is exact to a day only.
- Overlapping ticks of one scheduler instance, when a tick takes longer than 30
  seconds.
- In WarmupRow, the per-row start of the ramp; the cap stands for the ramp's day.
- The embedding branch of the duplicate search (no embedder is supplied in
  production); discovery by region, which only a command line starts.
- The text of prompts and drafts, HTML beyond the parts the parsers look for, HMACs
  and tokens (a trait of the post that carries them), encodings of cursors (the
  tuple they stand for), crawl delays and request headers.
- In the console: signing in and out (the caches outlive it), saving the settings,
  the map's drawing, styles; several users; several statements behind one answer
  (SearchPatch has those of a removal). A row has one source, where the code has a
  table of source records.
- Object storage, the API server and sign-in, infrastructure, end-to-end tests and
  the design prototypes: without protocol state of their own.

## 6. Plan

In the order of importance; each new module gets a small instance, an invariant
or refinement aimed at its hazards, and proofs where TLC agrees.

Written: the modules of section 2. Next, in this order:

1. **SendPolicy**: an abstract specification of the send path (a token
   authorises, an authorisation mails at most one email) with OutreachSend shown
   to implement it, checked in `OutreachAgency` and then proved from `NextByJob`,
   `JobFrame` and `RampInv`.
2. **Retention in the send path**: a job id that becomes free again while the
   agent's thread is open.
3. **Two discoveries at once** and two removals at once in SearchPatch, for what
   `search-removal.service.ts:174` leaves orphaned.

Proofs still worth having: the refinement of SendPolicy, and that `AgencyReached`
holds of any web in which agencies' addresses stand on their own pages. The lemmas on
sequences that the proofs of ListingScrape, SearchPatch and OperatorConsole have in
common belong in a module of their own.
