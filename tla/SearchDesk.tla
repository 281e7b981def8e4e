------------------------------ MODULE SearchDesk ------------------------------
(* What the Searches, Agents, Sources and Settings screens compute: the form of *)
(* a search and the row it becomes, the first email as the editor previews it   *)
(* and as the agent is sent it, the rows and counters of the tables, the        *)
(* answers of the API they are made of.                                         *)
EXTENDS ListingFeed

CONSTANTS
  Junk,      \* a number field's text that is no whole number ("2.5")
  Nothing,   \* no text
  DefaultName, \* the name RESEND_FROM gives; signed when the profile has none
  SOURCE_CATALOGUE \* crawled source -> its kind

\* A text: what is left when it is trimmed, whether there is anything to trim,
\* and whether it ends in punctuation.
Text(core, padded, stopped) == [core |-> core, padded |-> padded, stopped |-> stopped]
Trim(text) == [text EXCEPT !.padded = FALSE]
Tidy(text) == Text(text.core, FALSE, FALSE)
Blank == Text(Nothing, FALSE, FALSE)
-----------------------------------------------------------------------------
(* Forms *)

BLANK ==
  [id |-> NoSearch, name |-> Blank, location |-> Blank, types |-> {}, condition |-> {}, land |-> {},
   saleMethods |-> {"Private treaty"}, minBeds |-> NoValue, maxPrice |-> NoValue,
   keywords |-> Blank, status |-> "active"]

formFromSearch(search) ==
  [id |-> search.id, name |-> search.name, location |-> search.location, types |-> search.types,
   condition |-> search.condition, land |-> search.land, saleMethods |-> search.saleMethods,
   minBeds |-> search.minBedrooms,
   maxPrice |-> IF search.maxPricePence = NoValue THEN NoValue ELSE (search.maxPricePence + 50) \div 100,
   keywords |-> search.keywords, status |-> search.status]

\* Zero, blank and broken bedrooms mean "no minimum".
save(form) ==
  [name |-> Trim(form.name), location |-> Trim(form.location), types |-> form.types,
   condition |-> form.condition, land |-> form.land, saleMethods |-> form.saleMethods,
   minBedrooms |-> IF form.minBeds = Junk \/ form.minBeds <= 0 THEN NoValue ELSE form.minBeds,
   maxPricePence |-> IF form.maxPrice = NoValue THEN NoValue ELSE 100 * form.maxPrice,
   keywords |-> form.keywords, status |-> form.status]

toggleArr(selected, value) ==
  IF value \in selected THEN selected \ {value} ELSE selected \union {value}

\* Whether the editor can be saved, and whether it can be left alone meanwhile.
SearchEditor(form, busy) ==
  [saves |-> form.name.core # Nothing /\ ~busy, deletes |-> form.id # NoSearch /\ ~busy, closes |-> TRUE]
-----------------------------------------------------------------------------
(* The email, as a record of the clauses that make it up *)

NoSender == [name |-> Nothing, phone |-> Nothing, urgency |-> Nothing]

buyerFullName(profile) == profile.name.core
resolveSender(profile, fallback) ==
  [name |-> IF buyerFullName(profile) # Nothing THEN buyerFullName(profile) ELSE fallback,
   phone |-> profile.phone.core, urgency |-> profile.urgency]

urgencyLine(urgency) == IF urgency \in {"browsing", Nothing} THEN Nothing ELSE urgency
signatureBlock(name, phone) == <<name, phone>>

conditionLine(condition) ==
  IF condition \intersect {"Restoration project", "Full renovation"} # {} THEN "renovation"
  ELSE IF "Some updating" \in condition THEN "updating" ELSE Nothing
landLine(land) == land \intersect {"Land with a building to convert", "Buildable land or planning potential"}

Email(place, types, beds, price, taste, search, sender) ==
  [place |-> IF place = Blank THEN "your area" ELSE place.core,
   types |-> IF types = {} THEN {"home"} ELSE types, beds |-> beds, price |-> price, taste |-> taste,
   body |-> <<conditionLine(search.condition), landLine(search.land), "Auction" \in search.saleMethods>>,
   closing |-> urgencyLine(sender.urgency), sign |-> signatureBlock(sender.name, sender.phone)]

\* The editor's preview, from the form.
previewEmail(form, sender) ==
  Email(form.location, form.types,
        IF form.minBeds # Junk /\ form.minBeds > 0 THEN form.minBeds ELSE NoValue,
        IF form.maxPrice > 0 THEN form.maxPrice ELSE NoValue, Tidy(form.keywords), form, sender)

draftSearchEmail_AnyPrice(search, sender) ==
  Email(search.location, search.types,
        IF search.minBedrooms # NoValue /\ search.minBedrooms # 0 THEN search.minBedrooms ELSE NoValue,
        IF search.maxPricePence # NoValue THEN (search.maxPricePence + 50) \div 100 ELSE NoValue,
        Tidy(search.keywords), search, sender)

\* The server's, from the row.
draftSearchEmail(search, sender) ==
  Email(search.location, search.types,
        IF search.minBedrooms # NoValue /\ search.minBedrooms # 0 THEN search.minBedrooms ELSE NoValue,
        IF search.maxPricePence > 0 THEN (search.maxPricePence + 50) \div 100 ELSE NoValue,
        Tidy(search.keywords), search, sender)
-----------------------------------------------------------------------------
(* Searches and agents *)

SearchCard(search) ==
  [id |-> search.id, pill |-> IF search.status = "active" THEN "Pause" ELSE "Resume",
   links |-> search.outcodes # {}, launches |-> search.outcodes # {}]

\* The whole patch, page after page; `ceiling` pages at most.
collectAgents(agents, outcodes, ceiling) ==
  LET next(got) ==
        LET found == listAgents(agents, outcodes, TRUE, got.cursor, MAX_PAGE_LIMIT)
        IN  [items |-> got.items \union Range(found.items), cursor |-> found.nextCursor,
             more |-> found.nextCursor # NoCursor]
      after[n \in 0..ceiling] ==
        IF n = 0 THEN [items |-> {}, cursor |-> NoCursor, more |-> TRUE]
        ELSE LET got == after[n - 1] IN IF got.more THEN next(got) ELSE got
  IN  after[ceiling].items

\* Another mailbox of the agent's domain was emailed within the cooldown.
wasDomainContactedSince(agents, agent) ==
  \E other \in agents : other.id # agent.id /\ other.domain = agent.domain /\ other.contacted = "recently"

\* The guard's answer, peeked at and not reserved: the first gate that refuses.
\* `sending` is what the gates read besides the agents: the suppression list, and
\* what the breaker, the kill-switch or the day's cap says to everyone ("ok" if
\* nothing).
assertCanSend(agents, sending, agent) ==
  IF ~agent.corporate THEN "PECR_NON_CORPORATE"
  ELSE IF agent.optedOut THEN "OPTED_OUT"
  ELSE IF agent.email \in sending.suppressed THEN "SUPPRESSED"
  ELSE IF agent.undeliverable THEN "EMAIL_UNDELIVERABLE"
  ELSE IF wasDomainContactedSince(agents, agent) THEN "DOMAIN_RECENTLY_CONTACTED"
  ELSE sending.brake

reviewDrafts(agents, sending, outcodes, ceiling) ==
  {[id |-> agent.id, eligible |-> assertCanSend(agents, sending, agent) = "ok",
    reason |-> assertCanSend(agents, sending, agent)] : agent \in collectAgents(agents, outcodes, ceiling)}

\* The counters on a search's card.
searchStats(rows, agents, search) ==
  LET patch == {a \in agents : ~a.optedOut /\ a.covers \intersect search.outcodes # {}}
  IN  [homesFound |-> countByOutcodes(rows, search.outcodes), agentsInPatch |-> Cardinality(patch),
       agentsContacted |-> Cardinality({a \in patch : a.contacted # "never"})]

\* The agents that touch the patch and no other search's.
selectAgentsToRemove(target, others, agents) ==
  {agent \in agents : agent.covers \intersect target # {} /\ agent.covers \intersect others = {}}

previewSearchRemoval(rows, agents, search, others) ==
  [listingsToHide |-> countByOutcodes(rows, search.outcodes),
   agentsToRemove |-> Cardinality(selectAgentsToRemove(search.outcodes, others, agents))]

\* The confirmation: what it says is lost with the search. An answer that failed
\* counts as nothing.
ConfirmRemoveSearch(preview, loading) ==
  [says |-> IF loading THEN "working" ELSE IF preview.listingsToHide + preview.agentsToRemove = 0
            THEN "nothing else" ELSE "counts",
   confirms |-> ~loading]

deriveAgentStatus(optedOut, thread) ==
  CASE optedOut -> "opted_out"
    [] ~optedOut /\ thread = "replied" -> "replied"
    [] ~optedOut /\ thread = "awaiting_reply" -> "awaiting"
    [] OTHER -> "queued"

buildAgentRows(rows, agents, outcodes, ceiling) ==
  {[id |-> agent.id, status |-> deriveAgentStatus(agent.optedOut, agent.thread),
    homesCount |-> countByAgentEmail(rows, agent.email), contacted |-> agent.contacted # "never"] :
     agent \in collectAgents(agents, outcodes, ceiling)}

\* The tiles. Queued agents count as awaiting.
agentStats(agentRows) ==
  [contacted |-> Cardinality({row \in agentRows : row.contacted}),
   replied |-> Cardinality({row \in agentRows : row.status = "replied"}),
   awaiting |-> Cardinality({row \in agentRows : row.status \in {"awaiting", "queued"}}),
   homesIngested |-> MapThenSumSet(LAMBDA row : row.homesCount, agentRows)]

\* The agents of the table under one of its chips.
AgentsTable(agentRows, filter) ==
  CASE filter = "all" -> agentRows
    [] filter = "awaiting" -> {row \in agentRows : row.status \in {"awaiting", "queued"}}
    [] OTHER -> {row \in agentRows : row.status = filter}
-----------------------------------------------------------------------------
(* Sources and settings *)

\* The catalogue with what the source records count.
sourceRows(rows) ==
  {[id |-> source, kind |-> SOURCE_CATALOGUE[source],
    lotsFound |-> Cardinality({row \in rows : row.source = source}),
    latest |-> Max({NoValue} \union {row.seen : row \in {r \in rows : r.source = source}})] :
     source \in DOMAIN SOURCE_CATALOGUE}

\* The tiles are of all sources, the table of those of a kind.
SourcesPage(answer, kind) ==
  [monitored |-> Cardinality(answer), totalLots |-> MapThenSumSet(LAMBDA row : row.lotsFound, answer),
   latest |-> Max({NoValue} \union {row.latest : row \in answer}),
   table |-> {row \in answer : kind \in {"all", row.kind}}]

saveIdentity(draft) == [name |-> Trim(draft.name), phone |-> Trim(draft.phone), urgency |-> draft.urgency]
==============================================================================
