----------------------------- MODULE SearchPatch -----------------------------
(* A search and the agents of its patch: the operator launches its discovery,   *)
(* a job that finds the agencies of the patch on the web and files one mailbox  *)
(* of each; edits and removes searches, a removal erasing the agents no other   *)
(* search needs; erases single agents; and runs the backfill that clears old    *)
(* junk out of the pool. Mailboxes opt out and are written to meanwhile.        *)
EXTENDS AgencyPages, EmailVerifiers, UkPlaces

CONSTANTS
  Searches, Operator, \* ids of searches; the owner whose searches find agents
  OwnerOf,            \* by search
  Located,            \* by location: its Text, see UkPlaces
  Homes,              \* by listing: its outcode
  Mails,              \* the mailboxes there are
  search, Failures,   \* see discover; bound: what may fail in one run
  MaxQueries, FetchMax, \* DISCOVERY_MAX_QUERIES and _FETCH_MAX
  NamesPlace, LocalLength, \* <<location, local part>> pairs; by local part
  Switched,           \* the searches whose job meets ANALYSIS_KILL_SWITCH
  Raw, Answer,        \* by domain: answers of the classifier, of the verifier
  MaxTries,           \* starts of a job
  AtOnce,             \* bound: jobs that run at once; four do
  Forgotten, MaxIds,  \* bound: the searches whose ended job is evicted, while no mailbox
                      \* has been given more ids than that
  Removals,           \* removals the owners confirm, each once
  Begin, Edited,      \* bound: where a search is created; the searches that are edited
  Faulty,             \* bound: the searches whose job may fail
  Unsubscribers, Approached, Unwanted, \* bound: mailboxes that may opt out, may be emailed, may
                      \* be removed by the operator
  Agencies, Published \* what is true: domains of agencies with live mailboxes; by location:
                      \* the agencies its results lead to

Brief(l) == [location |-> l, outcodes |-> resolveLocationToOutcodes(Located[l])]
Sorted(outcodes) == SetToSortSeq(outcodes, LAMBDA a, b : a[1] = b[1] /\ a[2] < b[2])
Queries(o) == buildDiscoveryQueries(o.location, Sorted(o.outcodes), MaxQueries)

\* Every address of an agency in a text is one of Mails.
Known(tokens) ==
  tokens \in Seq({t \in Range(tokens) :
    t.kind = "asset" \/ Email(t.local, t.domain) \in Mails
      \/ ~isLikelyAgencyEmail(Email(t.local, t.domain))})

\* The web has an answer to every query a search may ask.
ASSUME PatchAssumption ==
  /\ OwnerOf \in [Searches -> {Operator} \cup {OwnerOf[s] : s \in Searches}]
  /\ Begin \in [Searches -> DOMAIN Located]
  /\ MaxTries \in Nat \ {0} /\ FetchMax \in Nat /\ MaxIds \in Nat
  /\ Unsubscribers \cup Approached \subseteq Mails
  /\ \A l \in DOMAIN Located : Queries(Brief(l)) \in Seq(DOMAIN search)
  /\ \A q \in DOMAIN search :
       /\ search[q] \in Seq(Range(search[q]))
       /\ \A r \in Range(search[q]) : Known(r.snippet) /\ Known(r.page)

VARIABLES
  brief,      \* per search: its row's location and outcodes
  agent,      \* the Agent rows: a function from some of Mails
  minted,     \* per mailbox: agent ids given to it so far
  suppressed, \* the mailboxes with a SuppressionEntry
  hidden,     \* the DismissedListing rows: <<owner, listing>>
  status, tries, order, \* per search: its discover:agents job, its starts, its payload until it ends
  work,       \* per search: what the running attempt remembers
  removal,    \* per removal: what it has read
  flagged     \* <<mailbox, id>> of the agents the backfill is erasing

searchVars == <<brief, hidden>>
poolVars == <<agent, minted>>
jobVars == <<status, tries, order, work>>
vars == <<searchVars, poolVars, suppressed, jobVars, removal, flagged>>

NoBrief == [location |-> NoText, outcodes |-> {}] \* not created yet
Removed == [location |-> "removed", outcodes |-> {}]
Live == {s \in Searches : brief[s] \notin {NoBrief, Removed}}
Patch(s) == brief[s].outcodes
Covering(outcodes) == {e \in DOMAIN agent : agent[e].coveredOutcodes \cap outcodes # {}}
homesIn(outcodes) == {h \in DOMAIN Homes : Homes[h] \in outcodes}

NoCounts == [upserted |-> 0, skipped |-> 0, collapsed |-> 0, classifiedOut |-> 0]
NoFailure == [queries |-> {}, links |-> {}]
Idle == [at |-> "idle", before |-> {}, failed |-> NoFailure, candidates |-> <<>>, next |-> 1,
         byDomain |-> <<>>, written |-> {}, counts |-> NoCounts]
Unread == [at |-> "idle", search |-> NoText, outcodes |-> {}, others |-> {}, agents |-> {},
           todo |-> {}, changed |-> {}]

\* Searches, jobs and rows are where the rest expects them, and the pool holds
\* corporate mailboxes only: neither webmail nor portals nor councils.
TypeOK ==
  /\ \A s \in Live : brief[s] = Brief(brief[s].location)
  /\ \A e \in DOMAIN agent :
       /\ e.domain \notin FREE_MAIL_DOMAINS \cup PORTAL_DOMAINS \cup GovDomains
       /\ agent[e].id \in 1..minted[e]
       /\ agent[e].emailVerifyStatus \in EmailDeliverability
  /\ suppressed \subseteq Mails
  /\ status \in [Searches -> {"free", "waiting", "active", "completed", "failed"}]
  /\ tries \in [Searches -> 0..MaxTries]
  /\ \A s \in Searches : work[s].at # "idle" => status[s] = "active"
  /\ \A r \in Removals : removal[r].todo \subseteq {"others", "agents"}

Init ==
  /\ brief = [s \in Searches |-> NoBrief]
  /\ agent = [e \in {} |-> 0] /\ minted = [e \in Mails |-> 0]
  /\ suppressed = {} /\ hidden = {} /\ flagged = {}
  /\ status = [s \in Searches |-> "free"] /\ tries = [s \in Searches |-> 0]
  /\ order = [s \in Searches |-> NoBrief]
  /\ work = [s \in Searches |-> Idle]
  /\ removal = [r \in Removals |-> Unread]

\* What has changed since a removal read it.
Noted(x, part) ==
  [r \in Removals |-> IF removal[r].at = "read" /\ part \notin removal[r].todo
                      THEN [removal[r] EXCEPT !.changed = @ \cup x] ELSE removal[r]]
-----------------------------------------------------------------------------
(* Searches *)

\* Created or edited; the outcodes come from the location alone, again each time.
Write(s) ==
  /\ brief[s] = NoBrief \/ s \in Live \cap Edited
  /\ \E l \in IF brief[s] = NoBrief THEN {Begin[s]} ELSE DOMAIN Located \ {brief[s].location} :
       brief' = [brief EXCEPT ![s] = Brief(l)]
  /\ removal' = Noted({s}, "others")
  /\ UNCHANGED <<hidden, poolVars, suppressed, jobVars, flagged>>

\* The job's id is the search's: while a job of that id is kept, nothing is queued.
launch(s) ==
  /\ s \in Live /\ OwnerOf[s] = Operator /\ Patch(s) # {}
  /\ status[s] = "free"
  /\ status' = [status EXCEPT ![s] = "waiting"]
  /\ order' = [order EXCEPT ![s] = brief[s]]
  /\ UNCHANGED <<searchVars, poolVars, suppressed, tries, work, removal, flagged>>

\* Only so many ended jobs are kept: the next launch of this search runs again.
Evict(s) ==
  /\ s \in Forgotten /\ \A e \in Mails : minted[e] <= MaxIds
  /\ status[s] \in {"completed", "failed"}
  /\ status' = [status EXCEPT ![s] = "free"]
  /\ tries' = [tries EXCEPT ![s] = 0]
  /\ UNCHANGED <<searchVars, poolVars, suppressed, order, work, removal, flagged>>
-----------------------------------------------------------------------------
(* The discovery job *)

Take(s) ==
  /\ status[s] = "waiting" /\ tries[s] < MaxTries
  /\ Cardinality({t \in Searches : status[t] = "active"}) < AtOnce
  /\ status' = [status EXCEPT ![s] = "active"]
  /\ tries' = [tries EXCEPT ![s] = @ + 1]
  /\ work' = [work EXCEPT ![s] = [Idle EXCEPT !.at = "discover", !.before = suppressed]]
  /\ UNCHANGED <<searchVars, poolVars, suppressed, order, removal, flagged>>

Leave(s, left) ==
  /\ status' = [status EXCEPT ![s] = left]
  /\ work' = [work EXCEPT ![s] = Idle]
  /\ order' = IF left = "waiting" THEN order ELSE [order EXCEPT ![s] = NoBrief]
  /\ UNCHANGED <<searchVars, poolVars, suppressed, tries, removal, flagged>>

Fail(s, retryable) ==
  Leave(s, IF retryable /\ tries[s] < MaxTries THEN "waiting" ELSE "failed")

Stay(s, w) ==
  /\ work' = [work EXCEPT ![s] = w]
  /\ UNCHANGED <<searchVars, suppressed, status, tries, order, flagged>>

\* One failing query or page does not fail the run, every query failing does: it is
\* tried again, or not when the last one was refused for good.
Discover(s) ==
  /\ work[s].at = "discover"
  /\ LET queries == Queries(order[s])
     IN  \E failed \in IF s \in Faulty THEN Failures ELSE {NoFailure} :
           IF AllFail(queries, failed) THEN \E retryable \in BOOLEAN : Fail(s, retryable)
           ELSE /\ Stay(s, [work[s] EXCEPT !.at = "sift", !.failed = failed,
                              !.candidates = discover(search, queries, failed, FetchMax)])
                /\ UNCHANGED <<poolVars, removal>>

\* Mutant: The suppression list is left to the guard.
Dropped_AnySuppressed(s, c) ==
  \/ \E i \in 1..(work[s].next - 1) : work[s].candidates[i].email = c.email
  \/ classifyMailboxType(c.email) # "corporate_subscriber"

Dropped(s, c) ==
  \/ \E i \in 1..(work[s].next - 1) : work[s].candidates[i].email = c.email
  \/ classifyMailboxType(c.email) # "corporate_subscriber"
  \/ c.email \in suppressed

Grouped(groups, c) ==
  IF \E i \in DOMAIN groups : Head(groups[i]).email.domain = c.email.domain
  THEN [i \in DOMAIN groups |-> IF Head(groups[i]).email.domain = c.email.domain
                                THEN Append(groups[i], c) ELSE groups[i]]
  ELSE Append(groups, <<c>>)

\* The next candidate: dropped, judged not an agency, or kept with the others of its
\* domain. An answer that is no JSON ends the job, a failing call is retried.
Sift(s) ==
  /\ work[s].at = "sift" /\ work[s].next \in DOMAIN work[s].candidates
  /\ LET c == work[s].candidates[work[s].next]
         passed == [work[s] EXCEPT !.next = @ + 1]
         kept == [passed EXCEPT !.byDomain = Grouped(@, c)]
         out == [passed EXCEPT !.counts.classifiedOut = @ + 1]
         As(w) == Stay(s, w) /\ UNCHANGED <<poolVars, removal>>
     IN  IF Dropped(s, c) THEN As([passed EXCEPT !.counts.skipped = @ + 1])
         ELSE IF isPortalEmail(c.email) \/ isNonAgencyName(c.agencyName) THEN As(out)
         ELSE IF s \in Switched THEN As(kept)
         ELSE \E raw \in {raw \in Raw[c.email.domain] : s \in Faulty \/ raw.sells \notin {"down", "no JSON"}} :
                CASE raw.sells = "down" -> Fail(s, TRUE) [] raw.sells = "no JSON" -> Fail(s, FALSE)
                  [] OTHER -> As(IF shouldAutoDelete(parseAgentClassify(raw)) THEN out ELSE kept)

Sifted(s) == work[s].at = "sift" /\ work[s].next > Len(work[s].candidates)

Chosen(s, group) ==
  LET best == pickBestEmail([i \in DOMAIN group |-> group[i].email],
                            {pair[2] : pair \in {p \in NamesPlace : p[1] = order[s].location}},
                            LocalLength)
      named == {i \in DOMAIN group : group[i].email = best}
  IN  group[IF named = {} THEN 1 ELSE CHOOSE i \in named : TRUE]

\* A row of that address keeps its id, its opt-out and its history, and takes the
\* outcodes of this run for its own.
upsertByEmail(c, outcodes, verdict) ==
  LET e == c.email
      old == IF e \in DOMAIN agent THEN agent[e]
             ELSE [id |-> minted[e] + 1, optedOut |-> FALSE, contacted |-> FALSE]
      row == [id |-> old.id, optedOut |-> old.optedOut, contacted |-> old.contacted,
              agencyName |-> c.agencyName, website |-> agentWebsite(e, c.websiteUrl),
              coveredOutcodes |-> outcodes, emailVerifyStatus |-> verdict]
  IN  /\ agent' = [d \in DOMAIN agent \cup {e} |-> IF d = e THEN row ELSE agent[d]]
      /\ minted' = [minted EXCEPT ![e] = old.id]
      /\ removal' = Noted({e}, "agents")

\* Mutant: The further mailboxes of an agency are not counted.
Upsert_Uncounted(s) ==
  /\ Sifted(s) /\ work[s].byDomain # <<>>
  /\ LET group == Head(work[s].byDomain)
         c == Chosen(s, group)
     IN  /\ \E answer \in Answer[c.email.domain] :
              upsertByEmail(c, order[s].outcodes, verify(answer))
         /\ Stay(s, [work[s] EXCEPT !.byDomain = Tail(@), !.written = @ \cup {c.email.domain},
                                    !.counts.upserted = @ + 1])

\* One mailbox for each agency, whether it takes mail or not.
Upsert(s) ==
  /\ Sifted(s) /\ work[s].byDomain # <<>>
  /\ LET group == Head(work[s].byDomain)
         c == Chosen(s, group)
     IN  /\ \E answer \in Answer[c.email.domain] :
              upsertByEmail(c, order[s].outcodes, verify(answer))
         /\ Stay(s, [work[s] EXCEPT !.byDomain = Tail(@), !.written = @ \cup {c.email.domain},
                                    !.counts.upserted = @ + 1, !.counts.collapsed = @ + Len(group) - 1])

Complete(s) ==
  /\ Sifted(s) /\ work[s].byDomain = <<>>
  /\ Leave(s, "completed")

Crash(s) == s \in Faulty /\ status[s] = "active" /\ Fail(s, TRUE)

Discovery(s) ==
  Take(s) \/ Discover(s) \/ Sift(s) \/ Upsert(s) \/ Complete(s) \/ Crash(s)
-----------------------------------------------------------------------------
(* Removing a search *)

\* Mutant: Whatever covers the patch.
selectAgentsToRemove_Shared(outcodes, others, agents) ==
  {a \in agents : a.coveredOutcodes \cap outcodes # {}}

selectAgentsToRemove(outcodes, others, agents) ==
  {a \in agents : a.coveredOutcodes \cap outcodes # {} /\ a.coveredOutcodes \cap others = {}}

\* The search, then the other searches and the agents, in either order: only the
\* operator's cascade asks for these.
ReadSearch(r, s) ==
  /\ removal[r].at = "idle" /\ s \in Live
  /\ removal' = [removal EXCEPT ![r] =
       [Unread EXCEPT !.at = "read", !.search = s, !.outcodes = Patch(s),
          !.todo = IF OwnerOf[s] = Operator /\ Patch(s) # {} THEN {"others", "agents"} ELSE {}]]
  /\ UNCHANGED <<searchVars, poolVars, suppressed, jobVars, flagged>>

ReadOthers(r) ==
  /\ removal[r].at = "read" /\ "others" \in removal[r].todo
  /\ LET others == {s \in Live : OwnerOf[s] = Operator} \ {removal[r].search}
     IN  removal' = [removal EXCEPT ![r] =
           [removal[r] EXCEPT !.todo = @ \ {"others"}, !.others = UNION {Patch(s) : s \in others}]]
  /\ UNCHANGED <<searchVars, poolVars, suppressed, jobVars, flagged>>

\* Their ids and addresses: two reads, of columns that never change.
ReadAgents(r) ==
  /\ removal[r].at = "read" /\ "agents" \in removal[r].todo
  /\ removal' = [removal EXCEPT ![r] = [removal[r] EXCEPT !.todo = @ \ {"agents"},
       !.agents = {[mail |-> e, id |-> agent[e].id, coveredOutcodes |-> agent[e].coveredOutcodes] :
                     e \in Covering(removal[r].outcodes)}]]
  /\ UNCHANGED <<searchVars, poolVars, suppressed, jobVars, flagged>>

resolveCascadeAgentIds(r) ==
  selectAgentsToRemove(removal[r].outcodes, removal[r].others, removal[r].agents)

Without(mails) == [e \in DOMAIN agent \ mails |-> agent[e]]

\* One transaction: a search that is gone by now rolls all of it back.
removeSearchCascade(r) ==
  /\ removal[r].at = "read" /\ removal[r].todo = {}
  /\ LET s == removal[r].search
         erased == {a.mail : a \in {a \in resolveCascadeAgentIds(r) :
                                      a.mail \in DOMAIN agent /\ agent[a.mail].id = a.id}}
     IN  IF s \in Live
         THEN /\ hidden' = hidden \cup ({OwnerOf[s]} \X homesIn(removal[r].outcodes))
              /\ agent' = Without(erased)
              /\ brief' = [brief EXCEPT ![s] = Removed]
              /\ removal' = [q \in Removals |->
                   IF q = r THEN [Unread EXCEPT !.at = "removed"]
                   ELSE IF removal[q].at = "read"
                   THEN [removal[q] EXCEPT !.changed =
                           @ \cup (IF "agents" \in removal[q].todo THEN {} ELSE erased)
                             \cup (IF "others" \in removal[q].todo THEN {} ELSE {s})]
                   ELSE removal[q]]
         ELSE /\ removal' = [removal EXCEPT ![r] = [Unread EXCEPT !.at = "not found"]]
              /\ UNCHANGED <<searchVars, agent>>
  /\ UNCHANGED <<minted, suppressed, jobVars, flagged>>

Removing(r) ==
  (\E s \in Searches : ReadSearch(r, s)) \/ ReadOthers(r) \/ ReadAgents(r) \/ removeSearchCascade(r)
-----------------------------------------------------------------------------
(* The pool *)

\* Bound: when the operator acts on the pool; what he began goes on.
Quiet == \A s \in Searches : status[s] \notin {"waiting", "active"}

eraseAgentById(e) ==
  /\ agent' = Without({e})
  /\ removal' = Noted({e}, "agents")
  /\ UNCHANGED <<searchVars, minted, suppressed, jobVars>>

\* The operator removes an agent from the table.
RemoveAgent(e) ==
  /\ e \in DOMAIN agent \cap Unwanted /\ Quiet
  /\ eraseAgentById(e)
  /\ UNCHANGED flagged

\* Two mailboxes of a domain are judged one by one, and not always alike.
Junk(e, raw) == isPortalEmail(e) \/ isNonAgencyName(agent[e].agencyName)
                  \/ shouldAutoDelete(parseAgentClassify(raw))

\* Reads the whole pool and passes over who has been written to; a failing or
\* unreadable answer ends it with nothing erased.
runBackfill ==
  /\ flagged = {} /\ Quiet
  /\ \E raw \in [DOMAIN agent -> UNION {Raw[d] : d \in DOMAIN Raw}] :
       /\ \A e \in DOMAIN agent : raw[e] \in Raw[e.domain] /\ raw[e].sells \notin {"down", "no JSON"}
       /\ flagged' = {<<e, agent[e].id>> : e \in {e \in DOMAIN agent : ~agent[e].contacted /\ Junk(e, raw[e])}}
  /\ UNCHANGED <<searchVars, poolVars, suppressed, jobVars, removal>>

EraseFlagged ==
  \E f \in flagged :
    /\ flagged' = flagged \ {f}
    /\ IF f[1] \in DOMAIN agent /\ agent[f[1]].id = f[2] THEN eraseAgentById(f[1])
       ELSE UNCHANGED <<searchVars, poolVars, suppressed, jobVars, removal>>

\* A first email goes out, see OutreachSend; a mailbox opts out or bounces.
MarkContacted(e) ==
  /\ e \in DOMAIN agent \cap Approached /\ ~agent[e].contacted /\ Quiet
  /\ agent' = [agent EXCEPT ![e].contacted = TRUE]
  /\ UNCHANGED <<searchVars, minted, suppressed, jobVars, removal, flagged>>

Unsubscribe(e) ==
  /\ e \in Unsubscribers \ suppressed
  /\ suppressed' = suppressed \cup {e}
  /\ agent' = [d \in DOMAIN agent |-> [agent[d] EXCEPT !.optedOut = @ \/ d = e]]
  /\ UNCHANGED <<searchVars, minted, jobVars, removal, flagged>>

Pool ==
  \/ \E e \in Mails : RemoveAgent(e) \/ MarkContacted(e) \/ Unsubscribe(e)
  \/ runBackfill \/ EraseFlagged

Next ==
  \/ \E s \in Searches : Write(s) \/ launch(s) \/ Evict(s) \/ Discovery(s)
  \/ \E r \in Removals : Removing(r)
  \/ Pool

Spec == Init /\ [][Next]_vars
-----------------------------------------------------------------------------
(* Properties *)

\* The mailboxes that wait for their agency's turn.
Waiting(groups) ==
  UNION {{Head(group).email.domain} \X DOMAIN group : group \in Range(groups)}

\* Every candidate of a run is accounted for once: filed, dropped, judged out, one
\* of several mailboxes of its agency, or still to come.
CountsAddUp ==
  \A s \in Searches :
    LET w == work[s]
    IN  w.at = "sift" =>
          w.next - 1 = w.counts.upserted + w.counts.skipped + w.counts.collapsed
                       + w.counts.classifiedOut + Cardinality(Waiting(w.byDomain))

\* An agency the results lead to is found unless its page or query failed, is neither
\* judged junk nor dropped unless it is suppressed, and its live mailbox stays
\* sendable.
AgencyReached ==
  /\ \A s \in Searches :
       LET w == work[s]
           mails == {work[s].candidates[i].email : i \in DOMAIN work[s].candidates}
       IN  /\ w.at = "sift" /\ w.failed = NoFailure =>
                Published[order[s].location] \subseteq {e.domain : e \in mails}
           /\ Sifted(s) =>
                \A e \in mails : e.domain \in Agencies /\ e \notin suppressed =>
                  e.domain \in w.written \cup {Head(w.byDomain[i]).email.domain : i \in DOMAIN w.byDomain}
  /\ \A e \in DOMAIN agent : e.domain \in Agencies => agent[e].emailVerifyStatus # "undeliverable"

\* A run never writes a row for a mailbox that was suppressed before the run began.
NeverResourced ==
  [][\A s \in Searches : \A e \in work[s].before :
       Sifted(s) /\ work'[s] # work[s] =>
         (e \in DOMAIN agent <=> e \in DOMAIN agent') /\ (e \in DOMAIN agent => agent'[e] = agent[e])]_vars

\* Removing a search erases an agent that another search of the operator covers only
\* if that search or that agent changed after the removal had read it.
KeptForOthers ==
  [][\A r \in Removals, e \in DOMAIN agent \ DOMAIN agent' :
       removal[r].at = "read" /\ removal'[r].at = "removed" =>
         \A s \in Live \ {removal[r].search} :
           OwnerOf[s] = Operator /\ agent[e].coveredOutcodes \cap Patch(s) # {} =>
             {s, e} \cap removal[r].changed # {}]_vars
=============================================================================
