---------------------------- MODULE ListingScrape ----------------------------
(* The scrape of the listing sites: a scrape:listings job, the scheduler's or   *)
(* the operator's Refresh, resolves the patch from the active searches, walks   *)
(* every enabled site, and files the lots it finds in the patch as listings,    *)
(* each with its source record and a job for the analysis queue. The pages it   *)
(* asks for may fail one by one, agents' tips write the same listings, and a    *)
(* scan that is retried starts over.                                            *)
EXTENDS ListingPages

CONSTANTS
  Web,            \* the pages of the sites by URL; any other URL answers 404
  Taxonomy,       \* rows of prefixes and, per site, the index pages they select
  National,       \* per site, the index pages of a national catalogue
  HasPrefix,      \* <<outcode, prefix>> pairs
  Enabled,        \* LISTING_SCRAPE_SITES, in order
  Limit, MaxIndex, MaxRedirects, \* LISTING_SCRAPE_LIMIT and _MAX_INDEX; hops of fetchPage
  Jobs,           \* ids of scrape:listings jobs
  MaxTries,       \* starts of a job: its attempts and the stall it survives
  Faulty,         \* bound: the jobs whose statements may fail
  Flaky,          \* bound: the URLs whose fetch may fail
  Patches,        \* bound: what the active searches of the operator may cover
  Tips,           \* lots that agents send in, each once
  Property        \* by the name of its street: postcode and price of what is for sale there;
                  \* a page about it names no other postcode more often

\* The index pages are the sites' own, spelled out in the code.
ASSUME ScrapeAssumption ==
  /\ Enabled \in Seq(Sites) /\ Faulty \subseteq Jobs
  /\ Limit \in Nat \ {0} /\ MaxIndex \in Nat \ {0} /\ MaxTries \in Nat \ {0}
  /\ MaxRedirects \in Nat
  /\ Taxonomy \in Seq(Range(Taxonomy))
  /\ \A site \in Sites :
       Course(site, National[site]) /\ \A row \in Range(Taxonomy) : Course(site, row.urls[site])
  /\ \A u \in DOMAIN Web : Web[u].links \in Seq(Range(Web[u].links))

VARIABLES
  patch,      \* outcodes of the operator's active searches
  status, tries, \* per job: its place in the queue, its starts
  work,       \* per job: what the running attempt remembers
  listing,    \* the Listing rows, by addressNormalized
  source,     \* the ListingSourceRecord rows: per externalId, its listing
  analysis,   \* listings with an analyze:listing job
  tipped      \* tips received

queueVars == <<status, tries>>
rowVars == <<listing, source, analysis>>
vars == <<patch, queueVars, work, rowVars, tipped>>

Idle == [at |-> "idle", sites |-> <<>>, wanted |-> {}, todo |-> <<>>, pager |-> NoUrl, page |-> 0,
         found |-> <<>>, events |-> 0, lots |-> <<>>, seen |-> {}, missed |-> FALSE, filed |-> {}]

Init ==
  /\ patch \in Patches
  /\ status = [j \in Jobs |-> "free"] /\ tries = [j \in Jobs |-> 0]
  /\ work = [j \in Jobs |-> Idle]
  /\ listing = <<>> /\ source = <<>> /\ analysis = {}
  /\ tipped = {}
-----------------------------------------------------------------------------
(* The queue, the searches and the agents *)

Do(j, w) == work' = [work EXCEPT ![j] = w]

\* The scheduler's tick and sources.refresh, whose id is the minute's.
enqueueScrapeListings(j) ==
  /\ status[j] = "free"
  /\ status' = [status EXCEPT ![j] = "waiting"]
  /\ UNCHANGED <<patch, tries, work, rowVars, tipped>>

Take(j) ==
  /\ status[j] = "waiting"
  /\ status' = [status EXCEPT ![j] = "active"] /\ tries' = [tries EXCEPT ![j] = @ + 1]
  /\ Do(j, [Idle EXCEPT !.at = "patch"])
  /\ UNCHANGED <<patch, rowVars, tipped>>

End(j, how) ==
  /\ status' = [status EXCEPT ![j] = how] /\ UNCHANGED tries
  /\ work' = [work EXCEPT ![j] = [Idle EXCEPT !.wanted = work[j].wanted, !.missed = work[j].missed,
                                                     !.filed = work[j].filed]]

\* A statement or an enqueue failed, or the worker stalled: the whole scan again.
Reject(j) ==
  /\ j \in Faulty /\ status[j] = "active"
  /\ End(j, IF tries[j] < MaxTries THEN "waiting" ELSE "failed")
  /\ UNCHANGED <<patch, rowVars, tipped>>

\* A search of the operator is activated, paused or edited.
EditPatch ==
  /\ \E p \in Patches \ {patch} : patch' = p
  /\ UNCHANGED <<queueVars, work, rowVars, tipped>>

\* A row without the fields that the sites do not give.
Row(lot, from) == [postcode |-> lot.postcode, price |-> lot.price, image |-> lot.image, from |-> from]

\* f with x mapped to y.
Put(f, x, y) == [z \in DOMAIN f \cup {x} |-> IF z = x THEN y ELSE f[z]]

\* An agent's tip writes listing and source in one transaction. It leaves the
\* image of the row alone. (InboundEmail models the steps of this job.)
ReceiveTip(tip) ==
  LET k == buildAddressKey(tip.street, tip.postcode)
  IN  /\ tip \notin tipped
      /\ listing' = Put(listing, k,
           [Row(tip, "agent_email") EXCEPT !.image = IF k \in DOMAIN listing THEN listing[k].image ELSE "none"])
      /\ source' = Put(source, tip.id, k)
      /\ analysis' = analysis \cup {k} /\ tipped' = tipped \cup {tip}
      /\ UNCHANGED <<patch, queueVars, work>>
-----------------------------------------------------------------------------
(* Pages *)

\* The index pages of a site for a set of outcodes.
siteRegionIndexUrls(site, outcodes) ==
  IF National[site] # <<>> THEN IF outcodes # {} THEN National[site] ELSE <<>>
  ELSE LET hit == Only(Taxonomy, LAMBDA row : \E o \in outcodes, p \in row.prefixes :
                                                     <<o, p>> \in HasPrefix)
       IN  Once(FlattenSeq([i \in DOMAIN hit |-> hit[i].urls[site]]))

\* Where a URL leads after n hops.
Final(url, n) ==
  LET hop[i \in 0..n] == IF i = 0 THEN url
                         ELSE IF hop[i - 1] \in DOMAIN Web /\ Web[hop[i - 1]].to # NoUrl
                              THEN Web[hop[i - 1]].to ELSE hop[i - 1]
  IN  hop[n]

\* The last hop and its page, or a blank one when it is no end.
Fetched(url) ==
  LET last == Final(url, MaxRedirects)
  IN  [url |-> last,
       page |-> IF last \in DOMAIN Web /\ Web[last].to = NoUrl THEN Web[last] ELSE BlankPage]
Failed == [url |-> NoUrl, page |-> BlankPage]

\* What a fetch may come to.
fetchPage(url) ==
  LET got == Fetched(url)
  IN  IF got.url \notin DOMAIN Web THEN {Failed} ELSE {got} \cup (IF url \in Flaky THEN {Failed} ELSE {})

\* Goes on with w, or when the page could not be had, which is logged and passed
\* over, with `bad`.
Ask(j, got, w, bad) ==
  /\ Do(j, IF got = Failed THEN [bad EXCEPT !.missed = TRUE] ELSE w)
  /\ UNCHANGED <<patch, queueVars, rowVars, tipped>>

At(j, at) == status[j] = "active" /\ work[j].at = at
Site(j) == Head(work[j].sites)
Silent(j, w) == Do(j, w) /\ UNCHANGED <<patch, queueVars, rowVars, tipped>>

resolveTargetOutcodes(j) ==
  /\ At(j, "patch")
  /\ Silent(j, [work[j] EXCEPT !.at = "site", !.wanted = patch,
                               !.sites = IF patch = {} THEN <<>> ELSE Enabled])

\* The next site, or the end of the scan.
NextSite(j) ==
  /\ At(j, "site")
  /\ IF work[j].sites = <<>>
     THEN End(j, "completed") /\ UNCHANGED <<patch, rowVars, tipped>>
     ELSE Silent(j, [work[j] EXCEPT !.at = "index",
                                    !.todo = siteRegionIndexUrls(Site(j), work[j].wanted)])

InPatch(w, lots) == Only(lots, LAMBDA l : outcodeOf(l.postcode) \in w.wanted)

\* The results that fit: in the patch, each externalId once, up to the limit.
Kept(w, lots) == Prefix(Distinct(w.lots \o InPatch(w, lots), LAMBDA l : l.id), Limit)
Keep(w, lots) == [w EXCEPT !.lots = Kept(w, lots)]

collectUklfDetailLinks(w, page) ==
  LET all == Extend(w.found, extractListingLinks("uklandandfarms", page))
  IN  [w EXCEPT !.found = Prefix(all, Limit), !.missed = @ \/ Len(all) > Limit]

\* One index page: the region's hub, the diary, or the first page of a region.
FetchIndex(j) ==
  /\ At(j, "index") /\ work[j].todo # <<>>
  /\ LET w == work[j]
         rest == [w EXCEPT !.todo = Tail(@)]
         Read(got) ==
           CASE Site(j) = "auctionhouse" -> Keep(rest, parseAuctionHubListings(got.page))
             [] Site(j) = "pughauctions" -> [rest EXCEPT !.found = Extend(@, extractPughAuctionLinks(got.page))]
             [] OTHER -> [collectUklfDetailLinks(rest, got.page) EXCEPT
                            !.at = IF uklfSearchEndpoint(got.page) = NoUrl THEN "index" ELSE "results",
                            !.pager = uklfSearchEndpoint(got.page), !.page = 2]
     IN  IF Len(w.lots) >= Limit \/ (Site(j) = "uklandandfarms" /\ Len(w.found) >= Limit)
         THEN Silent(j, [w EXCEPT !.todo = <<>>])
         ELSE \E got \in fetchPage(Head(w.todo)) : Ask(j, got, Read(got), rest)

IndexDone(j) ==
  /\ At(j, "index") /\ work[j].todo = <<>>
  /\ Silent(j, [work[j] EXCEPT !.at = "pages", !.todo = work[j].found])

\* Mutant: a page that repeats any lot already found is taken for one past the last.
FetchResults_AnyRepeat(j) ==
  /\ At(j, "results")
  /\ LET w == work[j]
         back == [w EXCEPT !.at = "index"]
         Lots(page) == ToSet(extractListingLinks("uklandandfarms", page))
         Brings(page) == Lots(page) # {} /\ Lots(page) \cap ToSet(w.found) = {}
         Read(page) == IF Brings(page) THEN [collectUklfDetailLinks(w, page) EXCEPT !.page = @ + 1] ELSE back
     IN  IF w.page > MaxIndex \/ Len(w.found) >= Limit THEN Silent(j, back)
         ELSE \E got \in fetchPage(withPageIndex(w.pager, w.page)) : Ask(j, got, Read(got.page), back)

\* One results page of the walk, which ends at a page without new lots, at a page
\* that cannot be had, and at the limits.
FetchResults(j) ==
  /\ At(j, "results")
  /\ LET w == work[j]
         back == [w EXCEPT !.at = "index"]
         Brings(page) == ToSet(extractListingLinks("uklandandfarms", page)) \ ToSet(w.found) # {}
         Read(page) == IF Brings(page) THEN [collectUklfDetailLinks(w, page) EXCEPT !.page = @ + 1] ELSE back
     IN  IF w.page > MaxIndex \/ Len(w.found) >= Limit THEN Silent(j, back)
         ELSE \E got \in fetchPage(withPageIndex(w.pager, w.page)) : Ask(j, got, Read(got.page), back)

\* uklandandfarms does not look at externalIds: two links to one page are two results.
KeepDetail(w, lots) == [w EXCEPT !.lots = @ \o InPatch(w, lots)]

\* One detail page, or one auction event.
FetchPage(j) ==
  /\ At(j, "pages") /\ work[j].todo # <<>>
  /\ LET w == work[j]
         rest == [w EXCEPT !.todo = Tail(@),
                           !.events = IF Site(j) = "pughauctions" THEN @ + 1 ELSE @]
         Read(got) == IF Site(j) = "pughauctions" THEN Keep(rest, parsePughLots(got.page))
                      ELSE KeepDetail(rest, parseUklfDetail(got.page, got.url))
     IN  IF Len(w.lots) >= Limit \/ (Site(j) = "pughauctions" /\ w.events >= MaxIndex)
         THEN Silent(j, [w EXCEPT !.todo = <<>>, !.missed = TRUE])
         ELSE \E got \in fetchPage(Head(w.todo)) : Ask(j, got, Read(got), rest)

PagesDone(j) ==
  /\ At(j, "pages") /\ work[j].todo = <<>>
  /\ Silent(j, [work[j] EXCEPT !.at = "write",
                    !.missed = @ \/ (Site(j) # "uklandandfarms" /\ Len(work[j].lots) = Limit)])
-----------------------------------------------------------------------------
(* Rows *)

Candidate(j) == Head(work[j].lots)
Key(j) == buildAddressKey(Candidate(j).street, Candidate(j).postcode)
NextLot(w) == [w EXCEPT !.at = "write", !.lots = Tail(@)]

\* An address that has no key, or that this batch has had, is skipped.
SkipCandidate(j) ==
  /\ At(j, "write") /\ work[j].lots # <<>> /\ Key(j) \in work[j].seen \cup {NoKey}
  /\ Silent(j, NextLot(work[j]))

SiteDone(j) ==
  /\ At(j, "write") /\ work[j].lots = <<>>
  /\ Silent(j, [Idle EXCEPT !.at = "site", !.sites = Tail(work[j].sites),
                            !.wanted = work[j].wanted, !.missed = work[j].missed,
                            !.filed = work[j].filed])

\* Mutant: A row that is there already is refreshed and nothing more.
WriteListing_OnlyNew(j) ==
  /\ At(j, "write") /\ work[j].lots # <<>> /\ Key(j) \notin work[j].seen \cup {NoKey}
  /\ listing' = Put(listing, Key(j), Row(Candidate(j), Site(j)))
  /\ Do(j, [(IF Key(j) \in DOMAIN listing THEN NextLot(work[j]) ELSE [work[j] EXCEPT !.at = "record"])
              EXCEPT !.seen = @ \cup {Key(j)}, !.filed = @ \cup {Key(j)}])
  /\ UNCHANGED <<patch, queueVars, source, analysis, tipped>>

\* The row is found by the key it would be inserted under, so it is the same row
\* whether the lookup saw it or not. Every field is overwritten, what an agent told
\* about the listing included.
WriteListing(j) ==
  /\ At(j, "write") /\ work[j].lots # <<>> /\ Key(j) \notin work[j].seen \cup {NoKey}
  /\ listing' = Put(listing, Key(j), Row(Candidate(j), Site(j)))
  /\ Do(j, [work[j] EXCEPT !.at = "record", !.seen = @ \cup {Key(j)},
                                      !.filed = @ \cup {Key(j)}])
  /\ UNCHANGED <<patch, queueVars, source, analysis, tipped>>

\* One record per (sourceType, externalId); it moves with its lot's address.
UpsertRecord(j) ==
  /\ At(j, "record")
  /\ source' = Put(source, Candidate(j).id, Key(j))
  /\ Do(j, [work[j] EXCEPT !.at = "enqueue"])
  /\ UNCHANGED <<patch, queueVars, listing, analysis, tipped>>

enqueueAnalyze(j) ==
  /\ At(j, "enqueue")
  /\ analysis' = analysis \cup {Key(j)}
  /\ Do(j, NextLot(work[j]))
  /\ UNCHANGED <<patch, queueVars, listing, source, tipped>>
-----------------------------------------------------------------------------
JobStep(j) ==
  \/ enqueueScrapeListings(j) \/ Take(j) \/ Reject(j) \/ resolveTargetOutcodes(j) \/ NextSite(j)
  \/ FetchIndex(j) \/ IndexDone(j) \/ FetchResults(j) \/ FetchPage(j) \/ PagesDone(j)
  \/ SkipCandidate(j) \/ SiteDone(j) \/ WriteListing(j) \/ UpsertRecord(j) \/ enqueueAnalyze(j)

Next == EditPatch \/ (\E tip \in Tips : ReceiveTip(tip)) \/ \E j \in Jobs : JobStep(j)
Spec == Init /\ [][Next]_vars
-----------------------------------------------------------------------------
(* Properties *)

\* The pages of a site that show lots of a patch: its index pages and what they
\* lead to, whatever order they are asked for in.
PagesOf(site, outcodes) ==
  LET index == ToSet(siteRegionIndexUrls(site, outcodes))
      walk == index \cup {u \in DOMAIN Web : /\ u.host = "www" /\ u.ref \in 2..MaxIndex
                                           /\ \E i \in index : Fetched(i).page.form = withPageIndex(u, 1)}
  IN  CASE site = "auctionhouse" -> index
        [] site = "pughauctions" -> {u \in DOMAIN Web : u.section = "auction" /\ \E i \in index : Contains(Fetched(i).page.links, u)}
        [] OTHER -> {u \in DOMAIN Web : isListingUrl(site, u) /\ \E p \in walk : Contains(Fetched(p).page.links, u)}

\* The lots of a site, as its pages show them.
LotsOf(site, outcodes) ==
  UNION {ToSet(CASE site = "auctionhouse" -> parseAuctionHubListings(got.page)
                 [] site = "pughauctions" -> parsePughLots(got.page)
                 [] OTHER -> parseUklfDetail(got.page, got.url)) :
           got \in {Fetched(u) : u \in PagesOf(site, outcodes)}}

\* A scan that could have every page it asked for, and hit no limit, has filed
\* every lot in its patch: the walk over the pages of a region does not end early,
\* no lot is lost between sites, and a retry starts from nothing.
ScanFilesPatch ==
  \A j \in Jobs : status[j] = "completed" /\ ~work[j].missed =>
    \A site \in ToSet(Enabled) : \A lot \in LotsOf(site, work[j].wanted) :
      outcodeOf(lot.postcode) \in work[j].wanted =>
        buildAddressKey(lot.street, lot.postcode) \in DOMAIN listing

\* What a scan files stands where the property is, and its price is the property's:
\* never the office of the agent who sells it, a neighbour's guide price or a sum
\* from a mortgage calculator.
FiledAsItIs ==
  \A k \in DOMAIN listing : listing[k].from \in Sites =>
    /\ listing[k].postcode = Property[k.name].postcode
    /\ listing[k].price \in {Nothing, Property[k.name].price}

\* A scan sets out for no index page, lot or auction outside the site it is at, nor
\* for one that robots.txt keeps crawlers out of, whatever the pages link to; and the
\* walk over the results of a region keeps to the site's main host, though a form may
\* send it to any path there (isListingUrl, extractPughAuctionLinks, uklfSearchEndpoint).
StaysOnSite ==
  \A j \in Jobs :
    /\ \A u \in ToSet(work[j].todo) \cup ToSet(work[j].found) : Crawlable(Site(j), u)
    /\ work[j].pager # NoUrl => OnMainHost(Site(j), work[j].pager)

\* Every listing that a completed scan filed has been handed to the analysis queue,
\* though an earlier attempt may have died between the row and the enqueue and left
\* the row behind.
FiledIsAnalysed ==
  \A j \in Jobs : status[j] = "completed" => work[j].filed \subseteq analysis
=============================================================================
