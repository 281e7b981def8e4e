------------------------- MODULE ListingScrape_proofs -------------------------
(* For any web, any patch and any number of scans, failures and tips: what a      *)
(* completed scan has filed was handed to the analysis, and no scan sets out for   *)
(* a page off its site or one that robots.txt keeps from crawlers.                 *)
EXTENDS ListingScrape, TLAPS, FiniteSetTheorems

Fields == {"at", "sites", "wanted", "todo", "pager", "page", "found", "events", "lots", "seen",
           "missed", "filed"}

Shape ==
  /\ DOMAIN status = Jobs /\ DOMAIN work = Jobs
  /\ \A j \in Jobs : DOMAIN work[j] = Fields

\* The listing a scan has filed last and not yet handed on.
InHand(j) == IF work[j].at \in {"record", "enqueue"} THEN {Key(j)} ELSE {}

FiledAhead ==
  \A j \in Jobs :
    /\ status[j] = "active" => work[j].filed \subseteq analysis \cup InHand(j)
    /\ status[j] = "completed" => work[j].filed \subseteq analysis

Inv == Shape /\ FiledAhead

LEMMA IdleShape == DOMAIN Idle = Fields /\ Idle.filed = {} /\ Idle.at = "idle"
  BY DEF Idle, Fields

LEMMA InitInv == Init => Inv
  BY IdleShape DEF Init, Inv, Shape, FiledAhead

\* A job moves, nothing is taken from the analysis, and what it has filed is
\* where its place in the scan says.
LEMMA Moves ==
  ASSUME Inv, NEW j \in Jobs, NEW w, DOMAIN w = Fields, work' = [work EXCEPT ![j] = w],
         NEW s, DOMAIN status' = Jobs, status'[j] = s, \A i \in Jobs \ {j} : status'[i] = status[i],
         analysis \subseteq analysis',
         s = "active" => w.filed \subseteq analysis' \cup InHand(j)',
         s = "completed" => w.filed \subseteq analysis'
  PROVE  Inv'
<1>1. Shape'
  BY DEF Inv, Shape
<1>2. work'[j] = w /\ \A i \in Jobs \ {j} : work'[i] = work[i]
  BY DEF Inv, Shape
<1>3. \A i \in Jobs \ {j} : InHand(i)' = InHand(i)
  BY <1>2 DEF Key, Candidate, InHand
<1>4. FiledAhead'
  <2> SUFFICES ASSUME NEW i \in Jobs
               PROVE  /\ status'[i] = "active" => work'[i].filed \subseteq analysis' \cup InHand(i)'
                      /\ status'[i] = "completed" => work'[i].filed \subseteq analysis'
    BY DEF FiledAhead
  <2>1. CASE i = j
    BY <2>1, <1>2
  <2>2. CASE i # j
    BY <2>2, <1>2, <1>3 DEF Inv, FiledAhead
  <2> QED
    BY <2>1, <2>2
<1> QED
  BY <1>1, <1>4 DEF Inv

\* w goes on from v with nothing filed and nothing in hand.
Walking(v, w) == DOMAIN w = Fields /\ w.filed = v.filed /\ w.at \notin {"record", "enqueue"}

LEMMA Walks ==
  ASSUME Inv, NEW j \in Jobs, NEW at, At(j, at), at \notin {"record", "enqueue"},
         NEW w, Walking(work[j], w), Silent(j, w)
  PROVE  Inv'
<1>1. work' = [work EXCEPT ![j] = w] /\ UNCHANGED <<status, analysis>>
  BY DEF Silent, Do, queueVars, rowVars
<1>2. status[j] = "active" /\ InHand(j) = {}
  BY DEF At, InHand
<1>3. w.filed \subseteq analysis
  BY <1>2 DEF Inv, FiledAhead, Walking
<1> QED
  BY <1>1, <1>2, <1>3, Moves DEF Inv, Shape, Walking

LEMMA Asks ==
  ASSUME Inv, NEW j \in Jobs, NEW at, At(j, at), at \notin {"record", "enqueue"},
         NEW w, Walking(work[j], w), NEW bad, Walking(work[j], bad), NEW got, Ask(j, got, w, bad)
  PROVE  Inv'
<1> DEFINE next == IF got = Failed THEN [bad EXCEPT !.missed = TRUE] ELSE w
<1>1. Silent(j, next)
  BY DEF Ask, Silent
<1>2. Walking(work[j], next)
  BY DEF Walking, Fields
<1> HIDE DEF next
<1> QED
  BY <1>1, <1>2, Walks

LEMMA WalksOn ==
  ASSUME Inv, NEW j \in Jobs
  PROVE  Walking(work[j], work[j]) \/ work[j].at \in {"record", "enqueue"}
  BY DEF Inv, Shape, Walking

\* The helpers of the walk.
LEMMA KeepWalks ==
  ASSUME NEW v, NEW w, Walking(v, w), NEW lots
  PROVE  Walking(v, Keep(w, lots)) /\ Walking(v, KeepDetail(w, lots))
  BY DEF Walking, Keep, KeepDetail, Fields

LEMMA CollectWalks ==
  ASSUME NEW v, NEW w, Walking(v, w), NEW page
  PROVE  Walking(v, collectUklfDetailLinks(w, page)) /\ collectUklfDetailLinks(w, page).at = w.at
<1> DEFINE all == Extend(w.found, extractListingLinks("uklandandfarms", page))
           links == Prefix(all, Limit)
           over == w.missed \/ Len(all) > Limit
<1>1. collectUklfDetailLinks(w, page) = [w EXCEPT !.found = links, !.missed = over]
  BY DEF collectUklfDetailLinks, Walking, Fields
<1> HIDE DEF all, links, over
<1> QED
  BY <1>1 DEF Walking, Fields

LEMMA ResolveKeeps ==
  ASSUME Inv, NEW j \in Jobs, resolveTargetOutcodes(j) PROVE Inv'
<1> DEFINE targets == IF patch = {} THEN <<>> ELSE Enabled
           w == [work[j] EXCEPT !.at = "site", !.wanted = patch, !.sites = targets]
<1>1. At(j, "patch") /\ Silent(j, w)
  BY DEF resolveTargetOutcodes
<1>2. Walking(work[j], w)
  <2> HIDE DEF targets
  <2> QED
    BY DEF Inv, Shape, Walking, Fields
<1> HIDE DEF w
<1> QED
  BY <1>1, <1>2, Walks

\* The end of an attempt keeps what it has filed.
LEMMA EndKeeps ==
  ASSUME Inv, NEW j \in Jobs, status[j] = "active",
         NEW how, how # "active", how = "completed" => InHand(j) = {},
         End(j, how), UNCHANGED rowVars
  PROVE  Inv'
<1> DEFINE w == [Idle EXCEPT !.wanted = work[j].wanted, !.missed = work[j].missed,
                             !.filed = work[j].filed]
<1>1. work' = [work EXCEPT ![j] = w] /\ status' = [status EXCEPT ![j] = how] /\ analysis' = analysis
  BY DEF End, rowVars
<1>2. DOMAIN w = Fields /\ w.filed = work[j].filed
  BY DEF Idle, Fields
<1>3. how = "completed" => w.filed \subseteq analysis
  BY <1>2 DEF Inv, FiledAhead
<1>4. DOMAIN status' = Jobs /\ status'[j] = how /\ \A i \in Jobs \ {j} : status'[i] = status[i]
  BY <1>1 DEF Inv, Shape
<1> HIDE DEF w
<1> QED
  BY <1>1, <1>2, <1>3, <1>4, Moves

LEMMA QueueKeeps ==
  ASSUME Inv, NEW j \in Jobs, enqueueScrapeListings(j) \/ Take(j) \/ Reject(j) PROVE Inv'
<1>1. CASE enqueueScrapeListings(j)
  <2>1. status' = [status EXCEPT ![j] = "waiting"] /\ UNCHANGED <<work, analysis>>
    BY <1>1 DEF enqueueScrapeListings, rowVars
  <2>2. \A i \in Jobs : InHand(i)' = InHand(i)
    BY <2>1 DEF InHand, Key, Candidate
  <2>3. \A i \in Jobs : status'[i] \in {"active", "completed"} => status'[i] = status[i]
    BY <2>1 DEF Inv, Shape
  <2> QED
    BY <2>1, <2>2, <2>3 DEF Inv, Shape, FiledAhead
<1>2. CASE Take(j)
  <2> DEFINE w == [Idle EXCEPT !.at = "patch"]
  <2>1. work' = [work EXCEPT ![j] = w] /\ status' = [status EXCEPT ![j] = "active"] /\ analysis' = analysis
    BY <1>2 DEF Take, Do, rowVars
  <2>2. DOMAIN w = Fields /\ w.filed = {}
    BY DEF Idle, Fields
  <2>3. DOMAIN status' = Jobs /\ status'[j] = "active" /\ \A i \in Jobs \ {j} : status'[i] = status[i]
    BY <2>1 DEF Inv, Shape
  <2> HIDE DEF w
  <2> QED
    BY <2>1, <2>2, <2>3, Moves
<1>3. CASE Reject(j)
  <2> DEFINE how == IF tries[j] < MaxTries THEN "waiting" ELSE "failed"
  <2>1. status[j] = "active" /\ End(j, how) /\ UNCHANGED rowVars
    BY <1>3 DEF Reject
  <2>2. how # "active" /\ how # "completed"
    OBVIOUS
  <2> HIDE DEF how
  <2> QED
    BY <2>1, <2>2, EndKeeps
<1> QED
  BY <1>1, <1>2, <1>3

LEMMA NextSiteKeeps ==
  ASSUME Inv, NEW j \in Jobs, NextSite(j) PROVE Inv'
<1>1. At(j, "site") /\ status[j] = "active" /\ InHand(j) = {}
  BY DEF NextSite, At, InHand
<1>2. CASE work[j].sites = <<>>
  <2>1. End(j, "completed") /\ UNCHANGED rowVars
    BY <1>2 DEF NextSite
  <2> QED
    BY <1>1, <2>1, EndKeeps
<1>3. CASE work[j].sites # <<>>
  <2> DEFINE pages == siteRegionIndexUrls(Site(j), work[j].wanted)
             w == [work[j] EXCEPT !.at = "index", !.todo = pages]
  <2>1. Silent(j, w)
    BY <1>3 DEF NextSite
  <2>2. Walking(work[j], w)
    <3> HIDE DEF pages
    <3> QED
      BY DEF Inv, Shape, Walking, Fields
  <2> HIDE DEF w
  <2> QED
    BY <1>1, <2>1, <2>2, Walks
<1> QED
  BY <1>2, <1>3

LEMMA FetchIndexKeeps ==
  ASSUME Inv, NEW j \in Jobs, FetchIndex(j) PROVE Inv'
<1> DEFINE w == work[j]
           rest == [w EXCEPT !.todo = Tail(@)]
           Read(got) ==
             CASE Site(j) = "auctionhouse" -> Keep(rest, parseAuctionHubListings(got.page))
               [] Site(j) = "pughauctions" -> [rest EXCEPT !.found = Extend(@, extractPughAuctionLinks(got.page))]
               [] OTHER -> [collectUklfDetailLinks(rest, got.page) EXCEPT
                              !.at = IF uklfSearchEndpoint(got.page) = NoUrl THEN "index" ELSE "results",
                              !.pager = uklfSearchEndpoint(got.page), !.page = 2]
           stop == [w EXCEPT !.todo = <<>>]
<1>1. At(j, "index") /\ w.at = "index"
  BY DEF FetchIndex, At
<1>2. Walking(w, w) /\ Walking(w, rest) /\ Walking(w, stop)
  BY <1>1, WalksOn DEF Walking, Fields
<1>3. ASSUME NEW got PROVE Walking(w, Read(got))
  <2>1. CASE Site(j) = "auctionhouse"
    <3>1. Read(got) = Keep(rest, parseAuctionHubListings(got.page))
      BY <2>1
    <3> QED
      BY <1>2, <3>1, KeepWalks
  <2>2. CASE Site(j) = "pughauctions"
    <3> DEFINE links == Extend(rest.found, extractPughAuctionLinks(got.page))
    <3>1. Read(got) = [rest EXCEPT !.found = links]
      BY <2>2, <1>2 DEF Walking, Fields
    <3> HIDE DEF links, rest, w
    <3>2. Walking(w, [rest EXCEPT !.found = links])
      BY <1>2 DEF Walking, Fields
    <3> QED
      BY <3>1, <3>2
  <2>3. CASE Site(j) \notin {"auctionhouse", "pughauctions"}
    <3> DEFINE c == collectUklfDetailLinks(rest, got.page)
               e == uklfSearchEndpoint(got.page)
               where == IF e = NoUrl THEN "index" ELSE "results"
    <3>1. Read(got) = [c EXCEPT !.at = where, !.pager = e, !.page = 2]
      BY <2>3
    <3>2. Walking(w, c) /\ where \notin {"record", "enqueue"}
      BY <1>2, CollectWalks
    <3> HIDE DEF c, e, where, rest, w
    <3>3. Walking(w, [c EXCEPT !.at = where, !.pager = e, !.page = 2])
      BY <3>2 DEF Walking, Fields
    <3> QED
      BY <3>1, <3>3
  <2> QED
    BY <2>1, <2>2, <2>3
<1>4. \/ Silent(j, stop)
      \/ \E got \in fetchPage(Head(w.todo)) : Ask(j, got, Read(got), rest)
  BY DEF FetchIndex
<1> HIDE DEF stop, rest, Read
<1>5. CASE Silent(j, stop)
  BY <1>1, <1>2, <1>5, Walks
<1>6. ASSUME NEW got \in fetchPage(Head(w.todo)), Ask(j, got, Read(got), rest) PROVE Inv'
  BY <1>1, <1>2, <1>3, <1>6, Asks
<1> QED
  BY <1>4, <1>5, <1>6

LEMMA FetchResultsKeeps ==
  ASSUME Inv, NEW j \in Jobs, FetchResults(j) PROVE Inv'
<1> DEFINE w == work[j]
           back == [w EXCEPT !.at = "index"]
           Brings(page) == ToSet(extractListingLinks("uklandandfarms", page)) \ ToSet(w.found) # {}
           Read(page) == IF Brings(page) THEN [collectUklfDetailLinks(w, page) EXCEPT !.page = @ + 1] ELSE back
<1>1. At(j, "results") /\ w.at = "results"
  BY DEF FetchResults, At
<1>2. Walking(w, w) /\ Walking(w, back)
  BY <1>1, WalksOn DEF Walking, Fields
<1>3. ASSUME NEW page PROVE Walking(w, Read(page))
  <2> DEFINE c == collectUklfDetailLinks(w, page)
             next == c.page + 1
  <2>1. Walking(w, c)
    BY <1>2, CollectWalks
  <2>2. Read(page) \in {[c EXCEPT !.page = next], back}
    BY <2>1 DEF Walking, Fields
  <2> HIDE DEF c, next, w
  <2>3. Walking(w, [c EXCEPT !.page = next])
    BY <2>1 DEF Walking, Fields
  <2> QED
    BY <1>2, <2>2, <2>3
<1>4. \/ Silent(j, back)
      \/ \E got \in fetchPage(withPageIndex(w.pager, w.page)) : Ask(j, got, Read(got.page), back)
  BY DEF FetchResults
<1> HIDE DEF back, Read
<1>5. CASE Silent(j, back)
  BY <1>1, <1>2, <1>5, Walks
<1>6. ASSUME NEW got \in fetchPage(withPageIndex(w.pager, w.page)), Ask(j, got, Read(got.page), back)
      PROVE  Inv'
  BY <1>1, <1>2, <1>3, <1>6, Asks
<1> QED
  BY <1>4, <1>5, <1>6

LEMMA FetchPageKeeps ==
  ASSUME Inv, NEW j \in Jobs, FetchPage(j) PROVE Inv'
<1> DEFINE w == work[j]
           events == IF Site(j) = "pughauctions" THEN w.events + 1 ELSE w.events
           rest == [w EXCEPT !.todo = Tail(@),
                             !.events = IF Site(j) = "pughauctions" THEN @ + 1 ELSE @]
           Read(got) == IF Site(j) = "pughauctions" THEN Keep(rest, parsePughLots(got.page))
                        ELSE KeepDetail(rest, parseUklfDetail(got.page, got.url))
           stop == [w EXCEPT !.todo = <<>>, !.missed = TRUE]
<1>1. At(j, "pages") /\ w.at = "pages"
  BY DEF FetchPage, At
<1>2. Walking(w, w) /\ Walking(w, stop)
  BY <1>1, WalksOn DEF Walking, Fields
<1>3. Walking(w, rest)
  <2>1. rest = [w EXCEPT !.todo = Tail(w.todo), !.events = events]
    OBVIOUS
  <2> HIDE DEF events, w
  <2>2. Walking(w, [w EXCEPT !.todo = Tail(w.todo), !.events = events])
    BY <1>2 DEF Walking, Fields
  <2> QED
    BY <2>1, <2>2
<1> HIDE DEF rest
<1>4. ASSUME NEW got PROVE Walking(w, Read(got))
  <2>1. Walking(w, Keep(rest, parsePughLots(got.page)))
    BY <1>3, KeepWalks
  <2>2. Walking(w, KeepDetail(rest, parseUklfDetail(got.page, got.url)))
    BY <1>3, KeepWalks
  <2> QED
    BY <2>1, <2>2
<1>5. \/ Silent(j, stop)
      \/ \E got \in fetchPage(Head(w.todo)) : Ask(j, got, Read(got), rest)
  BY DEF FetchPage, rest
<1> HIDE DEF stop, Read
<1>6. CASE Silent(j, stop)
  BY <1>1, <1>2, <1>6, Walks
<1>7. ASSUME NEW got \in fetchPage(Head(w.todo)), Ask(j, got, Read(got), rest) PROVE Inv'
  BY <1>1, <1>3, <1>4, <1>7, Asks
<1> QED
  BY <1>5, <1>6, <1>7

LEMMA StageKeeps ==
  ASSUME Inv, NEW j \in Jobs, IndexDone(j) \/ PagesDone(j) PROVE Inv'
<1> DEFINE w == work[j]
           limit == w.missed \/ (Site(j) # "uklandandfarms" /\ Len(w.lots) = Limit)
<1>1. CASE IndexDone(j)
  <2> DEFINE next == [w EXCEPT !.at = "pages", !.todo = w.found]
  <2>1. At(j, "index") /\ w.at = "index" /\ Silent(j, next)
    BY <1>1 DEF IndexDone, At
  <2>2. Walking(w, next)
    BY <2>1, WalksOn DEF Walking, Fields
  <2> HIDE DEF next
  <2> QED
    BY <2>1, <2>2, Walks
<1>2. CASE PagesDone(j)
  <2> DEFINE next == [w EXCEPT !.at = "write", !.missed = limit]
  <2>1. At(j, "pages") /\ w.at = "pages"
    BY <1>2 DEF PagesDone, At
  <2>2. Walking(w, w)
    BY <2>1, WalksOn
  <2>3. Silent(j, next)
    BY <1>2, <2>2 DEF PagesDone, Walking, Fields
  <2> HIDE DEF limit
  <2>4. Walking(w, next)
    BY <2>2 DEF Walking, Fields
  <2> HIDE DEF next
  <2> QED
    BY <2>1, <2>3, <2>4, Walks
<1> QED
  BY <1>1, <1>2

LEMMA SkipKeeps ==
  ASSUME Inv, NEW j \in Jobs, SkipCandidate(j) \/ SiteDone(j) PROVE Inv'
<1> DEFINE w == work[j]
<1>1. At(j, "write") /\ w.at = "write"
  BY DEF SkipCandidate, SiteDone, At
<1>2. Walking(w, w)
  BY <1>1, WalksOn
<1>3. CASE SkipCandidate(j)
  <2>1. Silent(j, NextLot(w)) /\ Walking(w, NextLot(w))
    BY <1>2, <1>3 DEF SkipCandidate, NextLot, Walking, Fields
  <2> QED
    BY <1>1, <2>1, Walks
<1>4. CASE SiteDone(j)
  <2> DEFINE next == [Idle EXCEPT !.at = "site", !.sites = Tail(w.sites), !.wanted = w.wanted,
                                  !.missed = w.missed, !.filed = w.filed]
  <2>1. Silent(j, next) /\ Walking(w, next)
    BY <1>4 DEF SiteDone, Idle, Walking, Fields
  <2> HIDE DEF next
  <2> QED
    BY <1>1, <2>1, Walks
<1> QED
  BY <1>3, <1>4

\* The row, its record and its job: the key that is filed is in hand until the
\* analysis has it.
LEMMA FilingKeeps ==
  ASSUME Inv, NEW j \in Jobs, WriteListing(j) \/ UpsertRecord(j) \/ enqueueAnalyze(j)
  PROVE  Inv'
<1> DEFINE w == work[j]
           key == Key(j)
<1>1. status[j] = "active" /\ DOMAIN w = Fields /\ w.filed \subseteq analysis \cup InHand(j)
  BY DEF WriteListing, UpsertRecord, enqueueAnalyze, At, Inv, Shape, FiledAhead
<1>2. DOMAIN status = Jobs /\ DOMAIN work = Jobs
  BY DEF Inv, Shape
<1>3. CASE WriteListing(j)
  <2> DEFINE next == [w EXCEPT !.at = "record", !.seen = @ \cup {key}, !.filed = @ \cup {key}]
  <2>1. /\ work' = [work EXCEPT ![j] = next] /\ UNCHANGED <<status, analysis>>
        /\ InHand(j) = {}
    BY <1>3 DEF WriteListing, Do, queueVars, At, InHand
  <2>2. /\ DOMAIN next = Fields /\ next.at = "record" /\ next.lots = w.lots
        /\ next.filed = w.filed \cup {key}
    BY <1>1 DEF Fields
  <2> HIDE DEF next
  <2>3. work'[j] = next
    BY <1>2, <2>1
  <2>4. InHand(j)' = {key}
    BY <2>2, <2>3 DEF InHand, Key, Candidate
  <2>5. next.filed \subseteq analysis' \cup InHand(j)'
    BY <1>1, <2>1, <2>2, <2>4
  <2> QED
    BY <1>1, <1>2, <2>1, <2>2, <2>5, Moves
<1>4. CASE UpsertRecord(j)
  <2> DEFINE next == [w EXCEPT !.at = "enqueue"]
  <2>1. /\ work' = [work EXCEPT ![j] = next] /\ UNCHANGED <<status, analysis>>
        /\ InHand(j) = {key}
    BY <1>4 DEF UpsertRecord, Do, queueVars, At, InHand
  <2>2. DOMAIN next = Fields /\ next.at = "enqueue" /\ next.lots = w.lots /\ next.filed = w.filed
    BY <1>1 DEF Fields
  <2> HIDE DEF next
  <2>3. work'[j] = next
    BY <1>2, <2>1
  <2>4. InHand(j)' = {key}
    BY <2>2, <2>3 DEF InHand, Key, Candidate
  <2> QED
    BY <1>1, <1>2, <2>1, <2>2, <2>4, Moves
<1>5. CASE enqueueAnalyze(j)
  <2> DEFINE next == NextLot(w)
  <2>1. /\ work' = [work EXCEPT ![j] = next] /\ analysis' = analysis \cup {key}
        /\ UNCHANGED status /\ InHand(j) = {key}
    BY <1>5 DEF enqueueAnalyze, Do, queueVars, At, InHand
  <2>2. DOMAIN next = Fields /\ next.filed = w.filed
    BY <1>1 DEF NextLot, Fields
  <2> HIDE DEF next
  <2>3. next.filed \subseteq analysis'
    BY <1>1, <2>1, <2>2
  <2> QED
    BY <1>1, <1>2, <2>1, <2>2, <2>3, Moves
<1> QED
  BY <1>3, <1>4, <1>5

\* Tips and searches leave the scans alone and take nothing from the analysis.
LEMMA OthersKeep ==
  ASSUME Inv, UNCHANGED <<status, work>>, analysis \subseteq analysis'
  PROVE  Inv'
<1>1. \A j \in Jobs : InHand(j)' = InHand(j)
  BY DEF InHand, Key, Candidate
<1> QED
  BY <1>1 DEF Inv, Shape, FiledAhead

LEMMA NextInv == Inv /\ [Next]_vars => Inv'
<1> SUFFICES ASSUME Inv, [Next]_vars PROVE Inv'
  OBVIOUS
<1>1. CASE EditPatch
  BY <1>1, OthersKeep DEF EditPatch, queueVars, rowVars
<1>2. ASSUME NEW tip \in Tips, ReceiveTip(tip) PROVE Inv'
  <2>1. UNCHANGED <<status, work>> /\ analysis \subseteq analysis'
    BY <1>2 DEF ReceiveTip, queueVars
  <2> QED
    BY <2>1, OthersKeep
<1>3. ASSUME NEW j \in Jobs, JobStep(j) PROVE Inv'
  BY <1>3, QueueKeeps, ResolveKeeps, NextSiteKeeps, FetchIndexKeeps, FetchResultsKeeps,
     FetchPageKeeps, StageKeeps, SkipKeeps, FilingKeeps DEF JobStep
<1>4. CASE UNCHANGED vars
  BY <1>4, OthersKeep DEF vars, queueVars, rowVars
<1> QED
  BY <1>1, <1>2, <1>3, <1>4 DEF Next

\* Between the row and the enqueue a scan can die, and the retry finds a row that
\* is there already: still, whatever a completed scan filed has its analysis job.
THEOREM FilingIsHandedOn == Spec => []FiledIsAnalysed
<1>1. Inv => FiledIsAnalysed
  BY DEF Inv, FiledAhead, FiledIsAnalysed
<1> QED
  BY <1>1, InitInv, NextInv, PTL DEF Spec
-----------------------------------------------------------------------------
(* What is left of a sequence comes from it. *)

LEMMA NatSetInduction ==
  ASSUME NEW S, 0 \in S, \A n \in Nat : n \in S => n + 1 \in S
  PROVE  Nat \subseteq S
<1> SUFFICES ASSUME NEW k \in Nat, k \notin S PROVE FALSE
  OBVIOUS
<1> DEFINE T == {A \in SUBSET Nat : \E n \in Nat : n \notin S /\ A = 1..n}
<1>1. \A n \in Nat : IsFiniteSet(1..n)
  BY FS_Interval
<1>2. T \subseteq FiniteSubsetsOf(Nat) /\ T # {}
  <2>1. 1..k \in T
    OBVIOUS
  <2> QED
    BY <1>1, <2>1 DEF FiniteSubsetsOf
<1> HIDE DEF T
<1>3. PICK A \in T : \A B \in T : ~(<<B, A>> \in StrictSubsetOrdering(Nat))
  BY <1>2, FS_StrictSubsetOrderingWellFounded, WFMin
<1> USE DEF T
<1>4. PICK n \in Nat : n \notin S /\ A = 1..n
  OBVIOUS
<1>5. n # 0 /\ n - 1 \in Nat /\ n - 1 \notin S
  BY <1>4
<1>6. 1..(n - 1) \in T
  BY <1>5
<1>7. n \in 1..n /\ n \notin 1..(n - 1) /\ 1..(n - 1) \subseteq 1..n
  BY <1>5
<1>8. <<1..(n - 1), A>> \in StrictSubsetOrdering(Nat)
  BY <1>4, <1>5, <1>7 DEF StrictSubsetOrdering
<1> QED
  BY <1>3, <1>6, <1>8

\* A sequence of values each made from the one before by a step of its own.
Runs(T, b, m, step) ==
  {k \in [0..m -> T] : k[0] = b /\ \A i \in 1..m : k[i] = step[i][k[i - 1]]}

LEMMA Recursion ==
  ASSUME NEW T, NEW b \in T, NEW m \in Nat, NEW step \in [1..m -> [T -> T]]
  PROVE  Runs(T, b, m, step) # {}
<1> DEFINE N == {n \in Nat : n <= m =>
                  \E k \in [0..n -> T] : k[0] = b /\ \A i \in 1..n : k[i] = step[i][k[i - 1]]}
<1>1. 0 \in N
  <2>1. PICK k : k = [i \in 0..0 |-> b]
    OBVIOUS
  <2>2. k \in [0..0 -> T] /\ k[0] = b /\ 1..0 = {}
    BY <2>1
  <2>3. \E h \in [0..0 -> T] : h[0] = b /\ \A i \in 1..0 : h[i] = step[i][h[i - 1]]
    BY <2>2
  <2> QED
    BY <2>3
<1>2. ASSUME NEW n \in Nat, n \in N PROVE n + 1 \in N
  <2> SUFFICES ASSUME n + 1 <= m
      PROVE \E k \in [0..(n + 1) -> T] : k[0] = b /\ \A i \in 1..(n + 1) : k[i] = step[i][k[i - 1]]
    OBVIOUS
  <2>1. PICK k \in [0..n -> T] : k[0] = b /\ \A i \in 1..n : k[i] = step[i][k[i - 1]]
    BY <1>2
  <2>2. k[n] \in T /\ n + 1 \in 1..m
    BY <2>1
  <2>3. step[n + 1] \in [T -> T]
    BY <2>2
  <2>4. PICK x \in T : x = step[n + 1][k[n]]
    BY <2>2, <2>3
  <2>5. PICK h : h = [i \in 0..(n + 1) |-> IF i <= n THEN k[i] ELSE x]
    OBVIOUS
  <2>6. h \in [0..(n + 1) -> T] /\ h[0] = b /\ h[n + 1] = x /\ \A i \in 0..n : h[i] = k[i]
    BY <2>1, <2>5
  <2>7. ASSUME NEW i \in 1..(n + 1) PROVE h[i] = step[i][h[i - 1]]
    <3>1. CASE i = n + 1
      <4>1. (n + 1) - 1 = n /\ n \in 0..n
        OBVIOUS
      <4> QED
        BY <2>4, <2>6, <3>1, <4>1
    <3>2. CASE i # n + 1
      <4>1. i \in 1..n /\ i \in 0..n /\ i - 1 \in 0..n
        BY <3>2
      <4> QED
        BY <2>1, <2>6, <4>1
    <3> QED
      BY <3>1, <3>2
  <2> QED
    BY <2>6, <2>7
<1> HIDE DEF N
<1>3. m \in N
  BY <1>1, <1>2, NatSetInduction
<1> QED
  BY <1>3 DEF N, Runs

LEMMA TakenIn ==
  ASSUME NEW T, NEW seq \in Seq(T), NEW I
  PROVE  Taken(seq, I) \in Seq({seq[i] : i \in DOMAIN seq \cap I})
<1> DEFINE U == {seq[i] : i \in DOMAIN seq \cap I}
<1>1. PICK m \in Nat : m = Len(seq) /\ DOMAIN seq = 1..m
  OBVIOUS
<1>2. PICK W : W = Seq(U)
  OBVIOUS
<1>3. PICK step : step = [i \in 1..m |-> [w \in W |-> IF i \in I THEN Append(w, seq[i]) ELSE w]]
  OBVIOUS
<1>4. step \in [1..m -> [W -> W]]
  <2>1. ASSUME NEW i \in 1..m, NEW w \in W PROVE (IF i \in I THEN Append(w, seq[i]) ELSE w) \in W
    <3>1. i \in I => seq[i] \in U
      BY <1>1
    <3> HIDE DEF U
    <3> QED
      BY <1>2, <3>1
  <2> QED
    BY <1>3, <2>1
<1>5. <<>> \in W
  BY <1>2
<1>0. m \in Nat
  BY <1>1
<1>6. PICK k \in [0..m -> W] : k[0] = <<>> /\ \A i \in 1..m : k[i] = step[i][k[i - 1]]
  <2> HIDE DEF U
  <2>1. Runs(W, <<>>, m, step) # {}
    BY <1>0, <1>4, <1>5, Recursion
  <2> QED
    BY <2>1 DEF Runs
<1>7. k = [n \in 0..m |-> IF n = 0 THEN <<>> ELSE IF n \in I THEN Append(k[n - 1], seq[n]) ELSE k[n - 1]]
  <2>1. ASSUME NEW n \in 0..m
        PROVE  k[n] = IF n = 0 THEN <<>> ELSE IF n \in I THEN Append(k[n - 1], seq[n]) ELSE k[n - 1]
    <3>1. n # 0 => n \in 1..m /\ n - 1 \in 0..m
      BY <2>1
    <3> QED
      BY <1>3, <1>6, <3>1
  <2> QED
    BY <1>6, <2>1
<1> DEFINE Is(f) == f = [n \in 0..m |-> IF n = 0 THEN <<>>
                                       ELSE IF n \in I THEN Append(f[n - 1], seq[n]) ELSE f[n - 1]]
<1>8. TakenTo(seq, I) = CHOOSE f : Is(f)
  BY <1>1 DEF TakenTo
<1>9. Is(k)
  BY <1>7
<1>10. PICK f : f = TakenTo(seq, I) /\ Is(f)
  <2> HIDE DEF Is
  <2> QED
    BY <1>8, <1>9
<1> DEFINE N == {n \in Nat : n <= m => f[n] \in W}
<1>11. 0 \in N
  BY <1>5, <1>10
<1>12. ASSUME NEW n \in Nat, n \in N PROVE n + 1 \in N
  <2> SUFFICES ASSUME n + 1 <= m PROVE f[n + 1] \in W
    OBVIOUS
  <2>1. f[n] \in W /\ n + 1 \in 0..m /\ n + 1 # 0 /\ (n + 1) - 1 = n /\ n + 1 \in DOMAIN seq
    BY <1>1, <1>12
  <2>2. f[n + 1] = IF n + 1 \in I THEN Append(f[n], seq[n + 1]) ELSE f[n]
    BY <1>10, <2>1
  <2>3. n + 1 \in I => seq[n + 1] \in U
    BY <2>1
  <2> HIDE DEF U
  <2> QED
    BY <1>2, <2>1, <2>2, <2>3
<1> HIDE DEF N
<1>13. m \in N
  BY <1>11, <1>12, NatSetInduction
<1> QED
  BY <1>1, <1>2, <1>10, <1>13 DEF N, Taken

LEMMA FlattenIn ==
  ASSUME NEW T, NEW seqs \in Seq(Seq(T)) PROVE FlattenSeq(seqs) \in Seq(T)
<1>1. PICK m \in Nat : m = Len(seqs) /\ DOMAIN seqs = 1..m
  OBVIOUS
<1>2. PICK W : W = Seq(T)
  OBVIOUS
<1>3. \A i \in 1..m : seqs[i] \in W
  BY <1>1, <1>2
<1>4. \A v, w \in W : v \o w \in W
  BY <1>2
<1>5. CASE m = 0
  BY <1>1, <1>5 DEF FlattenSeq
<1>6. CASE m # 0
  <2>1. PICK step : step = [i \in 1..m |-> [w \in W |-> IF i = 1 THEN seqs[i] ELSE w \o seqs[i]]]
    OBVIOUS
  <2>2. step \in [1..m -> [W -> W]]
    BY <1>3, <1>4, <2>1
  <2>3. 1 \in 1..m /\ seqs[1] \in W
    BY <1>3, <1>6
  <2>4. PICK k \in [0..m -> W] : \A i \in 1..m : k[i] = step[i][k[i - 1]]
    <3>1. m \in Nat /\ seqs[1] \in W
      BY <1>1, <2>3
    <3>2. Runs(W, seqs[1], m, step) # {}
      BY <2>2, <3>1, Recursion
    <3> QED
      BY <3>2 DEF Runs
  <2>5. \A i \in 1..m : k[i - 1] \in W
    BY <2>4
  <2>6. PICK g : g = [i \in 1..m |-> k[i]]
    OBVIOUS
  <2> DEFINE Is(f) == f = [i \in 1..m |-> IF i = 1 THEN seqs[i] ELSE f[i - 1] \o seqs[i]]
  <2>7. Is(g)
    <3>1. ASSUME NEW i \in 1..m PROVE g[i] = IF i = 1 THEN seqs[i] ELSE g[i - 1] \o seqs[i]
      <4>1. k[i] = IF i = 1 THEN seqs[i] ELSE k[i - 1] \o seqs[i]
        BY <2>1, <2>4, <2>5
      <4>2. i # 1 => i - 1 \in 1..m
        OBVIOUS
      <4> QED
        BY <2>6, <4>1, <4>2
    <3> QED
      BY <2>6, <3>1
  <2>8. PICK f : FlattenSeq(seqs) = f[m] /\ f = CHOOSE h : Is(h)
    BY <1>1, <1>6 DEF FlattenSeq
  <2>9. Is(f)
    <3> HIDE DEF Is
    <3> QED
      BY <2>7, <2>8
  <2> DEFINE N == {n \in Nat : n + 1 <= m => f[n + 1] \in W}
  <2>10. 0 \in N
    BY <2>3, <2>9
  <2>11. ASSUME NEW n \in Nat, n \in N PROVE n + 1 \in N
    <3> SUFFICES ASSUME n + 2 <= m PROVE f[n + 2] \in W
      OBVIOUS
    <3>1. f[n + 1] \in W /\ n + 2 \in 1..m /\ n + 2 # 1 /\ (n + 2) - 1 = n + 1
      BY <2>11
    <3>2. f[n + 2] = f[n + 1] \o seqs[n + 2]
      BY <2>9, <3>1
    <3> QED
      BY <1>3, <1>4, <3>1, <3>2
  <2> HIDE DEF N
  <2>12. m - 1 \in N
    <3>1. m - 1 \in Nat
      BY <1>6
    <3> QED
      BY <2>10, <2>11, <3>1, NatSetInduction
  <2> QED
    BY <1>2, <1>6, <2>8, <2>12 DEF N
<1> QED
  BY <1>5, <1>6
-----------------------------------------------------------------------------
(* Where a scan is going. *)

OnSite(w, site) ==
  Course(site, w.todo) /\ Course(site, w.found) /\ (w.pager = NoUrl \/ OnMainHost(site, w.pager))

\* Between sites there is nowhere to go; at a site there is only what is the site's,
\* and only one of them is walked by its results pages.
Bound(w) ==
  /\ w.sites \in Seq(Sites)
  /\ \/ /\ w.at \in {"idle", "patch", "site"}
        /\ w.todo = <<>> /\ w.found = <<>> /\ w.pager = NoUrl
     \/ /\ w.at \in {"index", "results", "pages", "write", "record", "enqueue"}
        /\ w.sites # <<>> /\ OnSite(w, Head(w.sites))
        /\ w.at = "results" => Head(w.sites) = "uklandandfarms"

SiteInv == Shape /\ \A j \in Jobs : Bound(work[j])

LEMMA OnCourse ==
  ASSUME NEW site, NEW T, \A u \in T : Crawlable(site, u), NEW urls \in Seq(T)
  PROVE  Course(site, urls)
<1>1. \A i \in DOMAIN urls : urls[i] \in {u \in Range(urls) : Crawlable(site, u)}
  BY DEF Range
<1> QED
  BY <1>1 DEF Course

LEMMA CourseIs ==
  ASSUME NEW site, NEW urls, Course(site, urls)
  PROVE  urls \in Seq({u \in Range(urls) : Crawlable(site, u)})
  BY DEF Course

LEMMA NowhereCourse == \A site : Course(site, <<>>)
  BY DEF Course

LEMMA TailCourse ==
  ASSUME NEW site, NEW urls, Course(site, urls), urls # <<>>
  PROVE  Course(site, Tail(urls)) /\ Crawlable(site, Head(urls))
<1> DEFINE T == {u \in Range(urls) : Crawlable(site, u)}
<1>1. urls \in Seq(T) /\ \A u \in T : Crawlable(site, u)
  BY DEF Course
<1> HIDE DEF T
<1>2. Tail(urls) \in Seq(T) /\ Head(urls) \in T
  BY <1>1
<1> QED
  BY <1>1, <1>2, OnCourse

LEMMA PrefixCourse ==
  ASSUME NEW site, NEW urls, Course(site, urls), NEW n \in Nat
  PROVE  Course(site, Prefix(urls, n))
<1> DEFINE T == {u \in Range(urls) : Crawlable(site, u)}
<1>1. urls \in Seq(T) /\ \A u \in T : Crawlable(site, u)
  BY DEF Course
<1> HIDE DEF T
<1>2. Prefix(urls, n) \in Seq(T)
  BY <1>1 DEF Prefix
<1> QED
  BY <1>1, <1>2, OnCourse

LEMMA TakenCourse ==
  ASSUME NEW site, NEW T, NEW seq \in Seq(T), NEW I,
         \A i \in DOMAIN seq \cap I : Crawlable(site, seq[i])
  PROVE  Course(site, Taken(seq, I))
<1> DEFINE U == {seq[i] : i \in DOMAIN seq \cap I}
<1>1. Taken(seq, I) \in Seq(U)
  BY TakenIn
<1>2. \A u \in U : Crawlable(site, u)
  OBVIOUS
<1> HIDE DEF U
<1> QED
  BY <1>1, <1>2, OnCourse

\* No url twice.
LEMMA OnceCourse ==
  ASSUME NEW site, NEW urls, Course(site, urls)
  PROVE  Course(site, Once(urls))
<1> DEFINE T == {u \in Range(urls) : Crawlable(site, u)}
           I == {i \in DOMAIN urls : \A k \in 1..(i - 1) : urls[k] # urls[i]}
<1>1. urls \in Seq(T) /\ \A u \in T : Crawlable(site, u)
  BY DEF Course
<1>2. Once(urls) = Taken(urls, I)
  BY DEF Once, Distinct
<1> HIDE DEF T, I
<1>3. \A i \in DOMAIN urls \cap I : Crawlable(site, urls[i])
  BY <1>1
<1> QED
  BY <1>1, <1>2, <1>3, TakenCourse

LEMMA ExtendCourse ==
  ASSUME NEW site, NEW found, Course(site, found), NEW more, Course(site, more)
  PROVE  Course(site, Extend(found, more))
<1> DEFINE T == {u \in Range(found) : Crawlable(site, u)}
           U == {u \in Range(more) : Crawlable(site, u)}
<1>1. found \in Seq(T) /\ more \in Seq(U) /\ \A u \in T \cup U : Crawlable(site, u)
  BY DEF Course
<1> HIDE DEF T, U
<1>2. found \o more \in Seq(T \cup U)
  <2>1. found \in Seq(T \cup U) /\ more \in Seq(T \cup U)
    BY <1>1
  <2> QED
    BY <2>1
<1>3. Course(site, found \o more)
  BY <1>1, <1>2, OnCourse
<1> QED
  BY <1>3, OnceCourse DEF Extend
-----------------------------------------------------------------------------
(* What is read out of a page. *)

LEMMA FilteredCourse ==
  ASSUME NEW site, NEW urls, urls \in Seq(Range(urls)), NEW I,
         \A i \in DOMAIN urls \cap I : Crawlable(site, urls[i])
  PROVE  Course(site, Once(Taken(urls, I)))
  BY TakenCourse, OnceCourse

LEMMA ListingUrlsCrawlable ==
  ASSUME NEW site \in Sites, NEW u, isListingUrl(site, u) PROVE Crawlable(site, u)
  BY DEF Sites, isListingUrl, Crawlable

LEMMA ListingLinksCourse ==
  ASSUME NEW site \in Sites, NEW page, page.links \in Seq(Range(page.links))
  PROVE  Course(site, extractListingLinks(site, page))
<1> DEFINE links == page.links
           I == {i \in DOMAIN links : isListingUrl(site, links[i])}
<1>1. extractListingLinks(site, page) = Once(Taken(links, I))
  BY DEF extractListingLinks, Only
<1>2. links \in Seq(Range(links)) /\ \A i \in DOMAIN links \cap I : Crawlable(site, links[i])
  BY ListingUrlsCrawlable
<1> HIDE DEF links, I
<1>3. Course(site, Once(Taken(links, I)))
  BY <1>2, FilteredCourse
<1> QED
  BY <1>1, <1>3

LEMMA AuctionLinksCourse ==
  ASSUME NEW page, page.links \in Seq(Range(page.links))
  PROVE  Course("pughauctions", extractPughAuctionLinks(page))
<1> DEFINE links == page.links
           I == {i \in DOMAIN links : /\ links[i].site = "pughauctions" /\ links[i].host = "www"
                                      /\ links[i].section = "auction" /\ links[i].ref # Nothing}
<1>1. extractPughAuctionLinks(page) = Once(Taken(links, I))
  BY DEF extractPughAuctionLinks, Only
<1>2. links \in Seq(Range(links)) /\ \A i \in DOMAIN links \cap I : Crawlable("pughauctions", links[i])
  BY DEF Crawlable
<1> HIDE DEF links, I
<1>3. Course("pughauctions", Once(Taken(links, I)))
  BY <1>2, FilteredCourse
<1> QED
  BY <1>1, <1>3

LEMMA EndpointPinned ==
  \A page : uklfSearchEndpoint(page) = NoUrl \/ OnMainHost("uklandandfarms", uklfSearchEndpoint(page))
  BY DEF uklfSearchEndpoint

LEMMA PageLinks ==
  ASSUME NEW url, NEW got \in fetchPage(url)
  PROVE  got.page.links \in Seq(Range(got.page.links))
<1>1. BlankPage.links \in Seq(Range(BlankPage.links))
  BY DEF BlankPage
<1>2. got = Failed \/ got = Fetched(url)
  BY DEF fetchPage
<1>3. CASE got = Failed
  BY <1>1, <1>3 DEF Failed
<1>4. CASE got = Fetched(url)
  <2>1. PICK last : last = Final(url, MaxRedirects)
    OBVIOUS
  <2>2. got.page = IF last \in DOMAIN Web /\ Web[last].to = NoUrl THEN Web[last] ELSE BlankPage
    BY <1>4, <2>1 DEF Fetched
  <2> QED
    BY <1>1, <2>2, ScrapeAssumption DEF ScrapeAssumption
<1> QED
  BY <1>2, <1>3, <1>4

LEMMA IndexCourse ==
  ASSUME NEW site \in Sites, NEW outcodes PROVE Course(site, siteRegionIndexUrls(site, outcodes))
<1>1. CASE National[site] # <<>>
  BY <1>1, NowhereCourse, ScrapeAssumption DEF ScrapeAssumption, siteRegionIndexUrls
<1>2. CASE National[site] = <<>>
  <2> DEFINE I == {i \in DOMAIN Taxonomy :
                     \E o \in outcodes, p \in Taxonomy[i].prefixes : <<o, p>> \in HasPrefix}
             hit == Taken(Taxonomy, I)
             urls == [i \in DOMAIN hit |-> hit[i].urls[site]]
             T == {u \in UNION {Range(row.urls[site]) : row \in Range(Taxonomy)} : Crawlable(site, u)}
  <2>1. siteRegionIndexUrls(site, outcodes) = Once(FlattenSeq(urls))
    BY <1>2 DEF siteRegionIndexUrls, Only
  <2>2. hit \in Seq(Range(Taxonomy))
    <3>1. hit \in Seq({Taxonomy[i] : i \in DOMAIN Taxonomy \cap I})
      BY TakenIn, ScrapeAssumption DEF ScrapeAssumption
    <3> HIDE DEF hit, I
    <3>2. {Taxonomy[i] : i \in DOMAIN Taxonomy \cap I} \subseteq Range(Taxonomy)
      BY DEF Range
    <3> QED
      BY <3>1, <3>2
  <2> HIDE DEF hit
  <2>3. \A row \in Range(Taxonomy) : row.urls[site] \in Seq(T)
    <3> SUFFICES ASSUME NEW row \in Range(Taxonomy) PROVE row.urls[site] \in Seq(T)
      OBVIOUS
    <3> DEFINE U == {u \in Range(row.urls[site]) : Crawlable(site, u)}
    <3>1. row.urls[site] \in Seq(U)
      BY ScrapeAssumption DEF ScrapeAssumption, Course
    <3>2. U \subseteq T
      OBVIOUS
    <3> HIDE DEF U, T
    <3> QED
      BY <3>1, <3>2
  <2>4. \A u \in T : Crawlable(site, u)
    OBVIOUS
  <2>5. urls \in Seq(Seq(T))
    <3> HIDE DEF T
    <3>1. \A i \in DOMAIN hit : hit[i].urls[site] \in Seq(T)
      BY <2>2, <2>3
    <3> QED
      BY <2>2, <3>1
  <2> HIDE DEF T, urls
  <2>6. Course(site, FlattenSeq(urls))
    BY <2>4, <2>5, FlattenIn, OnCourse
  <2> QED
    BY <2>1, <2>6, OnceCourse
<1> QED
  BY <1>1, <1>2
-----------------------------------------------------------------------------
(* Every step keeps to the site. *)

LEMMA InitBound == Init => \A j \in Jobs : Bound(work[j])
<1>1. Bound(Idle)
  BY DEF Idle, Bound
<1> QED
  BY <1>1 DEF Init

\* A job goes on with w, the others stay where they are.
LEMMA GoesOn ==
  ASSUME SiteInv, Shape', NEW j \in Jobs, NEW w, Bound(w), Do(j, w)
  PROVE  SiteInv'
<1>1. work'[j] = w /\ \A i \in Jobs \ {j} : work'[i] = work[i]
  BY DEF Do, SiteInv, Shape
<1>2. ASSUME NEW i \in Jobs PROVE Bound(work'[i])
  BY <1>1 DEF SiteInv
<1> QED
  BY <1>2 DEF SiteInv

\* At a site, with other pages to ask for.
LEMMA SameSite ==
  ASSUME NEW w, Bound(w), w.at \notin {"idle", "patch", "site"},
         NEW v, v.sites = w.sites, OnSite(v, Head(w.sites)),
         v.at \in {"index", "pages", "write", "record", "enqueue"}
           \/ (v.at = "results" /\ Head(w.sites) = "uklandandfarms")
  PROVE  Bound(v)
  BY DEF Bound

LEMMA SiteFacts ==
  ASSUME SiteInv, NEW j \in Jobs, work[j].at \notin {"idle", "patch", "site"}
  PROVE  /\ DOMAIN work[j] = Fields /\ Bound(work[j])
         /\ Site(j) \in Sites /\ OnSite(work[j], Site(j))
         /\ work[j].at = "results" => Site(j) = "uklandandfarms"
         /\ work[j].sites \in Seq(Sites) /\ work[j].sites # <<>>
<1>1. DOMAIN work[j] = Fields /\ Bound(work[j])
  BY DEF SiteInv, Shape
<1>2. work[j].sites \in Seq(Sites) /\ work[j].sites # <<>>
  BY <1>1 DEF Bound
<1>3. Head(work[j].sites) \in Sites
  BY <1>2
<1> QED
  BY <1>1, <1>2, <1>3 DEF Bound, Site

\* A page that could not be had changes nothing but what the scan knows it missed.
LEMMA AskGoesOn ==
  ASSUME SiteInv, Shape', NEW j \in Jobs, NEW got, NEW w, Bound(w),
         NEW bad, DOMAIN bad = Fields, Bound(bad), Ask(j, got, w, bad)
  PROVE  SiteInv'
<1> DEFINE lost == [bad EXCEPT !.missed = TRUE]
<1>1. /\ lost.at = bad.at /\ lost.sites = bad.sites /\ lost.todo = bad.todo
      /\ lost.found = bad.found /\ lost.pager = bad.pager
  BY DEF Fields
<1>2. Do(j, lost) \/ Do(j, w)
  BY DEF Ask
<1> HIDE DEF lost
<1>3. Bound(lost)
  BY <1>1 DEF Bound, OnSite
<1> QED
  BY <1>2, <1>3, GoesOn

\* Filing lots moves nothing.
LEMMA LotsBound ==
  ASSUME NEW w, DOMAIN w = Fields, NEW lots
  PROVE  /\ DOMAIN [w EXCEPT !.lots = lots] = Fields
         /\ Bound(w) => Bound([w EXCEPT !.lots = lots])
<1> DEFINE v == [w EXCEPT !.lots = lots]
<1>1. /\ v.at = w.at /\ v.sites = w.sites /\ v.todo = w.todo
      /\ v.found = w.found /\ v.pager = w.pager /\ DOMAIN v = Fields
  BY DEF Fields
<1> HIDE DEF v
<1>2. Bound(w) => Bound(v)
  BY <1>1 DEF Bound, OnSite
<1> QED
  BY <1>1, <1>2 DEF v

LEMMA KeepBound ==
  ASSUME NEW w, DOMAIN w = Fields, Bound(w), NEW lots
  PROVE  Bound(Keep(w, lots)) /\ Bound(KeepDetail(w, lots))
<1>1. PICK more : more = w.lots \o InPatch(w, lots)
  OBVIOUS
<1>2. Keep(w, lots) = [w EXCEPT !.lots = Kept(w, lots)] /\ KeepDetail(w, lots) = [w EXCEPT !.lots = more]
  BY <1>1 DEF Keep, KeepDetail, Fields
<1>3. \A l : Bound([w EXCEPT !.lots = l])
  BY LotsBound
<1> QED
  BY <1>2, <1>3

LEMMA CollectBound ==
  ASSUME NEW w, DOMAIN w = Fields, Bound(w), w.at \notin {"idle", "patch", "site"},
         Head(w.sites) = "uklandandfarms",
         NEW page, page.links \in Seq(Range(page.links)), NEW c, c = collectUklfDetailLinks(w, page)
  PROVE  /\ DOMAIN c = Fields /\ Bound(c)
         /\ c.at = w.at /\ c.sites = w.sites /\ OnSite(c, "uklandandfarms")
<1> DEFINE all == Extend(w.found, extractListingLinks("uklandandfarms", page))
           links == Prefix(all, Limit)
           over == w.missed \/ Len(all) > Limit
<1>1. c = [w EXCEPT !.found = links, !.missed = over]
  BY DEF collectUklfDetailLinks, Fields
<1>2. Course("uklandandfarms", links)
  <2>1. "uklandandfarms" \in Sites /\ Limit \in Nat
    BY ScrapeAssumption DEF ScrapeAssumption, Sites
  <2>2. Course("uklandandfarms", w.found)
    BY DEF Bound, OnSite
  <2>3. Course("uklandandfarms", extractListingLinks("uklandandfarms", page))
    BY <2>1, ListingLinksCourse
  <2> QED
    BY <2>1, <2>2, <2>3, ExtendCourse, PrefixCourse
<1> HIDE DEF all, links, over
<1>3. /\ DOMAIN c = Fields /\ c.at = w.at /\ c.sites = w.sites /\ c.todo = w.todo
      /\ c.found = links /\ c.pager = w.pager
  BY <1>1 DEF Fields
<1>4. OnSite(c, "uklandandfarms")
  BY <1>2, <1>3 DEF Bound, OnSite
<1> QED
  BY <1>3, <1>4, SameSite DEF Bound
LEMMA QueueStays ==
  ASSUME SiteInv, Shape', NEW j \in Jobs,
         enqueueScrapeListings(j) \/ Take(j) \/ Reject(j) \/ resolveTargetOutcodes(j)
  PROVE  SiteInv'
<1>1. CASE enqueueScrapeListings(j)
  BY <1>1 DEF enqueueScrapeListings, SiteInv
<1>2. CASE Take(j)
  <2>1. Bound([Idle EXCEPT !.at = "patch"])
    BY DEF Bound, Idle
  <2>2. Do(j, [Idle EXCEPT !.at = "patch"])
    BY <1>2 DEF Take
  <2> QED
    BY <2>1, <2>2, GoesOn
<1>3. CASE Reject(j)
  <2> DEFINE w == [Idle EXCEPT !.wanted = work[j].wanted, !.missed = work[j].missed,
                               !.filed = work[j].filed]
  <2>1. Do(j, w)
    BY <1>3 DEF Reject, End, Do
  <2>2. Bound(w)
    BY DEF Bound, Idle
  <2> HIDE DEF w
  <2> QED
    BY <2>1, <2>2, GoesOn
<1>4. CASE resolveTargetOutcodes(j)
  <2> DEFINE targets == IF patch = {} THEN <<>> ELSE Enabled
             w == [work[j] EXCEPT !.at = "site", !.wanted = patch, !.sites = targets]
  <2>1. Do(j, w) /\ work[j].at = "patch"
    BY <1>4 DEF resolveTargetOutcodes, Silent, At
  <2>2. targets \in Seq(Sites)
    BY ScrapeAssumption DEF ScrapeAssumption
  <2>3. DOMAIN work[j] = Fields /\ Bound(work[j])
    BY DEF SiteInv, Shape
  <2> HIDE DEF targets
  <2>4. /\ w.at = "site" /\ w.sites = targets /\ w.todo = work[j].todo
        /\ w.found = work[j].found /\ w.pager = work[j].pager
    BY <2>3 DEF Fields
  <2> HIDE DEF w
  <2>5. Bound(w)
    BY <2>1, <2>2, <2>3, <2>4 DEF Bound
  <2> QED
    BY <2>1, <2>5, GoesOn
<1> QED
  BY <1>1, <1>2, <1>3, <1>4

LEMMA NextSiteStays ==
  ASSUME SiteInv, Shape', NEW j \in Jobs, NextSite(j) PROVE SiteInv'
<1>1. DOMAIN work[j] = Fields /\ Bound(work[j]) /\ work[j].at = "site"
  BY DEF NextSite, At, SiteInv, Shape
<1>2. CASE work[j].sites = <<>>
  <2> DEFINE w == [Idle EXCEPT !.wanted = work[j].wanted, !.missed = work[j].missed,
                               !.filed = work[j].filed]
  <2>1. Do(j, w)
    BY <1>2 DEF NextSite, End, Do
  <2>2. Bound(w)
    BY DEF Bound, Idle
  <2> HIDE DEF w
  <2> QED
    BY <2>1, <2>2, GoesOn
<1>3. CASE work[j].sites # <<>>
  <2> DEFINE pages == siteRegionIndexUrls(Site(j), work[j].wanted)
             w == [work[j] EXCEPT !.at = "index", !.todo = pages]
  <2>1. Do(j, w)
    BY <1>3 DEF NextSite, Silent
  <2>2. work[j].sites \in Seq(Sites)
    BY <1>1 DEF Bound
  <2>3. Site(j) = Head(work[j].sites) /\ Site(j) \in Sites
    BY <1>3, <2>2 DEF Site
  <2>4. Course(Site(j), pages)
    BY <2>3, IndexCourse
  <2> HIDE DEF pages
  <2>5. /\ w.at = "index" /\ w.sites = work[j].sites /\ w.todo = pages
        /\ w.found = work[j].found /\ w.pager = work[j].pager
    BY <1>1 DEF Fields
  <2> HIDE DEF w
  <2>6. Bound(w)
    BY <1>1, <1>3, <2>3, <2>4, <2>5, NowhereCourse DEF Bound, OnSite
  <2> QED
    BY <2>1, <2>6, GoesOn
<1> QED
  BY <1>2, <1>3

LEMMA FetchIndexStays ==
  ASSUME SiteInv, Shape', NEW j \in Jobs, FetchIndex(j) PROVE SiteInv'
<1> DEFINE w == work[j]
           later == Tail(w.todo)
           rest == [w EXCEPT !.todo = Tail(@)]
           Read(got) ==
             CASE Site(j) = "auctionhouse" -> Keep(rest, parseAuctionHubListings(got.page))
               [] Site(j) = "pughauctions" -> [rest EXCEPT !.found = Extend(@, extractPughAuctionLinks(got.page))]
               [] OTHER -> [collectUklfDetailLinks(rest, got.page) EXCEPT
                              !.at = IF uklfSearchEndpoint(got.page) = NoUrl THEN "index" ELSE "results",
                              !.pager = uklfSearchEndpoint(got.page), !.page = 2]
           stop == [w EXCEPT !.todo = <<>>]
<1>1. w.at = "index" /\ w.todo # <<>>
  BY DEF FetchIndex, At
<1>2. /\ DOMAIN w = Fields /\ Bound(w) /\ Site(j) \in Sites /\ OnSite(w, Site(j))
      /\ w.sites # <<>> /\ Site(j) = Head(w.sites)
  BY <1>1, SiteFacts DEF Site
<1>3. Course(Site(j), later) /\ Course(Site(j), <<>>)
  BY <1>1, <1>2, TailCourse, NowhereCourse DEF OnSite
<1>4. \/ Silent(j, stop)
      \/ \E got \in fetchPage(Head(w.todo)) : Ask(j, got, Read(got), rest)
  BY DEF FetchIndex
<1>5. rest = [w EXCEPT !.todo = later]
  OBVIOUS
<1> HIDE DEF rest, later, w
<1>6. DOMAIN rest = Fields /\ Bound(rest) /\ rest.at = "index" /\ rest.sites = w.sites
      /\ OnSite(rest, Site(j))
  <2>1. /\ DOMAIN rest = Fields /\ rest.at = w.at /\ rest.sites = w.sites /\ rest.todo = later
        /\ rest.found = w.found /\ rest.pager = w.pager
    BY <1>2, <1>5 DEF Fields
  <2>2. OnSite(rest, Site(j))
    BY <1>2, <1>3, <2>1 DEF OnSite
  <2> QED
    BY <1>1, <1>2, <2>1, <2>2, SameSite
<1>7. CASE Silent(j, stop)
  <2>1. /\ DOMAIN stop = Fields /\ stop.at = w.at /\ stop.sites = w.sites /\ stop.todo = <<>>
        /\ stop.found = w.found /\ stop.pager = w.pager
    BY <1>2 DEF Fields
  <2> HIDE DEF stop
  <2>2. OnSite(stop, Site(j))
    BY <1>2, <1>3, <2>1 DEF OnSite
  <2>3. Bound(stop)
    BY <1>1, <1>2, <2>1, <2>2, SameSite
  <2> QED
    BY <1>7, <2>3, GoesOn DEF Silent
<1>8. ASSUME NEW got \in fetchPage(Head(w.todo)) PROVE Bound(Read(got))
  <2>1. got.page.links \in Seq(Range(got.page.links))
    BY PageLinks
  <2>2. CASE Site(j) = "auctionhouse"
    <3>1. Read(got) = Keep(rest, parseAuctionHubListings(got.page))
      BY <2>2
    <3> QED
      BY <1>6, <3>1, KeepBound
  <2>3. CASE Site(j) = "pughauctions"
    <3> DEFINE links == Extend(rest.found, extractPughAuctionLinks(got.page))
    <3>1. Read(got) = [rest EXCEPT !.found = links]
      BY <1>6, <2>3 DEF Fields
    <3>2. Course(Site(j), links)
      BY <1>6, <2>1, <2>3, AuctionLinksCourse, ExtendCourse DEF OnSite
    <3> HIDE DEF links, Read
    <3>3. PICK v : v = [rest EXCEPT !.found = links]
      OBVIOUS
    <3>4. /\ v.at = rest.at /\ v.sites = rest.sites /\ v.todo = rest.todo
          /\ v.found = links /\ v.pager = rest.pager
      BY <1>6, <3>3 DEF Fields
    <3>5. OnSite(v, Site(j))
      BY <1>6, <3>2, <3>4 DEF OnSite
    <3>6. Bound(v)
      BY <1>2, <1>6, <3>4, <3>5, SameSite
    <3> QED
      BY <3>1, <3>3, <3>6
  <2>4. CASE Site(j) = "uklandandfarms"
    <3> DEFINE e == uklfSearchEndpoint(got.page)
               where == IF e = NoUrl THEN "index" ELSE "results"
    <3>1. PICK c : c = collectUklfDetailLinks(rest, got.page)
      OBVIOUS
    <3>2. Read(got) = [c EXCEPT !.at = where, !.pager = e, !.page = 2]
      BY <2>4, <3>1
    <3>3. DOMAIN c = Fields /\ Bound(c) /\ c.at = rest.at /\ c.sites = rest.sites /\ OnSite(c, "uklandandfarms")
      BY <1>2, <1>6, <2>1, <2>4, <3>1, CollectBound
    <3>4. e = NoUrl \/ OnMainHost("uklandandfarms", e)
      BY EndpointPinned
    <3>5. where \in {"index", "results"}
      OBVIOUS
    <3> HIDE DEF e, where, Read
    <3>6. PICK v : v = [c EXCEPT !.at = where, !.pager = e, !.page = 2]
      OBVIOUS
    <3>7. /\ v.at = where /\ v.sites = c.sites /\ v.todo = c.todo
          /\ v.found = c.found /\ v.pager = e
      BY <3>3, <3>6 DEF Fields
    <3>8. OnSite(v, Site(j))
      BY <2>4, <3>3, <3>4, <3>7 DEF OnSite
    <3>9. Bound(v)
      BY <1>2, <1>6, <2>4, <3>3, <3>5, <3>7, <3>8, SameSite
    <3> QED
      BY <3>2, <3>6, <3>9
  <2> QED
    BY <1>2, <2>2, <2>3, <2>4 DEF Sites
<1> HIDE DEF Read
<1>9. ASSUME NEW got \in fetchPage(Head(w.todo)), Ask(j, got, Read(got), rest) PROVE SiteInv'
  BY <1>6, <1>8, <1>9, AskGoesOn
<1> QED
  BY <1>4, <1>7, <1>9

LEMMA FetchResultsStays ==
  ASSUME SiteInv, Shape', NEW j \in Jobs, FetchResults(j) PROVE SiteInv'
<1> DEFINE w == work[j]
           back == [w EXCEPT !.at = "index"]
           Brings(page) == ToSet(extractListingLinks("uklandandfarms", page)) \ ToSet(w.found) # {}
           Read(page) == IF Brings(page) THEN [collectUklfDetailLinks(w, page) EXCEPT !.page = @ + 1] ELSE back
<1>1. w.at = "results"
  BY DEF FetchResults, At
<1>2. /\ DOMAIN w = Fields /\ Bound(w) /\ Head(w.sites) = "uklandandfarms"
      /\ OnSite(w, Head(w.sites))
  BY <1>1, SiteFacts DEF Site
<1>3. \/ Silent(j, back)
      \/ \E got \in fetchPage(withPageIndex(w.pager, w.page)) : Ask(j, got, Read(got.page), back)
  BY DEF FetchResults
<1> HIDE DEF w, Brings
<1>4. DOMAIN back = Fields /\ Bound(back)
  <2>1. /\ DOMAIN back = Fields /\ back.at = "index" /\ back.sites = w.sites /\ back.todo = w.todo
        /\ back.found = w.found /\ back.pager = w.pager
    BY <1>2 DEF Fields
  <2> HIDE DEF back
  <2>2. OnSite(back, Head(w.sites))
    BY <1>2, <2>1 DEF OnSite
  <2> QED
    BY <1>1, <1>2, <2>1, <2>2, SameSite
<1>5. ASSUME NEW got \in fetchPage(withPageIndex(w.pager, w.page)) PROVE Bound(Read(got.page))
  <2>1. got.page.links \in Seq(Range(got.page.links))
    BY PageLinks
  <2>2. PICK c : c = collectUklfDetailLinks(w, got.page)
    OBVIOUS
  <2>3. DOMAIN c = Fields /\ c.at = "results" /\ c.sites = w.sites /\ OnSite(c, "uklandandfarms") /\ Bound(c)
    BY <1>1, <1>2, <2>1, <2>2, CollectBound
  <2>4. PICK next : next = c.page + 1
    OBVIOUS
  <2>5. Read(got.page) \in {[c EXCEPT !.page = next], back}
    BY <2>2, <2>3, <2>4 DEF Fields
  <2> HIDE DEF Read
  <2>6. PICK v : v = [c EXCEPT !.page = next]
    OBVIOUS
  <2>7. /\ v.at = c.at /\ v.sites = c.sites /\ v.todo = c.todo
        /\ v.found = c.found /\ v.pager = c.pager
    BY <2>3, <2>6 DEF Fields
  <2>8. Bound(v)
    BY <2>3, <2>7 DEF Bound, OnSite
  <2> QED
    BY <1>4, <2>5, <2>6, <2>8
<1> HIDE DEF back, Read
<1>6. CASE Silent(j, back)
  BY <1>4, <1>6, GoesOn DEF Silent
<1>7. ASSUME NEW got \in fetchPage(withPageIndex(w.pager, w.page)), Ask(j, got, Read(got.page), back)
      PROVE  SiteInv'
  BY <1>4, <1>5, <1>7, AskGoesOn
<1> QED
  BY <1>3, <1>6, <1>7

LEMMA FetchPageStays ==
  ASSUME SiteInv, Shape', NEW j \in Jobs, FetchPage(j) PROVE SiteInv'
<1> DEFINE w == work[j]
           later == Tail(w.todo)
           events == IF Site(j) = "pughauctions" THEN w.events + 1 ELSE w.events
           rest == [w EXCEPT !.todo = Tail(@),
                             !.events = IF Site(j) = "pughauctions" THEN @ + 1 ELSE @]
           Read(got) == IF Site(j) = "pughauctions" THEN Keep(rest, parsePughLots(got.page))
                        ELSE KeepDetail(rest, parseUklfDetail(got.page, got.url))
           stop == [w EXCEPT !.todo = <<>>, !.missed = TRUE]
<1>1. w.at = "pages" /\ w.todo # <<>>
  BY DEF FetchPage, At
<1>2. /\ DOMAIN w = Fields /\ Bound(w) /\ OnSite(w, Site(j)) /\ Site(j) = Head(w.sites)
  BY <1>1, SiteFacts DEF Site
<1>3. Course(Site(j), later) /\ Course(Site(j), <<>>)
  BY <1>1, <1>2, TailCourse, NowhereCourse DEF OnSite
<1>4. \/ Silent(j, stop)
      \/ \E got \in fetchPage(Head(w.todo)) : Ask(j, got, Read(got), rest)
  BY DEF FetchPage
<1>5. rest = [w EXCEPT !.todo = later, !.events = events]
  OBVIOUS
<1> HIDE DEF rest, later, events, w
<1>6. DOMAIN rest = Fields /\ Bound(rest)
  <2>1. /\ DOMAIN rest = Fields /\ rest.at = w.at /\ rest.sites = w.sites /\ rest.todo = later
        /\ rest.found = w.found /\ rest.pager = w.pager
    BY <1>2, <1>5 DEF Fields
  <2>2. OnSite(rest, Site(j))
    BY <1>2, <1>3, <2>1 DEF OnSite
  <2> QED
    BY <1>1, <1>2, <2>1, <2>2, SameSite
<1>7. CASE Silent(j, stop)
  <2>1. /\ stop.at = w.at /\ stop.sites = w.sites /\ stop.todo = <<>>
        /\ stop.found = w.found /\ stop.pager = w.pager
    BY <1>2 DEF Fields
  <2> HIDE DEF stop
  <2>2. OnSite(stop, Site(j))
    BY <1>2, <1>3, <2>1 DEF OnSite
  <2>3. Bound(stop)
    BY <1>1, <1>2, <2>1, <2>2, SameSite
  <2> QED
    BY <1>7, <2>3, GoesOn DEF Silent
<1>8. ASSUME NEW got PROVE Bound(Read(got))
  <2>1. Bound(Keep(rest, parsePughLots(got.page)))
    BY <1>6, KeepBound
  <2>2. Bound(KeepDetail(rest, parseUklfDetail(got.page, got.url)))
    BY <1>6, KeepBound
  <2> QED
    BY <2>1, <2>2
<1> HIDE DEF Read
<1>9. ASSUME NEW got \in fetchPage(Head(w.todo)), Ask(j, got, Read(got), rest) PROVE SiteInv'
  BY <1>6, <1>8, <1>9, AskGoesOn
<1> QED
  BY <1>4, <1>7, <1>9

\* The steps that ask for nothing: pages done, lots written, the next site.
LEMMA FilingStays ==
  ASSUME SiteInv, Shape', NEW j \in Jobs,
         \/ IndexDone(j) \/ PagesDone(j) \/ SkipCandidate(j)
         \/ WriteListing(j) \/ UpsertRecord(j) \/ enqueueAnalyze(j)
  PROVE  SiteInv'
<1> DEFINE w == work[j]
<1>1. w.at \in {"index", "pages", "write", "record", "enqueue"}
  BY DEF IndexDone, PagesDone, SkipCandidate, WriteListing, UpsertRecord, enqueueAnalyze, At
<1>2. DOMAIN w = Fields /\ Bound(w) /\ OnSite(w, Head(w.sites))
  BY <1>1, SiteFacts DEF Site
<1> DEFINE Went(v) ==
             /\ v.at \in {"pages", "write", "record", "enqueue"} /\ v.sites = w.sites
             /\ v.todo \in {w.todo, w.found} /\ v.found = w.found /\ v.pager = w.pager
<1>3. PICK v : Do(j, v) /\ Went(v)
  <2>1. CASE IndexDone(j)
    <3>1. PICK v : v = [w EXCEPT !.at = "pages", !.todo = w.found]
      OBVIOUS
    <3>2. Do(j, v)
      BY <2>1, <3>1 DEF IndexDone, Silent
    <3>3. Went(v)
      BY <1>1, <1>2, <3>1 DEF Fields
    <3> QED
      BY <3>2, <3>3
  <2>2. CASE PagesDone(j)
    <3>1. PICK v : v = [w EXCEPT !.at = "write",
                              !.missed = @ \/ (Site(j) # "uklandandfarms" /\ Len(w.lots) = Limit)]
      OBVIOUS
    <3>2. Do(j, v)
      BY <2>2, <3>1 DEF PagesDone, Silent
    <3>3. Went(v)
      BY <1>1, <1>2, <3>1 DEF Fields
    <3> QED
      BY <3>2, <3>3
  <2>3. CASE SkipCandidate(j)
    <3>1. PICK v : v = [w EXCEPT !.at = "write", !.lots = Tail(@)]
      OBVIOUS
    <3>2. Do(j, v)
      BY <2>3, <3>1 DEF SkipCandidate, Silent, NextLot
    <3>3. Went(v)
      BY <1>1, <1>2, <3>1 DEF Fields
    <3> QED
      BY <3>2, <3>3
  <2>4. CASE WriteListing(j)
    <3>1. PICK v : v = [w EXCEPT !.at = "record", !.seen = @ \cup {Key(j)},
                              !.filed = @ \cup {Key(j)}]
      OBVIOUS
    <3>2. Do(j, v)
      BY <2>4, <3>1 DEF WriteListing
    <3>3. Went(v)
      BY <1>1, <1>2, <3>1 DEF Fields
    <3> QED
      BY <3>2, <3>3
  <2>5. CASE UpsertRecord(j)
    <3>1. PICK v : v = [w EXCEPT !.at = "enqueue"]
      OBVIOUS
    <3>2. Do(j, v)
      BY <2>5, <3>1 DEF UpsertRecord
    <3>3. Went(v)
      BY <1>1, <1>2, <3>1 DEF Fields
    <3> QED
      BY <3>2, <3>3
  <2>6. CASE enqueueAnalyze(j)
    <3>1. PICK v : v = [w EXCEPT !.at = "write", !.lots = Tail(@)]
      OBVIOUS
    <3>2. Do(j, v)
      BY <2>6, <3>1 DEF enqueueAnalyze, NextLot
    <3>3. Went(v)
      BY <1>1, <1>2, <3>1 DEF Fields
    <3> QED
      BY <3>2, <3>3
  <2> QED
    BY <2>1, <2>2, <2>3, <2>4, <2>5, <2>6
<1> HIDE DEF w
<1>4. OnSite(v, Head(w.sites))
  BY <1>2, <1>3 DEF OnSite
<1>5. Bound(v)
  BY <1>1, <1>2, <1>3, <1>4, SameSite
<1> QED
  BY <1>3, <1>5, GoesOn

LEMMA SiteDoneStays ==
  ASSUME SiteInv, Shape', NEW j \in Jobs, SiteDone(j) PROVE SiteInv'
<1> DEFINE left == Tail(work[j].sites)
           w == [Idle EXCEPT !.at = "site", !.sites = left, !.wanted = work[j].wanted,
                             !.missed = work[j].missed, !.filed = work[j].filed]
<1>1. Do(j, w) /\ work[j].at = "write"
  BY DEF SiteDone, Silent, At
<1>2. left \in Seq(Sites)
  BY <1>1, SiteFacts
<1> HIDE DEF left
<1>3. /\ w.at = "site" /\ w.sites = left /\ w.todo = <<>> /\ w.found = <<>> /\ w.pager = NoUrl
  BY DEF Idle
<1> HIDE DEF w
<1>4. Bound(w)
  BY <1>2, <1>3 DEF Bound
<1> QED
  BY <1>1, <1>4, GoesOn

LEMMA NextStays == SiteInv /\ Shape' /\ [Next]_vars => SiteInv'
<1> SUFFICES ASSUME SiteInv, Shape', [Next]_vars PROVE SiteInv'
  OBVIOUS
<1>1. CASE UNCHANGED work
  BY <1>1 DEF SiteInv
<1>2. ASSUME NEW j \in Jobs, JobStep(j) PROVE SiteInv'
  BY <1>2, QueueStays, NextSiteStays, FetchIndexStays, FetchResultsStays, FetchPageStays,
     FilingStays, SiteDoneStays DEF JobStep
<1>3. EditPatch \/ (\E tip \in Tips : ReceiveTip(tip)) \/ UNCHANGED vars => UNCHANGED work
  BY DEF EditPatch, ReceiveTip, vars
<1> QED
  BY <1>1, <1>2, <1>3 DEF Next

\* Wherever the links of the pages point and whatever redirects, a scan has no index
\* page, lot or auction before it that is off the site it is at or that robots.txt
\* bars; wherever a form points, the walk it starts is on the site's main host.
THEOREM CourseSound == Spec => []StaysOnSite
<1>1. Init => SiteInv
  BY InitInv, InitBound DEF Inv, SiteInv
<1>2. SiteInv => StaysOnSite
  <2> SUFFICES ASSUME SiteInv, NEW j \in Jobs
      PROVE  /\ \A u \in ToSet(work[j].todo) \cup ToSet(work[j].found) : Crawlable(Site(j), u)
             /\ work[j].pager # NoUrl => OnMainHost(Site(j), work[j].pager)
    BY DEF StaysOnSite
  <2> DEFINE w == work[j]
  <2>1. Bound(w)
    BY DEF SiteInv
  <2>2. CASE w.at \in {"idle", "patch", "site"}
    <3>1. w.todo = <<>> /\ w.found = <<>> /\ w.pager = NoUrl
      BY <2>1, <2>2 DEF Bound
    <3> QED
      BY <3>1 DEF ToSet
  <2>3. CASE w.at \notin {"idle", "patch", "site"}
    <3>1. Course(Site(j), w.todo) /\ Course(Site(j), w.found) /\ (w.pager = NoUrl \/ OnMainHost(Site(j), w.pager))
      BY <2>3, SiteFacts DEF OnSite
    <3>2. \A urls : Course(Site(j), urls) => \A x \in ToSet(urls) : Crawlable(Site(j), x)
      BY DEF Course, ToSet
    <3> QED
      BY <3>1, <3>2
  <2> QED
    BY <2>2, <2>3
<1>3. Inv => Shape
  BY DEF Inv
<1> QED
  BY <1>1, <1>2, <1>3, InitInv, NextInv, NextStays, PTL DEF Spec
=============================================================================
