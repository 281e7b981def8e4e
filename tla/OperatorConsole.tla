--------------------------- MODULE OperatorConsole ----------------------------
(* The operator's browser and the API behind it: the Listings screen with its  *)
(* bookmarks and hidden homes, the Searches screen with its editor, its        *)
(* removal and its launch, the Agents screen, and a client that pages through  *)
(* the lists. A query's answer is kept (react-query) and read again when it is *)
(* stale; a change is a request that the server may answer late, out of order, *)
(* not at all, or after doing its work.                                        *)
EXTENDS FeedView, SearchDesk, TLC

CONSTANTS
  Errands,       \* what the operator, or a client, sets out to do: [name, start, paths, does, left]
  Rows,          \* errand -> the catalogues it may start with
  Variants,      \* the rows that a scrape or a score may put in place of others
  FirstSearches, \* the searches there are
  FirstAgents,   \* the agents there are
  Sourced,       \* the agents a discovery may add
  Emailed,       \* what the gates of sending read besides the agents, at first: [suppressed, brake]
  Brakes,        \* what breaker, kill-switch and cap may say
  Spare,         \* the id the next search gets
  Located,       \* place -> its outcodes
  Inputs,        \* the lists a client may page through
  Forms,         \* the briefs an operator may type
  Profile,       \* the operator's details, as typed in Settings
  Resolvable,    \* the postcodes postcodes.io knows
  BULK,          \* postcodes of one call at most: 100
  MAX_PAGES      \* pages of agents read at most: 50

\* A row of each table. Ids are numbers, columns numbers or NULL; a listing has
\* an address and has been seen. An agent was emailed never, recently (within the
\* cooldown of its domain) or long ago.
IsListing(row) ==
  /\ {row.id, row.seen, row.address} \subseteq Nat /\ {row.price, row.bedrooms, row.postcode} \subseteq Value
  /\ IsFiniteSet(DOMAIN row.scores) /\ \A s \in DOMAIN row.scores : row.scores[s] \in Value
IsAgent(a) ==
  /\ a = [id |-> a.id, covers |-> a.covers, email |-> a.email, domain |-> a.domain, corporate |-> a.corporate,
          undeliverable |-> a.undeliverable, optedOut |-> a.optedOut, contacted |-> a.contacted, thread |-> a.thread]
  /\ a.id \in Nat
IsText(text) == text = Text(text.core, text.padded, text.stopped) /\ text.padded \in BOOLEAN
IsForm(form) ==
  /\ DOMAIN form = DOMAIN BLANK
  /\ \A text \in {form.name, form.location, form.keywords} : IsText(text)
  /\ form.minBeds \in Int \union {Junk} /\ form.maxPrice \in Int
IsSearch(search) ==
  /\ DOMAIN search = DOMAIN save(BLANK) \union {"id", "outcodes"}
  /\ \A text \in {search.name, search.location, search.keywords} : IsText(text)
  /\ search.minBedrooms \in Int /\ search.maxPricePence \in Int
Keyed(table) == \A x, y \in table : x.id = y.id => x = y

ASSUME PageAssumption == {MAX_PAGE_LIMIT, MAX_PAGES} \subseteq Nat \ {0}
ASSUME MapAssumption == BULK \in Nat \ {0} /\ NoValue \notin Resolvable
ASSUME ListingAssumption ==
  \A e \in Errands :
    /\ \A start \in Rows[e.name] : IsFiniteSet(start) /\ Keyed(start) /\ \A row \in start : IsListing(row)
    /\ \A row \in Variants[e.name] : IsListing(row)

\* There are no more agents than the pages of a patch hold.
ASSUME AgentAssumption ==
  LET ids == {a.id : a \in FirstAgents \union Sourced}
  IN  /\ Keyed(FirstAgents) /\ \A a \in FirstAgents \union Sourced : IsAgent(a)
      /\ IsFiniteSet(ids) /\ Cardinality(ids) <= MAX_PAGES * MAX_PAGE_LIMIT
ASSUME SearchAssumption ==
  /\ \A search \in FirstSearches : IsSearch(search)
  /\ Keyed(FirstSearches) /\ \A search \in FirstSearches : search.id # Spare
  /\ \A form \in Forms : IsForm(form)
ASSUME InputAssumption ==
  \A w \in Inputs :
    /\ w.what \in {"listings", "agents"}
    /\ w.input = [filter |-> w.input.filter, sort |-> w.input.sort, cursor |-> NoCursor,
                  limit |-> w.input.limit, search |-> w.input.search]
    /\ w.input.limit \in Int /\ w.input.sort.dir \in {"asc", "desc"}

VARIABLES
  errand,
  rows, saved, hidden, searches, agents, queue, sending, \* the server's
  cache,    \* query -> the answer kept: its data, its status, whether it is fresh
  shell,    \* where the browser is: path, the path before, and the drill-in filters
  screen,   \* the Listings screen: its two sets, which are seeded, the toast's home
  dialog,   \* the dialog open on the Searches or Agents screen
  requests, \* the changes sent and not answered, in the order sent
  walk,     \* the client's walk through a list
  left,     \* clicks, changes and faults left
  astray,   \* <<set, home>>: what the browser shows of it may be wrong (see Settle)
  outdated, \* the queries whose kept answer others have made wrong
  consent   \* <<search, agent>>: approved, and shown to be eligible before

server  == <<rows, saved, hidden, searches, agents, queue, sending>>
browser == <<cache, shell, screen, dialog, requests>>
history == <<astray, outdated, consent>>
vars    == <<errand, server, browser, walk, left, history>>
-----------------------------------------------------------------------------
(* Queries. A query is <<name, search>>; most are about no search in particular. *)

Q(name) == <<name, NoSearch>>
SearchIds == {s.id : s \in FirstSearches} \union {Spare}
Queries == {Q(n) : n \in {"list", "saved", "dismissed", "searches", "agents", "agentStats", "sources"}}
             \union {"review", "preview"} \X SearchIds
Nowhere == [data |-> {}, status |-> "pending", fresh |-> FALSE]
Data(q) == cache[q].data
Kept(q) == cache[q].status # "pending"

NoLens == [id |-> NoSearch, outcodes |-> {}]

\* The Listings screen's query: a source's lots, or a search's homes through its
\* lens, or all.
listQueryInput ==
  LET all == [filter |-> NoFilter, sort |-> [by |-> "combinedScore", dir |-> "desc"],
              cursor |-> NoCursor, limit |-> MAX_PAGE_LIMIT, search |-> NoSearch]
  IN  IF shell.sourceFilter # NoSource THEN [all EXCEPT !.filter.source = shell.sourceFilter]
      ELSE [all EXCEPT !.filter.outcodes = shell.searchFilter.outcodes,
                       !.search = shell.searchFilter.id]

Live(id) == \E s \in searches : s.id = id
SearchOf(id) == CHOOSE s \in searches : s.id = id
Others(id) == UNION {s.outcodes : s \in {t \in searches : t.id # id}}

\* NOT_FOUND: the search a query is about, or looks through, is gone.
Refused(q) ==
  \/ q[2] # NoSearch /\ ~Live(q[2])
  \/ q = Q("list") /\ listQueryInput.search # NoSearch /\ ~Live(listQueryInput.search)

Answer(q) ==
  LET table == buildAgentRows(rows, agents, shell.agentFilter, MAX_PAGES)
  IN  CASE q[1] = "list"  -> attachScores(Range(list(rows, listQueryInput).items), listQueryInput.search)
        [] q[1] = "saved"      -> hydrate(rows, saved)
        [] q[1] = "dismissed"  -> hydrate(rows, hidden)
        [] q[1] = "searches"   -> searches
        [] q[1] = "agents"     -> table
        [] q[1] = "sources"    -> sourceRows(rows)
        [] q[1] = "agentStats" -> {agentStats(table)}
        [] q[1] = "review"     -> reviewDrafts(agents, sending, SearchOf(q[2]).outcodes, MAX_PAGES)
        [] q[1] = "preview"    -> {previewSearchRemoval(rows, agents, SearchOf(q[2]), Others(q[2]))}

Mounted ==
  CASE shell.path = "/listings" -> {Q("list"), Q("saved"), Q("dismissed")}
    [] shell.path = "/agents"   -> {Q("agents"), Q("agentStats")}
    [] shell.path = "/sources"  -> {Q("sources")}
    [] shell.path = "/searches" ->
         {Q("searches")} \union
         (IF dialog.kind \in {"launch", "remove"}
          THEN {<<IF dialog.kind = "launch" THEN "review" ELSE "preview", dialog.search>>} ELSE {})
    [] OTHER -> {}

\* invalidate: an answer is read again once a screen shows it.
Stale(c, queries) == [q \in Queries |-> IF q \in queries THEN [c[q] EXCEPT !.fresh = FALSE] ELSE c[q]]
-----------------------------------------------------------------------------
(* Requests *)

Overlay == {"save", "unsave", "dismiss", "restore"}
Serves(kind) == IF kind \in {"save", "unsave"} THEN "saved" ELSE "dismissed"

Request(kind, on, what) == [kind |-> kind, on |-> on, what |-> what, calls |-> TRUE]
Muted(reqs, kinds) ==
  [i \in DOMAIN reqs |-> IF reqs[i].kind \in kinds THEN [reqs[i] EXCEPT !.calls = FALSE] ELSE reqs[i]]

\* A change's own callback is dropped when the next of its kind is sent.
Sent(reqs, request) == Append(Muted(reqs, {request.kind} \intersect Overlay), request)
Pending(kinds) == \E i \in DOMAIN requests : requests[i].kind \in kinds

Does(action) == action \in errand.does
Click == left.clicks > 0 /\ left' = [left EXCEPT !.clicks = @ - 1]
-----------------------------------------------------------------------------
(* The Listings screen *)

NewScreen == [interested |-> {}, dismissed |-> {}, seeded |-> {}, undo |-> 0]

\* The sets are seeded once, from the first answer there is.
Seeds(scr, c) == {n \in {"saved", "dismissed"} \ scr.seeded : c[Q(n)].status # "pending"}
Seed(scr, c) ==
  [scr EXCEPT !.interested = IF "saved" \in Seeds(scr, c) THEN Ids(c[Q("saved")].data) ELSE @,
              !.dismissed = IF "dismissed" \in Seeds(scr, c) THEN Ids(c[Q("dismissed")].data) ELSE @,
              !.seeded = @ \union Seeds(scr, c)]

\* What a set seeded from c gets wrong: an old answer, a change on its way.
Misses(name, c) ==
  LET held  == IF name = "saved" THEN saved ELSE hidden
      shown == Ids(c[Q(name)].data)
      sent  == {requests[i].on : i \in {j \in DOMAIN requests :
                  requests[j].kind \in Overlay /\ Serves(requests[j].kind) = name}}
  IN  {<<name, h>> : h \in (held \ shown) \union (shown \ held) \union sent}
SeedFrom(scr, c) ==
  LET now == Seeds(scr, c)
  IN  /\ screen' = Seed(scr, c)
      /\ astray' = {x \in astray : x[1] \notin now} \union UNION {Misses(n, c) : n \in now}

ScreenRows == byId(Data(Q("list")), Data(Q("saved")), Data(Q("dismissed")))
Bucket(b) == displayRows(b, Data(Q("list")), ScreenRows, screen.interested, screen.dismissed)
Homes == UNION {Ids(Bucket(b)) : b \in {"active", "saved", "dismissed"}}
Shows == shell.path = "/listings" /\ cache[Q("list")].status = "success"

toggleInterest(home) ==
  LET on == home \in screen.interested
  IN  /\ Shows /\ Does("mark") /\ Click
      /\ screen' = [screen EXCEPT !.interested = toggleArr(@, home)]
      /\ requests' = Sent(requests, Request(IF on THEN "unsave" ELSE "save", home, {}))
      /\ UNCHANGED <<errand, server, cache, shell, dialog, walk, history>>

dismiss(home) ==
  /\ Shows /\ Does("mark") /\ home \notin screen.dismissed /\ Click
  /\ screen' = [screen EXCEPT !.dismissed = @ \union {home}, !.undo = home]
  /\ requests' = Sent(requests, Request("dismiss", home, {}))
  /\ UNCHANGED <<errand, server, cache, shell, dialog, walk, history>>

\* From the Dismissed bucket, or the toast's Undo.
restore(home) ==
  /\ Shows /\ Click
  /\ home \in screen.dismissed \union {screen.undo}
  /\ screen' = [screen EXCEPT !.dismissed = @ \ {home}, !.undo = IF @ = home THEN 0 ELSE @]
  /\ requests' = Sent(requests, Request("restore", home, {}))
  /\ UNCHANGED <<errand, server, cache, shell, dialog, walk, history>>

UndoExpires ==
  /\ screen.undo # 0
  /\ screen' = [screen EXCEPT !.undo = 0]
  /\ UNCHANGED <<errand, server, cache, shell, dialog, requests, walk, left, history>>

Marks ==
  /\ Shows /\ left.clicks > 0
  /\ \/ \E home \in Homes : toggleInterest(home) \/ dismiss(home) \/ restore(home)
     \/ screen.undo # 0 /\ restore(screen.undo)

\* The bar's Clear, and the Done of the follow-ups. These changes call nothing
\* back; the saved homes are read again at once.
clearShownInterest ==
  LET shown == InterestBar(ScreenRows, screen.interested, screen.dismissed)
  IN  /\ Shows /\ shown # {} /\ Click
      /\ screen' = [screen EXCEPT !.interested = @ \ shown]
      /\ requests' = Muted(requests \o [i \in 1..Cardinality(shown) |->
                                          Request("unsave", Ascending(shown)[i], {})], {"unsave"})
      /\ cache' = Stale(cache, {Q("saved")})
      /\ UNCHANGED <<errand, server, shell, dialog, walk, history>>

-----------------------------------------------------------------------------
(* Around the app *)

NoDialog == [kind |-> "none", search |-> NoSearch, form |-> BLANK, checked |-> {}, shown |-> {},
             seeded |-> FALSE, sent |-> NoValue]

\* A screen is left and another mounted. The answers kept may have grown old by
\* then; a list asked for with other filters is asked for anew. Changes of the
\* Listings screen still on their way will call nothing back.
Visit(to) ==
  /\ to.path \in errand.paths /\ dialog = NoDialog /\ Click
  /\ shell' = to
  /\ requests' = Muted(requests, Overlay)
  /\ \E old \in BOOLEAN :
       LET anew == {q \in Queries : \/ q = Q("list") /\ <<to.searchFilter, to.sourceFilter>>
                                                          # <<shell.searchFilter, shell.sourceFilter>>
                                    \/ q[1] \in {"agents", "agentStats"} /\ to.agentFilter # shell.agentFilter}
           c    == [q \in Queries |-> IF q \in anew THEN Nowhere
                                      ELSE IF old THEN [cache[q] EXCEPT !.fresh = FALSE] ELSE cache[q]]
       IN  /\ cache' = c
           /\ IF to.path = "/listings" THEN SeedFrom(NewScreen, c) ELSE screen' = NewScreen /\ UNCHANGED astray
  /\ UNCHANGED <<errand, server, dialog, walk, outdated, consent>>

To(path) == [shell EXCEPT !.path = path, !.back = shell.path]

goTab(path) ==
  Visit([To(path) EXCEPT !.searchFilter = NoLens, !.agentFilter = {}, !.sourceFilter = NoSource])
viewSearchHomes(search) ==
  /\ shell.path = "/searches" /\ SearchCard(search).links
  /\ Visit([To("/listings") EXCEPT !.searchFilter = [id |-> search.id, outcodes |-> search.outcodes]])
viewAgents(search) ==
  /\ shell.path = "/searches" /\ SearchCard(search).links
  /\ Visit([To("/agents") EXCEPT !.agentFilter = search.outcodes])
viewSourceLots(source) ==
  /\ shell.path = "/sources" /\ cache[Q("sources")].status = "success"
  /\ \E kind \in {"all", "auction", "land"} : source \in Ids(SourcesPage(Data(Q("sources")), kind).table)
  /\ Visit([To("/listings") EXCEPT !.searchFilter = NoLens, !.agentFilter = {}, !.sourceFilter = source])

\* A banner's "All listings": another list is asked for, the screen stays.
ClearLens ==
  /\ shell.path = "/listings" /\ Click
  /\ \E lens \in Banners(shell.searchFilter, shell.sourceFilter) :
       shell' = IF lens = "search" THEN [shell EXCEPT !.searchFilter = NoLens]
                ELSE [shell EXCEPT !.sourceFilter = NoSource]
  /\ cache' = [cache EXCEPT ![Q("list")] = Nowhere]
  /\ UNCHANGED <<errand, server, screen, dialog, requests, walk, history>>

\* The browser's Back.
Back == shell.back # "none" /\ Visit([shell EXCEPT !.path = shell.back, !.back = "none"])

Navigate ==
  \/ \E path \in errand.paths \ {shell.path} : goTab(path)
  \/ Back \/ ClearLens
  \/ \E search \in Data(Q("searches")) : viewSearchHomes(search) \/ viewAgents(search)
  \/ \E source \in SOURCE_NAMES : viewSourceLots(source)
-----------------------------------------------------------------------------
(* The Searches and Agents screens *)

Open(kind, search) == dialog' = [NoDialog EXCEPT !.kind = kind, !.search = search]
Card(search) == shell.path = "/searches" /\ cache[Q("searches")].status = "success" /\ dialog = NoDialog
Steady == UNCHANGED <<errand, server, cache, shell, screen, walk, history>>

\* The form of a search as the list shows it, or a blank one.
OpenEditor ==
  /\ Does("edit") /\ Card(BLANK) /\ Click
  /\ \E form \in {BLANK} \union {formFromSearch(search) : search \in Data(Q("searches"))} :
       dialog' = [NoDialog EXCEPT !.kind = "edit", !.search = form.id, !.form = form]
  /\ Steady /\ UNCHANGED requests

EditForm ==
  /\ dialog.kind = "edit" /\ errand.name # "brief"
  /\ \E place \in DOMAIN Located :
       dialog' = [dialog EXCEPT !.form.location = Text(place, FALSE, FALSE),
                                !.form.name = Text(place, FALSE, FALSE)]
  /\ dialog' # dialog
  /\ Steady /\ UNCHANGED <<requests, left>>

SaveForm ==
  /\ dialog.kind = "edit" /\ SearchEditor(dialog.form, Pending({"create", "update", "remove"})).saves
  /\ requests' = Sent(requests, Request(IF dialog.form.id = NoSearch THEN "create" ELSE "update",
                                        dialog.form.id, dialog.form))
  /\ Click /\ Steady /\ UNCHANGED dialog

\* Resuming is immediate; pausing asks first.
requestToggle ==
  /\ Does("pause") /\ Card(BLANK) /\ Click
  /\ \E search \in Data(Q("searches")) :
       IF search.status = "active" THEN Open("pause", search.id) /\ UNCHANGED requests
       ELSE /\ requests' = Sent(requests, Request("setStatus", search.id, "active"))
            /\ UNCHANGED dialog
  /\ Steady
ConfirmPause ==
  /\ dialog.kind = "pause" /\ ~Pending({"setStatus"}) /\ Click
  /\ requests' = Sent(requests, Request("setStatus", dialog.search, "paused"))
  /\ Steady /\ UNCHANGED dialog

\* From the editor, by its Delete: the counts are shown first.
AskRemove ==
  /\ Does("remove") /\ Card(BLANK) /\ Click
  /\ \E search \in Data(Q("searches")) : Open("remove", search.id)
  /\ Steady /\ UNCHANGED requests
ConfirmRemove ==
  /\ dialog.kind = "remove" /\ ~Pending({"remove"}) /\ Click
  /\ ConfirmRemoveSearch([listingsToHide |-> 0, agentsToRemove |-> 0],
                         cache[<<"preview", dialog.search>>].status = "pending").confirms
  /\ requests' = Sent(requests, Request("remove", dialog.search, {}))
  /\ Steady /\ UNCHANGED dialog
RemoveAgent ==
  /\ Does("erase") /\ shell.path = "/agents" /\ cache[Q("agents")].status = "success"
  /\ ~Pending({"erase"}) /\ Click
  /\ \E row \in AgentsTable(Data(Q("agents")), "all") :
       requests' = Sent(requests, Request("erase", row.id, {}))
  /\ Steady /\ UNCHANGED dialog

\* Sources: "Refresh listings".
RefreshSources ==
  /\ Does("refresh") /\ shell.path = "/sources" /\ cache[Q("sources")].status = "success"
  /\ ~Pending({"refresh"}) /\ Click
  /\ requests' = Sent(requests, Request("refresh", NoSearch, {}))
  /\ Steady /\ UNCHANGED dialog

Review_AllTicked(d, c) ==
  LET agentRows == c[<<"review", d.search>>].data
      first     == d.kind = "launch" /\ ~d.seeded /\ agentRows # {}
  IN  IF d.kind # "launch" THEN d
      ELSE [d EXCEPT !.checked = IF first THEN Ids(agentRows) ELSE @, !.seeded = @ \/ first,
                     !.shown = @ \union {row.id : row \in {r \in agentRows : r.eligible}}]

\* The ticks are seeded from the first review that has agents; an agent a review
\* has shown to be eligible is noted.
Review(d, c) ==
  LET agentRows == c[<<"review", d.search>>].data
      eligible  == {row.id : row \in {r \in agentRows : r.eligible}}
      first     == d.kind = "launch" /\ ~d.seeded /\ agentRows # {}
  IN  IF d.kind # "launch" THEN d
      ELSE [d EXCEPT !.checked = IF first THEN eligible ELSE @, !.seeded = @ \/ first,
                     !.shown = @ \union eligible]

\* Opening the dialog launches the search.
LaunchModal ==
  /\ Does("launch") /\ Card(BLANK) /\ Click
  /\ \E search \in Data(Q("searches")) :
       /\ SearchCard(search).launches
       /\ dialog' = Review([NoDialog EXCEPT !.kind = "launch", !.search = search.id], cache)
       /\ requests' = Sent(requests, Request("launch", search.id, {}))
  /\ Steady

\* A box can be ticked while its agent is shown to be eligible.
AgentRow ==
  /\ dialog.kind = "launch" /\ dialog.sent = NoValue
  /\ \E row \in Data(<<"review", dialog.search>>) :
       /\ row.eligible
       /\ dialog' = [dialog EXCEPT !.checked = toggleArr(@, row.id)]
  /\ Click /\ Steady /\ UNCHANGED requests

Approve ==
  /\ dialog.kind = "launch" /\ dialog.sent = NoValue /\ dialog.checked # {} /\ ~Pending({"approve"})
  /\ Kept(<<"review", dialog.search>>) /\ Click
  /\ requests' = Sent(requests, Request("approve", dialog.search, dialog.checked))
  /\ consent' = consent \union {<<dialog.search, a>> : a \in dialog.shown \intersect dialog.checked}
  /\ UNCHANGED <<errand, server, cache, shell, screen, dialog, walk, astray, outdated>>

\* Escape, the cross and the scrim close a dialog at any time.
CloseDialog ==
  /\ dialog # NoDialog /\ dialog' = NoDialog
  /\ requests' = Muted(requests, {"launch", "approve"})
  /\ Steady /\ UNCHANGED left

Desk == OpenEditor \/ EditForm \/ SaveForm \/ requestToggle \/ ConfirmPause \/ AskRemove \/ ConfirmRemove
        \/ RemoveAgent \/ RefreshSources \/ LaunchModal \/ AgentRow \/ Approve \/ CloseDialog
-----------------------------------------------------------------------------
(* Answers *)

\* A screen reads what it shows and is stale; a review without agents, again and
\* again. One that fails keeps the answer before it.
Fetch(q) ==
  /\ q \in Mounted
  /\ ~cache[q].fresh \/ (q[1] = "review" /\ Data(q) = {})
  /\ \/ /\ ~Refused(q)
        /\ LET c == [cache EXCEPT ![q] = [data |-> Answer(q), status |-> "success", fresh |-> TRUE]]
           IN  /\ cache' = c
               /\ dialog' = Review(dialog, c)
               /\ IF shell.path = "/listings" THEN SeedFrom(screen, c) ELSE UNCHANGED <<screen, astray>>
        /\ outdated' = outdated \ {q} /\ UNCHANGED left
     \/ /\ IF Refused(q) THEN UNCHANGED left
           ELSE left.faults > 0 /\ left' = [left EXCEPT !.faults = @ - 1]
        /\ cache' = [cache EXCEPT ![q].status = "error"]
        /\ UNCHANGED <<screen, dialog, astray, outdated>>
  /\ UNCHANGED <<errand, server, shell, requests, walk, consent>>

RowOf(id, base) ==
  [id |-> id, outcodes |-> Located[base.location.core], name |-> base.name, location |-> base.location,
   types |-> base.types, condition |-> base.condition, land |-> base.land,
   saleMethods |-> base.saleMethods, minBedrooms |-> base.minBedrooms,
   maxPricePence |-> base.maxPricePence, keywords |-> base.keywords, status |-> base.status]

bookmark(home)   == saved' = saved \union {home} /\ UNCHANGED <<rows, hidden, searches, agents, queue>>
unbookmark(home) == saved' = saved \ {home} /\ UNCHANGED <<rows, hidden, searches, agents, queue>>
hide(home)       == hidden' = hidden \union {home} /\ UNCHANGED <<rows, saved, searches, agents, queue>>
unhide(home)     == hidden' = hidden \ {home} /\ UNCHANGED <<rows, saved, searches, agents, queue>>

create(form) ==
  searches' = searches \union {RowOf(Spare, save(form))} /\ UNCHANGED <<rows, saved, hidden, agents, queue>>
update(id, form) ==
  /\ searches' = {s \in searches : s.id # id} \union {RowOf(id, save(form))}
  /\ UNCHANGED <<rows, saved, hidden, agents, queue>>
setStatus(id, status) ==
  /\ searches' = {IF s.id = id THEN [s EXCEPT !.status = status] ELSE s : s \in searches}
  /\ UNCHANGED <<rows, saved, hidden, agents, queue>>

\* The homes of the patch are hidden and its agents erased, with the search.
removeSearch(id) ==
  LET outcodes == SearchOf(id).outcodes
  IN  /\ searches' = searches \ {SearchOf(id)}
      /\ hidden' = hidden \union {row.id : row \in {x \in rows : x.outcode \in outcodes}}
      /\ agents' = agents \ selectAgentsToRemove(outcodes, Others(id), agents)
      /\ UNCHANGED <<rows, saved, queue>>
eraseAgent(id) ==
  agents' = {a \in agents : a.id # id} /\ UNCHANGED <<rows, saved, hidden, searches, queue>>

launch(id) ==
  /\ queue' = [queue EXCEPT !.discover = @ \union SearchOf(id).outcodes]
  /\ UNCHANGED <<rows, saved, hidden, searches, agents>>
approveSends(id, agentIds) ==
  /\ queue' = [queue EXCEPT !.send = @ \union {<<id, a>> : a \in agentIds}]
  /\ UNCHANGED <<rows, saved, hidden, searches, agents>>
refresh == queue' = [queue EXCEPT !.scrape = TRUE] /\ UNCHANGED <<rows, saved, hidden, searches, agents>>

\* What the server makes of a request. NOT_FOUND leaves everything as it is.
Carry(r) ==
  CASE r.kind = "save"      -> bookmark(r.on)
    [] r.kind = "unsave"    -> unbookmark(r.on)
    [] r.kind = "dismiss"   -> hide(r.on)
    [] r.kind = "restore"   -> unhide(r.on)
    [] r.kind = "create"    -> create(r.what)
    [] r.kind = "update"    -> update(r.on, r.what)
    [] r.kind = "setStatus" -> setStatus(r.on, r.what)
    [] r.kind = "remove"    -> removeSearch(r.on)
    [] r.kind = "erase"     -> eraseAgent(r.on)
    [] r.kind = "launch"    -> launch(r.on)
    [] r.kind = "approve"   -> approveSends(r.on, r.what)
    [] r.kind = "refresh"   -> refresh

Found(r) ==
  /\ r.kind \in {"update", "setStatus", "remove", "launch"} => Live(r.on)
  /\ r.kind = "erase" => \E a \in agents : a.id = r.on

Touches_AgentsForgotten(kind) ==
  CASE kind \in {"create", "update", "setStatus"} -> {Q("searches")}
    [] kind = "remove" -> {Q("searches"), Q("dismissed")}
    [] kind = "erase"  -> {Q("agents"), Q("agentStats")}
    [] OTHER -> {}

\* What a change's success makes stale.
Touches(kind) ==
  CASE kind \in {"create", "update", "setStatus"} -> {Q("searches")}
    [] kind = "remove" -> {Q("searches"), Q("dismissed"), Q("agents"), Q("agentStats")}
    [] kind = "erase"  -> {Q("agents"), Q("agentStats")}
    [] OTHER -> {}

Closes(r) ==
  CASE r.kind \in {"create", "update"} -> dialog.kind = "edit"
    [] r.kind = "setStatus" -> dialog.kind = "pause"
    [] r.kind = "remove" -> dialog.kind \in {"edit", "remove"}
    [] OTHER -> FALSE

\* The changes a settling one overtook: the earlier of its kind, whose effect its
\* refetch may miss, and the contrary one of the same home.
Overtaken(i) ==
  {<<Serves(requests[j].kind), requests[j].on>> : j \in {k \in 1..(i - 1) :
     /\ requests[k].kind \in Overlay
     /\ \/ requests[k].kind = requests[i].kind
        \/ requests[k].on = requests[i].on /\ Serves(requests[k].kind) = Serves(requests[i].kind)}}

\* The answers may come in any order. outcome: done; the server did it and the
\* answer was lost; it failed (an approval, after queueing some of its sends).
Settle(i, outcome) ==
  LET r    == requests[i]
      done == outcome = "done" /\ Found(r)
  IN  /\ outcome # "done" => left.faults > 0
      /\ left' = IF outcome = "done" THEN left ELSE [left EXCEPT !.faults = @ - 1]
      /\ requests' = SubSeq(requests, 1, i - 1) \o SubSeq(requests, i + 1, Len(requests))
      /\ IF outcome = "failed" \/ ~Found(r)
         THEN IF r.kind = "approve"
              THEN \E some \in SUBSET r.what : Carry([r EXCEPT !.what = some])
              ELSE UNCHANGED server
         ELSE Carry(r)
      /\ cache' = Stale(cache, IF r.kind \in Overlay THEN (IF r.calls THEN {Q(Serves(r.kind))} ELSE {})
                               ELSE IF done THEN Touches(r.kind) ELSE {})
      /\ dialog' = IF done /\ Closes(r) THEN NoDialog
                   ELSE IF done /\ r.kind = "approve" /\ r.calls
                     THEN [dialog EXCEPT !.sent = Cardinality(r.what)]
                   ELSE dialog
      /\ astray' = astray
           \union (IF r.kind \in Overlay
                   THEN Overtaken(i) \union (IF outcome = "failed" THEN {<<Serves(r.kind), r.on>>} ELSE {})
                   ELSE {<<"dismissed", h>> : h \in hidden' \ hidden})
      /\ outdated' = IF outcome = "done" THEN outdated ELSE Queries
      /\ walk' = IF walk.what = "agents" THEN [walk EXCEPT !.steady = @ \intersect {a.id : a \in agents'}]
                 ELSE walk
      /\ UNCHANGED <<errand, shell, screen, sending, consent>>
-----------------------------------------------------------------------------
(* Meanwhile *)

Elsewhere ==
  /\ left.changes > 0 /\ left' = [left EXCEPT !.changes = @ - 1]
  /\ outdated' = Queries
  /\ UNCHANGED <<errand, browser, astray, consent, saved, hidden, searches>>

\* A scrape or a score changes or adds a row.
Reobserve ==
  /\ Elsewhere
  /\ \E row \in Variants[errand.name] :
       /\ rows' = {row} \union {r \in rows : r.id # row.id}
       /\ walk' = [walk EXCEPT !.steady = @ \ {row.id}]
  /\ UNCHANGED <<agents, queue, sending>>

\* A discovery lands an agent; the worker mails one; one answers, opts out, or is
\* found undeliverable; an address is suppressed; sending is stopped, or resumed.
Pool ==
  /\ Elsewhere
  /\ \/ \E a \in Sourced : /\ a.covers \intersect queue.discover # {}
                           /\ \A b \in agents : b.id # a.id
                           /\ agents' = agents \union {a} /\ UNCHANGED <<sending, walk>>
     \/ \E a \in agents :
          /\ \E b \in {[a EXCEPT !.covers = Located[p]] : p \in DOMAIN Located} \union
                      {[a EXCEPT !.optedOut = TRUE], [a EXCEPT !.undeliverable = TRUE],
                       IF \E job \in queue.send : job[2] = a.id
                       THEN [a EXCEPT !.contacted = "recently", !.thread = "awaiting_reply"] ELSE a,
                       IF a.thread = "awaiting_reply" THEN [a EXCEPT !.thread = "replied"] ELSE a} :
               b # a /\ agents' = (agents \ {a}) \union {b}
          /\ walk' = [walk EXCEPT !.steady = @ \ {a.id}] /\ UNCHANGED sending
     \/ /\ \/ \E a \in agents : sending' = [sending EXCEPT !.suppressed = @ \union {a.email}]
           \/ \E brake \in Brakes : sending' = [sending EXCEPT !.brake = brake]
        /\ sending' # sending /\ UNCHANGED <<agents, walk>>
  /\ UNCHANGED <<rows, queue>>

\* One page of a walk through a list.
WalkOn ==
  /\ ~walk.done
  /\ LET page == IF walk.what = "agents"
                 THEN listAgents(agents, walk.input.filter.outcodes, TRUE, walk.cursor, walk.input.limit)
                 ELSE list(rows, [walk.input EXCEPT !.cursor = walk.cursor])
     IN  walk' = [walk EXCEPT !.seen = @ \o [i \in DOMAIN page.items |-> page.items[i].id],
                              !.cursor = page.nextCursor, !.done = page.nextCursor = NoCursor]
  /\ UNCHANGED <<errand, server, browser, left, history>>
-----------------------------------------------------------------------------
NoWalk == [what |-> "nothing", input |-> NoCursor, cursor |-> NoCursor, seen |-> <<>>, steady |-> {},
           done |-> TRUE]

\* The rows a walk is to show.
Sought(what, input) ==
  IF what = "agents" THEN {a.id : a \in {x \in agents : input.filter.outcodes # {} => x.covers \intersect input.filter.outcodes # {}}}
  ELSE {row.id : row \in {r \in rows : buildWhere(r, toRepositoryFilter(input.filter))}}

Init ==
  /\ errand \in Errands
  /\ rows \in Rows[errand.name]
  /\ saved = {} /\ hidden = {} /\ searches = FirstSearches /\ agents = FirstAgents
  /\ queue = [discover |-> {}, send |-> {}, scrape |-> FALSE] /\ sending = Emailed
  /\ cache = [q \in Queries |-> Nowhere]
  /\ shell = [path |-> errand.start, back |-> "none", searchFilter |-> NoLens, agentFilter |-> {},
              sourceFilter |-> NoSource]
  /\ screen = NewScreen /\ requests = <<>>
  /\ dialog \in IF errand.name = "brief"
                THEN {[NoDialog EXCEPT !.kind = "edit", !.search = f.id, !.form = f] : f \in Forms}
                ELSE {NoDialog}
  /\ walk \in IF errand.name = "walk"
              THEN {[NoWalk EXCEPT !.what = w.what, !.input = w.input, !.done = FALSE,
                                   !.steady = Sought(w.what, w.input)] : w \in Inputs}
              ELSE {NoWalk}
  /\ left = errand.left
  /\ astray = {} /\ outdated = {} /\ consent = {}

Next ==
  \/ Marks \/ UndoExpires \/ clearShownInterest
  \/ Navigate \/ Desk
  \/ \E q \in Queries : Fetch(q)
  \/ \E i \in DOMAIN requests, outcome \in {"done", "lost", "failed"} : Settle(i, outcome)
  \/ Reobserve \/ Pool \/ WalkOn

Spec == Init /\ [][Next]_vars
-----------------------------------------------------------------------------
(* What is checked *)

\* A client that follows the cursor of a list until it ends, under any order,
\* filter and lens, meets once, and no more than once, every row that stays as it
\* was from its first page on, whatever happens to the others meanwhile
\* (listing.repository list, agent.repository list).
PagesTile ==
  walk.what # "nothing" =>
    \A id \in walk.steady :
      LET times == Cardinality({i \in DOMAIN walk.seen : walk.seen[i] = id})
      IN  times <= 1 /\ (walk.done => times = 1)

\* The Listings screen at rest: seeded, every change answered, nothing to read again.
AtRest ==
  /\ Shows /\ requests = <<>> /\ screen.seeded = {"saved", "dismissed"}
  /\ \A q \in Mounted : cache[q].fresh
Sorts == {onSort([key |-> was, dir |-> dir], key) :
            was \in DOMAIN SORTS, dir \in {"asc", "desc"}, key \in DOMAIN SORTS}
InOrder(shown, sort) ==
  \A i \in 1..(Len(shown) - 1) :
    LET a == shown[i][sort.key]
        b == shown[i + 1][sort.key]
    IN  \/ b = NoValue
        \/ a # NoValue /\ (IF sort.dir = "asc" THEN a <= b ELSE a >= b)

\* At rest, Active, Saved and Dismissed hold exactly what the server holds of the
\* page, the bookmarks and the hidden homes, also of homes that left the page,
\* and so do the counters, the table and the notes of the follow-ups; whatever was
\* clicked, failed or came late before, but for the homes it happened to
\* (ListingsPage: the two sets, their seeding, byId, the buckets).
BucketsMatchServer ==
  AtRest =>
    LET in(b) == Ids(Bucket(b))
        page  == Ids(Data(Q("list")))
        clear(names) == {h \in Ids(rows) : \A n \in names : <<n, h>> \notin astray}
        n     == counts(Data(Q("list")), ScreenRows, screen.interested, screen.dismissed)
        notes == FollowUpModal(interestedRows(ScreenRows, screen.interested, screen.dismissed), FALSE).notes
    IN  /\ \A h \in clear({"dismissed"}) : /\ h \in in("dismissed") <=> h \in hidden
                                           /\ h \in in("active") <=> h \in page \ hidden
        /\ \A h \in clear({"saved", "dismissed"}) :
             /\ h \in in("saved") <=> h \in saved \ hidden
             /\ Cardinality({note \in notes : h \in note.names}) = (IF h \in saved \ hidden THEN 1 ELSE 0)
        /\ \A b \in {"active", "saved", "dismissed"}, sort \in Sorts, view \in {"table", "cards"} :
             LET shown == Screen("ready", Data(Q("list")), Data(Q("saved")), Data(Q("dismissed")),
                                 screen.interested, screen.dismissed, b, sort, view).rows
             IN  /\ Len(shown) = n[b]
                 /\ {shown[i].id : i \in DOMAIN shown} = in(b)
                 /\ InOrder(sortRows(Bucket(b), sort), sort)
        /\ \A b \in {"active", "saved", "dismissed"}, known \in SUBSET Resolvable :
             LET codes == {row.postcode : row \in mapRows(Bucket(b))}
             IN  Ids(MapModal(Bucket(b), geocodePostcodes(codes, known, Resolvable, BULK, {})))
                   = {row.id : row \in {r \in Bucket(b) : r.postcode \in Resolvable}}

\* A send is queued for an agent only if the operator approved it in a review
\* that had shown the agent to be eligible (LaunchModal: the boxes and their seed).
QueuedOnConsent == queue.send \subseteq consent

\* Once the operator's own changes are answered, the list of searches, the table of
\* agents and its tiles hold what the server holds, unless others changed it or an
\* answer was lost; the tiles agree with the table; and the counters of a search's
\* card, counted in the database, agree with what its launch and its link show,
\* paged through: the review of the patch, where those who opted out stay among the
\* refused, and the Agents table. (A search without outcodes is another matter: its
\* review pages through every agent there is.) (SearchesPage, AgentsPage: what each
\* change invalidates; searches.router stats, collectPatchAgents; agent.repository
\* countByOutcodes.)
SettledTables ==
  requests = <<>> =>
    /\ \A q \in {Q("searches"), Q("agents"), Q("agentStats"), Q("sources")} :
         cache[q].status = "success" /\ cache[q].fresh /\ q \notin outdated => Data(q) = Answer(q)
    /\ (\A q \in {Q("agents"), Q("agentStats")} :
          cache[q].status = "success" /\ cache[q].fresh /\ q \notin outdated) =>
         \A chip \in {"replied", "awaiting"} : \A tiles \in Data(Q("agentStats")) :
           tiles[chip] = Cardinality(AgentsTable(Data(Q("agents")), chip))
    /\ shell.path = "/searches" => \A s \in {t \in searches : t.outcodes # {}} :
         LET stats  == searchStats(rows, agents, s)
             drafts == {d \in reviewDrafts(agents, sending, s.outcodes, MAX_PAGES) :
                          \A a \in agents : a.id = d.id => ~a.optedOut}
             table  == {row \in buildAgentRows(rows, agents, s.outcodes, MAX_PAGES) : row.status # "opted_out"}
         IN  /\ stats.agentsInPatch = Cardinality(drafts)
             /\ stats.agentsInPatch = Cardinality(table)
             /\ stats.agentsContacted = Cardinality({row \in table : row.contacted})

\* The email previewed in the editor is the one the server drafts from the row
\* that the form is saved as, and a saved form reopens as it was saved
\* (SearchesPage draftSearchEmail, save; search-brief draftSearchEmail). A place of
\* spaces alone is another matter: the preview has a gap where the email says "your
\* area".
PreviewIsTheEmail ==
  \A i \in DOMAIN requests :
    requests[i].kind \in {"create", "update"} =>
      LET form   == requests[i].what
          row    == RowOf(Spare, save(form))
          sender == resolveSender(saveIdentity(Profile), DefaultName)
      IN  /\ form.location # Text(Nothing, TRUE, FALSE) =>
               previewEmail(form, sender) = draftSearchEmail(row, sender)
          /\ save(formFromSearch(row)) = save(form)
=============================================================================
