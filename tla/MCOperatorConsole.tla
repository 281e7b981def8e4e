-------------------------- MODULE MCOperatorConsole ---------------------------
(* A small instance of OperatorConsole for TLC.                                *)
EXTENDS OperatorConsole

MCJunk == -2
MCCatalogue == [auctionhouse |-> "auction", uklandandfarms |-> "land"]
Plain(core) == Text(core, FALSE, FALSE)
Row(id, price, seen, outcode, source, scores) ==
  [id |-> id, address |-> 4 - id, postcode |-> id, outcode |-> outcode, price |-> price,
   bedrooms |-> IF id = 2 THEN NoValue ELSE id, seen |-> seen, source |-> source, link |-> id # 3,
   agency |-> IF source = "agent_email" THEN "jo" ELSE "none", scores |-> scores]
Scores(a, b) == [s1 |-> a, s2 |-> b]
Home1 == Row(1, 20000, 2, "LL30", "agent_email", Scores(90, 40))
Home2 == Row(2, NoValue, 2, "LL31", "auctionhouse", Scores(70, NoValue))
Home3 == Row(3, 20000, 1, "LL30", "agent_email", Scores(NoValue, NoValue))
Home4 == Row(4, 10000, 1, "LL31", "uklandandfarms", Scores(70, 70))
Shuffled == {[Home3 EXCEPT !.scores = Scores(95, 95), !.price = NoValue, !.seen = 3]}

MCRows == [drill |-> {{Home2, Home3}}, feed |-> {{Home1, Home2, Home3}}, desk |-> {{Home1}}, pool |-> {{Home1, Home2}},
           brief |-> {{}}, walk |-> {{Home1, Home2, Home3, Home4},
                                     {[h EXCEPT !.price = NoValue, !.scores = Scores(NoValue, 5)] :
                                        h \in {Home1, Home2, Home3, Home4}}}]
MCVariants == [drill |-> {[Home2 EXCEPT !.id = 5, !.price = 10000]}, feed |-> Shuffled, desk |-> {}, pool |-> {Home2, [Home1 EXCEPT !.seen = 5]}, brief |-> {},
               walk |-> Shuffled \union {[Home1 EXCEPT !.price = NoValue, !.scores = Scores(NoValue, 70)],
                                         [Home2 EXCEPT !.id = 5, !.price = 10000]}]

MCLocated == ("Conwy" :> {"LL30"}) @@ ("Deganwy" :> {"LL31"}) @@ (Nothing :> {})
Brief(place) ==
  [BLANK EXCEPT !.name = Plain(place), !.location = Plain(place)]
First(id, place) == RowOf(id, save(Brief(place)))
MCSearches == {First("s1", "Conwy"), First("s2", "Deganwy")}

\* The third has been emailed; the second is of its agency; the fourth is a person's.
Agent(id, covers, email, domain) ==
  [id |-> id, covers |-> covers, email |-> email, domain |-> domain, corporate |-> id # 4,
   undeliverable |-> FALSE, optedOut |-> FALSE, contacted |-> IF id = 3 THEN "recently" ELSE "never",
   thread |-> IF id = 3 THEN "awaiting_reply" ELSE "none"]
MCAgents == {Agent(1, {"LL30"}, "jo", "jones"), Agent(2, {"LL30", "LL31"}, "kim", "price"),
             Agent(3, {"LL31"}, "lee", "price")}
MCSourced == {Agent(4, {"LL30"}, "mo", "post")}
MCEmailed == [suppressed |-> {}, brake |-> "ok"]

Budget(clicks, changes, faults) == [clicks |-> clicks, changes |-> changes, faults |-> faults]
Errand(name, start, paths, does, budget) ==
  [name |-> name, start |-> start, paths |-> paths, does |-> does, left |-> budget]
MCErrands ==
  {Errand("feed", "/listings", {"/listings", "/searches"}, {"mark", "remove"}, Budget(3, 0, 1)),
   Errand("drill", "/searches", {"/listings", "/searches", "/sources"}, {"refresh"}, Budget(3, 1, 0)),
   Errand("desk", "/searches", {}, {"edit", "pause", "launch"}, Budget(3, 1, 0)),
   Errand("desk", "/searches", {}, {"edit", "pause", "launch"}, Budget(3, 0, 1)),
   Errand("pool", "/agents", {"/agents", "/searches"}, {"erase", "remove"}, Budget(3, 1, 0)),
   Errand("brief", "/searches", {}, {}, Budget(1, 0, 0)),
   Errand("walk", "none", {}, {}, Budget(0, 1, 0))}

Input(by, dir, outcodes, search, limit) ==
  [filter |-> [NoFilter EXCEPT !.outcodes = outcodes], sort |-> [by |-> by, dir |-> dir],
   cursor |-> NoCursor, limit |-> limit, search |-> search]
MCInputs ==
  {[what |-> "listings", input |-> Input(by, dir, {}, search, limit)] :
     by \in {"price", "lastSeenAt", "combinedScore"}, dir \in {"asc", "desc"},
     search \in {NoSearch, "s2"}, limit \in {1, 2}}
  \union {[what |-> "listings", input |-> Input("price", "desc", {"LL30"}, NoSearch, 0)]}
  \union {[what |-> "agents", input |-> Input("id", "desc", outcodes, NoSearch, 1)] : outcodes \in {{}, {"LL31"}}}

MCForms ==
  {[id |-> NoSearch, name |-> Text("Conwy", TRUE, FALSE), location |-> location, types |-> types,
    condition |-> condition, land |-> land, saleMethods |-> sale, minBeds |-> beds, maxPrice |-> price,
    keywords |-> keywords, status |-> "active"] :
     location \in {Blank, Text("Conwy", TRUE, FALSE), Text(Nothing, TRUE, FALSE)}, types \in {{}, {"cottage"}},
     condition \in {{}, {"Some updating"}, {"Some updating", "Full renovation"}},
     land \in {{}, {"Grounds"}, {"Land with a building to convert"}}, sale \in {{}, {"Auction"}},
     beds \in {NoValue, 0, 2, Junk}, price \in {NoValue, 0, 300}, keywords \in {Blank, Text("light", TRUE, TRUE)}}
MCProfile == [name |-> Text("Jo", TRUE, FALSE), phone |-> Blank, urgency |-> "browsing"]
=============================================================================
