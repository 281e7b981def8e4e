---------------------------- MODULE MCSearchPatch ----------------------------
(* A small instance of SearchPatch for TLC: two towns, three agencies, and what *)
(* else the web has to say about them.                                          *)
EXTENDS SearchPatch

CONSTANTS s1, s2, r1

LL(n) == <<"LL", n>>
Rec(o, districts, counties, places) ==
  [outcode |-> o, districts |-> districts, counties |-> counties, country |-> "Wales", places |-> places]
MCRecords ==
  <<Rec(LL(30), <<"Conwy">>, <<>>, <<"Llandudno">>), Rec(LL(31), <<"Conwy">>, <<>>, <<"unparished", "Conwy">>),
    Rec(LL(57), <<"Gwynedd">>, <<>>, <<"Bangor">>), Rec(<<"DE", 14>>, <<"East Staffordshire">>, <<"Staffordshire">>, <<"Conwy">>)>>
Names == {"Conwy County", "Bangor", "Conwy", "Gwynedd", "Llandudno", "Wales", "East Staffordshire", "Staffordshire"}
MCKeyOf == [n \in Names |-> IF n = "Conwy County" THEN "Conwy" ELSE n]

\* "Conwy County", and "Bangor, LL31": the patches share LL31.
MCLocated == ("Conwy" :> Text({}, {}, {"Conwy County"})) @@ ("Bangor" :> Text({LL(31)}, {}, {"Bangor"}))
MCOwnerOf == [s \in Searches |-> Operator]
MCBegin == [s \in Searches |-> IF s = s1 THEN "Conwy" ELSE "Bangor"]
MCHomes == ("h1" :> LL(30)) @@ ("h2" :> LL(57))

Info == Email("info", "fletcher")
Conwy == Email("conwy", "fletcher")
Lets == Email("lets", "aslets")
Association == Email("homes", "wwha")
MCMails == {Info, Conwy, Lets, Association, Email("jo", "gmail")}

MCUnsubscribers == {Lets}
MCApproached == {Association}

Plain(e) == Token("plain", e.local, e.domain)
Own == Result("fletcher/contact", "fletcher", "Fletcher Poole", <<Token("phone", "info", "fletcher")>>, <<>>)
Branch == Result("fletcher/conwy", "fletcher", "Fletcher Poole", <<Plain(Conwy), Token("asset", "logo", "2x")>>, <<>>)
Council == Result("conwy.gov.uk/landlords", "conwy.gov.uk", "Landlords", <<Token("plain", "tai", "conwy.gov.uk")>>, <<>>)
Portal == Result("rightmove/conwy", "rightmove", NoText, <<Token("plain", "no-reply", "rightmove")>>, <<>>)
Top5 == Result("top5/page", "top5", "managing agents", <<>>, <<>>)
Guide == Result("guide/page", "guide", "A guide", <<>>,
                <<Token("cf", "lets", "aslets"), Plain(Association), Token("plain", "jo", "gmail")>>)
Again == Result("guide/more", "guide", "More", <<>>, <<Plain(Info)>>)
Site == Result("aslets/home", "aslets", NoText, <<Plain(Lets)>>, <<>>)

Query(kind, of) == <<kind, of>>
Answers(q) ==
  CASE q = Query("estate agents", "Conwy") -> <<Own, Council, Guide, Portal>>
    [] q = Query("letting agents", "Conwy") -> <<Guide, Branch, Again, Top5>>
    [] q = Query("letting agents", "Bangor") -> <<Site>>
    [] OTHER -> <<>>
Kinds3 == {"estate agents", "letting agents", "independent"}
MCSearch == [q \in Kinds3 \X DOMAIN MCLocated |-> Answers(q)]
Failing(queries, links) == [queries |-> queries, links |-> links]
MCFailures == {NoFailure, Failing({Query("estate agents", "Conwy")}, {"guide/page"}),
               Failing(Kinds3 \X {"Conwy"}, {})}
MCPublished == ("Conwy" :> {"fletcher", "aslets"}) @@ ("Bangor" :> {"aslets"})

MCSiteOf == [h \in {"fletcher", "aslets", "wwha", "gmail", "guide"} |-> h]

Verdict(sells, kind, confidence) == [sells |-> sells, kind |-> kind, confidence |-> confidence]
MCRaw == ("fletcher" :> {Verdict("yes", "estate_agent", 90)}) @@
         ("gmail" :> {Verdict("yes", "estate_agent", 90)}) @@
         ("aslets" :> {Verdict("no", "letting_agent", 95), Verdict("no", "council", Unclear)}) @@
         ("wwha" :> {Verdict("no", "housing_association", 120), Verdict("no", "housing", 60),
                     Verdict("down", "other", 0), Verdict("no JSON", "other", 0)})

Ok(code) == Line(code, FALSE, 0, FALSE, FALSE)
Blocked == [by |-> "smtp", ok |-> TRUE, status |-> NoText, sub |-> NoText,
            lines |-> <<Ok(220), Line(250, TRUE, 0, FALSE, FALSE), Ok(250), Ok(250),
                        Line(550, TRUE, 7, FALSE, FALSE), Line(550, FALSE, 0, TRUE, TRUE)>>]
Service(by, word, sub) == [by |-> by, ok |-> TRUE, status |-> word, sub |-> sub, lines |-> <<>>]
MCAnswer == ("fletcher" :> {Blocked}) @@ ("gmail" :> {Blocked}) @@
            ("aslets" :> {Service("zerobounce", "do_not_mail", "role_based")}) @@
            ("wwha" :> {Service("neverbounce", "invalid", NoText)})

MCNamesPlace == {<<"Conwy", "conwy">>}
MCLocalLength == [l \in {"jo", "info", "conwy", "lets", "homes"} |->
                    CASE l = "jo" -> 2 [] l \in {"info", "lets"} -> 4 [] OTHER -> 5]
=============================================================================
