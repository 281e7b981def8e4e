-------------------------- MODULE MCListingScrape --------------------------
(* A small instance of ListingScrape for TLC: three sites, one region.        *)
EXTENDS ListingScrape

CONSTANTS j1, j2

\* The outcodes: two of the region, the office of an agent in one, and one far away.
Conwy == 1
Bangor == 2
Leeds == 3
Office == [outcode |-> Bangor, unit |-> 9]
PC(o, u) == [outcode |-> o, unit |-> u]
Street(n, s) == [name |-> n, spelling |-> s]

\* What is true of a property, by the name of its street.
\* 1 has a maps link; the text of its page names 2 as often as the office, and 3
\* more often; 4 is at an auction house twice and at Pugh, 5 at Pugh without a price, 6
\* at Pugh behind it, far away.
MCProperty ==
  [n \in 1..6 |-> [postcode |-> PC(IF n = 6 THEN Leeds ELSE Conwy, n), price |-> 9 + n]]

Uk(section, n) == Url("uklandandfarms", "www", section, n, FALSE)
Detail(n) == Uk("rural-property-for-sale", n)
Results(n) == Uk("SearchResult.aspx", n)
Region == Detail(Nothing)
Hub == Url("auctionhouse", "www", "wales", Nothing, FALSE)
HubLot(n) == Url("auctionhouse", "room", "lot", n, TRUE)
Diary == Url("pughauctions", "www", "auction-diary", Nothing, FALSE)
Event(n) == Url("pughauctions", "www", "auction", n, FALSE)
PughLot(n) == Url("pughauctions", "www", "property", n, FALSE)
Agent == Uk("agent", 1)
Mirror == Url("uklandandfarms", "elsewhere", "SearchResult.aspx", 1, FALSE)
Old == Uk("detail.aspx", 1)
Login(n) == Uk("customers", n) \* returns to /Search/SearchResult.aspx
Coast == [Region EXCEPT !.section = "rural-properties-for-sale"]
Inland == [Region EXCEPT !.query = TRUE]

Postcode(n) == MCProperty[n].postcode
Sum(pence, labelled) == [pence |-> pence, labelled |-> labelled]
Named(n) == Heading(Street(n, 1), NoPostcode, Nothing, FALSE)
DetailPage(n, map, postcodes, images) ==
  [BlankPage EXCEPT !.title = Named(n), !.map = map, !.postcodes = postcodes, !.images = images,
                    !.h1s = IF n = 3 THEN <<Heading(NoStreet, NoPostcode, MCProperty[n].price, FALSE)>> ELSE <<>>,
                    !.amounts = <<Sum(99, FALSE), Sum(MCProperty[n].price, TRUE)>>]

PughCard(n, street, image, price) ==
  Card(PughLot(n), street, IF street = NoStreet THEN NoPostcode ELSE Postcode(street.name), image, price)

MCWeb ==
  [u \in {Region, Results(2), Results(3), Results(4), Coast, Inland, Login(2), Old, Detail(1), Detail(2), Detail(3), Hub,
          Diary, Event(1)} |->
     CASE u = Region -> [BlankPage EXCEPT !.links = <<Agent, Detail(1), Region>>, !.form = Results(1)]
       [] u = Results(2) -> [BlankPage EXCEPT !.links = <<Detail(1), Detail(2)>>]
       [] u = Results(3) -> [BlankPage EXCEPT !.links = <<Detail(1), Old>>]
       [] u = Results(4) -> [BlankPage EXCEPT !.links = <<Detail(1)>>]
       [] u = Coast -> [BlankPage EXCEPT !.form = Mirror]
       [] u = Inland -> [BlankPage EXCEPT !.form = Login(1)]
       [] u = Login(2) -> BlankPage
       [] u = Old -> [BlankPage EXCEPT !.to = Detail(3)]
       [] u = Detail(1) -> DetailPage(1, Postcode(1), <<Office>>, <<"chrome", "relative">>)
       [] u = Detail(2) -> DetailPage(2, NoPostcode, <<Office, Postcode(2)>>, <<>>)
       [] u = Detail(3) -> DetailPage(3, NoPostcode, <<Office, Postcode(3), Postcode(3)>>, <<"photo">>)
       [] u = Hub -> [BlankPage EXCEPT !.cards =
            <<Card(HubLot(1), Street(4, 1), Postcode(4), "photo", Nothing),
              Card(HubLot(2), Street(4, 3), Postcode(4), "none", Nothing)>>]
       [] u = Diary -> [BlankPage EXCEPT !.links = <<Event(1), Diary, Event(1)>>]
       [] u = Event(1) -> [BlankPage EXCEPT !.cards =
            <<PughCard(1, NoStreet, "photo", Nothing), PughCard(1, Street(4, 2), "none", 13),
              PughCard(2, NoStreet, "chrome", Nothing), PughCard(2, Street(5, 1), "none", Nothing),
              PughCard(3, NoStreet, "photo", Nothing), PughCard(3, Street(6, 1), "none", 15)>>]]
MCTaxonomy == <<[prefixes |-> {"LL"}, urls |-> [uklandandfarms |-> <<Region, Coast, Inland>>, auctionhouse |-> <<Hub>>, pughauctions |-> <<>>]]>>
MCNational == [uklandandfarms |-> <<>>, auctionhouse |-> <<>>, pughauctions |-> <<Diary>>]
MCHasPrefix == {<<Conwy, "LL">>, <<Bangor, "LL">>}
MCFlaky == {Results(3)}
MCPatches == {{}, {Conwy, Bangor}}
MCTips == {[id |-> <<"agent_email", 1>>, street |-> Street(1, 3), postcode |-> Postcode(1), price |-> 10, image |-> "none"]}
=============================================================================
