---------------------------- MODULE ListingPages ----------------------------
(* What the scraper reads out of the pages of the listing sites. A page is the *)
(* parts of its HTML that the parsers look for, in the order they stand in.    *)
EXTENDS Integers, Sequences, FiniteSets, SequencesExt, Subsequences

Sites == {"uklandandfarms", "auctionhouse", "pughauctions"}
LISTING_SCRAPE_SITES == <<"uklandandfarms", "auctionhouse", "pughauctions">>

Nothing == 0 \* an absent price or ref
NoStreet == [name |-> Nothing, spelling |-> Nothing]
NoPostcode == [outcode |-> Nothing, unit |-> Nothing]

\* `host` is "www" or "room" on the site's own domain, or "elsewhere"; `ref` is
\* the last segment, or the number of a results page.
Url(site, host, section, ref, query) ==
  [site |-> site, host |-> host, section |-> section, ref |-> ref, query |-> query]
NoUrl == Url("none", "elsewhere", "none", Nothing, FALSE)

\* A link to a lot with the street and postcode of its text, its image, and the
\* first guide price that stands between it and the next link.
Card(url, street, postcode, image, price) ==
  [url |-> url, street |-> street, postcode |-> postcode, image |-> image, price |-> price]

\* A title or an h1. `brand`: the name of the site or of a region, no address.
Heading(street, postcode, price, brand) ==
  [street |-> street, postcode |-> postcode, price |-> price, brand |-> brand]
NoHeading == Heading(NoStreet, NoPostcode, Nothing, FALSE)

\* `form`: where the first form points whose action names /Search/SearchResult.aspx,
\* in its path or anywhere else in it; `map`: the postcode of a maps link; `postcodes`: those of the whole text;
\* `amounts`: its sums of money; `to`: where the server redirects.
BlankPage ==
  [to |-> NoUrl, links |-> <<>>, form |-> NoUrl, title |-> NoHeading, h1s |-> <<>>,
   map |-> NoPostcode, postcodes |-> <<>>, amounts |-> <<>>, images |-> <<>>, cards |-> <<>>]

\* The first element that passes, or `none`.
FirstThat(seq, Passes(_), none) ==
  LET hits == Only(seq, Passes) IN IF hits = <<>> THEN none ELSE Head(hits)

MapSeq(seq, Of(_)) == FoldLeft(LAMBDA made, x : Append(made, Of(x)), <<>>, seq)
Extend(found, more) == Once(found \o more)
Prefix(seq, n) == SubSeq(seq, 1, IF Len(seq) < n THEN Len(seq) ELSE n)
-----------------------------------------------------------------------------
(* Links *)

\* What robots.txt leaves to crawlers of a site, and pages in an order to ask for
\* them: what the scan is held to, not what the code looks up.
Crawlable(site, u) ==
  /\ u.site = site /\ u.host # "elsewhere"
  /\ u.section \notin {"customers", "agent", "print-lot", "search-results", "adm"}
OnMainHost(site, u) == u.site = site /\ u.host = "www"
Course(site, urls) == urls \in Seq({u \in Range(urls) : Crawlable(site, u)})

isListingUrl(site, u) ==
  /\ u.site = site /\ u.ref # Nothing
  /\ CASE site = "uklandandfarms" ->
            u.host = "www" /\ u.section \in {"rural-property-for-sale", "rural-properties-for-sale", "detail.aspx"}
       [] site = "pughauctions" -> u.host = "www" /\ u.section = "property" /\ ~u.query
       [] site = "auctionhouse" -> u.host = "room" /\ u.section = "lot" /\ ~u.query

extractListingLinks(site, page) ==
  Once(Only(page.links, LAMBDA u : isListingUrl(site, u)))

\* Mutant: Follows the form wherever it points.
uklfSearchEndpoint_AnyHost(page) == page.form

\* The form's action drives the walk: its host is pinned, its path is not.
uklfSearchEndpoint(page) ==
  IF OnMainHost("uklandandfarms", page.form) THEN page.form ELSE NoUrl

withPageIndex(url, n) == [url EXCEPT !.ref = n]

extractPughAuctionLinks(page) ==
  Once(Only(page.links, LAMBDA u : /\ u.site = "pughauctions" /\ u.host = "www"
                                   /\ u.section = "auction" /\ u.ref # Nothing))
-----------------------------------------------------------------------------
(* Images: "none", "photo" on one of the hosts we hotlink, "relative" to the    *)
(* page, or "chrome": a gif, a placeholder, another host.                       *)

isHotlinkableImageUrl(image) == image = "photo"

\* A relative photo is one of the host the page came from.
resolveUrl(image, base) ==
  IF image # "relative" THEN image ELSE IF base.host = "elsewhere" THEN "chrome" ELSE "photo"

extractImageUrl(page, base) ==
  FirstThat([i \in DOMAIN page.images |-> resolveUrl(page.images[i], base)],
            isHotlinkableImageUrl, "none")
-----------------------------------------------------------------------------
(* Lots, from the cards of an auction page *)

Lot(site, url, street, postcode, price, image) ==
  [id |-> <<site, url.ref>>, url |-> url, street |-> street, postcode |-> postcode,
   price |-> price, image |-> image]

\* The query of a link is cut off.
Bare(u) == [u EXCEPT !.query = FALSE]
OwnPhoto(image) == IF isHotlinkableImageUrl(image) THEN image ELSE "none"

\* The cards of a site's lots that can be placed, each lot once.
LotCards(site, page) ==
  Only(page.cards, LAMBDA c : isListingUrl(site, Bare(c.url)))
Placeable(site, page) ==
  Distinct(Only(LotCards(site, page), LAMBDA c : c.postcode # NoPostcode), LAMBDA c : c.url.ref)

parseAuctionHubListings(page) ==
  MapSeq(Placeable("auctionhouse", page), LAMBDA c :
    Lot("auctionhouse", Bare(c.url), c.street, c.postcode, Nothing, OwnPhoto(c.image)))

\* A lot has an image link and an address link: the picture is on the first.
pughImagesById(page, ref) ==
  FirstThat(LotCards("pughauctions", page),
            LAMBDA c : c.url.ref = ref /\ isHotlinkableImageUrl(c.image), [image |-> "none"]).image

parsePughLots(page) ==
  MapSeq(Placeable("pughauctions", page), LAMBDA c :
    Lot("pughauctions", Bare(c.url), c.street, c.postcode, c.price, pughImagesById(page, c.url.ref)))
-----------------------------------------------------------------------------
(* Detail pages of uklandandfarms *)

\* The title when it has a postcode, else the first h1 that has one, else the title.
uklfPropertyHeading(page) ==
  IF page.title.postcode # NoPostcode THEN page.title
  ELSE FirstThat(page.h1s, LAMBDA h : h.postcode # NoPostcode, page.title)

Mentions(page, p) == Cardinality({i \in DOMAIN page.postcodes : page.postcodes[i] = p})

\* Mutant: The first postcode of the text.
uklfBodyPostcode_First(page) ==
  IF page.map # NoPostcode THEN page.map
  ELSE IF page.postcodes # <<>> THEN Head(page.postcodes) ELSE NoPostcode

\* The maps link, else the postcode the text repeats most; a tie decides nothing.
uklfBodyPostcode(page) ==
  IF page.map # NoPostcode THEN page.map
  ELSE LET named == ToSet(page.postcodes)
           top == {p \in named : \A q \in named \ {p} : Mentions(page, q) < Mentions(page, p)}
       IN  IF top = {} THEN NoPostcode ELSE CHOOSE p \in top : TRUE

\* What stands in a heading that has a postcode is an address.
isPlausibleAddressWithoutPostcode(heading) == ~heading.brand

\* A sum in an h1 is the price; in the text only one that is labelled so.
uklfPrice(page) ==
  LET h1 == FirstThat(page.h1s, LAMBDA h : h.price # Nothing, NoHeading).price
  IN  IF h1 # Nothing THEN h1
      ELSE FirstThat(page.amounts, LAMBDA a : a.labelled, [pence |-> Nothing]).pence

\* Zero or one lot.
parseUklfDetail(page, url) ==
  LET heading == uklfPropertyHeading(page)
      postcode == IF heading.postcode # NoPostcode THEN heading.postcode ELSE uklfBodyPostcode(page)
  IN  IF \/ heading.street = NoStreet /\ heading.postcode = NoPostcode
         \/ postcode = NoPostcode /\ ~isPlausibleAddressWithoutPostcode(heading)
      THEN <<>>
      ELSE <<Lot("uklandandfarms", url, heading.street, postcode, uklfPrice(page),
                 extractImageUrl(page, url))>>
-----------------------------------------------------------------------------
(* Filing *)

outcodeOf(postcode) == postcode.outcode

\* Streets are written in many ways: `name` is what is left of one in upper case
\* and without punctuation. Without street and postcode there is no key.
buildAddressKey(street, postcode) ==
  [name |-> street.name, postcode |-> postcode]
NoKey == buildAddressKey(NoStreet, NoPostcode)
=============================================================================
