----------------------------- MODULE AgencyPages -----------------------------
(* What agent discovery reads out of web results and the pages behind them, and *)
(* which of the mailboxes it keeps.                                             *)
EXTENDS Integers, Sequences, FiniteSets, SequencesExt, Subsequences

CONSTANTS
  PORTAL_DOMAINS, FREE_MAIL_DOMAINS,
  GovDomains,       \* hosts and domains: gov.uk, a portal, each with what is under it
  NonAgencyTexts,   \* the titles, names and links NON_AGENCY_SOURCE_RE matches
  SiteOf            \* by host or mail domain: its site, without www and the like

NoText == "none"

\* An address-like token of a text: written out ("plain"), behind a fused phone
\* number ("phone"), encoded by Cloudflare ("cf"), or an asset's name ("asset").
Token(kind, local, domain) == [kind |-> kind, local |-> local, domain |-> domain]
Email(local, domain) == [local |-> local, domain |-> domain]

\* A search result: its link and host, title, the tokens of its snippet, and those
\* of the page it leads to.
Result(link, host, title, snippet, page) ==
  [link |-> link, host |-> host, title |-> title, snippet |-> snippet, page |-> page]

extractEmails(tokens) ==
  LET real == Only(tokens, LAMBDA t : t.kind \in {"plain", "phone"})
  IN  Once([i \in DOMAIN real |-> Email(real[i].local, real[i].domain)])

decodeCfEmail(t) == Token("plain", t.local, t.domain)
extractCfEmails(tokens) ==
  LET hidden == Only(tokens, LAMBDA t : t.kind = "cf")
  IN  [i \in DOMAIN hidden |-> decodeCfEmail(hidden[i])]

isPortalDomain(host) == host \in PORTAL_DOMAINS
isPortalEmail(email) == isPortalDomain(email.domain)
isNonAgencyName(name) == name \in NonAgencyTexts
isNonAgencyResult(r) ==
  r.host \in GovDomains \/ isPortalDomain(r.host) \/ {r.title, r.link} \cap NonAgencyTexts # {}
isLikelyAgencyEmail(email) == email.domain \notin GovDomains /\ ~isPortalEmail(email)

agencyNameFrom(r) == IF r.title # NoText /\ ~isNonAgencyName(r.title) THEN r.title ELSE r.host
sameSite(a, b) == SiteOf[a] = SiteOf[b]

\* A page about many agencies does not name the one behind this address.
agencyNameForEmail(email, r) ==
  IF sameSite(email.domain, r.host) THEN agencyNameFrom(r) ELSE email.domain

dedupeByEmail(agents) == Distinct(agents, LAMBDA a : a.email)

DEFAULT_MAX_QUERIES == 6
clampMaxQueries(n) == IF n >= 1 THEN n ELSE 1
buildDiscoveryQueries(region, outcodes, cap) ==
  LET wide == <<<<"estate agents", region>>, <<"letting agents", region>>, <<"independent", region>>>>
      all == wide \o [i \in DOMAIN outcodes |-> <<"agents of outcode", outcodes[i]>>]
  IN  SubSeq(all, 1, IF Len(all) < clampMaxQueries(cap) THEN Len(all) ELSE clampMaxQueries(cap))
-----------------------------------------------------------------------------
(* The provider. `search[q]` is what query q answers; `failed` holds the       *)
(* queries and the links that do not answer this time.                          *)

Agents(r, emails) ==
  LET likely == Only(emails, isLikelyAgencyEmail)
  IN  [i \in DOMAIN likely |->
         [email |-> likely[i], agencyName |-> agencyNameForEmail(likely[i], r), websiteUrl |-> r.link]]

SnippetAgents(r) == Agents(r, extractEmails(r.snippet))
PageAgents(r) == Agents(r, extractEmails(r.page \o extractCfEmails(r.page)))

\* One page per host, at most fetchMax: those whose snippet has no address.
fetchTargets(results, fetchMax) ==
  LET pages == Distinct(Only(results, LAMBDA r : SnippetAgents(r) = <<>>), LAMBDA r : r.host)
  IN  SubSeq(pages, 1, IF Len(pages) < fetchMax THEN Len(pages) ELSE fetchMax)

AllFail(queries, failed) == \A i \in DOMAIN queries : queries[i] \in failed.queries

discover(search, queries, failed, fetchMax) ==
  LET answered == Only(queries, LAMBDA q : q \notin failed.queries)
      byUrl == Distinct(FlattenSeq([i \in DOMAIN answered |-> search[answered[i]]]), LAMBDA r : r.link)
      results == Only(byUrl, LAMBDA r : ~isNonAgencyResult(r))
      targets == Only(fetchTargets(results, fetchMax), LAMBDA r : r.link \notin failed.links)
  IN  dedupeByEmail(FlattenSeq([i \in DOMAIN results |-> SnippetAgents(results[i])])
                    \o FlattenSeq([i \in DOMAIN targets |-> PageAgents(targets[i])]))
-----------------------------------------------------------------------------
(* Judging and choosing *)

\* Mutant: Webmail counts as corporate.
classifyMailboxType_Webmail(email) ==
  IF email.domain = NoText THEN "unknown" ELSE "corporate_subscriber"

classifyMailboxType(email) ==
  IF email.domain = NoText THEN "unknown"
  ELSE IF email.domain \in FREE_MAIL_DOMAINS THEN "individual" ELSE "corporate_subscriber"

agentWebsite(email, websiteUrl) == IF websiteUrl # NoText THEN websiteUrl ELSE email.domain

AgencyKinds == {"estate_agent", "letting_agent", "new_homes", "commercial"}
AgentKinds == AgencyKinds \cup {"council", "housing_association", "portal", "directory", "other"}
AUTO_DELETE_THRESHOLD == 85

isGenuineAgencyKind(kind) == kind \in AgencyKinds

\* Mutant: A letting agent that sells nothing is dropped.
shouldAutoDelete_Lettings(v) == v.sells = "no" /\ v.confidence >= AUTO_DELETE_THRESHOLD

shouldAutoDelete(v) ==
  v.sells = "no" /\ v.confidence >= AUTO_DELETE_THRESHOLD /\ ~isGenuineAgencyKind(v.kind)

\* An answer that is JSON but not in shape keeps the agent; confidence in percent,
\* Unclear for what is no number.
Unclear == -1
KeepSafe == [sells |-> "yes", kind |-> "other", confidence |-> 0]
parseAgentClassify(raw) ==
  IF raw.sells \notin {"yes", "no"} \/ raw.confidence = Unclear THEN KeepSafe
  ELSE [sells |-> raw.sells, kind |-> IF raw.kind \in AgentKinds THEN raw.kind ELSE "other",
        confidence |-> IF raw.confidence > 100 THEN 100 ELSE raw.confidence]

\* By place, then generic inbox, then length; the first among equals.
GENERIC_LOCALPARTS ==
  <<"info", "hello", "enquiries", "enquiry", "sales", "office", "contact", "admin", "mail", "team">>
pickBestEmail(emails, naming, length) ==
  LET Generic(e) == IF Contains(GENERIC_LOCALPARTS, e.local)
                    THEN CHOOSE n \in DOMAIN GENERIC_LOCALPARTS : GENERIC_LOCALPARTS[n] = e.local
                    ELSE Len(GENERIC_LOCALPARTS) + 1
      rank(e) == <<IF e.local \in naming THEN 0 ELSE 1, Generic(e), length[e.local]>>
      Better(r, s) == \E k \in 1..3 : r[k] < s[k] /\ \A h \in 1..(k - 1) : r[h] = s[h]
  IN  FoldLeft(LAMBDA best, e : IF Better(rank(e), rank(best)) THEN e ELSE best,
               Head(emails), Tail(emails))
=============================================================================
