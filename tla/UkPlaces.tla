------------------------------ MODULE UkPlaces ------------------------------
(* The bundled index of the UK's outcodes: what a search's free text targets,   *)
(* and what an agent's outcodes read as. An outcode is <<area, district>>.      *)
EXTENDS Integers, Sequences, FiniteSets, SequencesExt

CONSTANTS
  RECORDS,  \* rows [outcode, districts, counties, country, places] of labels
  KeyOf     \* by label or written name: the name without "County", "City of", ...

Labels(seq) == ToSet(seq)
Kinds == <<"outcode", "place", "area", "country", "district", "county">>
KIND_PRIORITY(kind) == CHOOSE n \in DOMAIN Kinds : Kinds[n] = kind

\* A name may be a county and, elsewhere, a ward: the kinds are kept apart.
NamedAs(rec, kind) ==
  CASE kind = "county" -> Labels(rec.counties)
    [] kind = "district" -> Labels(rec.districts)
    [] kind = "country" -> {rec.country}
    [] kind = "place" -> {p \in Labels(rec.places) : p # "unparished"}
    [] OTHER -> {}
NAMED_AREAS ==
  UNION {{[key |-> KeyOf[label], kind |-> kind, outcode |-> rec.outcode] :
             label \in NamedAs(rec, kind)} : rec \in Labels(RECORDS), kind \in Labels(Kinds)}

\* The outcodes of the one highest-ranked kind that goes by this name.
bestArea(key) ==
  LET areas == {a \in NAMED_AREAS : a.key = key}
  IN  {a.outcode : a \in {a \in areas :
         \A b \in areas : KIND_PRIORITY(b.kind) <= KIND_PRIORITY(a.kind)}}

outcodeRecord(o) == SelectSeq(RECORDS, LAMBDA rec : rec.outcode = o)
ALL_OUTCODES == {RECORDS[i].outcode : i \in DOMAIN RECORDS}
StartsWith(o, token) == o[1] = token[1] /\ (o[2] = token[2] \/ o[2] \div 10 = token[2])

\* LL30 is itself, LL3 every LL3x, and what the index does not know stands as typed.
addOutcodeToken(token) ==
  LET longer == {o \in ALL_OUTCODES : StartsWith(o, token)}
  IN  IF token \in ALL_OUTCODES \/ longer = {} THEN {token} ELSE longer

\* The text as its outcode tokens, its bare postcode areas, and the names of its
\* segments and of the whole.
Text(codes, areas, names) == [codes |-> codes, areas |-> areas, names |-> names]

resolveLocationToOutcodes(location) ==
  UNION {addOutcodeToken(token) : token \in location.codes}
    \cup {o \in ALL_OUTCODES : o[1] \in location.areas}
    \cup UNION {bestArea(KeyOf[name]) : name \in location.names}
-----------------------------------------------------------------------------
(* The coverage cell of the agents table *)

FirstOf(seq, fallback) == IF seq = <<>> THEN fallback ELSE seq[1]

regionFor(o) ==
  LET rec == outcodeRecord(o)
  IN  IF rec = <<>> THEN o[1]
      ELSE FirstOf(rec[1].counties, FirstOf(rec[1].districts, rec[1].country))

townFor(o) ==
  LET rec == outcodeRecord(o)
  IN  IF rec = <<>> THEN o[1]
      ELSE FirstOf(rec[1].places, FirstOf(rec[1].districts,
             FirstOf(rec[1].counties, rec[1].country)))

\* The place most of the outcodes are in, the first named among equals.
summariseCoverage(list) ==
  LET in(region) == {i \in DOMAIN list : regionFor(list[i]) = region}
      Before(p, q) == \/ Cardinality(in(p)) > Cardinality(in(q))
                      \/ /\ Cardinality(in(p)) = Cardinality(in(q))
                         /\ \E i \in in(p) : \A k \in in(q) : i < k
      regions == {regionFor(list[i]) : i \in DOMAIN list}
  IN  [count |-> Len(list),
       regions |-> SetToSortSeq(regions, Before),
       groups |-> [t \in {townFor(list[i]) : i \in DOMAIN list} |->
                     {list[i] : i \in {k \in DOMAIN list : townFor(list[k]) = t}}],
       primary |-> list[1], primaryTown |-> townFor(list[1])]
=============================================================================
