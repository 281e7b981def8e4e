-------------------------- MODULE SearchPatch_proofs --------------------------
(* For any searches, agents, results of the web and interleaving: a removal      *)
(* spares the agents of the other searches, every candidate of a discovery run is  *)
(* accounted for once, no run writes a row for a mailbox that was suppressed before *)
(* it began, and the pool holds the mailboxes of agencies only.                     *)
EXTENDS SearchPatch, TLAPS, FiniteSetTheorems, SequenceTheorems

RowFields == {"id", "optedOut", "contacted", "agencyName", "website", "coveredOutcodes",
              "emailVerifyStatus"}
ReadFields == {"at", "search", "outcodes", "others", "agents", "todo", "changed"}

Shape ==
  /\ DOMAIN brief = Searches
  /\ DOMAIN removal = Removals /\ \A r \in Removals : DOMAIN removal[r] = ReadFields
  /\ \A e \in DOMAIN agent : DOMAIN agent[e] = RowFields

Reads(r, part) == removal[r].at = "read" /\ part \notin removal[r].todo
Cascades(r) == OwnerOf[removal[r].search] = Operator /\ removal[r].outcodes # {}

\* What a removal has read is so, or has been noted as changed; what is not its to
\* erase it has not read.
Stands(r) ==
  /\ Reads(r, "others") /\ Cascades(r) =>
       \A s \in Live \ {removal[r].search} :
         OwnerOf[s] = Operator => Patch(s) \subseteq removal[r].others \/ s \in removal[r].changed
  /\ Reads(r, "agents") =>
       \A a \in removal[r].agents : a.mail \in DOMAIN agent =>
         agent[a.mail].coveredOutcodes = a.coveredOutcodes \/ a.mail \in removal[r].changed
  /\ removal[r].at = "read" /\ ~Cascades(r) =>
       removal[r].agents = {} /\ "agents" \notin removal[r].todo

Inv == Shape /\ \A r \in Removals : Stands(r)

LEMMA InitInv == Init => Inv
  BY DEF Init, Inv, Shape, Unread, ReadFields, Stands, Reads
-----------------------------------------------------------------------------
(* A step of others leaves a removal where it is and notes what it changes. *)

Follows(r) ==
  /\ removal'[r].at = removal[r].at /\ removal'[r].search = removal[r].search
  /\ removal'[r].outcodes = removal[r].outcodes /\ removal'[r].others = removal[r].others
  /\ removal'[r].agents = removal[r].agents /\ removal'[r].todo = removal[r].todo
  /\ removal[r].changed \subseteq removal'[r].changed

SearchesNoted(r) ==
  Reads(r, "others") => \A s \in Live' : (s \in Live /\ brief'[s] = brief[s]) \/ s \in removal'[r].changed

AgentsNoted(r) ==
  Reads(r, "agents") =>
    \A e \in DOMAIN agent' :
      \/ e \in DOMAIN agent /\ agent'[e].coveredOutcodes = agent[e].coveredOutcodes
      \/ e \in removal'[r].changed

Undisturbed(r) == Follows(r) /\ SearchesNoted(r) /\ AgentsNoted(r)

LEMMA StandsOn ==
  ASSUME NEW r \in Removals, Stands(r), Undisturbed(r) PROVE Stands(r)'
<1>1. /\ Reads(r, "others")' <=> Reads(r, "others")
      /\ Reads(r, "agents")' <=> Reads(r, "agents")
      /\ Cascades(r)' <=> Cascades(r)
  BY DEF Undisturbed, Follows, Reads, Cascades
<1>2. ASSUME Reads(r, "others"), Cascades(r), NEW s \in (Live \ {removal[r].search})', OwnerOf[s] = Operator
      PROVE  Patch(s)' \subseteq removal'[r].others \/ s \in removal'[r].changed
  BY <1>2 DEF Undisturbed, Follows, SearchesNoted, Stands, Patch
<1>3. ASSUME Reads(r, "agents"), NEW a \in removal'[r].agents, a.mail \in DOMAIN agent'
      PROVE  agent'[a.mail].coveredOutcodes = a.coveredOutcodes \/ a.mail \in removal'[r].changed
  BY <1>3 DEF Undisturbed, Follows, AgentsNoted, Stands
<1>4. ASSUME removal'[r].at = "read", ~Cascades(r)
      PROVE  removal'[r].agents = {} /\ "agents" \notin removal'[r].todo
  BY <1>4 DEF Undisturbed, Follows, Stands
<1> QED
  BY <1>1, <1>2, <1>3, <1>4 DEF Stands

LEMMA NotedFollows ==
  ASSUME Shape, NEW x, NEW part, removal' = Noted(x, part)
  PROVE  /\ DOMAIN removal' = Removals /\ \A r \in Removals : DOMAIN removal'[r] = ReadFields
         /\ \A r \in Removals : Follows(r) /\ (Reads(r, part) => x \subseteq removal'[r].changed)
<1> SUFFICES ASSUME NEW r \in Removals
             PROVE  /\ DOMAIN removal'[r] = ReadFields
                    /\ Follows(r) /\ (Reads(r, part) => x \subseteq removal'[r].changed)
  BY DEF Noted
<1> DEFINE more == removal[r].changed \cup x
<1>1. removal'[r] = IF Reads(r, part) THEN [removal[r] EXCEPT !.changed = more] ELSE removal[r]
  BY DEF Noted, Reads, Shape, ReadFields
<1>2. DOMAIN removal[r] = ReadFields
  BY DEF Shape
<1> QED
  BY <1>1, <1>2 DEF Follows, ReadFields

LEMMA AllUnchanged ==
  ASSUME Shape, UNCHANGED <<brief, agent, removal>>
  PROVE  Shape' /\ \A r \in Removals : Undisturbed(r)
  BY DEF Shape, Undisturbed, Follows, SearchesNoted, AgentsNoted, Live

LEMMA WriteNotes ==
  ASSUME Shape, NEW s \in Searches, Write(s)
  PROVE  Shape' /\ \A r \in Removals : Undisturbed(r)
<1>1. PICK b : brief' = [brief EXCEPT ![s] = b]
  BY DEF Write
<1>2. removal' = Noted({s}, "others") /\ UNCHANGED agent
  BY DEF Write, poolVars
<1>3. DOMAIN brief' = Searches /\ \A t \in Searches \ {s} : brief'[t] = brief[t]
  BY <1>1 DEF Shape
<1>4. \A r \in Removals : SearchesNoted(r) /\ AgentsNoted(r)
  BY <1>2, <1>3, NotedFollows DEF SearchesNoted, AgentsNoted, Live
<1> QED
  BY <1>2, <1>3, <1>4, NotedFollows DEF Shape, Undisturbed

LEMMA UpsertNotes ==
  ASSUME Shape, NEW s \in Searches, Upsert(s)
  PROVE  Shape' /\ \A r \in Removals : Undisturbed(r)
<1>1. PICK c, o, v : upsertByEmail(c, o, v)
  BY DEF Upsert
<1>2. UNCHANGED brief
  BY DEF Upsert, Stay, searchVars
<1> DEFINE e == c.email
<1>3. PICK row : DOMAIN row = RowFields
                   /\ agent' = [d \in DOMAIN agent \cup {e} |-> IF d = e THEN row ELSE agent[d]]
  <2> DEFINE old == IF e \in DOMAIN agent THEN agent[e]
                    ELSE [id |-> minted[e] + 1, optedOut |-> FALSE, contacted |-> FALSE]
             new == [id |-> old.id, optedOut |-> old.optedOut, contacted |-> old.contacted,
                     agencyName |-> c.agencyName, website |-> agentWebsite(e, c.websiteUrl),
                     coveredOutcodes |-> o, emailVerifyStatus |-> v]
  <2>1. agent' = [d \in DOMAIN agent \cup {e} |-> IF d = e THEN new ELSE agent[d]]
    BY <1>1 DEF upsertByEmail
  <2>2. DOMAIN new = RowFields
    BY DEF RowFields
  <2> HIDE DEF new, old
  <2> QED
    BY <2>1, <2>2
<1>4. removal' = Noted({e}, "agents")
  BY <1>1 DEF upsertByEmail
<1> HIDE DEF e
<1>5. /\ DOMAIN agent' = DOMAIN agent \cup {e} /\ agent'[e] = row
      /\ \A d \in DOMAIN agent \ {e} : agent'[d] = agent[d]
  BY <1>3 
<1>6. \A r \in Removals : SearchesNoted(r) /\ AgentsNoted(r)
  BY <1>2, <1>4, <1>5, NotedFollows DEF SearchesNoted, AgentsNoted, Live
<1> QED
  BY <1>2, <1>3, <1>4, <1>5, <1>6, NotedFollows DEF Shape, Undisturbed

LEMMA SearchSteps ==
  ASSUME Shape, NEW s \in Searches, Write(s) \/ launch(s) \/ Evict(s) \/ Discovery(s)
  PROVE  Shape' /\ \A r \in Removals : Undisturbed(r)
<1>1. CASE launch(s) \/ Evict(s) \/ Take(s)
  BY <1>1, AllUnchanged DEF launch, Evict, Take, searchVars, poolVars
<1>2. ASSUME NEW left, Leave(s, left) PROVE UNCHANGED <<brief, agent, removal>>
  BY <1>2 DEF Leave, searchVars, poolVars
<1>3. CASE Discover(s)
  BY <1>2, <1>3, AllUnchanged DEF Discover, Fail, Stay, searchVars, poolVars
<1>4. CASE Sift(s)
  BY <1>2, <1>4, AllUnchanged DEF Sift, Fail, Stay, searchVars, poolVars
<1>5. CASE Complete(s) \/ Crash(s)
  BY <1>2, <1>5, AllUnchanged DEF Complete, Crash, Fail
<1> QED
  BY <1>1, <1>3, <1>4, <1>5, WriteNotes, UpsertNotes DEF Discovery
-----------------------------------------------------------------------------
(* The pool, and the other removals *)

LEMMA PoolSteps ==
  ASSUME Shape, Pool
  PROVE  Shape' /\ \A r \in Removals : Undisturbed(r)
<1>1. ASSUME NEW e, eraseAgentById(e)
      PROVE  Shape' /\ \A r \in Removals : Undisturbed(r)
  <2>1. /\ agent' = [d \in DOMAIN agent \ {e} |-> agent[d]]
        /\ removal' = Noted({e}, "agents") /\ UNCHANGED brief
    BY <1>1 DEF eraseAgentById, Without, searchVars
  <2>2. \A r \in Removals : SearchesNoted(r) /\ AgentsNoted(r)
    BY <2>1 DEF SearchesNoted, AgentsNoted, Live
  <2> QED
    BY <2>1, <2>2, NotedFollows DEF Shape, Undisturbed
<1>2. ASSUME NEW e, MarkContacted(e)
      PROVE  Shape' /\ \A r \in Removals : Undisturbed(r)
  <2> DEFINE row == [agent[e] EXCEPT !.contacted = TRUE]
  <2>1. e \in DOMAIN agent /\ UNCHANGED <<brief, removal>> /\ agent' = [agent EXCEPT ![e] = row]
    BY <1>2 DEF MarkContacted, searchVars
  <2>2. DOMAIN row = RowFields /\ row.coveredOutcodes = agent[e].coveredOutcodes
    BY <2>1 DEF Shape, RowFields
  <2> HIDE DEF row
  <2>3. DOMAIN agent' = DOMAIN agent /\ agent'[e] = row /\ \A d \in DOMAIN agent \ {e} : agent'[d] = agent[d]
    BY <2>1
  <2> QED
    BY <2>1, <2>2, <2>3 DEF Shape, Undisturbed, Follows, SearchesNoted, AgentsNoted, Live
<1>3. ASSUME NEW e, Unsubscribe(e)
      PROVE  Shape' /\ \A r \in Removals : Undisturbed(r)
  <2> DEFINE Row(d) == [agent[d] EXCEPT !.optedOut = @ \/ d = e]
  <2>1. UNCHANGED <<brief, removal>> /\ agent' = [d \in DOMAIN agent |-> Row(d)]
    BY <1>3 DEF Unsubscribe, searchVars
  <2>2. \A d \in DOMAIN agent : DOMAIN Row(d) = RowFields /\ Row(d).coveredOutcodes = agent[d].coveredOutcodes
    BY DEF Shape, RowFields
  <2> HIDE DEF Row
  <2> QED
    BY <2>1, <2>2 DEF Shape, Undisturbed, Follows, SearchesNoted, AgentsNoted, Live
<1>4. CASE runBackfill
  BY <1>4, AllUnchanged DEF runBackfill, searchVars, poolVars
<1>5. CASE EraseFlagged
  BY <1>1, <1>5, AllUnchanged DEF EraseFlagged, searchVars, poolVars
<1> QED
  BY <1>1, <1>2, <1>3, <1>4, <1>5 DEF Pool, RemoveAgent

\* What a removal erases it took for the agents of its patch alone.
Erased(q) ==
  {a.mail : a \in {a \in resolveCascadeAgentIds(q) : a.mail \in DOMAIN agent /\ agent[a.mail].id = a.id}}

LEMMA ReadStep ==
  ASSUME Shape, NEW q \in Removals, NEW v, DOMAIN v = ReadFields, removal' = [removal EXCEPT ![q] = v],
         UNCHANGED <<brief, agent>>
  PROVE  Shape' /\ removal'[q] = v /\ \A r \in Removals \ {q} : Undisturbed(r)
<1>1. /\ DOMAIN removal' = Removals /\ removal'[q] = v
      /\ \A r \in Removals \ {q} : removal'[r] = removal[r]
  BY DEF Shape
<1> QED
  BY <1>1 DEF Shape, Undisturbed, Follows, SearchesNoted, AgentsNoted, Live

LEMMA SearchRead ==
  ASSUME Shape, NEW q \in Removals, NEW s \in Searches, ReadSearch(q, s)
  PROVE  Shape' /\ Stands(q)' /\ \A r \in Removals \ {q} : Undisturbed(r)
<1> DEFINE todo == IF OwnerOf[s] = Operator /\ Patch(s) # {} THEN {"others", "agents"} ELSE {}
           v == [Unread EXCEPT !.at = "read", !.search = s, !.outcodes = Patch(s), !.todo = todo]
<1>1. removal' = [removal EXCEPT ![q] = v] /\ UNCHANGED <<brief, agent>>
  BY DEF ReadSearch, searchVars, poolVars
<1>2. /\ DOMAIN v = ReadFields /\ v.agents = {} /\ v.search = s /\ v.outcodes = Patch(s)
      /\ v.todo = todo
  BY DEF Unread, ReadFields
<1> HIDE DEF v
<1>3. Shape' /\ removal'[q] = v /\ \A r \in Removals \ {q} : Undisturbed(r)
  BY <1>1, <1>2, ReadStep
<1>4. Cascades(q)' => todo = {"others", "agents"}
  BY <1>2, <1>3 DEF Cascades
<1>5. ~Cascades(q)' => todo = {}
  BY <1>2, <1>3 DEF Cascades
<1> QED
  BY <1>2, <1>3, <1>4, <1>5 DEF Stands, Reads

LEMMA OthersRead ==
  ASSUME Shape, NEW q \in Removals, Stands(q), ReadOthers(q)
  PROVE  Shape' /\ Stands(q)' /\ \A r \in Removals \ {q} : Undisturbed(r)
<1> DEFINE w == removal[q]
           others == {s \in Live : OwnerOf[s] = Operator} \ {w.search}
           patches == UNION {Patch(s) : s \in others}
           left == w.todo \ {"others"}
           v == [w EXCEPT !.todo = left, !.others = patches]
<1>1. removal' = [removal EXCEPT ![q] = v] /\ UNCHANGED <<brief, agent>>
  BY DEF ReadOthers, searchVars, poolVars
<1>2. /\ DOMAIN v = ReadFields /\ v.others = patches /\ v.todo = left /\ v.at = w.at
      /\ v.search = w.search /\ v.outcodes = w.outcodes /\ v.agents = w.agents /\ v.changed = w.changed
  <2> HIDE DEF patches, left
  <2>1. DOMAIN w = ReadFields
    BY DEF Shape
  <2> QED
    BY <2>1 DEF ReadFields
<1> HIDE DEF v
<1>3. Shape' /\ removal'[q] = v /\ \A r \in Removals \ {q} : Undisturbed(r)
  BY <1>1, <1>2, ReadStep
<1>4. Live' = Live /\ \A s \in Live : Patch(s)' = Patch(s)
  BY <1>1 DEF Live, Patch
<1>5. \A s \in Live \ {w.search} : OwnerOf[s] = Operator => Patch(s) \subseteq patches
  OBVIOUS
<1>6. Cascades(q)' <=> Cascades(q)
  BY <1>2, <1>3 DEF Cascades
<1> HIDE DEF patches
<1> QED
  BY <1>1, <1>2, <1>3, <1>4, <1>5, <1>6 DEF Stands, Reads

LEMMA AgentsRead ==
  ASSUME Shape, NEW q \in Removals, Stands(q), ReadAgents(q)
  PROVE  Shape' /\ Stands(q)' /\ \A r \in Removals \ {q} : Undisturbed(r)
<1> DEFINE w == removal[q]
           rows == {[mail |-> e, id |-> agent[e].id, coveredOutcodes |-> agent[e].coveredOutcodes] :
                      e \in Covering(w.outcodes)}
           left == w.todo \ {"agents"}
           v == [w EXCEPT !.todo = left, !.agents = rows]
<1>1. removal' = [removal EXCEPT ![q] = v] /\ UNCHANGED <<brief, agent>>
  BY DEF ReadAgents, searchVars, poolVars
<1>2. /\ DOMAIN v = ReadFields /\ v.others = w.others /\ v.todo = left /\ v.at = w.at
      /\ v.search = w.search /\ v.outcodes = w.outcodes /\ v.agents = rows /\ v.changed = w.changed
  <2> HIDE DEF rows, left
  <2>1. DOMAIN w = ReadFields
    BY DEF Shape
  <2> QED
    BY <2>1 DEF ReadFields
<1> HIDE DEF v
<1>3. Shape' /\ removal'[q] = v /\ \A r \in Removals \ {q} : Undisturbed(r)
  BY <1>1, <1>2, ReadStep
<1>4. Live' = Live /\ \A s \in Live : Patch(s)' = Patch(s)
  BY <1>1 DEF Live, Patch
<1>5. \A a \in rows : agent[a.mail].coveredOutcodes = a.coveredOutcodes
  OBVIOUS
<1>6. Cascades(q)' <=> Cascades(q)
  BY <1>2, <1>3 DEF Cascades
<1>7. Cascades(q)
  BY DEF ReadAgents, Stands
<1> HIDE DEF rows
<1> QED
  BY <1>1, <1>2, <1>3, <1>4, <1>5, <1>6, <1>7 DEF Stands, Reads

LEMMA CascadeShape ==
  ASSUME Shape, NEW q \in Removals, removeSearchCascade(q), removal[q].search \in Live
  PROVE  Shape' /\ removal'[q].at = "removed" /\ \A r \in Removals \ {q} : Undisturbed(r)
<1> DEFINE s == removal[q].search
           More(r) == removal[r].changed \cup (IF "agents" \in removal[r].todo THEN {} ELSE Erased(q))
                                         \cup (IF "others" \in removal[r].todo THEN {} ELSE {s})
           done == [Unread EXCEPT !.at = "removed"]
<1>1. /\ agent' = Without(Erased(q)) /\ brief' = [brief EXCEPT ![s] = Removed]
      /\ removal' = [r \in Removals |->
                       IF r = q THEN done
                       ELSE IF removal[r].at = "read" THEN [removal[r] EXCEPT !.changed = More(r)]
                       ELSE removal[r]]
  <2>1. \A r \in Removals : [removal[r] EXCEPT !.changed = @ \cup (IF "agents" \in removal[r].todo THEN {} ELSE Erased(q))
                                         \cup (IF "others" \in removal[r].todo THEN {} ELSE {s})]
                            = [removal[r] EXCEPT !.changed = More(r)]
    OBVIOUS
  <2> QED
    BY <2>1 DEF removeSearchCascade, Erased
<1>2. DOMAIN done = ReadFields /\ done.at = "removed"
  BY DEF Unread, ReadFields
<1> HIDE DEF done
<1>3. \A r \in Removals \ {q} : removal[r].changed \subseteq More(r)
  OBVIOUS
<1> HIDE DEF More
<1>4. ASSUME NEW r \in Removals \ {q}
      PROVE  DOMAIN removal'[r] = ReadFields /\ Follows(r)
  <2>1. removal'[r] \in {removal[r], [removal[r] EXCEPT !.changed = More(r)]}
    BY <1>1
  <2>2. DOMAIN removal[r] = ReadFields
    BY DEF Shape
  <2> QED
    BY <1>3, <2>1, <2>2 DEF Follows, ReadFields
<1>5. \A e \in DOMAIN agent' : e \in DOMAIN agent /\ agent'[e] = agent[e]
  BY <1>1 DEF Without
<1>6. Live' \subseteq Live /\ \A t \in Live' : brief'[t] = brief[t]
  BY <1>1 DEF Live, Shape
<1>7. \A r \in Removals \ {q} : SearchesNoted(r) /\ AgentsNoted(r)
  BY <1>5, <1>6 DEF SearchesNoted, AgentsNoted
<1>8. DOMAIN removal' = Removals /\ removal'[q] = done /\ DOMAIN brief' = Searches
  BY <1>1 DEF Shape
<1>9. Shape'
  BY <1>2, <1>4, <1>5, <1>8 DEF Shape
<1> QED
  BY <1>2, <1>4, <1>7, <1>8, <1>9 DEF Undisturbed

LEMMA RemovingSteps ==
  ASSUME Shape, NEW q \in Removals, Stands(q), Removing(q)
  PROVE  Shape' /\ Stands(q)' /\ \A r \in Removals \ {q} : Undisturbed(r)
<1>1. CASE removeSearchCascade(q) /\ removal[q].search \in Live
  BY <1>1, CascadeShape DEF Stands, Reads
<1>2. CASE removeSearchCascade(q) /\ removal[q].search \notin Live
  <2> DEFINE v == [Unread EXCEPT !.at = "not found"]
  <2>1. removal' = [removal EXCEPT ![q] = v] /\ UNCHANGED <<brief, agent>>
    BY <1>2 DEF removeSearchCascade, searchVars
  <2>2. DOMAIN v = ReadFields /\ v.at = "not found"
    BY DEF Unread, ReadFields
  <2> HIDE DEF v
  <2>3. Shape' /\ removal'[q] = v /\ \A r \in Removals \ {q} : Undisturbed(r)
    BY <2>1, <2>2, ReadStep
  <2> QED
    BY <2>2, <2>3 DEF Stands, Reads
<1> QED
  BY <1>1, <1>2, SearchRead, OthersRead, AgentsRead DEF Removing

LEMMA Steps ==
  ASSUME Inv, [Next]_vars
  PROVE  Inv' /\ \A r \in Removals : Undisturbed(r) \/ Removing(r)
<1> SUFFICES Shape' /\ \A r \in Removals : Undisturbed(r) \/ (Removing(r) /\ Stands(r)')
  BY StandsOn DEF Inv
<1>1. ASSUME NEW s \in Searches, Write(s) \/ launch(s) \/ Evict(s) \/ Discovery(s)
      PROVE  Shape' /\ \A r \in Removals : Undisturbed(r)
  BY <1>1, SearchSteps DEF Inv
<1>2. ASSUME NEW q \in Removals, Removing(q)
      PROVE  Shape' /\ \A r \in Removals : Undisturbed(r) \/ (Removing(r) /\ Stands(r)')
  BY <1>2, RemovingSteps DEF Inv
<1>3. CASE Pool
  BY <1>3, PoolSteps DEF Inv
<1>4. CASE UNCHANGED vars
  BY <1>4, AllUnchanged DEF Inv, vars, searchVars, poolVars
<1> QED
  BY <1>1, <1>2, <1>3, <1>4 DEF Next

\* A removal erases an agent only with a record of it that covers no patch of
\* another search of the operator.
LEMMA CascadeSpares ==
  ASSUME Inv, NEW r \in Removals, removeSearchCascade(r), removal'[r].at = "removed",
         NEW e \in DOMAIN agent \ DOMAIN agent',
         NEW s \in Live \ {removal[r].search}, OwnerOf[s] = Operator,
         agent[e].coveredOutcodes \cap Patch(s) # {}
  PROVE  {s, e} \cap removal[r].changed # {}
<1>1. removal[r].at = "read" /\ removal[r].todo = {}
  BY DEF removeSearchCascade
<1>2. Reads(r, "others") /\ Reads(r, "agents") /\ Stands(r)
  BY <1>1 DEF Reads, Inv
<1>3. CASE removal[r].search \in Live
  <2>1. agent' = Without(Erased(r))
    BY <1>3 DEF removeSearchCascade, Erased
  <2>2. PICK a \in resolveCascadeAgentIds(r) : a.mail = e /\ a.mail \in DOMAIN agent
    BY <2>1 DEF Without, Erased
  <2>3. a \in removal[r].agents /\ a.coveredOutcodes \cap removal[r].others = {}
    BY <2>2 DEF resolveCascadeAgentIds, selectAgentsToRemove
  <2>4. agent[e].coveredOutcodes = a.coveredOutcodes \/ e \in removal[r].changed
    BY <1>2, <2>2, <2>3 DEF Stands
  <2>5. Cascades(r)
    BY <1>1, <1>2, <2>3 DEF Stands
  <2>6. Patch(s) \subseteq removal[r].others \/ s \in removal[r].changed
    BY <1>2, <2>5 DEF Stands
  <2> QED
    BY <2>3, <2>4, <2>6
<1>4. CASE removal[r].search \notin Live
  BY <1>4 DEF removeSearchCascade
<1> QED
  BY <1>3, <1>4

LEMMA StepSpares ==
  ASSUME Inv, [Next]_vars, NEW r \in Removals, NEW e \in DOMAIN agent \ DOMAIN agent',
         removal[r].at = "read", removal'[r].at = "removed",
         NEW s \in Live \ {removal[r].search}, OwnerOf[s] = Operator,
         agent[e].coveredOutcodes \cap Patch(s) # {}
  PROVE  {s, e} \cap removal[r].changed # {}
<1>1. ~Undisturbed(r)
  BY DEF Undisturbed, Follows
<1>2. Removing(r)
  BY <1>1, Steps
<1>3. ~ReadOthers(r) /\ ~ReadAgents(r) /\ ~\E q \in Searches : ReadSearch(r, q)
  BY DEF ReadOthers, ReadAgents, ReadSearch, poolVars
<1> QED
  BY <1>2, <1>3, CascadeSpares DEF Removing

\* Between its reads and its transaction a removal may be overtaken by launches,
\* edits, other removals and the backfill: what it then erases, no other search of
\* the operator covers, unless that search or that agent changed after it was read.
THEOREM RemovalSparesOthers == Spec => KeptForOthers
<1>1. Inv /\ [Next]_vars =>
        [\A r \in Removals, e \in DOMAIN agent \ DOMAIN agent' :
           removal[r].at = "read" /\ removal'[r].at = "removed" =>
             \A s \in Live \ {removal[r].search} :
               OwnerOf[s] = Operator /\ agent[e].coveredOutcodes \cap Patch(s) # {} =>
                 {s, e} \cap removal[r].changed # {}]_vars
  BY StepSpares
<1>2. Inv /\ [Next]_vars => Inv'
  BY Steps
<1> QED
  BY <1>1, <1>2, InitInv, PTL DEF Spec, KeptForOthers
-----------------------------------------------------------------------------
(* The mailboxes of a run, agency by agency *)

Agency(group) == Head(group).email.domain

\* No group is empty and no two are of one agency.
Apart(groups) ==
  \A i \in DOMAIN groups :
    groups[i] # <<>> /\ \A k \in DOMAIN groups : Agency(groups[k]) = Agency(groups[i]) => k = i

LEMMA WaitingIs ==
  ASSUME NEW groups
  PROVE  \A x : x \in Waiting(groups) <=>
           \E i \in DOMAIN groups : \E k \in DOMAIN groups[i] : x = <<Agency(groups[i]), k>>
  BY DEF Waiting, Agency, Range

\* A group that is there takes the mailbox, or a new one does.
LEMMA GroupedIs ==
  ASSUME NEW T, NEW groups \in Seq(Seq(T)), NEW c \in T, Apart(groups)
  PROVE  LET d == c.email.domain
             made == Grouped(groups, c)
         IN  \/ \E j \in DOMAIN groups :
                  /\ Agency(groups[j]) = d
                  /\ made = [groups EXCEPT ![j] = Append(groups[j], c)]
             \/ /\ \A i \in DOMAIN groups : Agency(groups[i]) # d
                /\ made = Append(groups, <<c>>)
<1> DEFINE d == c.email.domain
<1>1. CASE \E i \in DOMAIN groups : Agency(groups[i]) = d
  <2>1. PICK j \in DOMAIN groups : Agency(groups[j]) = d
    BY <1>1
  <2>2. Grouped(groups, c) = [i \in DOMAIN groups |-> IF Agency(groups[i]) = d THEN Append(groups[i], c) ELSE groups[i]]
    BY <1>1 DEF Grouped, Agency
  <2>3. \A i \in DOMAIN groups : Agency(groups[i]) = d <=> i = j
    BY <2>1 DEF Apart
  <2>4. [groups EXCEPT ![j] = Append(groups[j], c)]
          = [i \in DOMAIN groups |-> IF i = j THEN Append(groups[j], c) ELSE groups[i]]
    OBVIOUS
  <2>5. \A i \in DOMAIN groups : (IF Agency(groups[i]) = d THEN Append(groups[i], c) ELSE groups[i])
                                  = (IF i = j THEN Append(groups[j], c) ELSE groups[i])
    BY <2>3
  <2> QED
    BY <2>1, <2>2, <2>4, <2>5
<1>2. CASE ~\E i \in DOMAIN groups : Agency(groups[i]) = d
  BY <1>2 DEF Grouped, Agency
<1> QED
  BY <1>1, <1>2

LEMMA GroupedFacts ==
  ASSUME NEW T, NEW groups \in Seq(Seq(T)), NEW c \in T, Apart(groups)
  PROVE  /\ Grouped(groups, c) \in Seq(Seq(T)) /\ Apart(Grouped(groups, c))
         /\ \E p : p \notin Waiting(groups) /\ Waiting(Grouped(groups, c)) = Waiting(groups) \cup {p}
         /\ \A i \in DOMAIN Grouped(groups, c) : \A k \in DOMAIN Grouped(groups, c)[i] :
              \/ Grouped(groups, c)[i][k] = c
              \/ \E h \in DOMAIN groups : \E m \in DOMAIN groups[h] : Grouped(groups, c)[i][k] = groups[h][m]
<1> DEFINE d == c.email.domain
<1>1. PICK made : made = Grouped(groups, c)
  OBVIOUS
<1>2. \A i \in DOMAIN groups : groups[i] \in Seq(T) /\ Len(groups[i]) \in Nat \ {0}
                               /\ DOMAIN groups[i] = 1..Len(groups[i])
  BY ElementOfSeq DEF Apart
<1>3. CASE \E j \in DOMAIN groups : Agency(groups[j]) = d /\ made = [groups EXCEPT ![j] = Append(groups[j], c)]
  <2>1. PICK j \in DOMAIN groups : Agency(groups[j]) = d /\ made = [groups EXCEPT ![j] = Append(groups[j], c)]
    BY <1>3
  <2>2. PICK n \in Nat \ {0} : n = Len(groups[j])
    BY <1>2
  <2>3. PICK longer : longer = Append(groups[j], c)
    OBVIOUS
  <2>4. /\ longer \in Seq(T) /\ DOMAIN longer = 1..(n + 1) /\ longer # <<>>
        /\ \A k \in 1..n : longer[k] = groups[j][k]
        /\ longer[n + 1] = c
    <3>1. groups[j] \in Seq(T) /\ DOMAIN groups[j] = 1..n
      BY <1>2, <2>2
    <3>2. longer \in Seq(T) /\ Len(longer) = n + 1 /\ longer[n + 1] = c
      BY <2>2, <2>3, <3>1
    <3>3. \A k \in 1..n : longer[k] = groups[j][k]
      BY <2>2, <2>3, <3>1
    <3> QED
      BY <3>2, <3>3
  <2>5. made \in Seq(Seq(T)) /\ DOMAIN made = DOMAIN groups /\ made[j] = longer
        /\ \A i \in DOMAIN groups \ {j} : made[i] = groups[i]
    BY <2>1, <2>3, <2>4
  <2>6. \A i \in DOMAIN groups : Agency(made[i]) = Agency(groups[i]) /\ made[i] # <<>>
    <3>1. Head(longer) = Head(groups[j])
      BY <1>2, <2>2, <2>3, <2>4
    <3> QED
      BY <2>4, <2>5, <3>1 DEF Agency, Apart
  <2>7. Apart(made)
    BY <2>5, <2>6 DEF Apart
  <2> DEFINE p == <<d, n + 1>>
  <2>8. \A x : x \in Waiting(made) <=>
           \E i \in DOMAIN groups : \E k \in DOMAIN made[i] : x = <<Agency(groups[i]), k>>
    BY WaitingIs, <2>5, <2>6
  <2>9. p \notin Waiting(groups)
    <3>1. SUFFICES ASSUME NEW i \in DOMAIN groups, NEW k \in DOMAIN groups[i], p = <<Agency(groups[i]), k>> PROVE FALSE
      BY WaitingIs
    <3>2. i = j
      BY <2>1, <3>1 DEF Apart
    <3>3. k \in 1..n /\ k = n + 1
      BY <1>2, <2>2, <3>1, <3>2
    <3> QED
      BY <3>3
  <2>10. \A k : k \in DOMAIN made[j] <=> k \in DOMAIN groups[j] \/ k = n + 1
    BY <1>2, <2>2, <2>4, <2>5
  <2>11. Waiting(made) = Waiting(groups) \cup {p}
    <3>1. ASSUME NEW x \in Waiting(made) PROVE x \in Waiting(groups) \cup {p}
      <4>1. PICK i \in DOMAIN groups : \E k \in DOMAIN made[i] : x = <<Agency(groups[i]), k>>
        BY <2>8
      <4>2. CASE i # j
        BY <2>5, <4>1, <4>2, WaitingIs
      <4>3. CASE i = j
        <5>1. PICK k \in DOMAIN made[j] : x = <<d, k>>
          BY <2>1, <4>1, <4>3
        <5> QED
          BY <2>1, <2>10, <5>1, WaitingIs
      <4> QED
        BY <4>2, <4>3
    <3>2. ASSUME NEW x \in Waiting(groups) PROVE x \in Waiting(made)
      <4>1. PICK i \in DOMAIN groups : \E k \in DOMAIN groups[i] : x = <<Agency(groups[i]), k>>
        BY WaitingIs
      <4> QED
        BY <2>5, <2>8, <2>10, <4>1
    <3>3. p \in Waiting(made)
      BY <2>1, <2>8, <2>10
    <3> QED
      BY <3>1, <3>2, <3>3
  <2>12. \A i \in DOMAIN made : \A k \in DOMAIN made[i] :
              made[i][k] = c \/ \E h \in DOMAIN groups : \E m \in DOMAIN groups[h] : made[i][k] = groups[h][m]
    BY <1>2, <2>2, <2>4, <2>5, <2>10
  <2> QED
    BY <1>1, <2>5, <2>7, <2>9, <2>11, <2>12
<1>4. CASE (\A i \in DOMAIN groups : Agency(groups[i]) # d) /\ made = Append(groups, <<c>>)
  <2> DEFINE one == <<c>>
  <2>1. PICK n \in Nat : n = Len(groups) /\ DOMAIN groups = 1..n
    OBVIOUS
  <2>2. one \in Seq(T) /\ DOMAIN one = {1} /\ one # <<>> /\ one[1] = c /\ Head(one) = c
    OBVIOUS
  <2>3. Agency(one) = d
    BY <2>2 DEF Agency
  <2> HIDE DEF one
  <2>4. /\ made \in Seq(Seq(T)) /\ DOMAIN made = 1..(n + 1) /\ made[n + 1] = one
        /\ \A i \in DOMAIN groups : made[i] = groups[i]
    BY <1>4, <2>1, <2>2 DEF one
  <2>5. \A i : i \in DOMAIN made <=> i \in DOMAIN groups \/ i = n + 1
    BY <2>1, <2>4
  <2>6. Apart(made)
    BY <1>4, <2>2, <2>3, <2>4, <2>5 DEF Apart
  <2> DEFINE p == <<d, 1>>
  <2>7. p \notin Waiting(groups)
    BY <1>4, WaitingIs
  <2>8. Waiting(made) = Waiting(groups) \cup {p}
    <3>1. ASSUME NEW x \in Waiting(made) PROVE x \in Waiting(groups) \cup {p}
      <4>1. PICK i \in DOMAIN made : \E k \in DOMAIN made[i] : x = <<Agency(made[i]), k>>
        BY WaitingIs
      <4>2. CASE i \in DOMAIN groups
        BY <2>4, <4>1, <4>2, WaitingIs
      <4>3. CASE i = n + 1
        BY <2>2, <2>3, <2>4, <4>1, <4>3
      <4> QED
        BY <2>5, <4>2, <4>3
    <3>2. ASSUME NEW x \in Waiting(groups) PROVE x \in Waiting(made)
      <4>1. PICK i \in DOMAIN groups : \E k \in DOMAIN groups[i] : x = <<Agency(groups[i]), k>>
        BY WaitingIs
      <4> QED
        BY <2>4, <2>5, <4>1, WaitingIs
    <3>3. p \in Waiting(made)
      BY <2>2, <2>3, <2>4, <2>5, WaitingIs
    <3> QED
      BY <3>1, <3>2, <3>3
  <2>9. \A i \in DOMAIN made : \A k \in DOMAIN made[i] :
              made[i][k] = c \/ \E h \in DOMAIN groups : \E m \in DOMAIN groups[h] : made[i][k] = groups[h][m]
    BY <2>2, <2>4, <2>5
  <2> HIDE DEF p
  <2>10. \E q : q \notin Waiting(groups) /\ Waiting(made) = Waiting(groups) \cup {q}
    BY <2>7, <2>8
  <2> QED
    BY <1>1, <2>4, <2>6, <2>9, <2>10
<1> QED
  BY <1>1, <1>3, <1>4, GroupedIs
-----------------------------------------------------------------------------
\* The head's mailboxes no longer wait, the others do.
LEMMA TailFacts ==
  ASSUME NEW T, NEW groups \in Seq(Seq(T)), groups # <<>>, Apart(groups), IsFiniteSet(Waiting(groups))
  PROVE  /\ Tail(groups) \in Seq(Seq(T)) /\ Apart(Tail(groups)) /\ IsFiniteSet(Waiting(Tail(groups)))
         /\ \A i \in DOMAIN Tail(groups) : i + 1 \in DOMAIN groups /\ Tail(groups)[i] = groups[i + 1]
         /\ Len(Head(groups)) \in Nat \ {0} /\ Head(groups) \in Seq(T) /\ Head(groups) = groups[1]
         /\ 1 \in DOMAIN groups
         /\ Cardinality(Waiting(groups)) = Cardinality(Waiting(Tail(groups))) + Len(Head(groups))
<1>12. PICK n \in Nat \ {0} : n = Len(groups) /\ DOMAIN groups = 1..n
  OBVIOUS
<1>13. PICK rest : rest = Tail(groups)
  OBVIOUS
<1>14. PICK first : first = Head(groups)
  OBVIOUS
<1>1. /\ rest \in Seq(Seq(T)) /\ DOMAIN rest = 1..(n - 1) /\ first = groups[1]
      /\ \A i \in 1..(n - 1) : rest[i] = groups[i + 1]
  BY <1>12, <1>13, <1>14
<1>2. 1 \in DOMAIN groups /\ first \in Seq(T) /\ first # <<>>
  <2>1. 1 \in DOMAIN groups /\ groups[1] \in Seq(T)
    BY <1>12
  <2> QED
    BY <1>1, <2>1 DEF Apart
<1>3. PICK m \in Nat \ {0} : m = Len(first) /\ DOMAIN first = 1..m
  BY <1>2
<1>4. Apart(rest)
  <2>1. \A i \in DOMAIN rest : i + 1 \in DOMAIN groups /\ rest[i] = groups[i + 1]
    BY <1>1, <1>12
  <2>2. \A i, k \in DOMAIN rest : i + 1 = k + 1 => i = k
    BY <1>1
  <2> QED
    BY <2>1, <2>2 DEF Apart
<1> DEFINE mine == {Agency(first)} \X (1..m)
<1>5. Waiting(groups) = Waiting(rest) \cup mine
  <2>1. ASSUME NEW x \in Waiting(groups) PROVE x \in Waiting(rest) \cup mine
    <3>1. PICK i \in DOMAIN groups : \E k \in DOMAIN groups[i] : x = <<Agency(groups[i]), k>>
      BY WaitingIs
    <3>2. CASE i = 1
      BY <1>1, <1>3, <3>1, <3>2
    <3>3. CASE i # 1
      <4>1. i - 1 \in DOMAIN rest /\ rest[i - 1] = groups[i]
        BY <1>1, <1>12, <3>3
      <4> QED
        BY <3>1, <4>1, WaitingIs
    <3> QED
      BY <3>2, <3>3
  <2>2. ASSUME NEW x \in Waiting(rest) PROVE x \in Waiting(groups)
    <3>1. PICK i \in DOMAIN rest : \E k \in DOMAIN rest[i] : x = <<Agency(rest[i]), k>>
      BY WaitingIs
    <3>2. i + 1 \in DOMAIN groups /\ rest[i] = groups[i + 1]
      BY <1>1, <1>12
    <3> QED
      BY <3>1, <3>2, WaitingIs
  <2>3. ASSUME NEW x \in mine PROVE x \in Waiting(groups)
    <3>1. PICK k \in 1..m : x = <<Agency(first), k>>
      OBVIOUS
    <3> QED
      BY <1>1, <1>2, <1>3, <3>1, WaitingIs
  <2> QED
    BY <2>1, <2>2, <2>3
<1>6. Waiting(rest) \cap mine = {}
  <2>1. SUFFICES ASSUME NEW x \in Waiting(rest), x \in mine PROVE FALSE
    OBVIOUS
  <2>2. PICK i \in DOMAIN rest : \E k \in DOMAIN rest[i] : x = <<Agency(rest[i]), k>>
    BY WaitingIs
  <2>3. PICK k \in 1..m : x = <<Agency(first), k>>
    BY <2>1
  <2>4. Agency(groups[i + 1]) = Agency(groups[1]) /\ i + 1 \in DOMAIN groups /\ i + 1 # 1
    <3>1. Agency(rest[i]) = Agency(first)
      BY <2>2, <2>3
    <3> QED
      BY <1>1, <1>12, <3>1
  <2> QED
    BY <1>2, <2>4 DEF Apart
<1>7. IsFiniteSet(mine) /\ Cardinality(mine) = m
  <2>1. IsFiniteSet(1..m) /\ Cardinality(1..m) = m
    <3>1. \A a, b \in Int : IsFiniteSet(a..b) /\ Cardinality(a..b) = IF a > b THEN 0 ELSE b - a + 1
      BY FS_Interval
    <3>2. IsFiniteSet(1..m) /\ Cardinality(1..m) = IF 1 > m THEN 0 ELSE m - 1 + 1
      BY <3>1
    <3> QED
      BY <3>2
  <2>2. IsFiniteSet({Agency(first)}) /\ Cardinality({Agency(first)}) = 1
    BY FS_Singleton
  <2>3. IsFiniteSet(mine) /\ Cardinality(mine) = Cardinality({Agency(first)}) * Cardinality(1..m)
    BY <2>1, <2>2, FS_Product
  <2> QED
    BY <2>1, <2>2, <2>3
<1> HIDE DEF mine
<1>8. IsFiniteSet(Waiting(rest))
  <2>1. Waiting(rest) \subseteq Waiting(groups)
    BY <1>5
  <2> QED
    BY <2>1, FS_Subset
<1>9. Cardinality(Waiting(groups)) = Cardinality(Waiting(rest)) + Cardinality(mine)
  <2>1. Cardinality(Waiting(rest) \cup mine)
          = Cardinality(Waiting(rest)) + Cardinality(mine) - Cardinality(Waiting(rest) \cap mine)
    BY <1>7, <1>8, FS_Union
  <2>2. Cardinality(Waiting(rest)) \in Nat /\ Cardinality({}) = 0
    BY <1>8, FS_CardinalityType, FS_EmptySet
  <2>3. Cardinality(Waiting(groups)) = Cardinality(Waiting(rest)) + m - 0
    BY <1>5, <1>6, <1>7, <2>1, <2>2
  <2> QED
    BY <1>7, <2>2, <2>3
<1>10. \A i \in DOMAIN rest : i + 1 \in DOMAIN groups /\ rest[i] = groups[i + 1]
  BY <1>1, <1>12
<1>11. m = Len(first)
  BY <1>3
<1> QED
  BY <1>1, <1>2, <1>3, <1>4, <1>7, <1>8, <1>9, <1>10, <1>11, <1>13, <1>14
-----------------------------------------------------------------------------
(* A run *)

WorkFields == {"at", "before", "failed", "candidates", "next", "byDomain", "written", "counts"}
Counts == [upserted : Nat, skipped : Nat, collapsed : Nat, classifiedOut : Nat]
Total(c) == c.upserted + c.skipped + c.collapsed + c.classifiedOut
Found(w) == {w.candidates[i] : i \in DOMAIN w.candidates}

\* May be filed: corporate, and not suppressed when the run began.
Fit(w, e) == e.domain \notin FREE_MAIL_DOMAINS \cup PORTAL_DOMAINS /\ e \notin w.before

Run(w) ==
  /\ DOMAIN w = WorkFields /\ w.at \in {"idle", "discover", "sift"}
  /\ w.next \in Nat \ {0} /\ w.counts \in Counts
  /\ w.byDomain \in Seq(Seq(Found(w))) /\ Apart(w.byDomain) /\ IsFiniteSet(Waiting(w.byDomain))
  /\ w.at # "sift" => w.byDomain = <<>>
  /\ w.next - 1 = Total(w.counts) + Cardinality(Waiting(w.byDomain))
  /\ \A i \in DOMAIN w.byDomain : \A k \in DOMAIN w.byDomain[i] : Fit(w, w.byDomain[i][k].email)

RunInv ==
  /\ DOMAIN work = Searches
  /\ \A s \in Searches : Run(work[s]) /\ work[s].before \subseteq suppressed

\* Nothing is waiting before the first candidate.
LEMMA FreshRun ==
  ASSUME NEW w, DOMAIN w = WorkFields, w.at \in {"idle", "discover", "sift"}, w.next = 1,
         w.counts = NoCounts, w.byDomain = <<>>
  PROVE  Run(w)
<1>1. DOMAIN w.byDomain = {} /\ w.byDomain \in Seq(Seq(Found(w)))
  OBVIOUS
<1>2. Waiting(w.byDomain) = {}
  BY <1>1, WaitingIs
<1>3. w.counts \in Counts /\ Total(w.counts) = 0
  BY DEF NoCounts, Counts, Total
<1>4. IsFiniteSet({}) /\ Cardinality({}) = 0
  BY FS_EmptySet
<1>5. Apart(w.byDomain) /\ IsFiniteSet(Waiting(w.byDomain))
  BY <1>1, <1>2, <1>4 DEF Apart
<1>6. w.next - 1 = Total(w.counts) + Cardinality(Waiting(w.byDomain))
  BY <1>2, <1>3, <1>4
<1> QED
  BY <1>1, <1>3, <1>5, <1>6 DEF Run

LEMMA IdleRun == Run(Idle) /\ Idle.before = {} /\ DOMAIN Idle = WorkFields
<1>1. DOMAIN Idle = WorkFields /\ Idle.at = "idle" /\ Idle.next = 1 /\ Idle.counts = NoCounts
      /\ Idle.byDomain = <<>> /\ Idle.before = {}
  BY DEF Idle, WorkFields
<1> QED
  BY <1>1, FreshRun

LEMMA InitRun == Init => RunInv
  BY IdleRun DEF Init, RunInv

\* One search's run moves on.
LEMMA RunMoves ==
  ASSUME RunInv, NEW s \in Searches, NEW v, work' = [work EXCEPT ![s] = v], Run(v),
         v.before \subseteq suppressed, suppressed \subseteq suppressed'
  PROVE  RunInv'
<1>1. DOMAIN work' = Searches /\ work'[s] = v /\ \A t \in Searches \ {s} : work'[t] = work[t]
  BY DEF RunInv
<1> SUFFICES ASSUME NEW t \in Searches PROVE Run(work'[t]) /\ work'[t].before \subseteq suppressed'
  BY <1>1 DEF RunInv
<1> QED
  BY <1>1 DEF RunInv

LEMMA RunStays ==
  ASSUME RunInv, UNCHANGED work, suppressed \subseteq suppressed' PROVE RunInv'
  BY DEF RunInv
-----------------------------------------------------------------------------
\* A candidate that is not kept is counted.
LEMMA CountedRun ==
  ASSUME NEW w, Run(w), w.at = "sift", NEW c, c \in Counts, Total(c) = Total(w.counts) + 1,
         NEW v, DOMAIN v = WorkFields, v.at = w.at, v.before = w.before, v.candidates = w.candidates,
         v.next = w.next + 1, v.byDomain = w.byDomain, v.counts = c
  PROVE  Run(v)
<1>1. Found(v) = Found(w)
  BY DEF Found
<1>2. v.next - 1 = Total(v.counts) + Cardinality(Waiting(v.byDomain))
  <2>1. Cardinality(Waiting(w.byDomain)) \in Nat /\ Total(w.counts) \in Nat /\ w.next \in Nat
    <3>1. IsFiniteSet(Waiting(w.byDomain)) /\ w.counts \in Counts /\ w.next \in Nat
      BY DEF Run
    <3>2. Cardinality(Waiting(w.byDomain)) \in Nat
      BY <3>1, FS_CardinalityType
    <3> QED
      BY <3>1, <3>2 DEF Counts, Total
  <2>2. w.next - 1 = Total(w.counts) + Cardinality(Waiting(w.byDomain))
    BY DEF Run
  <2> QED
    BY <2>1, <2>2
<1> QED
  BY <1>1, <1>2 DEF Run, Fit

\* A candidate that is kept waits.
LEMMA KeptRun ==
  ASSUME NEW w, Run(w), w.at = "sift", NEW c \in Found(w), Fit(w, c.email),
         NEW v, DOMAIN v = WorkFields, v.at = w.at, v.before = w.before, v.candidates = w.candidates,
         v.next = w.next + 1, v.byDomain = Grouped(w.byDomain, c), v.counts = w.counts
  PROVE  Run(v)
<1>1. Found(v) = Found(w)
  BY DEF Found
<1>2. w.byDomain \in Seq(Seq(Found(w))) /\ Apart(w.byDomain)
  BY DEF Run
<1>3. v.byDomain \in Seq(Seq(Found(v))) /\ Apart(v.byDomain)
  BY <1>1, <1>2, GroupedFacts
<1>4. PICK p : p \notin Waiting(w.byDomain) /\ Waiting(v.byDomain) = Waiting(w.byDomain) \cup {p}
  BY <1>2, GroupedFacts
<1>5. /\ IsFiniteSet(Waiting(v.byDomain))
      /\ Cardinality(Waiting(v.byDomain)) = Cardinality(Waiting(w.byDomain)) + 1
  <2>1. IsFiniteSet(Waiting(w.byDomain))
    BY DEF Run
  <2> QED
    BY <1>4, <2>1, FS_AddElement
<1>6. v.next - 1 = Total(v.counts) + Cardinality(Waiting(v.byDomain))
  <2>1. Cardinality(Waiting(w.byDomain)) \in Nat /\ Total(w.counts) \in Nat /\ w.next \in Nat
    <3>1. IsFiniteSet(Waiting(w.byDomain)) /\ w.counts \in Counts /\ w.next \in Nat
      BY DEF Run
    <3>2. Cardinality(Waiting(w.byDomain)) \in Nat
      BY <3>1, FS_CardinalityType
    <3> QED
      BY <3>1, <3>2 DEF Counts, Total
  <2>2. w.next - 1 = Total(w.counts) + Cardinality(Waiting(w.byDomain))
    BY DEF Run
  <2> QED
    BY <1>5, <2>1, <2>2
<1>7. ASSUME NEW i \in DOMAIN v.byDomain, NEW k \in DOMAIN v.byDomain[i] PROVE Fit(v, v.byDomain[i][k].email)
  <2>1. \/ v.byDomain[i][k] = c
        \/ \E h \in DOMAIN w.byDomain : \E m \in DOMAIN w.byDomain[h] : v.byDomain[i][k] = w.byDomain[h][m]
    BY <1>2, GroupedFacts
  <2> QED
    BY <2>1 DEF Run, Fit
<1> QED
  BY <1>1, <1>3, <1>5, <1>6, <1>7 DEF Run

LEMMA Reckoned ==
  \A a, b, c, d, n \in Nat : a + 1 + b + (c + n - 1) + d = a + b + c + d + n
  OBVIOUS

\* One mailbox of the agency at the head is filed, the others are counted.
LEMMA FiledRun ==
  ASSUME NEW w, Run(w), w.at = "sift", w.byDomain # <<>>,
         NEW v, DOMAIN v = WorkFields, v.at = w.at, v.before = w.before, v.candidates = w.candidates,
         v.next = w.next, v.byDomain = Tail(w.byDomain),
         v.counts = [upserted |-> w.counts.upserted + 1, skipped |-> w.counts.skipped,
                     collapsed |-> w.counts.collapsed + Len(Head(w.byDomain)) - 1,
                     classifiedOut |-> w.counts.classifiedOut]
  PROVE  Run(v)
<1>1. Found(v) = Found(w)
  BY DEF Found
<1>2. w.byDomain \in Seq(Seq(Found(w))) /\ Apart(w.byDomain) /\ IsFiniteSet(Waiting(w.byDomain))
  BY DEF Run
<1>3. /\ v.byDomain \in Seq(Seq(Found(v))) /\ Apart(v.byDomain) /\ IsFiniteSet(Waiting(v.byDomain))
      /\ \A i \in DOMAIN v.byDomain : i + 1 \in DOMAIN w.byDomain /\ v.byDomain[i] = w.byDomain[i + 1]
      /\ Len(Head(w.byDomain)) \in Nat \ {0}
      /\ Cardinality(Waiting(w.byDomain)) = Cardinality(Waiting(v.byDomain)) + Len(Head(w.byDomain))
  BY <1>1, <1>2, TailFacts
<1>4. w.counts \in Counts /\ v.counts \in Counts /\ Total(v.counts) = Total(w.counts) + Len(Head(w.byDomain))
  <2>1. PICK n \in Nat \ {0} : n = Len(Head(w.byDomain))
    BY <1>3
  <2>2. w.counts \in Counts
    BY DEF Run
  <2>3. v.counts = [upserted |-> w.counts.upserted + 1, skipped |-> w.counts.skipped,
                    collapsed |-> w.counts.collapsed + n - 1, classifiedOut |-> w.counts.classifiedOut]
    BY <2>1
  <2>4. w.counts.upserted \in Nat /\ w.counts.skipped \in Nat /\ w.counts.collapsed \in Nat
        /\ w.counts.classifiedOut \in Nat
    BY <2>2 DEF Counts
  <2>5. v.counts.upserted = w.counts.upserted + 1 /\ v.counts.skipped = w.counts.skipped
        /\ v.counts.collapsed = w.counts.collapsed + n - 1
        /\ v.counts.classifiedOut = w.counts.classifiedOut
    BY <2>3
  <2>6. w.counts.upserted + 1 \in Nat /\ w.counts.collapsed + n - 1 \in Nat
    BY <2>1, <2>4
  <2>7. v.counts \in Counts
    BY <2>3, <2>4, <2>6 DEF Counts
  <2>8. Total(v.counts) = Total(w.counts) + n
    <3>1. Total(v.counts) = w.counts.upserted + 1 + w.counts.skipped + (w.counts.collapsed + n - 1)
                            + w.counts.classifiedOut
      BY <2>5 DEF Total
    <3>2. Total(w.counts) = w.counts.upserted + w.counts.skipped + w.counts.collapsed + w.counts.classifiedOut
      BY DEF Total
    <3>3. PICK a, b, c, d \in Nat : a = w.counts.upserted /\ b = w.counts.skipped
                                      /\ c = w.counts.collapsed /\ d = w.counts.classifiedOut
      BY <2>4
    <3>4. a + 1 + b + (c + n - 1) + d = a + b + c + d + n
      <4>1. a \in Nat /\ b \in Nat /\ c \in Nat /\ d \in Nat /\ n \in Nat
        BY <2>1, <3>3
      <4> QED
        BY <4>1, Reckoned
    <3> QED
      BY <3>1, <3>2, <3>3, <3>4
  <2> QED
    BY <2>1, <2>2, <2>7, <2>8
<1>5. v.next - 1 = Total(v.counts) + Cardinality(Waiting(v.byDomain))
  <2>1. Cardinality(Waiting(v.byDomain)) \in Nat /\ Total(w.counts) \in Nat /\ w.next \in Nat
    <3>1. Cardinality(Waiting(v.byDomain)) \in Nat
      BY <1>3, FS_CardinalityType
    <3>2. w.next \in Nat /\ w.counts \in Counts
      BY DEF Run
    <3> QED
      BY <3>1, <3>2 DEF Counts, Total
  <2>2. w.next - 1 = Total(w.counts) + Cardinality(Waiting(w.byDomain))
    BY DEF Run
  <2> QED
    BY <1>3, <1>4, <2>1, <2>2
<1>6. ASSUME NEW i \in DOMAIN v.byDomain, NEW k \in DOMAIN v.byDomain[i] PROVE Fit(v, v.byDomain[i][k].email)
  BY <1>3 DEF Run, Fit
<1> QED
  BY <1>1, <1>3, <1>4, <1>5, <1>6 DEF Run

\* What passes Dropped and the portals may be filed.
LEMMA KeptIsFit ==
  ASSUME RunInv, NEW s \in Searches, NEW c, ~Dropped(s, c), ~isPortalEmail(c.email)
  PROVE  Fit(work[s], c.email)
  BY DEF Dropped, classifyMailboxType, isPortalEmail, isPortalDomain, Fit, RunInv

LEMMA OneMore ==
  ASSUME NEW c \in Counts, NEW n, n \in {[c EXCEPT !.skipped = @ + 1], [c EXCEPT !.classifiedOut = @ + 1]}
  PROVE  n \in Counts /\ Total(n) = Total(c) + 1
<1>1. c.upserted \in Nat /\ c.skipped \in Nat /\ c.collapsed \in Nat /\ c.classifiedOut \in Nat
  BY DEF Counts
<1>2. n \in Counts
  BY DEF Counts
<1>3. CASE n = [c EXCEPT !.skipped = @ + 1]
  <2>1. n.upserted = c.upserted /\ n.skipped = c.skipped + 1 /\ n.collapsed = c.collapsed
        /\ n.classifiedOut = c.classifiedOut
    BY <1>3 DEF Counts
  <2> QED
    BY <1>1, <1>2, <2>1 DEF Total
<1>4. CASE n = [c EXCEPT !.classifiedOut = @ + 1]
  <2>1. n.upserted = c.upserted /\ n.skipped = c.skipped /\ n.collapsed = c.collapsed
        /\ n.classifiedOut = c.classifiedOut + 1
    BY <1>4 DEF Counts
  <2> QED
    BY <1>1, <1>2, <2>1 DEF Total
<1> QED
  BY <1>3, <1>4

LEMMA SiftRuns ==
  ASSUME RunInv, NEW s \in Searches, Sift(s) PROVE RunInv'
<1> DEFINE w == work[s]
           c == w.candidates[w.next]
           passed == [w EXCEPT !.next = @ + 1]
           skip == [passed EXCEPT !.counts.skipped = @ + 1]
           kept == [passed EXCEPT !.byDomain = Grouped(@, c)]
           out == [passed EXCEPT !.counts.classifiedOut = @ + 1]
<1>1. Run(w) /\ w.at = "sift" /\ c \in Found(w) /\ w.before \subseteq suppressed
  BY DEF Sift, RunInv, Found
<1>2. DOMAIN w = WorkFields /\ w.counts \in Counts /\ w.next \in Nat
  BY <1>1 DEF Run
<1>3. /\ DOMAIN passed = WorkFields /\ passed.at = w.at /\ passed.before = w.before
      /\ passed.candidates = w.candidates /\ passed.next = w.next + 1 /\ passed.byDomain = w.byDomain
      /\ passed.counts = w.counts
  BY <1>2 DEF WorkFields
<1>4. Run(skip) /\ skip.before = w.before
  <2>1. PICK n : n = [w.counts EXCEPT !.skipped = @ + 1]
    OBVIOUS
  <2>2. n \in Counts /\ Total(n) = Total(w.counts) + 1
    BY <1>2, <2>1, OneMore
  <2>3. skip = [passed EXCEPT !.counts = n]
    BY <1>3, <2>1
  <2> HIDE DEF w, passed, skip
  <2>4. /\ DOMAIN skip = WorkFields /\ skip.at = w.at /\ skip.before = w.before
        /\ skip.candidates = w.candidates /\ skip.next = w.next + 1 /\ skip.byDomain = w.byDomain
        /\ skip.counts = n
    BY <1>3, <2>3 DEF WorkFields
  <2> QED
    BY <1>1, <2>2, <2>4, CountedRun
<1>5. Run(out) /\ out.before = w.before
  <2>1. PICK n : n = [w.counts EXCEPT !.classifiedOut = @ + 1]
    OBVIOUS
  <2>2. n \in Counts /\ Total(n) = Total(w.counts) + 1
    BY <1>2, <2>1, OneMore
  <2>3. out = [passed EXCEPT !.counts = n]
    BY <1>3, <2>1
  <2> HIDE DEF w, passed, out
  <2>4. /\ DOMAIN out = WorkFields /\ out.at = w.at /\ out.before = w.before
        /\ out.candidates = w.candidates /\ out.next = w.next + 1 /\ out.byDomain = w.byDomain
        /\ out.counts = n
    BY <1>3, <2>3 DEF WorkFields
  <2> QED
    BY <1>1, <2>2, <2>4, CountedRun
<1>6. ~Dropped(s, c) /\ ~isPortalEmail(c.email) => Run(kept) /\ kept.before = w.before
  <2> SUFFICES ASSUME ~Dropped(s, c), ~isPortalEmail(c.email) PROVE Run(kept) /\ kept.before = w.before
    OBVIOUS
  <2>1. Fit(w, c.email)
    BY KeptIsFit
  <2>2. PICK g : g = Grouped(w.byDomain, c)
    OBVIOUS
  <2>3. kept = [passed EXCEPT !.byDomain = g]
    BY <1>3, <2>2
  <2> HIDE DEF w, passed, kept
  <2>4. /\ DOMAIN kept = WorkFields /\ kept.at = w.at /\ kept.before = w.before
        /\ kept.candidates = w.candidates /\ kept.next = w.next + 1 /\ kept.byDomain = g
        /\ kept.counts = w.counts
    BY <1>3, <2>3 DEF WorkFields
  <2> QED
    BY <1>1, <2>1, <2>2, <2>4, KeptRun
<1>7. \/ Stay(s, skip) \/ Stay(s, out)
      \/ Stay(s, kept) /\ ~Dropped(s, c) /\ ~isPortalEmail(c.email)
      \/ Fail(s, TRUE) \/ Fail(s, FALSE)
  BY DEF Sift
<1> HIDE DEF skip, out, kept
<1>8. ASSUME NEW v, Stay(s, v), Run(v), v.before = w.before PROVE RunInv'
  BY <1>1, <1>8, RunMoves DEF Stay
<1>9. ASSUME NEW how, Fail(s, how) PROVE RunInv'
  BY <1>9, IdleRun, RunMoves DEF Fail, Leave
<1> QED
  BY <1>4, <1>5, <1>6, <1>7, <1>8, <1>9
-----------------------------------------------------------------------------
LEMMA DiscoverRuns ==
  ASSUME RunInv, NEW s \in Searches, Discover(s) PROVE RunInv'
<1> DEFINE w == work[s]
<1>1. Run(w) /\ w.at = "discover" /\ w.before \subseteq suppressed
  BY DEF Discover, RunInv
<1>2. ASSUME NEW failed, NEW found, Stay(s, [w EXCEPT !.at = "sift", !.failed = failed, !.candidates = found])
      PROVE  RunInv'
  <2> DEFINE v == [w EXCEPT !.at = "sift", !.failed = failed, !.candidates = found]
  <2>1. DOMAIN w = WorkFields
    BY <1>1 DEF Run
  <2>2. /\ DOMAIN v = WorkFields /\ v.at = "sift" /\ v.before = w.before /\ v.next = w.next
        /\ v.counts = w.counts /\ v.byDomain = w.byDomain
    BY <2>1 DEF WorkFields
  <2>3. work' = [work EXCEPT ![s] = v] /\ suppressed' = suppressed
    BY <1>2 DEF Stay
  <2> HIDE DEF v
  <2>4. w.byDomain = <<>>
    BY <1>1 DEF Run
  <2>5. v.byDomain \in Seq(Seq(Found(v))) /\ DOMAIN v.byDomain = {}
    BY <2>2, <2>4
  <2>6. Run(v)
    BY <1>1, <2>2, <2>5 DEF Run
  <2> QED
    BY <1>1, <2>2, <2>3, <2>6, RunMoves
<1>3. ASSUME NEW retryable, Fail(s, retryable) PROVE RunInv'
  BY <1>3, IdleRun, RunMoves DEF Fail, Leave
<1>4. (\E retryable : Fail(s, retryable)) \/ \E failed, found : Stay(s, [w EXCEPT !.at = "sift", !.failed = failed, !.candidates = found])
  BY DEF Discover
<1> QED
  BY <1>2, <1>3, <1>4

LEMMA CountsSet ==
  ASSUME NEW c \in Counts, NEW a, NEW b
  PROVE  [c EXCEPT !.upserted = a, !.collapsed = b]
           = [upserted |-> a, skipped |-> c.skipped, collapsed |-> b, classifiedOut |-> c.classifiedOut]
<1>1. PICK p, q, r, t \in Nat : c = [upserted |-> p, skipped |-> q, collapsed |-> r, classifiedOut |-> t]
  BY DEF Counts
<1>2. c.skipped = q /\ c.classifiedOut = t
  BY <1>1
<1>3. PICK m : m = [c EXCEPT !.upserted = a]
  OBVIOUS
<1>4. m = [upserted |-> a, skipped |-> q, collapsed |-> r, classifiedOut |-> t]
  BY <1>1, <1>3
<1>5. [m EXCEPT !.collapsed = b] = [upserted |-> a, skipped |-> q, collapsed |-> b, classifiedOut |-> t]
  BY <1>4
<1>6. [c EXCEPT !.upserted = a, !.collapsed = b] = [m EXCEPT !.collapsed = b]
  BY <1>3
<1> QED
  BY <1>2, <1>5, <1>6

LEMMA UpsertRuns ==
  ASSUME RunInv, NEW s \in Searches, Upsert(s) PROVE RunInv'
<1> DEFINE w == work[s]
           group == Head(w.byDomain)
           c == Chosen(s, group)
<1>1. Run(w) /\ w.at = "sift" /\ w.byDomain # <<>> /\ w.before \subseteq suppressed
  BY DEF Upsert, Sifted, RunInv
<1>2. DOMAIN w = WorkFields /\ w.counts \in Counts
  BY <1>1 DEF Run
<1>3. PICK n : n = [upserted |-> w.counts.upserted + 1, skipped |-> w.counts.skipped,
                    collapsed |-> w.counts.collapsed + Len(group) - 1,
                    classifiedOut |-> w.counts.classifiedOut]
  OBVIOUS
<1>4. PICK rest : rest = Tail(w.byDomain)
  OBVIOUS
<1>5. PICK wrote : wrote = w.written \cup {c.email.domain}
  OBVIOUS
<1>6. [w.counts EXCEPT !.upserted = w.counts.upserted + 1, !.collapsed = w.counts.collapsed + Len(group) - 1] = n
  BY <1>2, <1>3, CountsSet
<1>7. PICK v : v = [w EXCEPT !.byDomain = Tail(@), !.written = @ \cup {c.email.domain},
                             !.counts.upserted = @ + 1, !.counts.collapsed = @ + Len(group) - 1]
  OBVIOUS
<1>8. v = [w EXCEPT !.byDomain = rest, !.written = wrote, !.counts = n]
  BY <1>2, <1>4, <1>5, <1>6, <1>7 DEF WorkFields
<1>9. work' = [work EXCEPT ![s] = v] /\ suppressed' = suppressed
  BY <1>7 DEF Upsert, Stay
<1> HIDE DEF w, group, c
<1>10. /\ DOMAIN v = WorkFields /\ v.at = w.at /\ v.before = w.before /\ v.candidates = w.candidates
       /\ v.next = w.next /\ v.byDomain = rest /\ v.counts = n
  BY <1>2, <1>8 DEF WorkFields
<1>11. Run(v)
  BY <1>1, <1>3, <1>4, <1>10, FiledRun DEF group
<1> QED
  BY <1>1, <1>9, <1>10, <1>11, RunMoves

LEMMA TakeRuns ==
  ASSUME RunInv, NEW s \in Searches, Take(s) PROVE RunInv'
<1> DEFINE v == [Idle EXCEPT !.at = "discover", !.before = suppressed]
<1>1. work' = [work EXCEPT ![s] = v] /\ suppressed' = suppressed
  BY DEF Take
<1>2. DOMAIN v = WorkFields /\ v.at = "discover" /\ v.next = 1 /\ v.counts = NoCounts
      /\ v.byDomain = <<>> /\ v.before = suppressed
  BY DEF Idle, WorkFields
<1> HIDE DEF v
<1>3. Run(v)
  BY <1>2, FreshRun
<1> QED
  BY <1>1, <1>2, <1>3, RunMoves

LEMMA NextRun == RunInv /\ [Next]_vars => RunInv'
<1> SUFFICES ASSUME RunInv, [Next]_vars PROVE RunInv'
  OBVIOUS
<1>1. ASSUME NEW s \in Searches, Write(s) \/ launch(s) \/ Evict(s) PROVE RunInv'
  BY <1>1, RunStays DEF Write, launch, Evict, jobVars
<1>2. ASSUME NEW s \in Searches, Complete(s) \/ Crash(s) PROVE RunInv'
  BY <1>2, IdleRun, RunMoves DEF Complete, Crash, Fail, Leave
<1>3. ASSUME NEW s \in Searches, Discovery(s) PROVE RunInv'
  BY <1>2, <1>3, TakeRuns, DiscoverRuns, SiftRuns, UpsertRuns DEF Discovery
<1>4. ASSUME NEW r \in Removals, Removing(r) PROVE RunInv'
  BY <1>4, RunStays DEF Removing, ReadSearch, ReadOthers, ReadAgents, removeSearchCascade, jobVars
<1>5. CASE Pool
  BY <1>5, RunStays DEF Pool, RemoveAgent, MarkContacted, Unsubscribe, runBackfill, EraseFlagged,
                        eraseAgentById, jobVars
<1>6. CASE UNCHANGED vars
  BY <1>6, RunStays DEF vars, jobVars
<1> QED
  BY <1>1, <1>3, <1>4, <1>5, <1>6 DEF Next

\* Whatever fails, drops out or is collapsed, a run has an account of every
\* candidate it has been through, for any results, verdicts and number of runs.
THEOREM CountsSound == Spec => []CountsAddUp
<1>1. RunInv => CountsAddUp
  <2>1. ASSUME NEW w, Run(w)
        PROVE  w.next - 1 = w.counts.upserted + w.counts.skipped + w.counts.collapsed
                            + w.counts.classifiedOut + Cardinality(Waiting(w.byDomain))
    BY <2>1 DEF Run, Total
  <2> QED
    BY <2>1 DEF RunInv, CountsAddUp
<1> QED
  BY <1>1, InitRun, NextRun, PTL DEF Spec

\* Every mailbox of a group may be filed, the chosen one too.
LEMMA ChosenIsFit ==
  ASSUME RunInv, NEW s \in Searches, work[s].byDomain # <<>>
  PROVE  LET group == Head(work[s].byDomain)
         IN  /\ \E k \in DOMAIN group : Chosen(s, group) = group[k]
             /\ Fit(work[s], Chosen(s, group).email)
<1> DEFINE w == work[s]
           group == Head(w.byDomain)
<1>1. Run(w) /\ w.byDomain \in Seq(Seq(Found(w))) /\ Apart(w.byDomain) /\ IsFiniteSet(Waiting(w.byDomain))
  BY DEF RunInv, Run
<1>2. 1 \in DOMAIN w.byDomain /\ group = w.byDomain[1] /\ Len(group) \in Nat \ {0} /\ group \in Seq(Found(w))
  BY <1>1, TailFacts
<1>3. 1 \in DOMAIN group
  BY <1>2
<1>4. \E k \in DOMAIN group : Chosen(s, group) = group[k]
  BY <1>3 DEF Chosen
<1>5. \A k \in DOMAIN group : Fit(w, group[k].email)
  BY <1>1, <1>2 DEF Run
<1> QED
  BY <1>4, <1>5

LEMMA StepSparesSuppressed ==
  ASSUME RunInv, [Next]_vars, NEW s \in Searches, NEW e \in work[s].before, Sifted(s), work'[s] # work[s]
  PROVE  (e \in DOMAIN agent <=> e \in DOMAIN agent') /\ (e \in DOMAIN agent => agent'[e] = agent[e])
<1>2. ASSUME NEW t \in Searches, Discovery(t), t # s PROVE work'[s] = work[s]
  <2>1. \E v : work' = [work EXCEPT ![t] = v]
    BY <1>2 DEF Discovery, Take, Discover, Sift, Upsert, Complete, Crash, Fail, Leave, Stay
  <2> QED
    BY <1>2, <2>1 DEF RunInv
<1>3. CASE Discovery(s)
  <2>1. CASE Upsert(s)
    <3>1. PICK o, v : upsertByEmail(Chosen(s, Head(work[s].byDomain)), o, v)
      BY <2>1 DEF Upsert
    <3>2. Chosen(s, Head(work[s].byDomain)).email # e
      BY <2>1, ChosenIsFit DEF Upsert, Fit
    <3> QED
      BY <3>1, <3>2 DEF upsertByEmail
  <2>2. CASE ~Upsert(s)
    BY <1>3, <2>2 DEF Discovery, Take, Discover, Sift, Complete, Crash, Fail, Leave, Stay, poolVars
  <2> QED
    BY <2>1, <2>2
<1>4. ASSUME NEW t \in Searches, Write(t) \/ launch(t) \/ Evict(t) PROVE work'[s] = work[s]
  BY <1>4 DEF Write, launch, Evict, jobVars
<1>5. ASSUME NEW r \in Removals, Removing(r) PROVE work'[s] = work[s]
  BY <1>5 DEF Removing, ReadSearch, ReadOthers, ReadAgents, removeSearchCascade, jobVars
<1>6. ASSUME Pool PROVE work'[s] = work[s]
  BY <1>6 DEF Pool, RemoveAgent, MarkContacted, Unsubscribe, runBackfill, EraseFlagged,
              eraseAgentById, jobVars
<1>7. ASSUME UNCHANGED vars PROVE work'[s] = work[s]
  BY <1>7 DEF vars, jobVars
<1> QED
  BY <1>2, <1>3, <1>4, <1>5, <1>6, <1>7 DEF Next

\* A run files nothing under a mailbox that was suppressed when it began, however
\* late it comes to it and whatever is filed, erased and retried meanwhile.
THEOREM SuppressedStayOut == Spec => NeverResourced
<1>1. RunInv /\ [Next]_vars =>
        [\A s \in Searches : \A e \in work[s].before :
           Sifted(s) /\ work'[s] # work[s] =>
             (e \in DOMAIN agent <=> e \in DOMAIN agent') /\ (e \in DOMAIN agent => agent'[e] = agent[e])]_vars
  BY StepSparesSuppressed
<1> QED
  BY <1>1, InitRun, NextRun, PTL DEF Spec, NeverResourced
-----------------------------------------------------------------------------
(* What is left of a sequence comes from it. *)

LEMMA NatSetInduction ==
  ASSUME NEW S, 0 \in S, \A n \in Nat : n \in S => n + 1 \in S
  PROVE  Nat \subseteq S
<1> SUFFICES ASSUME NEW k \in Nat, k \notin S PROVE FALSE
  OBVIOUS
<1> DEFINE T == {A \in SUBSET Nat : \E n \in Nat : n \notin S /\ A = 1..n}
<1>1. \A n \in Nat : IsFiniteSet(1..n)
  BY FS_Interval
<1>2. T \subseteq FiniteSubsetsOf(Nat) /\ T # {}
  <2>1. 1..k \in T
    OBVIOUS
  <2> QED
    BY <1>1, <2>1 DEF FiniteSubsetsOf
<1> HIDE DEF T
<1>3. PICK A \in T : \A B \in T : ~(<<B, A>> \in StrictSubsetOrdering(Nat))
  BY <1>2, FS_StrictSubsetOrderingWellFounded, WFMin
<1> USE DEF T
<1>4. PICK n \in Nat : n \notin S /\ A = 1..n
  OBVIOUS
<1>5. n # 0 /\ n - 1 \in Nat /\ n - 1 \notin S
  BY <1>4
<1>6. 1..(n - 1) \in T
  BY <1>5
<1>7. n \in 1..n /\ n \notin 1..(n - 1) /\ 1..(n - 1) \subseteq 1..n
  BY <1>5
<1>8. <<1..(n - 1), A>> \in StrictSubsetOrdering(Nat)
  BY <1>4, <1>5, <1>7 DEF StrictSubsetOrdering
<1> QED
  BY <1>3, <1>6, <1>8

\* A sequence of values each made from the one before by a step of its own.
Runs(T, b, m, step) ==
  {k \in [0..m -> T] : k[0] = b /\ \A i \in 1..m : k[i] = step[i][k[i - 1]]}

LEMMA Recursion ==
  ASSUME NEW T, NEW b \in T, NEW m \in Nat, NEW step \in [1..m -> [T -> T]]
  PROVE  Runs(T, b, m, step) # {}
<1> DEFINE N == {n \in Nat : n <= m =>
                  \E k \in [0..n -> T] : k[0] = b /\ \A i \in 1..n : k[i] = step[i][k[i - 1]]}
<1>1. 0 \in N
  <2>1. PICK k : k = [i \in 0..0 |-> b]
    OBVIOUS
  <2>2. k \in [0..0 -> T] /\ k[0] = b /\ 1..0 = {}
    BY <2>1
  <2>3. \E h \in [0..0 -> T] : h[0] = b /\ \A i \in 1..0 : h[i] = step[i][h[i - 1]]
    BY <2>2
  <2> QED
    BY <2>3
<1>2. ASSUME NEW n \in Nat, n \in N PROVE n + 1 \in N
  <2> SUFFICES ASSUME n + 1 <= m
      PROVE \E k \in [0..(n + 1) -> T] : k[0] = b /\ \A i \in 1..(n + 1) : k[i] = step[i][k[i - 1]]
    OBVIOUS
  <2>1. PICK k \in [0..n -> T] : k[0] = b /\ \A i \in 1..n : k[i] = step[i][k[i - 1]]
    BY <1>2
  <2>2. k[n] \in T /\ n + 1 \in 1..m
    BY <2>1
  <2>3. step[n + 1] \in [T -> T]
    BY <2>2
  <2>4. PICK x \in T : x = step[n + 1][k[n]]
    BY <2>2, <2>3
  <2>5. PICK h : h = [i \in 0..(n + 1) |-> IF i <= n THEN k[i] ELSE x]
    OBVIOUS
  <2>6. h \in [0..(n + 1) -> T] /\ h[0] = b /\ h[n + 1] = x /\ \A i \in 0..n : h[i] = k[i]
    BY <2>1, <2>5
  <2>7. ASSUME NEW i \in 1..(n + 1) PROVE h[i] = step[i][h[i - 1]]
    <3>1. CASE i = n + 1
      <4>1. (n + 1) - 1 = n /\ n \in 0..n
        OBVIOUS
      <4> QED
        BY <2>4, <2>6, <3>1, <4>1
    <3>2. CASE i # n + 1
      <4>1. i \in 1..n /\ i \in 0..n /\ i - 1 \in 0..n
        BY <3>2
      <4> QED
        BY <2>1, <2>6, <4>1
    <3> QED
      BY <3>1, <3>2
  <2> QED
    BY <2>6, <2>7
<1> HIDE DEF N
<1>3. m \in N
  BY <1>1, <1>2, NatSetInduction
<1> QED
  BY <1>3 DEF N, Runs

LEMMA TakenIn ==
  ASSUME NEW T, NEW seq \in Seq(T), NEW I
  PROVE  Taken(seq, I) \in Seq({seq[i] : i \in DOMAIN seq \cap I})
<1> DEFINE U == {seq[i] : i \in DOMAIN seq \cap I}
<1>1. PICK m \in Nat : m = Len(seq) /\ DOMAIN seq = 1..m
  OBVIOUS
<1>2. PICK W : W = Seq(U)
  OBVIOUS
<1>3. PICK step : step = [i \in 1..m |-> [w \in W |-> IF i \in I THEN Append(w, seq[i]) ELSE w]]
  OBVIOUS
<1>4. step \in [1..m -> [W -> W]]
  <2>1. ASSUME NEW i \in 1..m, NEW w \in W PROVE (IF i \in I THEN Append(w, seq[i]) ELSE w) \in W
    <3>1. i \in I => seq[i] \in U
      BY <1>1
    <3> HIDE DEF U
    <3> QED
      BY <1>2, <3>1
  <2> QED
    BY <1>3, <2>1
<1>5. <<>> \in W
  BY <1>2
<1>0. m \in Nat
  BY <1>1
<1>6. PICK k \in [0..m -> W] : k[0] = <<>> /\ \A i \in 1..m : k[i] = step[i][k[i - 1]]
  <2> HIDE DEF U
  <2>1. Runs(W, <<>>, m, step) # {}
    BY <1>0, <1>4, <1>5, Recursion
  <2> QED
    BY <2>1 DEF Runs
<1>7. k = [n \in 0..m |-> IF n = 0 THEN <<>> ELSE IF n \in I THEN Append(k[n - 1], seq[n]) ELSE k[n - 1]]
  <2>1. ASSUME NEW n \in 0..m
        PROVE  k[n] = IF n = 0 THEN <<>> ELSE IF n \in I THEN Append(k[n - 1], seq[n]) ELSE k[n - 1]
    <3>1. n # 0 => n \in 1..m /\ n - 1 \in 0..m
      BY <2>1
    <3> QED
      BY <1>3, <1>6, <3>1
  <2> QED
    BY <1>6, <2>1
<1> DEFINE Is(f) == f = [n \in 0..m |-> IF n = 0 THEN <<>>
                                       ELSE IF n \in I THEN Append(f[n - 1], seq[n]) ELSE f[n - 1]]
<1>8. TakenTo(seq, I) = CHOOSE f : Is(f)
  BY <1>1 DEF TakenTo
<1>9. Is(k)
  BY <1>7
<1>10. PICK f : f = TakenTo(seq, I) /\ Is(f)
  <2> HIDE DEF Is
  <2> QED
    BY <1>8, <1>9
<1> DEFINE N == {n \in Nat : n <= m => f[n] \in W}
<1>11. 0 \in N
  BY <1>5, <1>10
<1>12. ASSUME NEW n \in Nat, n \in N PROVE n + 1 \in N
  <2> SUFFICES ASSUME n + 1 <= m PROVE f[n + 1] \in W
    OBVIOUS
  <2>1. f[n] \in W /\ n + 1 \in 0..m /\ n + 1 # 0 /\ (n + 1) - 1 = n /\ n + 1 \in DOMAIN seq
    BY <1>1, <1>12
  <2>2. f[n + 1] = IF n + 1 \in I THEN Append(f[n], seq[n + 1]) ELSE f[n]
    BY <1>10, <2>1
  <2>3. n + 1 \in I => seq[n + 1] \in U
    BY <2>1
  <2> HIDE DEF U
  <2> QED
    BY <1>2, <2>1, <2>2, <2>3
<1> HIDE DEF N
<1>13. m \in N
  BY <1>11, <1>12, NatSetInduction
<1> QED
  BY <1>1, <1>2, <1>10, <1>13 DEF N, Taken

LEMMA FlattenIn ==
  ASSUME NEW T, NEW seqs \in Seq(Seq(T)) PROVE FlattenSeq(seqs) \in Seq(T)
<1>1. PICK m \in Nat : m = Len(seqs) /\ DOMAIN seqs = 1..m
  OBVIOUS
<1>2. PICK W : W = Seq(T)
  OBVIOUS
<1>3. \A i \in 1..m : seqs[i] \in W
  BY <1>1, <1>2
<1>4. \A v, w \in W : v \o w \in W
  BY <1>2
<1>5. CASE m = 0
  BY <1>1, <1>5 DEF FlattenSeq
<1>6. CASE m # 0
  <2>1. PICK step : step = [i \in 1..m |-> [w \in W |-> IF i = 1 THEN seqs[i] ELSE w \o seqs[i]]]
    OBVIOUS
  <2>2. step \in [1..m -> [W -> W]]
    BY <1>3, <1>4, <2>1
  <2>3. 1 \in 1..m /\ seqs[1] \in W
    BY <1>3, <1>6
  <2>4. PICK k \in [0..m -> W] : \A i \in 1..m : k[i] = step[i][k[i - 1]]
    <3>1. m \in Nat /\ seqs[1] \in W
      BY <1>1, <2>3
    <3>2. Runs(W, seqs[1], m, step) # {}
      BY <2>2, <3>1, Recursion
    <3> QED
      BY <3>2 DEF Runs
  <2>5. \A i \in 1..m : k[i - 1] \in W
    BY <2>4
  <2>6. PICK g : g = [i \in 1..m |-> k[i]]
    OBVIOUS
  <2> DEFINE Is(f) == f = [i \in 1..m |-> IF i = 1 THEN seqs[i] ELSE f[i - 1] \o seqs[i]]
  <2>7. Is(g)
    <3>1. ASSUME NEW i \in 1..m PROVE g[i] = IF i = 1 THEN seqs[i] ELSE g[i - 1] \o seqs[i]
      <4>1. k[i] = IF i = 1 THEN seqs[i] ELSE k[i - 1] \o seqs[i]
        BY <2>1, <2>4, <2>5
      <4>2. i # 1 => i - 1 \in 1..m
        OBVIOUS
      <4> QED
        BY <2>6, <4>1, <4>2
    <3> QED
      BY <2>6, <3>1
  <2>8. PICK f : FlattenSeq(seqs) = f[m] /\ f = CHOOSE h : Is(h)
    BY <1>1, <1>6 DEF FlattenSeq
  <2>9. Is(f)
    <3> HIDE DEF Is
    <3> QED
      BY <2>7, <2>8
  <2> DEFINE N == {n \in Nat : n + 1 <= m => f[n + 1] \in W}
  <2>10. 0 \in N
    BY <2>3, <2>9
  <2>11. ASSUME NEW n \in Nat, n \in N PROVE n + 1 \in N
    <3> SUFFICES ASSUME n + 2 <= m PROVE f[n + 2] \in W
      OBVIOUS
    <3>1. f[n + 1] \in W /\ n + 2 \in 1..m /\ n + 2 # 1 /\ (n + 2) - 1 = n + 1
      BY <2>11
    <3>2. f[n + 2] = f[n + 1] \o seqs[n + 2]
      BY <2>9, <3>1
    <3> QED
      BY <1>3, <1>4, <3>1, <3>2
  <2> HIDE DEF N
  <2>12. m - 1 \in N
    <3>1. m - 1 \in Nat
      BY <1>6
    <3> QED
      BY <2>10, <2>11, <3>1, NatSetInduction
  <2> QED
    BY <1>2, <1>6, <2>8, <2>12 DEF N
<1> QED
  BY <1>5, <1>6
-----------------------------------------------------------------------------
(* What discovery finds is the mailboxes of agencies. *)

Pages == UNION {Range(search[q]) : q \in DOMAIN search}
Tokens == UNION {Range(r.snippet) \cup Range(r.page) : r \in Pages}
Read == {t \in Tokens : t.kind # "asset"} \cup {decodeCfEmail(t) : t \in {t \in Tokens : t.kind = "cf"}}
Addresses == {Email(t.local, t.domain) : t \in Read}
Agencylike == {e \in Addresses : isLikelyAgencyEmail(e)}
Candidates == {[email |-> e, agencyName |-> agencyNameForEmail(e, r), websiteUrl |-> r.link] :
                 e \in Agencylike, r \in Pages}

LEMMA Widened == \A S, T : S \subseteq T => \A seq \in Seq(S) : seq \in Seq(T)
  OBVIOUS

LEMMA TakenFrom ==
  ASSUME NEW T, NEW seq \in Seq(T), NEW I, NEW U, \A i \in DOMAIN seq \cap I : seq[i] \in U
  PROVE  Taken(seq, I) \in Seq(U)
<1>1. Taken(seq, I) \in Seq({seq[i] : i \in DOMAIN seq \cap I})
  BY TakenIn
<1>2. {seq[i] : i \in DOMAIN seq \cap I} \subseteq U
  OBVIOUS
<1> QED
  BY <1>1, <1>2, Widened

LEMMA TokensAreKnown ==
  /\ \A r \in Pages : r.snippet \in Seq(Tokens) /\ r.page \in Seq(Tokens)
  /\ \A t \in Tokens : t.kind = "asset" \/ Email(t.local, t.domain) \in Mails
                         \/ ~isLikelyAgencyEmail(Email(t.local, t.domain))
<1>1. \A r \in Pages : Known(r.snippet) /\ Known(r.page)
  BY PatchAssumption DEF PatchAssumption, Pages
<1>2. ASSUME NEW tokens, Known(tokens)
      PROVE  /\ tokens \in Seq(Range(tokens))
             /\ \A t \in Range(tokens) : t.kind = "asset" \/ Email(t.local, t.domain) \in Mails
                                           \/ ~isLikelyAgencyEmail(Email(t.local, t.domain))
  <2> DEFINE K == {t \in Range(tokens) : t.kind = "asset" \/ Email(t.local, t.domain) \in Mails
                                           \/ ~isLikelyAgencyEmail(Email(t.local, t.domain))}
  <2>1. tokens \in Seq(K)
    BY <1>2 DEF Known
  <2>2. K \subseteq Range(tokens)
    OBVIOUS
  <2>3. \A t \in Range(tokens) : t \in K
    <3> HIDE DEF K
    <3> QED
      BY <2>1 DEF Range
  <2>4. tokens \in Seq(Range(tokens))
    <3> HIDE DEF K
    <3> QED
      BY <2>1, <2>2, Widened
  <2> QED
    BY <2>3, <2>4
<1>3. ASSUME NEW r \in Pages PROVE r.snippet \in Seq(Tokens) /\ r.page \in Seq(Tokens)
  <2>1. Range(r.snippet) \subseteq Tokens /\ Range(r.page) \subseteq Tokens
    BY DEF Tokens
  <2>2. r.snippet \in Seq(Range(r.snippet)) /\ r.page \in Seq(Range(r.page))
    BY <1>1, <1>2
  <2> QED
    BY <2>1, <2>2, Widened
<1>4. ASSUME NEW t \in Tokens
      PROVE t.kind = "asset" \/ Email(t.local, t.domain) \in Mails \/ ~isLikelyAgencyEmail(Email(t.local, t.domain))
  <2>1. PICK r \in Pages : t \in Range(r.snippet) \/ t \in Range(r.page)
    BY DEF Tokens
  <2> QED
    BY <1>1, <1>2, <2>1
<1> QED
  BY <1>3, <1>4

LEMMA AgencylikeIsMail ==
  \A e \in Agencylike : e \in Mails /\ e.domain \notin GovDomains
<1> SUFFICES ASSUME NEW e \in Agencylike PROVE e \in Mails /\ e.domain \notin GovDomains
  OBVIOUS
<1>1. PICK t \in Tokens : t.kind # "asset" /\ e = Email(t.local, t.domain)
  <2>1. PICK t \in Read : e = Email(t.local, t.domain)
    BY DEF Agencylike, Addresses
  <2>2. CASE t \in Tokens /\ t.kind # "asset"
    BY <2>1, <2>2
  <2>3. CASE t \in {decodeCfEmail(u) : u \in {u \in Tokens : u.kind = "cf"}}
    <3>1. PICK u \in Tokens : u.kind = "cf" /\ t = decodeCfEmail(u)
      BY <2>3
    <3>2. t.local = u.local /\ t.domain = u.domain
      BY <3>1 DEF decodeCfEmail, Token
    <3> QED
      BY <2>1, <3>1, <3>2
  <2> QED
    BY <2>2, <2>3 DEF Read
<1>2. isLikelyAgencyEmail(e)
  BY DEF Agencylike
<1> QED
  BY <1>1, <1>2, TokensAreKnown DEF isLikelyAgencyEmail

LEMMA ExtractedAddresses ==
  ASSUME NEW T, NEW tokens \in Seq(T),
         \A t \in T : t.kind \in {"plain", "phone"} => Email(t.local, t.domain) \in Addresses
  PROVE  extractEmails(tokens) \in Seq(Addresses)
<1> DEFINE I == {i \in DOMAIN tokens : tokens[i].kind \in {"plain", "phone"}}
           W == {t \in T : t.kind \in {"plain", "phone"}}
           real == Taken(tokens, I)
           mails == [i \in DOMAIN real |-> Email(real[i].local, real[i].domain)]
           J == {i \in DOMAIN mails : \A k \in 1..(i - 1) : mails[k] # mails[i]}
<1>1. extractEmails(tokens) = Taken(mails, J)
  BY DEF extractEmails, Only, Once, Distinct
<1>2. real \in Seq(W)
  <2>1. \A i \in DOMAIN tokens \cap I : tokens[i] \in W
    OBVIOUS
  <2> HIDE DEF W, I
  <2> QED
    BY <2>1, TakenFrom
<1> HIDE DEF real
<1>3. mails \in Seq(Addresses)
  <2>1. \A i \in DOMAIN real : Email(real[i].local, real[i].domain) \in Addresses
    BY <1>2
  <2> QED
    BY <1>2, <2>1
<1> HIDE DEF mails, J
<1>4. \A i \in DOMAIN mails \cap J : mails[i] \in Addresses
  BY <1>3
<1> QED
  BY <1>1, <1>3, <1>4, TakenFrom

LEMMA AgentsAreCandidates ==
  ASSUME NEW r \in Pages, NEW emails \in Seq(Addresses)
  PROVE  Agents(r, emails) \in Seq(Candidates)
<1> DEFINE I == {i \in DOMAIN emails : isLikelyAgencyEmail(emails[i])}
           likely == Taken(emails, I)
<1>1. likely \in Seq(Agencylike)
  <2>1. \A i \in DOMAIN emails \cap I : emails[i] \in Agencylike
    BY DEF Agencylike
  <2> HIDE DEF I
  <2> QED
    BY <2>1, TakenFrom
<1>2. Agents(r, emails) = [i \in DOMAIN likely |->
         [email |-> likely[i], agencyName |-> agencyNameForEmail(likely[i], r), websiteUrl |-> r.link]]
  BY DEF Agents, Only
<1> HIDE DEF likely
<1>3. \A i \in DOMAIN likely :
        [email |-> likely[i], agencyName |-> agencyNameForEmail(likely[i], r), websiteUrl |-> r.link] \in Candidates
  <2> SUFFICES ASSUME NEW i \in DOMAIN likely
      PROVE [email |-> likely[i], agencyName |-> agencyNameForEmail(likely[i], r), websiteUrl |-> r.link] \in Candidates
    OBVIOUS
  <2>1. PICK e \in Agencylike : e = likely[i]
    BY <1>1
  <2>2. [email |-> e, agencyName |-> agencyNameForEmail(e, r), websiteUrl |-> r.link] \in Candidates
    BY DEF Candidates
  <2> QED
    BY <2>1, <2>2
<1> QED
  BY <1>1, <1>2, <1>3

LEMMA PagesAreCandidates ==
  ASSUME NEW r \in Pages PROVE SnippetAgents(r) \in Seq(Candidates) /\ PageAgents(r) \in Seq(Candidates)
<1>1. r.snippet \in Seq(Tokens) /\ r.page \in Seq(Tokens)
  BY TokensAreKnown
<1>2. \A t \in Tokens : t.kind \in {"plain", "phone"} => Email(t.local, t.domain) \in Addresses
  BY DEF Addresses, Read
<1>3. extractEmails(r.snippet) \in Seq(Addresses)
  BY <1>1, <1>2, ExtractedAddresses
<1> DEFINE D == {decodeCfEmail(t) : t \in {t \in Tokens : t.kind = "cf"}}
<1>4. extractCfEmails(r.page) \in Seq(D)
  <2> DEFINE I == {i \in DOMAIN r.page : r.page[i].kind = "cf"}
             C == {t \in Tokens : t.kind = "cf"}
  <2>1. PICK coded : coded = Taken(r.page, I)
    OBVIOUS
  <2>2. coded \in Seq(C)
    <3>1. \A i \in DOMAIN r.page \cap I : r.page[i] \in C
      BY <1>1
    <3> HIDE DEF I, C
    <3> QED
      BY <1>1, <2>1, <3>1, TakenFrom
  <2>3. extractCfEmails(r.page) = [i \in DOMAIN coded |-> decodeCfEmail(coded[i])]
    BY <2>1 DEF extractCfEmails, Only
  <2>4. \A i \in DOMAIN coded : decodeCfEmail(coded[i]) \in D
    BY <2>2
  <2> HIDE DEF D
  <2> QED
    BY <2>2, <2>3, <2>4
<1>5. \A t \in D : Email(t.local, t.domain) \in Addresses
  <2>1. D \subseteq Read
    BY DEF Read
  <2> QED
    BY <2>1 DEF Addresses
<1> HIDE DEF D
<1>6. r.page \o extractCfEmails(r.page) \in Seq(Tokens \cup D)
  <2>1. r.page \in Seq(Tokens \cup D) /\ extractCfEmails(r.page) \in Seq(Tokens \cup D)
    BY <1>1, <1>4, Widened
  <2> QED
    BY <2>1
<1>7. extractEmails(r.page \o extractCfEmails(r.page)) \in Seq(Addresses)
  <2> DEFINE T == Tokens \cup D
  <2>1. \A t \in T : t.kind \in {"plain", "phone"} => Email(t.local, t.domain) \in Addresses
    BY <1>2, <1>5
  <2>2. PICK tokens : tokens = r.page \o extractCfEmails(r.page) /\ tokens \in Seq(T)
    BY <1>6
  <2> HIDE DEF T
  <2> QED
    BY <2>1, <2>2, ExtractedAddresses
<1> QED
  BY <1>3, <1>7, AgentsAreCandidates DEF SnippetAgents, PageAgents

LEMMA Flattened ==
  ASSUME NEW T, NEW n \in Nat, NEW f, \A i \in 1..n : f[i] \in Seq(T),
         NEW seqs, seqs = [i \in 1..n |-> f[i]]
  PROVE  FlattenSeq(seqs) \in Seq(T)
<1>1. seqs \in Seq(Seq(T))
  OBVIOUS
<1> QED
  BY <1>1, FlattenIn

LEMMA DiscoveredCandidates ==
  ASSUME NEW queries \in Seq(DOMAIN search), NEW failed
  PROVE  discover(search, queries, failed, FetchMax) \in Seq(Candidates)
<1> DEFINE IA == {i \in DOMAIN queries : queries[i] \notin failed.queries}
           answered == Taken(queries, IA)
           all == FlattenSeq([i \in DOMAIN answered |-> search[answered[i]]])
           IU == {i \in DOMAIN all : \A k \in 1..(i - 1) : all[k].link # all[i].link}
           byUrl == Taken(all, IU)
           IR == {i \in DOMAIN byUrl : ~isNonAgencyResult(byUrl[i])}
           results == Taken(byUrl, IR)
           fetched == fetchTargets(results, FetchMax)
           IT == {i \in DOMAIN fetched : fetched[i].link \notin failed.links}
           targets == Taken(fetched, IT)
           first == FlattenSeq([i \in DOMAIN results |-> SnippetAgents(results[i])])
           second == FlattenSeq([i \in DOMAIN targets |-> PageAgents(targets[i])])
           found == first \o second
           IF1 == {i \in DOMAIN found : \A k \in 1..(i - 1) : found[k].email # found[i].email}
<1>5. discover(search, queries, failed, FetchMax) = Taken(found, IF1)
  BY DEF discover, dedupeByEmail, Distinct, Only
<1> HIDE DEF answered, byUrl, results, targets
<1>6. answered \in Seq(DOMAIN search)
  <2> HIDE DEF IA
  <2>1. \A i \in DOMAIN queries \cap IA : queries[i] \in DOMAIN search
    OBVIOUS
  <2> QED
    BY <2>1, TakenFrom DEF answered
<1>7. all \in Seq(Pages)
  <2>1. \A q \in DOMAIN search : search[q] \in Seq(Pages)
    <3> SUFFICES ASSUME NEW q \in DOMAIN search PROVE search[q] \in Seq(Pages)
      OBVIOUS
    <3>1. search[q] \in Seq(Range(search[q])) /\ Range(search[q]) \subseteq Pages
      BY PatchAssumption DEF PatchAssumption, Pages
    <3> QED
      BY <3>1, Widened
  <2>2. PICK n \in Nat : DOMAIN answered = 1..n
    BY <1>6
  <2>3. PICK f : f = [i \in 1..n |-> search[answered[i]]]
    OBVIOUS
  <2>4. \A i \in 1..n : f[i] \in Seq(Pages)
    BY <1>6, <2>1, <2>2, <2>3
  <2>5. PICK seqs : seqs = [i \in 1..n |-> f[i]]
    OBVIOUS
  <2>6. seqs = [i \in DOMAIN answered |-> search[answered[i]]]
    BY <2>2, <2>3, <2>5
  <2>7. FlattenSeq(seqs) \in Seq(Pages)
    BY <2>2, <2>4, <2>5, Flattened
  <2> QED
    BY <2>6, <2>7
<1> HIDE DEF all, IU
<1>8. byUrl \in Seq(Pages)
  <2>1. \A i \in DOMAIN all \cap IU : all[i] \in Pages
    BY <1>7
  <2> QED
    BY <1>7, <2>1, TakenFrom DEF byUrl
<1> HIDE DEF IR
<1>9. results \in Seq(Pages)
  <2>1. \A i \in DOMAIN byUrl \cap IR : byUrl[i] \in Pages
    BY <1>8
  <2> QED
    BY <1>8, <2>1, TakenFrom DEF results
<1>10. fetched \in Seq(Pages)
  <2> DEFINE IS == {i \in DOMAIN results : SnippetAgents(results[i]) = <<>>}
  <2>1. PICK silent : silent = Taken(results, IS)
    OBVIOUS
  <2> DEFINE IH == {i \in DOMAIN silent : \A k \in 1..(i - 1) : silent[k].host # silent[i].host}
  <2>2. PICK hosts : hosts = Taken(silent, IH)
    OBVIOUS
  <2>3. fetched = SubSeq(hosts, 1, IF Len(hosts) < FetchMax THEN Len(hosts) ELSE FetchMax)
    BY <2>1, <2>2 DEF fetchTargets, Distinct, Only
  <2> HIDE DEF IS, IH, fetched
  <2>4. silent \in Seq(Pages)
    <3>1. \A i \in DOMAIN results \cap IS : results[i] \in Pages
      BY <1>9
    <3> QED
      BY <1>9, <2>1, <3>1, TakenFrom
  <2>5. hosts \in Seq(Pages)
    <3>1. \A i \in DOMAIN silent \cap IH : silent[i] \in Pages
      BY <2>4
    <3> QED
      BY <2>2, <2>4, <3>1, TakenFrom
  <2>6. FetchMax \in Nat
    BY PatchAssumption DEF PatchAssumption
  <2> QED
    BY <2>3, <2>5, <2>6
<1> HIDE DEF fetched, IT
<1>11. targets \in Seq(Pages)
  <2>1. \A i \in DOMAIN fetched \cap IT : fetched[i] \in Pages
    BY <1>10
  <2> QED
    BY <1>10, <2>1, TakenFrom DEF targets
<1>12. first \in Seq(Candidates)
  <2>1. PICK n \in Nat : DOMAIN results = 1..n
    BY <1>9
  <2>2. PICK f : f = [i \in 1..n |-> SnippetAgents(results[i])]
    OBVIOUS
  <2>3. \A i \in 1..n : f[i] \in Seq(Candidates)
    <3>1. \A i \in 1..n : results[i] \in Pages
      BY <1>9, <2>1
    <3> QED
      BY <2>2, <3>1, PagesAreCandidates
  <2>4. PICK seqs : seqs = [i \in 1..n |-> f[i]]
    OBVIOUS
  <2>5. seqs = [i \in DOMAIN results |-> SnippetAgents(results[i])]
    BY <2>1, <2>2, <2>4
  <2> QED
    BY <2>3, <2>4, <2>5, Flattened
<1>13. second \in Seq(Candidates)
  <2>1. PICK n \in Nat : DOMAIN targets = 1..n
    BY <1>11
  <2>2. PICK f : f = [i \in 1..n |-> PageAgents(targets[i])]
    OBVIOUS
  <2>3. \A i \in 1..n : f[i] \in Seq(Candidates)
    <3>1. \A i \in 1..n : targets[i] \in Pages
      BY <1>11, <2>1
    <3> QED
      BY <2>2, <3>1, PagesAreCandidates
  <2>4. PICK seqs : seqs = [i \in 1..n |-> f[i]]
    OBVIOUS
  <2>5. seqs = [i \in DOMAIN targets |-> PageAgents(targets[i])]
    BY <2>1, <2>2, <2>4
  <2> QED
    BY <2>3, <2>4, <2>5, Flattened
<1> HIDE DEF first, second
<1>14. found \in Seq(Candidates)
  BY <1>12, <1>13
<1> HIDE DEF found, IF1
<1>15. \A i \in DOMAIN found \cap IF1 : found[i] \in Candidates
  BY <1>14
<1> QED
  BY <1>5, <1>14, <1>15, TakenFrom
-----------------------------------------------------------------------------
(* Where everything is, and who is in the pool *)

Briefs == {Brief(l) : l \in DOMAIN Located}

\* A job on its way has the brief of a location for its payload, and what its run
\* has found is live mailboxes of agencies.
QueueInv ==
  /\ brief \in [Searches -> Briefs \cup {NoBrief, Removed}]
  /\ status \in [Searches -> {"free", "waiting", "active", "completed", "failed"}]
  /\ tries \in [Searches -> 0..MaxTries] /\ DOMAIN order = Searches
  /\ \A s \in Searches :
       /\ status[s] \in {"waiting", "active"} => order[s] \in Briefs
       /\ work[s].at # "idle" => status[s] = "active"
       /\ \A c \in Found(work[s]) : c.email \in Mails /\ c.email.domain \notin GovDomains

PoolInv ==
  /\ minted \in [Mails -> Nat] /\ suppressed \subseteq Mails
  /\ \A e \in DOMAIN agent :
       /\ e \in Mails /\ e.domain \notin FREE_MAIL_DOMAINS \cup PORTAL_DOMAINS \cup GovDomains
       /\ agent[e].id \in 1..minted[e] /\ agent[e].emailVerifyStatus \in EmailDeliverability

TodoInv == \A r \in Removals : removal[r].todo \subseteq {"others", "agents"}

LEMMA InitPlaces == Init => QueueInv /\ PoolInv /\ TodoInv
<1> SUFFICES ASSUME Init PROVE QueueInv /\ PoolInv /\ TodoInv
  OBVIOUS
<1>1. QueueInv
  <2>1. \A s \in Searches : work[s] = Idle
    BY DEF Init
  <2>2. Found(Idle) = {} /\ Idle.at = "idle"
    BY DEF Found, Idle
  <2>3. 0 \in 0..MaxTries
    BY PatchAssumption DEF PatchAssumption
  <2> QED
    BY <2>1, <2>2, <2>3 DEF Init, QueueInv
<1>2. PoolInv
  BY DEF Init, PoolInv
<1>3. TodoInv
  BY DEF Init, TodoInv, Unread
<1> QED
  BY <1>1, <1>2, <1>3

Places == {"free", "waiting", "active", "completed", "failed"}
Sound(found) == \A c \in found : c.email \in Mails /\ c.email.domain \notin GovDomains

\* A run's place in the queue and what it remembers change together.
LEMMA JobMoves ==
  ASSUME QueueInv, RunInv, NEW s \in Searches, UNCHANGED brief,
         status' \in [Searches -> Places], \A t \in Searches \ {s} : status'[t] = status[t],
         tries' \in [Searches -> 0..MaxTries],
         DOMAIN order' = Searches, \A t \in Searches \ {s} : order'[t] = order[t],
         status'[s] \in {"waiting", "active"} => order'[s] \in Briefs,
         NEW w, work' = [work EXCEPT ![s] = w], w.at # "idle" => status'[s] = "active",
         Sound(Found(w))
  PROVE  QueueInv'
<1>1. work'[s] = w /\ \A t \in Searches \ {s} : work'[t] = work[t]
  BY DEF RunInv
<1>2. ASSUME NEW t \in Searches
      PROVE  /\ status'[t] \in {"waiting", "active"} => order'[t] \in Briefs
             /\ work'[t].at # "idle" => status'[t] = "active"
             /\ Sound(Found(work'[t]))
  BY <1>1 DEF QueueInv, Sound
<1>3. brief' \in [Searches -> Briefs \cup {NoBrief, Removed}]
  BY DEF QueueInv
<1> QED
  BY <1>2, <1>3 DEF QueueInv, Places, Sound

LEMMA LeaveQueue ==
  ASSUME QueueInv, RunInv, NEW s \in Searches, status[s] = "active",
         NEW left \in {"waiting", "completed", "failed"}, Leave(s, left)
  PROVE  QueueInv'
<1>1. /\ status' = [status EXCEPT ![s] = left] /\ work' = [work EXCEPT ![s] = Idle]
      /\ order' = IF left = "waiting" THEN order ELSE [order EXCEPT ![s] = NoBrief]
      /\ UNCHANGED <<brief, tries>>
  BY DEF Leave, searchVars
<1>2. /\ status' \in [Searches -> Places] /\ status'[s] = left
      /\ \A t \in Searches \ {s} : status'[t] = status[t]
  BY <1>1 DEF QueueInv, Places
<1>3. DOMAIN order' = Searches /\ \A t \in Searches \ {s} : order'[t] = order[t]
  BY <1>1 DEF QueueInv
<1>4. left = "waiting" => order'[s] \in Briefs
  BY <1>1 DEF QueueInv
<1>5. tries' \in [Searches -> 0..MaxTries]
  BY <1>1 DEF QueueInv
<1>6. Idle.at = "idle" /\ Sound(Found(Idle))
  BY DEF Idle, Found, Sound
<1> QED
  BY <1>1, <1>2, <1>3, <1>4, <1>5, <1>6, JobMoves

LEMMA FailQueue ==
  ASSUME QueueInv, RunInv, NEW s \in Searches, status[s] = "active", NEW retryable, Fail(s, retryable)
  PROVE  QueueInv'
<1>1. PICK left \in {"waiting", "failed"} : Leave(s, left)
  BY DEF Fail
<1> QED
  BY <1>1, LeaveQueue

LEMMA StayQueue ==
  ASSUME QueueInv, RunInv, NEW s \in Searches, status[s] = "active", NEW w, Stay(s, w), Sound(Found(w))
  PROVE  QueueInv'
<1>1. work' = [work EXCEPT ![s] = w] /\ UNCHANGED <<brief, status, tries, order>>
  BY DEF Stay, searchVars
<1>2. status' \in [Searches -> Places] /\ tries' \in [Searches -> 0..MaxTries] /\ DOMAIN order' = Searches
  BY <1>1 DEF QueueInv, Places
<1>3. order'[s] \in Briefs /\ status'[s] = "active"
  BY <1>1 DEF QueueInv
<1> QED
  BY <1>1, <1>2, <1>3, JobMoves

\* The queries of a search are among those the web answers, and what it answers
\* leads to mailboxes there are.
LEMMA DiscoverQueue ==
  ASSUME QueueInv, RunInv, NEW s \in Searches, Discover(s) PROVE QueueInv'
<1> DEFINE w == work[s]
           queries == Queries(order[s])
<1>1. w.at = "discover" /\ status[s] = "active" /\ order[s] \in Briefs /\ DOMAIN w = WorkFields
  BY DEF Discover, QueueInv, RunInv, Run
<1>2. queries \in Seq(DOMAIN search)
  BY <1>1, PatchAssumption DEF PatchAssumption, Briefs
<1>3. ASSUME NEW failed,
             Stay(s, [w EXCEPT !.at = "sift", !.failed = failed,
                               !.candidates = discover(search, queries, failed, FetchMax)])
      PROVE  QueueInv'
  <2>1. PICK found : found = discover(search, queries, failed, FetchMax)
    OBVIOUS
  <2>2. found \in Seq(Candidates)
    BY <1>2, <2>1, DiscoveredCandidates
  <2>3. PICK v : v = [w EXCEPT !.at = "sift", !.failed = failed, !.candidates = found]
    OBVIOUS
  <2>4. Stay(s, v)
    BY <1>3, <2>1, <2>3
  <2>5. v.candidates = found
    BY <1>1, <2>3 DEF WorkFields
  <2>6. Sound(Found(v))
    <3>1. ASSUME NEW c \in Candidates PROVE c.email \in Mails /\ c.email.domain \notin GovDomains
      <4>1. PICK e \in Agencylike, r \in Pages :
              c = [email |-> e, agencyName |-> agencyNameForEmail(e, r), websiteUrl |-> r.link]
        BY DEF Candidates
      <4>2. c.email = e
        BY <4>1
      <4> QED
        BY <4>2, AgencylikeIsMail
    <3> QED
      BY <2>2, <2>5, <3>1 DEF Sound, Found
  <2> QED
    BY <1>1, <2>4, <2>6, StayQueue
<1>4. ASSUME NEW retryable, Fail(s, retryable) PROVE QueueInv'
  BY <1>1, <1>4, FailQueue
<1>5. \/ \E retryable : Fail(s, retryable)
      \/ \E failed : Stay(s, [w EXCEPT !.at = "sift", !.failed = failed,
                                       !.candidates = discover(search, queries, failed, FetchMax)])
  BY DEF Discover
<1> QED
  BY <1>3, <1>4, <1>5

LEMMA SiftQueue ==
  ASSUME QueueInv, RunInv, NEW s \in Searches, Sift(s) PROVE QueueInv'
<1> DEFINE w == work[s]
           c == w.candidates[w.next]
           passed == [w EXCEPT !.next = @ + 1]
           skip == [passed EXCEPT !.counts.skipped = @ + 1]
           kept == [passed EXCEPT !.byDomain = Grouped(@, c)]
           out == [passed EXCEPT !.counts.classifiedOut = @ + 1]
<1>1. w.at = "sift" /\ status[s] = "active" /\ DOMAIN w = WorkFields /\ Sound(Found(w))
  BY DEF Sift, QueueInv, RunInv, Run, Sound
<1>2. skip.candidates = w.candidates /\ kept.candidates = w.candidates /\ out.candidates = w.candidates
  BY <1>1 DEF WorkFields
<1>3. Stay(s, skip) \/ Stay(s, kept) \/ Stay(s, out) \/ Fail(s, TRUE) \/ Fail(s, FALSE)
  BY DEF Sift
<1> HIDE DEF skip, kept, out
<1>4. ASSUME NEW v, Stay(s, v), v.candidates = w.candidates PROVE QueueInv'
  <2>1. Sound(Found(v))
    BY <1>1, <1>4 DEF Found
  <2> QED
    BY <1>1, <1>4, <2>1, StayQueue
<1>5. ASSUME NEW how, Fail(s, how) PROVE QueueInv'
  BY <1>1, <1>5, FailQueue
<1> QED
  BY <1>2, <1>3, <1>4, <1>5

LEMMA UpsertQueue ==
  ASSUME QueueInv, RunInv, NEW s \in Searches, Upsert(s) PROVE QueueInv'
<1> DEFINE w == work[s]
           group == Head(w.byDomain)
           c == Chosen(s, group)
           v == [w EXCEPT !.byDomain = Tail(@), !.written = @ \cup {c.email.domain},
                          !.counts.upserted = @ + 1, !.counts.collapsed = @ + Len(group) - 1]
<1>1. w.at = "sift" /\ status[s] = "active" /\ DOMAIN w = WorkFields /\ Sound(Found(w))
  BY DEF Upsert, Sifted, QueueInv, RunInv, Run, Sound
<1>2. v.candidates = w.candidates
  BY <1>1 DEF WorkFields
<1>3. Stay(s, v)
  BY DEF Upsert
<1> HIDE DEF v
<1>4. Sound(Found(v))
  BY <1>1, <1>2 DEF Found
<1> QED
  BY <1>1, <1>3, <1>4, StayQueue

LEMMA TakeQueue ==
  ASSUME QueueInv, RunInv, NEW s \in Searches, Take(s) PROVE QueueInv'
<1> DEFINE v == [Idle EXCEPT !.at = "discover", !.before = suppressed]
<1>1. /\ work' = [work EXCEPT ![s] = v] /\ status' = [status EXCEPT ![s] = "active"]
      /\ tries' = [tries EXCEPT ![s] = @ + 1] /\ UNCHANGED <<brief, order>>
      /\ status[s] = "waiting" /\ tries[s] < MaxTries
  BY DEF Take, searchVars
<1>2. v.candidates = <<>> /\ DOMAIN <<>> = {}
  BY DEF Idle
<1> HIDE DEF v
<1>3. Sound(Found(v))
  BY <1>2 DEF Found, Sound
<1>4. status' \in [Searches -> Places] /\ status'[s] = "active" /\ \A t \in Searches \ {s} : status'[t] = status[t]
  BY <1>1 DEF QueueInv, Places
<1>5. tries' \in [Searches -> 0..MaxTries]
  <2>1. MaxTries \in Nat /\ tries[s] \in 0..MaxTries
    BY PatchAssumption DEF PatchAssumption, QueueInv
  <2>2. tries[s] + 1 \in 0..MaxTries
    BY <1>1, <2>1
  <2> QED
    BY <1>1, <2>2 DEF QueueInv
<1>6. DOMAIN order' = Searches /\ order'[s] \in Briefs
  BY <1>1 DEF QueueInv
<1> QED
  BY <1>1, <1>3, <1>4, <1>5, <1>6, JobMoves

\* Writing, launching and removing a search leave its runs alone.
LEMMA WriteQueue ==
  ASSUME QueueInv, NEW s \in Searches, NEW b \in Briefs \cup {Removed}, brief' = [brief EXCEPT ![s] = b],
         UNCHANGED jobVars
  PROVE  QueueInv'
<1>1. brief' \in [Searches -> Briefs \cup {NoBrief, Removed}]
  BY DEF QueueInv
<1> QED
  BY <1>1 DEF QueueInv, jobVars

LEMMA LaunchQueue ==
  ASSUME QueueInv, NEW s \in Searches, launch(s) PROVE QueueInv'
<1>1. /\ status' = [status EXCEPT ![s] = "waiting"] /\ order' = [order EXCEPT ![s] = brief[s]]
      /\ UNCHANGED <<brief, tries, work>> /\ status[s] = "free"
  BY DEF launch, searchVars
<1>2. brief[s] \in Briefs
  BY DEF launch, Live, QueueInv
<1>3. status' \in [Searches -> {"free", "waiting", "active", "completed", "failed"}] /\ DOMAIN order' = Searches
  BY <1>1 DEF QueueInv
<1>4. ASSUME NEW t \in Searches
      PROVE  /\ status'[t] \in {"waiting", "active"} => order'[t] \in Briefs
             /\ work'[t].at # "idle" => status'[t] = "active"
  BY <1>1, <1>2 DEF QueueInv
<1> QED
  BY <1>1, <1>3, <1>4 DEF QueueInv

LEMMA EvictQueue ==
  ASSUME QueueInv, NEW s \in Searches, Evict(s) PROVE QueueInv'
<1>1. /\ status' = [status EXCEPT ![s] = "free"] /\ tries' = [tries EXCEPT ![s] = 0]
      /\ UNCHANGED <<brief, order, work>> /\ status[s] # "active"
  BY DEF Evict, searchVars
<1>2. status' \in [Searches -> {"free", "waiting", "active", "completed", "failed"}]
  BY <1>1 DEF QueueInv
<1>3. tries' \in [Searches -> 0..MaxTries]
  BY <1>1, PatchAssumption DEF PatchAssumption, QueueInv
<1>4. ASSUME NEW t \in Searches
      PROVE  /\ status'[t] \in {"waiting", "active"} => order'[t] \in Briefs
             /\ work'[t].at # "idle" => status'[t] = "active"
  BY <1>1 DEF QueueInv
<1> QED
  BY <1>1, <1>2, <1>3, <1>4 DEF QueueInv

LEMMA NextQueue == QueueInv /\ RunInv /\ [Next]_vars => QueueInv'
<1> SUFFICES ASSUME QueueInv, RunInv, [Next]_vars PROVE QueueInv'
  OBVIOUS
<1>1. ASSUME UNCHANGED <<brief, jobVars>> PROVE QueueInv'
  BY <1>1 DEF QueueInv, jobVars
<1>2. ASSUME NEW s \in Searches, Write(s) PROVE QueueInv'
  <2>1. PICK l \in DOMAIN Located : brief' = [brief EXCEPT ![s] = Brief(l)]
    BY <1>2, PatchAssumption DEF Write, PatchAssumption
  <2> QED
    BY <1>2, <2>1, WriteQueue DEF Write, Briefs
<1>3. ASSUME NEW s \in Searches, Complete(s) \/ Crash(s) PROVE QueueInv'
  <2>1. status[s] = "active"
    BY <1>3 DEF Complete, Sifted, Crash, QueueInv
  <2> QED
    BY <1>3, <2>1, LeaveQueue, FailQueue DEF Complete, Crash
<1>4. ASSUME NEW s \in Searches, Discovery(s) PROVE QueueInv'
  BY <1>3, <1>4, TakeQueue, DiscoverQueue, SiftQueue, UpsertQueue DEF Discovery
<1>5. ASSUME NEW r \in Removals, Removing(r) PROVE QueueInv'
  <2>1. CASE removeSearchCascade(r) /\ removal[r].search \in Live
    BY <2>1, WriteQueue DEF removeSearchCascade, Live
  <2>2. CASE ~(removeSearchCascade(r) /\ removal[r].search \in Live)
    BY <1>1, <1>5, <2>2 DEF Removing, ReadSearch, ReadOthers, ReadAgents, removeSearchCascade, searchVars
  <2> QED
    BY <2>1, <2>2
<1>6. CASE Pool
  BY <1>1, <1>6 DEF Pool, RemoveAgent, MarkContacted, Unsubscribe, runBackfill, EraseFlagged,
                    eraseAgentById, searchVars
<1>7. CASE UNCHANGED vars
  BY <1>1, <1>7 DEF vars, searchVars
<1> QED
  BY <1>2, <1>4, <1>5, <1>6, <1>7, LaunchQueue, EvictQueue DEF Next
-----------------------------------------------------------------------------
LEMMA VerdictKnown == \A answer : verify(answer) \in EmailDeliverability
<1> SUFFICES ASSUME NEW answer PROVE verify(answer) \in EmailDeliverability
  OBVIOUS
<1>1. \A r : classifyRcptReply(r) \in EmailDeliverability
  BY DEF classifyRcptReply, EmailDeliverability
<1>2. \A lines : probe(lines) \in EmailDeliverability
  BY <1>1 DEF probe, EmailDeliverability
<1>3. smtp(answer) \in EmailDeliverability
  BY <1>2 DEF smtp, EmailDeliverability
<1>4. zeroBounce(answer) \in EmailDeliverability
  BY DEF zeroBounce, mapZeroBounceResult, EmailDeliverability
<1>5. neverBounce(answer) \in EmailDeliverability
  BY DEF neverBounce, mapNeverBounceResult, EmailDeliverability
<1> QED
  BY <1>3, <1>4, <1>5 DEF verify

\* Rows that go, or keep their ids and verdicts.
LEMMA PoolKept ==
  ASSUME PoolInv, UNCHANGED minted, suppressed' \subseteq Mails,
         \A e \in DOMAIN agent' : /\ e \in DOMAIN agent /\ agent'[e].id = agent[e].id
                                  /\ agent'[e].emailVerifyStatus = agent[e].emailVerifyStatus
  PROVE  PoolInv'
  BY DEF PoolInv

LEMMA UpsertPool ==
  ASSUME PoolInv, QueueInv, RunInv, NEW s \in Searches, Upsert(s) PROVE PoolInv'
<1> DEFINE group == Head(work[s].byDomain)
           c == Chosen(s, group)
           e == c.email
<1>1. PICK v \in EmailDeliverability : upsertByEmail(c, order[s].outcodes, v)
  BY VerdictKnown DEF Upsert
<1>2. suppressed' = suppressed
  BY DEF Upsert, Stay
<1>3. e \in Mails /\ e.domain \notin FREE_MAIL_DOMAINS \cup PORTAL_DOMAINS \cup GovDomains
  <2>1. Fit(work[s], e) /\ \E k \in DOMAIN group : c = group[k]
    BY ChosenIsFit DEF Upsert
  <2>2. /\ work[s].byDomain \in Seq(Seq(Found(work[s]))) /\ Apart(work[s].byDomain)
        /\ IsFiniteSet(Waiting(work[s].byDomain)) /\ work[s].byDomain # <<>>
    BY DEF RunInv, Run, Upsert
  <2>3. group \in Seq(Found(work[s]))
    BY <2>2
  <2>4. c \in Found(work[s])
    <3> HIDE DEF group, c
    <3> QED
      BY <2>1, <2>3
  <2> QED
    BY <2>1, <2>4 DEF QueueInv, Fit
<1> DEFINE old == IF e \in DOMAIN agent THEN agent[e]
                  ELSE [id |-> minted[e] + 1, optedOut |-> FALSE, contacted |-> FALSE]
           row == [id |-> old.id, optedOut |-> old.optedOut, contacted |-> old.contacted,
                   agencyName |-> c.agencyName, website |-> agentWebsite(e, c.websiteUrl),
                   coveredOutcodes |-> order[s].outcodes, emailVerifyStatus |-> v]
<1>4. /\ agent' = [d \in DOMAIN agent \cup {e} |-> IF d = e THEN row ELSE agent[d]]
      /\ minted' = [minted EXCEPT ![e] = old.id]
  BY <1>1 DEF upsertByEmail
<1>5. old.id \in Nat \ {0}
  <2>1. CASE e \in DOMAIN agent
    <3>1. agent[e].id \in 1..minted[e] /\ minted[e] \in Nat
      BY <1>3, <2>1 DEF PoolInv
    <3> QED
      BY <2>1, <3>1
  <2>2. CASE e \notin DOMAIN agent
    <3>1. minted[e] \in Nat
      BY <1>3 DEF PoolInv
    <3> QED
      BY <2>2, <3>1
  <2> QED
    BY <2>1, <2>2
<1>6. row.id = old.id /\ row.emailVerifyStatus = v
  OBVIOUS
<1> HIDE DEF old, row, e
<1>7. minted' \in [Mails -> Nat] /\ minted'[e] = old.id /\ \A d \in Mails \ {e} : minted'[d] = minted[d]
  BY <1>3, <1>4, <1>5 DEF PoolInv
<1>8. ASSUME NEW d \in DOMAIN agent'
      PROVE /\ d \in Mails /\ d.domain \notin FREE_MAIL_DOMAINS \cup PORTAL_DOMAINS \cup GovDomains
            /\ agent'[d].id \in 1..minted'[d] /\ agent'[d].emailVerifyStatus \in EmailDeliverability
  <2>1. CASE d = e
    <3>1. agent'[d] = row
      BY <1>4, <2>1
    <3>2. old.id \in 1..old.id
      BY <1>5
    <3> QED
      BY <1>3, <1>6, <1>7, <2>1, <3>1, <3>2
  <2>2. CASE d # e
    <3>1. d \in DOMAIN agent /\ agent'[d] = agent[d]
      BY <1>4, <2>2
    <3>2. d \in Mails
      BY <3>1 DEF PoolInv
    <3> QED
      BY <1>7, <2>2, <3>1, <3>2 DEF PoolInv
  <2> QED
    BY <2>1, <2>2
<1> QED
  BY <1>2, <1>7, <1>8 DEF PoolInv

LEMMA NextPool == Inv /\ QueueInv /\ RunInv /\ PoolInv /\ [Next]_vars => PoolInv'
<1> SUFFICES ASSUME Inv, QueueInv, RunInv, PoolInv, [Next]_vars PROVE PoolInv'
  OBVIOUS
<1>1. ASSUME UNCHANGED <<poolVars, suppressed>> PROVE PoolInv'
  BY <1>1 DEF PoolInv, poolVars
<1>2. ASSUME NEW mails, agent' = Without(mails), UNCHANGED <<minted, suppressed>> PROVE PoolInv'
  BY <1>2, PoolKept DEF Without, PoolInv
<1>3. ASSUME NEW s \in Searches, Write(s) \/ launch(s) \/ Evict(s) PROVE PoolInv'
  BY <1>1, <1>3 DEF Write, launch, Evict
<1>4. ASSUME NEW s \in Searches, Discovery(s), ~Upsert(s) PROVE PoolInv'
  BY <1>1, <1>4 DEF Discovery, Take, Discover, Sift, Complete, Crash, Fail, Leave, Stay
<1>5. ASSUME NEW r \in Removals, Removing(r) PROVE PoolInv'
  <2>1. CASE removeSearchCascade(r) /\ removal[r].search \in Live
    BY <1>2, <2>1 DEF removeSearchCascade
  <2>2. CASE ~(removeSearchCascade(r) /\ removal[r].search \in Live)
    BY <1>1, <1>5, <2>2 DEF Removing, ReadSearch, ReadOthers, ReadAgents, removeSearchCascade, poolVars
  <2> QED
    BY <2>1, <2>2
<1>6. ASSUME NEW e, MarkContacted(e) PROVE PoolInv'
  <2> DEFINE row == [agent[e] EXCEPT !.contacted = TRUE]
  <2>1. e \in DOMAIN agent /\ UNCHANGED <<minted, suppressed>> /\ agent' = [agent EXCEPT ![e] = row]
    BY <1>6 DEF MarkContacted
  <2>2. row.id = agent[e].id /\ row.emailVerifyStatus = agent[e].emailVerifyStatus
    BY <2>1 DEF Inv, Shape, RowFields
  <2> HIDE DEF row
  <2>3. DOMAIN agent' = DOMAIN agent /\ agent'[e] = row /\ \A d \in DOMAIN agent \ {e} : agent'[d] = agent[d]
    BY <2>1
  <2>4. suppressed' \subseteq Mails
    BY <2>1 DEF PoolInv
  <2> QED
    BY <2>1, <2>2, <2>3, <2>4, PoolKept
<1>7. ASSUME NEW e, Unsubscribe(e) PROVE PoolInv'
  <2> DEFINE Row(d) == [agent[d] EXCEPT !.optedOut = @ \/ d = e]
  <2>1. /\ e \in Unsubscribers /\ suppressed' = suppressed \cup {e} /\ UNCHANGED minted
        /\ agent' = [d \in DOMAIN agent |-> Row(d)]
    BY <1>7 DEF Unsubscribe
  <2>2. \A d \in DOMAIN agent : Row(d).id = agent[d].id /\ Row(d).emailVerifyStatus = agent[d].emailVerifyStatus
    BY DEF Inv, Shape, RowFields
  <2> HIDE DEF Row
  <2>3. suppressed' \subseteq Mails
    BY <2>1, PatchAssumption DEF PatchAssumption, PoolInv
  <2> QED
    BY <2>1, <2>2, <2>3, PoolKept
<1>8. ASSUME NEW e, eraseAgentById(e) PROVE PoolInv'
  BY <1>2, <1>8 DEF eraseAgentById
<1>9. CASE runBackfill
  BY <1>1, <1>9 DEF runBackfill
<1>10. CASE EraseFlagged
  BY <1>1, <1>8, <1>10 DEF EraseFlagged
<1>11. CASE UNCHANGED vars
  BY <1>1, <1>11 DEF vars
<1> QED
  BY <1>3, <1>4, <1>5, <1>6, <1>7, <1>8, <1>9, <1>10, <1>11, UpsertPool DEF Next, Pool, RemoveAgent

LEMMA NextTodo == Inv /\ TodoInv /\ [Next]_vars => TodoInv'
<1> SUFFICES ASSUME Inv, TodoInv, [Next]_vars, NEW r \in Removals
             PROVE  removal'[r].todo \subseteq {"others", "agents"}
  BY DEF TodoInv
<1>1. CASE Undisturbed(r)
  BY <1>1 DEF Undisturbed, Follows, TodoInv
<1>2. ASSUME NEW v, removal' = [removal EXCEPT ![r] = v],
             v.todo \subseteq {"others", "agents"}
      PROVE removal'[r].todo \subseteq {"others", "agents"}
  BY <1>2 DEF Inv, Shape
<1>3. DOMAIN removal[r] = ReadFields /\ DOMAIN Unread = ReadFields /\ Unread.todo = {}
  BY DEF Inv, Shape, Unread, ReadFields
<1>4. ASSUME NEW s \in Searches, ReadSearch(r, s) PROVE removal'[r].todo \subseteq {"others", "agents"}
  <2>1. PICK todo \in {{"others", "agents"}, {}} :
          removal' = [removal EXCEPT ![r] = [Unread EXCEPT !.at = "read", !.search = s, !.outcodes = Patch(s),
                                                           !.todo = todo]]
    BY <1>4 DEF ReadSearch
  <2>2. [Unread EXCEPT !.at = "read", !.search = s, !.outcodes = Patch(s), !.todo = todo].todo = todo
    BY <1>3 DEF ReadFields
  <2> QED
    BY <1>2, <2>1, <2>2
<1>5. CASE ReadOthers(r)
  <2>1. PICK others : removal' = [removal EXCEPT ![r] = [removal[r] EXCEPT !.todo = @ \ {"others"}, !.others = others]]
    BY <1>5 DEF ReadOthers
  <2>2. [removal[r] EXCEPT !.todo = @ \ {"others"}, !.others = others].todo = removal[r].todo \ {"others"}
    BY <1>3 DEF ReadFields
  <2> QED
    BY <1>2, <2>1, <2>2 DEF TodoInv
<1>6. CASE ReadAgents(r)
  <2>1. PICK agents : removal' = [removal EXCEPT ![r] = [removal[r] EXCEPT !.todo = @ \ {"agents"}, !.agents = agents]]
    BY <1>6 DEF ReadAgents
  <2>2. [removal[r] EXCEPT !.todo = @ \ {"agents"}, !.agents = agents].todo = removal[r].todo \ {"agents"}
    BY <1>3 DEF ReadFields
  <2> QED
    BY <1>2, <2>1, <2>2 DEF TodoInv
<1>7. CASE removeSearchCascade(r)
  <2>1. PICK at : removal'[r] = [Unread EXCEPT !.at = at]
    BY <1>7 DEF removeSearchCascade, Inv, Shape
  <2>2. [Unread EXCEPT !.at = at].todo = {}
    BY <1>3 DEF ReadFields
  <2> QED
    BY <2>1, <2>2
<1> QED
  BY <1>1, <1>4, <1>5, <1>6, <1>7, Steps DEF Removing

\* Whatever the web answers and however runs, edits, removals and opt-outs
\* interleave: a job that runs has a live payload, no attempt is one too many, and
\* the pool holds no webmail, no portal and no council.
THEOREM PoolSound == Spec => []TypeOK
<1>1. QueueInv /\ PoolInv /\ TodoInv => TypeOK
  <2> SUFFICES ASSUME QueueInv, PoolInv, TodoInv PROVE TypeOK
    OBVIOUS
  <2>1. \A s \in Live : brief[s] = Brief(brief[s].location)
    <3>1. ASSUME NEW s \in Live PROVE brief[s] = Brief(brief[s].location)
      <4>1. PICK l \in DOMAIN Located : brief[s] = Brief(l)
        BY <3>1 DEF Live, QueueInv, Briefs
      <4>2. Brief(l).location = l
        BY DEF Brief
      <4> QED
        BY <4>1, <4>2
    <3> QED
      BY <3>1
  <2> QED
    BY <2>1 DEF QueueInv, PoolInv, TodoInv, TypeOK
<1>2. Init => Inv /\ RunInv /\ QueueInv /\ PoolInv /\ TodoInv
  BY InitInv, InitRun, InitPlaces
<1>3. Inv /\ RunInv /\ QueueInv /\ PoolInv /\ TodoInv /\ [Next]_vars
        => Inv' /\ RunInv' /\ QueueInv' /\ PoolInv' /\ TodoInv'
  BY Steps, NextRun, NextQueue, NextPool, NextTodo
<1> QED
  BY <1>1, <1>2, <1>3, PTL DEF Spec
=============================================================================
