---------------------------- MODULE SearchScoring ----------------------------
(* Scores of listings against saved searches. Two kinds of jobs write them:    *)
(* analyze:listing, when a listing arrives, and analyze:recompute, when a      *)
(* search changes (one search) or the settings do (all of them). Both work on  *)
(* rows they read earlier, while the router edits, pauses and removes searches.*)
(* ANALYSIS_KILL_SWITCH, which ends every job at its start, is off.            *)
EXTENDS Integers, Sequences, FiniteSets, SequencesExt, AiProviders

CONSTANTS
  Searches, Operators, \* searches; those of the operator (userId null)
  BriefsOf,       \* per search: the contents of its successive versions
  Listings, Home, \* listings; what a brief can look at in each
  Photos,         \* per listing: its images, in the order getPhotos returns them
  All,            \* the job that recomputes every active search
  Budget,         \* ANALYSIS_MONTHLY_BUDGET_PENCE, in images; 0 is no limit
  TopK, MaxSearchesPerListing, \* MATCH_TOP_K, MATCH_MAX_SEARCHES_PER_LISTING
  Workers,        \* jobs of one queue that run at a time
  Faulty,         \* bound: the jobs whose attempts fail, see Reject, and whose records are evicted
  Unsettled,      \* bound: the searches the operator works on; the others are active from the start
  MaxTries,       \* starts of a job: its attempts and the stall it survives
  MaxCalls        \* bound: handlers of one search between its write and enqueue

Jobs == Listings \cup Searches \cup {All}
Versions(s) == 0..Len(BriefsOf[s])
AllVersions == UNION {Versions(s) : s \in Searches}
Null == 0 \* a nullable column without value

ASSUME ScoringAssumption ==
  /\ Operators \subseteq Searches /\ Unsettled \subseteq Searches
  /\ All \notin Listings \cup Searches /\ Listings \cap Searches = {}
  /\ IsFiniteSet(Listings) /\ IsFiniteSet(Searches)
  /\ \A s \in Searches : BriefsOf[s] \in Seq([words : BOOLEAN, beds : Nat, price : Nat, outcodes : SUBSET Nat])
  /\ Home \in [Listings -> [outcode : Nat, beds : Nat, price : Nat]]
  /\ \A l \in Listings : Photos[l] \in Seq(Range(Photos[l]))
  /\ Budget \in Nat /\ TopK \in Nat /\ MaxSearchesPerListing \in Nat
  /\ Workers \in Nat \ {0} /\ MaxTries \in Nat \ {0} /\ MaxCalls \in Nat

VARIABLES
  life, active, brief, vec, \* Search: row, status, version of its content and of keywordsEmbedding
  recent,     \* the searches, last updated first
  embedded,   \* listings with an embedding
  analysed,   \* imageHash of the PhotoAnalysis rows
  score,      \* ListingScore: per listing and search, the versions it was made from
  status, tries, \* per job: its place in the queue, its starts
  work,       \* per job: what the running attempt remembers
  calls,      \* per search: handlers that have written but not yet enqueued
  owed,       \* history: per listing, the searches that have deserved a score since its job listed them
  ranked,     \* history: per search, the candidates of its last own recompute
  lost        \* history: searches whose last edit may have missed its recompute

searchVars == <<life, active, brief, vec, recent>>
resultVars == <<embedded, analysed, score>>
queueVars == <<status, tries>>
vars == <<searchVars, resultVars, queueVars, work, calls, owed, ranked, lost>>

Unscored == [vec |-> 0, text |-> 0]
Idle == [at |-> "idle", photo |-> 1, todo |-> <<>>, vec |-> 0, left |-> {}]
Init ==
  /\ life = [s \in Searches |-> IF s \in Unsettled THEN "new" ELSE "live"]
  /\ active = [s \in Searches |-> s \notin Unsettled]
  /\ brief = [s \in Searches |-> IF s \in Unsettled THEN 0 ELSE 1]
  /\ vec = [s \in Searches |-> 0]
  /\ recent = SetToSeq(Searches \ Unsettled)
  /\ embedded = {} /\ analysed = {}
  /\ score = [l \in Listings |-> [s \in Searches |-> Unscored]]
  /\ status = [j \in Jobs |-> "free"] /\ tries = [j \in Jobs |-> 0]
  /\ work = [j \in Jobs |-> Idle]
  /\ calls = [s \in Searches |-> 0]
  /\ owed = [l \in Listings |-> {}] /\ ranked = [s \in Searches |-> {}] /\ lost = Searches \ Unsettled
-----------------------------------------------------------------------------
(* What a brief says *)

Live(s) == life[s] = "live"
Content(x) == BriefsOf[x.search][x.text]

\* Outcodes alone are WHERE, not WHAT.
searchHasTaste(b) == b.words \/ b.beds # Null \/ b.price # Null

\* A column without value passes no comparison; an empty outcode set is no filter.
buildSearchPrefilter(b) ==
  {l \in Listings :
     /\ b.beds # Null => Home[l].beds # Null /\ Home[l].beds >= b.beds
     /\ b.price # Null => Home[l].price # Null /\ Home[l].price <= b.price
     /\ b.outcodes # {} => Home[l].outcode \in b.outcodes}

\* The nearest K of the embedded listings that pass the filter; which are nearest
\* is up to the vectors.
vectorTopK(b) ==
  LET near == embedded \cap buildSearchPrefilter(b)
  IN  {c \in SUBSET near :
         Cardinality(c) = IF Cardinality(near) < TopK THEN Cardinality(near) ELSE TopK}

\* The members of S in q, in their order.
KeptTo(q, S) ==
  LET kept[i \in 0..Len(q)] ==
        IF i = 0 THEN <<>>
        ELSE IF q[i] \in S THEN Append(kept[i - 1], q[i]) ELSE kept[i - 1]
  IN  kept
Kept(q, S) == KeptTo(q, S)[Len(q)]

Row(s) == [search |-> s, text |-> brief[s]]
listActive == Kept(recent, {s \in Operators : active[s]})
Prefix(q, n) == SubSeq(q, 1, IF Len(q) < n THEN Len(q) ELSE n)

Covering(l, found) ==
  {s \in Range(found) : Home[l].outcode \in BriefsOf[s][brief[s]].outcodes}
listActiveByOutcode(l) ==
  LET found == listActive
  IN  Prefix(Kept(found, Covering(l, found)), MaxSearchesPerListing)

\* The searches a score of l is owed to as things stand.
Deserving(l) ==
  {s \in Range(listActiveByOutcode(l)) : searchHasTaste(BriefsOf[s][brief[s]])}
-----------------------------------------------------------------------------
(* The queue *)

\* A job id stays taken while the job runs and as long as it is retained.
Enqueue(j) ==
  IF status[j] = "free"
  THEN status' = [status EXCEPT ![j] = "waiting"] /\ UNCHANGED tries
  ELSE UNCHANGED queueVars

QueueOf(j) == IF j \in Listings THEN Listings ELSE Searches \cup {All}

\* The worker takes the job up and its attempt runs to the first await that counts.
Take(j) ==
  /\ status[j] = "waiting"
  /\ Cardinality({i \in QueueOf(j) : status[i] = "active"}) < Workers

Active(j, w) ==
  status' = [status EXCEPT ![j] = "active"] /\ work' = [work EXCEPT ![j] = w]
Begin(j, w) == Active(j, w) /\ tries' = [tries EXCEPT ![j] = @ + 1]
Set(j, w) == Active(j, w) /\ UNCHANGED tries

End(j, how) ==
  /\ status' = [status EXCEPT ![j] = how]
  /\ tries' = IF how = "waiting" THEN tries ELSE [tries EXCEPT ![j] = 0]
  /\ work' = [work EXCEPT ![j] = Idle]

\* A search whose own recompute fails for good keeps what it had.
Missed(j) == IF j \in Searches THEN lost \cup {j} ELSE lost

\* The score to be written has lost its search: the write violates the foreign key.
Orphaned(j) == work[j].at \in {"match", "score"} /\ ~Live(Head(work[j].todo).search)

\* An await rejects with something retryable, or the worker stalls. The bound leaves
\* out no write that violates the foreign key.
Reject(j) ==
  /\ j \in Faulty \/ Orphaned(j)
  /\ status[j] = "active"
  /\ End(j, IF tries[j] < MaxTries THEN "waiting" ELSE "failed")
  /\ lost' = IF tries[j] < MaxTries THEN lost ELSE Missed(j)
  /\ UNCHANGED <<searchVars, resultVars, calls, ranked>>

\* What the provider that is called at a place may come to.
OutcomesAt(at) ==
  CASE at = "photo" -> PhotoOutcomes \cup EmbedOutcomes
    [] at = "taste" -> EmbedOutcomes
    [] at \in {"match", "score"} -> MatchOutcomes
    [] OTHER -> {}

\* UnrecoverableError: an answer of the provider that no retry will mend.
Drop(j) ==
  /\ j \in Faulty /\ status[j] = "active" /\ "drop" \in OutcomesAt(work[j].at)
  /\ End(j, "failed")
  /\ lost' = Missed(j)
  /\ UNCHANGED <<searchVars, resultVars, calls, ranked>>

\* removeOnComplete and removeOnFail drop the oldest retained job.
Evict(j) ==
  /\ j \in Faulty /\ status[j] \in {"completed", "failed"}
  /\ End(j, "free")
  /\ UNCHANGED <<searchVars, resultVars, calls, ranked, lost>>
-----------------------------------------------------------------------------
(* The router *)

\* An attempt that read the row of s before its last edit.
Overtaken(s, v) ==
  \E j \in Jobs : \E i \in DOMAIN work[j].todo :
    work[j].todo[i].search = s /\ work[j].todo[i].text < v

ToFront(s) == <<s>> \o Kept(recent, Searches \ {s})

Write(s, v, st) ==
  /\ calls[s] < MaxCalls
  /\ brief' = [brief EXCEPT ![s] = v] /\ active' = [active EXCEPT ![s] = st]
  /\ recent' = ToFront(s)
  /\ calls' = [calls EXCEPT ![s] = @ + 1]
  /\ lost' = IF v = brief[s] THEN lost
             ELSE IF Overtaken(s, v) THEN lost \cup {s} ELSE lost \ {s}
  /\ UNCHANGED <<vec, resultVars, queueVars, work, ranked>>

create(s) ==
  /\ life[s] = "new"
  /\ life' = [life EXCEPT ![s] = "live"]
  /\ \E st \in BOOLEAN : Write(s, 1, st)

update(s) ==
  /\ Live(s) /\ brief[s] < Len(BriefsOf[s])
  /\ \E st \in BOOLEAN : Write(s, brief[s] + 1, st)
  /\ UNCHANGED life

setStatus(s) ==
  /\ Live(s)
  /\ Write(s, brief[s], ~active[s])
  /\ UNCHANGED life

\* The handler goes on with the row as it read it back, perhaps just before the
\* search was removed. An enqueue that is refused because the id is taken reports
\* success.
maybeTriggerRecompute(s) ==
  /\ calls[s] > 0
  /\ calls' = [calls EXCEPT ![s] = @ - 1]
  /\ \E on \in IF Live(s) THEN {active[s]} ELSE BOOLEAN :
       IF s \in Operators /\ on
       THEN /\ Enqueue(s)
            /\ lost' = IF status[s] \in {"free", "waiting"} THEN lost ELSE lost \cup {s}
       ELSE UNCHANGED <<queueVars, lost>>
  /\ UNCHANGED <<searchVars, resultVars, work, ranked>>

\* The enqueue fails, which is logged and swallowed, or the API dies before it.
TriggerFails(s) ==
  /\ calls[s] > 0
  /\ calls' = [calls EXCEPT ![s] = @ - 1]
  /\ lost' = lost \cup {s}
  /\ UNCHANGED <<searchVars, resultVars, queueVars, work, ranked>>

\* The search's scores go with it (onDelete: Cascade).
remove(s) ==
  /\ Live(s)
  /\ life' = [life EXCEPT ![s] = "gone"]
  /\ recent' = Kept(recent, Searches \ {s})
  /\ active' = [active EXCEPT ![s] = FALSE]
  /\ brief' = [brief EXCEPT ![s] = 0] /\ vec' = [vec EXCEPT ![s] = 0]
  /\ score' = [l \in Listings |-> [score[l] EXCEPT ![s] = Unscored]]
  /\ ranked' = [ranked EXCEPT ![s] = {}]
  /\ UNCHANGED <<embedded, analysed, queueVars, work, calls, lost>>

\* preferences.update, and the ingestion of a listing.
SavePreferences ==
  Enqueue(All) /\ UNCHANGED <<searchVars, resultVars, work, calls, ranked, lost>>

enqueueAnalyze(l) ==
  Enqueue(l) /\ UNCHANGED <<searchVars, resultVars, work, calls, ranked, lost>>
-----------------------------------------------------------------------------
(* Both kinds of jobs *)

At(j, at) == status[j] = "active" /\ work[j].at = at
Current(j) == Head(work[j].todo)

\* On with the next search, if there is one.
Onward(j, todo) ==
  IF todo = <<>> THEN End(j, "completed")
  ELSE Set(j, [Idle EXCEPT !.at = IF j \in Listings THEN "read" ELSE "taste", !.todo = todo])

\* Mutant: Embeds a search only once.
writeKeywordsEmbedding_Once(j) ==
  /\ At(j, "taste") /\ "ok" \in EmbedOutcomes
  /\ vec' = IF Live(Current(j).search) /\ vec[Current(j).search] = 0
            THEN [vec EXCEPT ![Current(j).search] = Current(j).text] ELSE vec
  /\ Set(j, [work[j] EXCEPT !.at = IF j \in Listings THEN "match" ELSE "rank",
                            !.vec = Current(j).text])
  /\ UNCHANGED <<life, active, brief, recent, resultVars, calls, ranked, lost>>

\* Embeds the brief the job has read. The write goes by id and does not look at
\* the version; a search that is gone is no row to write.
writeKeywordsEmbedding(j) ==
  /\ At(j, "taste") /\ "ok" \in EmbedOutcomes
  /\ vec' = IF Live(Current(j).search) THEN [vec EXCEPT ![Current(j).search] = Current(j).text] ELSE vec
  /\ Set(j, [work[j] EXCEPT !.at = IF j \in Listings THEN "match" ELSE "rank",
                            !.vec = Current(j).text])
  /\ UNCHANGED <<life, active, brief, recent, resultVars, calls, ranked, lost>>

\* Mutant: No foreign key to the search.
upsertByListingAndSearch_NoKey(l, x, v) ==
  score' = [score EXCEPT ![l][x.search] = [vec |-> v, text |-> x.text]]

\* A score of a search that is gone violates its foreign key, see Reject.
upsertByListingAndSearch(l, x, v) ==
  /\ Live(x.search)
  /\ score' = [score EXCEPT ![l][x.search] = [vec |-> v, text |-> x.text]]
-----------------------------------------------------------------------------
(* recomputeSearch and recomputeAll *)

Tasteful(rows) == Kept(rows, {x \in Range(rows) : searchHasTaste(Content(x))})

\* The rows read here are those the whole run works on. A paused search is not
\* refused, a blank one is skipped.
Load(j) ==
  /\ j \notin Listings /\ Take(j)
  /\ LET found == IF j = All THEN listActive
                  ELSE IF j \in Operators /\ Live(j) THEN <<j>> ELSE <<>>
         rows == [i \in DOMAIN found |-> Row(found[i])]
         todo == Tasteful(rows)
     IN  IF todo = <<>> THEN End(j, "completed")
         ELSE Begin(j, [Idle EXCEPT !.at = "taste", !.todo = todo])
  /\ lost' = IF j # All /\ Live(j) /\ ~Overtaken(j, brief[j]) THEN lost \ {j} ELSE lost
  /\ UNCHANGED <<searchVars, resultVars, calls, ranked>>

Rank(j) ==
  /\ At(j, "rank")
  /\ \E c \in vectorTopK(Content(Current(j))) :
       /\ IF c = {} THEN Onward(j, Tail(work[j].todo))
          ELSE Set(j, [work[j] EXCEPT !.at = "score", !.left = c])
       /\ ranked' = IF j = Current(j).search THEN [ranked EXCEPT ![j] = c] ELSE ranked
  /\ UNCHANGED <<searchVars, resultVars, calls, lost>>

ScoreCandidate(j) ==
  /\ At(j, "score") /\ "ok" \in MatchOutcomes
  /\ \E l \in work[j].left :
       /\ upsertByListingAndSearch(l, Current(j), work[j].vec)
       /\ IF work[j].left = {l} THEN Onward(j, Tail(work[j].todo))
          ELSE Set(j, [work[j] EXCEPT !.left = @ \ {l}])
  /\ UNCHANGED <<searchVars, embedded, analysed, calls, ranked, lost>>
-----------------------------------------------------------------------------
(* analyzeListing *)

\* Mutant: Stops only above the budget.
CheckBudget_Above(l) ==
  /\ Take(l)
  /\ IF Budget > 0 /\ Cardinality(analysed) > Budget
     THEN End(l, "completed")
     ELSE Begin(l, [Idle EXCEPT !.at = "photo"])
  /\ UNCHANGED <<searchVars, resultVars, calls, ranked, lost>>

\* The month's spend is looked at once, before the first image.
CheckBudget(l) ==
  /\ Take(l)
  /\ IF Budget > 0 /\ Cardinality(analysed) >= Budget
     THEN End(l, "completed")
     ELSE Begin(l, [Idle EXCEPT !.at = "photo"])
  /\ UNCHANGED <<searchVars, resultVars, calls, ranked, lost>>

\* An image that is on record is not paid for again; the record of one that is
\* paid for follows one statement later.
ScorePhoto(l) ==
  /\ At(l, "photo") /\ work[l].photo <= Len(Photos[l])
  /\ IF Photos[l][work[l].photo] \in analysed
     THEN Set(l, [work[l] EXCEPT !.photo = @ + 1])
     ELSE "ok" \in PhotoOutcomes /\ Set(l, [work[l] EXCEPT !.at = "record"])
  /\ UNCHANGED <<searchVars, resultVars, calls, ranked, lost>>

RecordPhoto(l) ==
  /\ At(l, "record")
  /\ analysed' = analysed \cup {Photos[l][work[l].photo]}
  /\ Set(l, [work[l] EXCEPT !.at = "photo", !.photo = @ + 1])
  /\ UNCHANGED <<searchVars, embedded, score, calls, ranked, lost>>

EmbedListing(l) ==
  /\ At(l, "photo") /\ work[l].photo > Len(Photos[l]) /\ "ok" \in EmbedOutcomes
  /\ embedded' = embedded \cup {l}
  /\ Set(l, [Idle EXCEPT !.at = "list"])
  /\ UNCHANGED <<searchVars, analysed, score, calls, ranked, lost>>

\* Mutant: Takes the last edited searches before it looks at their outcodes.
ListSearches_LimitFirst(l) ==
  /\ At(l, "list")
  /\ LET last == Prefix(listActive, MaxSearchesPerListing)
         found == Kept(last, Covering(l, last))
     IN  Onward(l, [i \in DOMAIN found |-> Row(found[i])])
  /\ UNCHANGED <<searchVars, resultVars, calls, ranked, lost>>

ListSearches(l) ==
  /\ At(l, "list")
  /\ LET found == listActiveByOutcode(l)
     IN  Onward(l, [i \in DOMAIN found |-> Row(found[i])])
  /\ UNCHANGED <<searchVars, resultVars, calls, ranked, lost>>

\* scoreListing reuses the vector it finds, whatever brief that is of, and looks at
\* the taste only when there is none.
ReadVector(l) ==
  /\ At(l, "read")
  /\ LET found == IF Live(Current(l).search) THEN vec[Current(l).search] ELSE 0
     IN  IF found # 0 THEN Set(l, [work[l] EXCEPT !.at = "match", !.vec = found])
         ELSE IF searchHasTaste(Content(Current(l))) THEN Set(l, [work[l] EXCEPT !.at = "taste"])
         ELSE Onward(l, Tail(work[l].todo))
  /\ UNCHANGED <<searchVars, resultVars, calls, ranked, lost>>

ScoreListing(l) ==
  /\ At(l, "match") /\ "ok" \in MatchOutcomes
  /\ upsertByListingAndSearch(l, Current(l), work[l].vec)
  /\ Onward(l, Tail(work[l].todo))
  /\ UNCHANGED <<searchVars, embedded, analysed, calls, ranked, lost>>
-----------------------------------------------------------------------------
SearchCall(s) ==
  create(s) \/ update(s) \/ setStatus(s) \/ maybeTriggerRecompute(s) \/ TriggerFails(s) \/ remove(s)
AnalyzeStep(l) ==
  \/ CheckBudget(l) \/ ScorePhoto(l) \/ RecordPhoto(l) \/ EmbedListing(l)
  \/ ListSearches(l) \/ ReadVector(l) \/ ScoreListing(l)
RecomputeStep(j) == Load(j) \/ Rank(j) \/ ScoreCandidate(j)
JobStep(j) == Reject(j) \/ Drop(j) \/ Evict(j) \/ writeKeywordsEmbedding(j)

Step ==
  \/ \E s \in Unsettled : SearchCall(s)
  \/ \E l \in Listings : enqueueAnalyze(l) \/ AnalyzeStep(l)
  \/ SavePreferences
  \/ \E j \in Jobs : JobStep(j) \/ RecomputeStep(j)

\* A listing is owed what it has deserved in every state since its job listed the
\* searches.
Remember ==
  owed' = [l \in Listings |->
             IF status'[l] \in {"free", "waiting", "failed"} THEN {}
             ELSE IF work[l].at = "list" THEN Deserving(l)'
             ELSE {s \in owed[l] : s \in Deserving(l)'}]

Next == Step /\ Remember
Spec == Init /\ [][Next]_vars
-----------------------------------------------------------------------------
(* Properties *)

\* A listing whose analysis completed has a score against every active search of
\* the operator that covered its outcode, had a taste and was among the last
\* edited ones ever since its job listed them, although they are embedded and
\* scored one by one while others are edited and removed
\* (analyzeListing, scoreListing).
AnalysedIsScored ==
  \A l \in Listings : status[l] = "completed" =>
    \A s \in owed[l] : score[l][s] # Unscored

\* When no recompute of an active search is under way, its vector and the scores
\* of its candidates are those of its latest brief, unless the edit's trigger
\* failed, met an id that was still taken, or overtook a job that had already read
\* the older brief (maybeTriggerRecompute, recomputeForSearch).
EditReachesScores ==
  \A s \in Operators \ lost :
    Live(s) /\ active[s] /\ searchHasTaste(BriefsOf[s][brief[s]]) /\ calls[s] = 0
      /\ status[s] \notin {"waiting", "active"}
    => /\ vec[s] = brief[s]
       /\ \A l \in ranked[s] : score[l][s].text = brief[s]

\* The recorded spend overshoots the budget by at most the images of the jobs that
\* run at a time, because each looks at the budget once, before its first image
\* (killSwitchReason).
SpendBounded ==
  Budget > 0 => Cardinality(analysed)
    <= Budget - 1 + Workers * Max({0} \cup {Len(Photos[l]) : l \in Listings})

\* No score outlives its search (ListingScore.search, onDelete: Cascade).
RemovedIsUnscored ==
  \A s \in Searches : life[s] = "gone" => \A l \in Listings : score[l][s] = Unscored
=============================================================================
