------------------------- MODULE SearchScoring_proofs -------------------------
(* Scores, edits, removals and the month's spend, for any searches, briefs,      *)
(* listings and limits, and any number of jobs that work on rows they have read. *)
EXTENDS SearchScoring, TLAPS, FiniteSetTheorems, SequenceTheorems

Shape ==
  /\ DOMAIN life = Searches /\ DOMAIN score = Listings
  /\ \A l \in Listings : DOMAIN score[l] = Searches

Inv == Shape /\ RemovedIsUnscored

LEMMA InitInv == Init => Inv
  BY DEF Init, Inv, Shape, RemovedIsUnscored

\* What writes neither a search nor a score.
LEMMA Untouched ==
  ASSUME Inv, UNCHANGED <<life, score>> PROVE Inv'
  BY DEF Inv, Shape, RemovedIsUnscored

\* The foreign key: a score is written only while its search is there.
LEMMA UpsertKeeps ==
  ASSUME Inv, NEW l \in Listings, NEW x, NEW v, upsertByListingAndSearch(l, x, v), UNCHANGED life
  PROVE  Inv'
<1> DEFINE made == [vec |-> v, text |-> x.text]
           s == x.search
<1>1. life[s] = "live" /\ score' = [score EXCEPT ![l][s] = made]
  BY DEF upsertByListingAndSearch, Live
<1> HIDE DEF made, s
<1>2. /\ DOMAIN score' = Listings /\ \A k \in Listings : DOMAIN score'[k] = Searches
      /\ \A k \in Listings, t \in Searches : t # s => score'[k][t] = score[k][t]
  BY <1>1 DEF Inv, Shape
<1>3. RemovedIsUnscored'
  BY <1>1, <1>2 DEF Inv, RemovedIsUnscored
<1> QED
  BY <1>2, <1>3 DEF Inv, Shape

LEMMA RemoveKeeps ==
  ASSUME Inv, NEW s \in Searches, remove(s) PROVE Inv'
<1>1. /\ life' = [life EXCEPT ![s] = "gone"]
      /\ score' = [l \in Listings |-> [score[l] EXCEPT ![s] = Unscored]]
  BY DEF remove
<1>2. /\ DOMAIN score' = Listings /\ \A l \in Listings : DOMAIN score'[l] = Searches
      /\ \A l \in Listings : /\ score'[l][s] = Unscored
                             /\ \A t \in Searches \ {s} : score'[l][t] = score[l][t]
  BY <1>1 DEF Inv, Shape
<1>3. DOMAIN life' = Searches /\ \A t \in Searches \ {s} : life'[t] = life[t]
  BY <1>1 DEF Inv, Shape
<1>4. RemovedIsUnscored'
  BY <1>2, <1>3 DEF Inv, RemovedIsUnscored
<1> QED
  BY <1>2, <1>3, <1>4 DEF Inv, Shape

LEMMA SearchCallKeeps ==
  ASSUME Inv, NEW s \in Searches, SearchCall(s) PROVE Inv'
<1>1. CASE create(s)
  <2>1. life' = [life EXCEPT ![s] = "live"] /\ UNCHANGED score
    BY <1>1 DEF create, Write, resultVars
  <2> QED
    BY <2>1 DEF Inv, Shape, RemovedIsUnscored
<1>2. CASE remove(s)
  BY <1>2, RemoveKeeps
<1>3. CASE update(s) \/ setStatus(s)
  BY <1>3, Untouched DEF update, setStatus, Write, resultVars
<1>4. CASE maybeTriggerRecompute(s) \/ TriggerFails(s)
  BY <1>4, Untouched DEF maybeTriggerRecompute, TriggerFails, searchVars, resultVars
<1> QED
  BY <1>1, <1>2, <1>3, <1>4 DEF SearchCall

LEMMA AnalyzeKeeps ==
  ASSUME Inv, NEW l \in Listings, enqueueAnalyze(l) \/ AnalyzeStep(l) PROVE Inv'
<1>1. CASE ScoreListing(l)
  <2>1. upsertByListingAndSearch(l, Current(l), work[l].vec) /\ UNCHANGED life
    BY <1>1 DEF ScoreListing, searchVars
  <2> QED
    BY <2>1, UpsertKeeps
<1>2. CASE enqueueAnalyze(l) \/ CheckBudget(l) \/ ScorePhoto(l)
  BY <1>2, Untouched DEF enqueueAnalyze, CheckBudget, ScorePhoto, searchVars, resultVars
<1>3. CASE RecordPhoto(l) \/ EmbedListing(l)
  BY <1>3, Untouched DEF RecordPhoto, EmbedListing, searchVars
<1>4. CASE ListSearches(l) \/ ReadVector(l)
  BY <1>4, Untouched DEF ListSearches, ReadVector, searchVars, resultVars
<1> QED
  BY <1>1, <1>2, <1>3, <1>4 DEF AnalyzeStep

LEMMA JobKeeps ==
  ASSUME Inv, NEW j \in Jobs, JobStep(j) \/ RecomputeStep(j) PROVE Inv'
<1>1. CASE ScoreCandidate(j)
  <2>1. PICK l \in work[j].left : upsertByListingAndSearch(l, Current(j), work[j].vec)
    BY <1>1 DEF ScoreCandidate
  <2>2. UNCHANGED life
    BY <1>1 DEF ScoreCandidate, searchVars
  <2>3. CASE l \in Listings
    BY <2>1, <2>2, <2>3, UpsertKeeps
  <2>4. CASE l \notin Listings
    <3>1. DOMAIN score' = Listings /\ \A k \in Listings : score'[k] = score[k]
      BY <2>1, <2>4 DEF upsertByListingAndSearch, Inv, Shape
    <3> QED
      BY <2>2, <3>1 DEF Inv, Shape, RemovedIsUnscored
  <2> QED
    BY <2>3, <2>4
<1>2. CASE JobStep(j)
  BY <1>2, Untouched DEF JobStep, Reject, Drop, Evict, writeKeywordsEmbedding, searchVars, resultVars
<1>3. CASE Load(j) \/ Rank(j)
  BY <1>3, Untouched DEF Load, Rank, searchVars, resultVars
<1> QED
  BY <1>1, <1>2, <1>3 DEF RecomputeStep

LEMMA NextInv == Inv /\ [Next]_vars => Inv'
<1> SUFFICES ASSUME Inv, [Next]_vars PROVE Inv'
  OBVIOUS
<1>1. ASSUME NEW s \in Unsettled, SearchCall(s) PROVE Inv'
  BY <1>1, SearchCallKeeps, ScoringAssumption DEF ScoringAssumption
<1>2. ASSUME NEW l \in Listings, enqueueAnalyze(l) \/ AnalyzeStep(l) PROVE Inv'
  BY <1>2, AnalyzeKeeps
<1>3. CASE SavePreferences
  BY <1>3, Untouched DEF SavePreferences, searchVars, resultVars
<1>4. ASSUME NEW j \in Jobs, JobStep(j) \/ RecomputeStep(j) PROVE Inv'
  BY <1>4, JobKeeps
<1>5. CASE UNCHANGED vars
  BY <1>5, Untouched DEF vars, searchVars, resultVars
<1> QED
  BY <1>1, <1>2, <1>3, <1>4, <1>5 DEF Next, Step

\* A job goes on with searches it read earlier, and the operator removes them
\* meanwhile: still no score is left of one that is gone.
THEOREM RemovedSearchHasNoScore == Spec => []RemovedIsUnscored
<1>1. Inv => RemovedIsUnscored
  BY DEF Inv
<1> QED
  BY <1>1, InitInv, NextInv, PTL DEF Spec
-----------------------------------------------------------------------------
(* What the model's filter of a sequence returns. *)

\* Induction on a set of numbers, from the well-foundedness of finite sets under
\* inclusion.
LEMMA NatSetInduction ==
  ASSUME NEW S, 0 \in S, \A n \in Nat : n \in S => n + 1 \in S
  PROVE  Nat \subseteq S
<1> SUFFICES ASSUME NEW k \in Nat, k \notin S PROVE FALSE
  OBVIOUS
<1> DEFINE T == {A \in SUBSET Nat : \E n \in Nat : n \notin S /\ A = 1..n}
<1>1. \A n \in Nat : IsFiniteSet(1..n)
  BY FS_Interval
<1>2. T \subseteq FiniteSubsetsOf(Nat) /\ T # {}
  <2>1. 1..k \in T
    OBVIOUS
  <2> QED
    BY <1>1, <2>1 DEF FiniteSubsetsOf
<1> HIDE DEF T
<1>3. PICK A \in T : \A B \in T : ~(<<B, A>> \in StrictSubsetOrdering(Nat))
  BY <1>2, FS_StrictSubsetOrderingWellFounded, WFMin
<1> USE DEF T
<1>4. PICK n \in Nat : n \notin S /\ A = 1..n
  OBVIOUS
<1>5. n # 0 /\ n - 1 \in Nat /\ n - 1 \notin S
  BY <1>4
<1>6. 1..(n - 1) \in T
  BY <1>5
<1>7. n \in 1..n /\ n \notin 1..(n - 1) /\ 1..(n - 1) \subseteq 1..n
  BY <1>5
<1>8. <<1..(n - 1), A>> \in StrictSubsetOrdering(Nat)
  BY <1>4, <1>5, <1>7 DEF StrictSubsetOrdering
<1> QED
  BY <1>3, <1>6, <1>8

\* k filters the first n elements of q.
Filters(k, q, S, n) ==
  k = [i \in 0..n |-> IF i = 0 THEN <<>>
                      ELSE IF q[i] \in S THEN Append(k[i - 1], q[i]) ELSE k[i - 1]]

LEMMA FilterExists ==
  ASSUME NEW q, NEW S, NEW m \in Nat PROVE \E k : Filters(k, q, S, m)
<1> DEFINE N == {n \in Nat : \E k : Filters(k, q, S, n)}
<1>1. 0 \in N
  <2>1. Filters([i \in 0..0 |-> <<>>], q, S, 0)
    BY DEF Filters
  <2> QED
    BY <2>1
<1>2. ASSUME NEW n \in Nat, n \in N PROVE n + 1 \in N
  <2>1. PICK k : Filters(k, q, S, n)
    BY <1>2
  <2>2. PICK h : h = [i \in 0..(n + 1) |->
          IF i <= n THEN k[i] ELSE IF q[n + 1] \in S THEN Append(k[n], q[n + 1]) ELSE k[n]]
    OBVIOUS
  <2>3. \A i \in 0..n : h[i] = k[i]
    BY <2>2
  <2>4. h[n + 1] = IF q[n + 1] \in S THEN Append(h[n], q[n + 1]) ELSE h[n]
    BY <2>2, <2>3
  <2>5. \A i \in 0..n : h[i] = IF i = 0 THEN <<>>
                     ELSE IF q[i] \in S THEN Append(h[i - 1], q[i]) ELSE h[i - 1]
    <3>1. SUFFICES ASSUME NEW i \in 0..n
          PROVE h[i] = IF i = 0 THEN <<>> ELSE IF q[i] \in S THEN Append(h[i - 1], q[i]) ELSE h[i - 1]
      OBVIOUS
    <3>2. k[i] = IF i = 0 THEN <<>> ELSE IF q[i] \in S THEN Append(k[i - 1], q[i]) ELSE k[i - 1]
      BY <2>1 DEF Filters
    <3>3. i # 0 => i - 1 \in 0..n
      OBVIOUS
    <3> QED
      BY <2>3, <3>2, <3>3
  <2>6. Filters(h, q, S, n + 1)
    <3>1. \A i \in 0..(n + 1) : h[i] = IF i = 0 THEN <<>>
                     ELSE IF q[i] \in S THEN Append(h[i - 1], q[i]) ELSE h[i - 1]
      <4>1. \A i \in 0..(n + 1) : i \in 0..n \/ i = n + 1
        OBVIOUS
      <4>2. (n + 1) - 1 = n /\ n + 1 # 0
        OBVIOUS
      <4> QED
        BY <2>4, <2>5, <4>1, <4>2
    <3>2. h = [i \in 0..(n + 1) |-> h[i]]
      BY <2>2
    <3> QED
      BY <3>1, <3>2, Zenon DEF Filters
  <2> QED
    BY <2>6
<1> HIDE DEF N
<1>3. Nat \subseteq N
  BY <1>1, <1>2, NatSetInduction
<1> QED
  BY <1>3 DEF N

\* The members of S in q, and nothing else.
LEMMA KeptFacts ==
  ASSUME NEW T, NEW q \in Seq(T), NEW S
  PROVE  /\ Kept(q, S) \in Seq(T) /\ Len(Kept(q, S)) <= Len(q)
         /\ Range(Kept(q, S)) = Range(q) \cap S
<1>1. PICK k : k = KeptTo(q, S)
  OBVIOUS
<1>2. Filters(k, q, S, Len(q))
  <2> Len(q) \in Nat
    OBVIOUS
  <2>1. PICK g : Filters(g, q, S, Len(q))
    BY FilterExists
  <2>2. Filters(KeptTo(q, S), q, S, Len(q))
    BY <2>1, Zenon DEF KeptTo, Filters
  <2> QED
    BY <1>1, <2>2
<1> DEFINE first(n) == {q[i] : i \in 1..n}
           Good(n) == /\ k[n] \in Seq(T) /\ Len(k[n]) <= n
                      /\ Range(k[n]) = first(n) \cap S
           N == {n \in Nat : n <= Len(q) => Good(n)}
<1>3. 0 \in N
  <2>1. k[0] = <<>>
    BY <1>2 DEF Filters
  <2>2. DOMAIN k[0] = {} /\ k[0] \in Seq(T)
    BY <2>1
  <2>3. first(0) = {}
    OBVIOUS
  <2> HIDE DEF first
  <2>4. Len(k[0]) = 0
    BY <2>1
  <2>5. Range(k[0]) = {}
    BY <2>2 DEF Range
  <2>6. Good(0)
    BY <2>2, <2>3, <2>4, <2>5
  <2> HIDE DEF Good
  <2> QED
    BY <2>6
<1>4. ASSUME NEW n \in Nat, n \in N PROVE n + 1 \in N
  <2> SUFFICES ASSUME n + 1 <= Len(q) PROVE Good(n + 1)
    OBVIOUS
  <2>1. Good(n)
    BY <1>4
  <2>2. k[n + 1] = IF q[n + 1] \in S THEN Append(k[n], q[n + 1]) ELSE k[n]
    <3>1. n + 1 \in 0..Len(q) /\ n + 1 # 0 /\ (n + 1) - 1 = n
      OBVIOUS
    <3>2. k[n + 1] = IF n + 1 = 0 THEN <<>> ELSE IF q[n + 1] \in S THEN Append(k[(n + 1) - 1], q[n + 1]) ELSE k[(n + 1) - 1]
      BY <1>2, <3>1, Zenon DEF Filters
    <3> QED
      BY <3>1, <3>2
  <2>3. q[n + 1] \in T
    <3>1. n + 1 \in 1..Len(q)
      OBVIOUS
    <3> QED
      BY <3>1, ElementOfSeq
  <2>4. first(n + 1) = first(n) \cup {q[n + 1]}
    <3>1. 1..(n + 1) = (1..n) \cup {n + 1}
      OBVIOUS
    <3> QED
      BY <3>1
  <2> HIDE DEF first
  <2>5. CASE q[n + 1] \notin S
    BY <2>1, <2>2, <2>4, <2>5
  <2>6. CASE q[n + 1] \in S
    <3>1. k[n + 1] = Append(k[n], q[n + 1])
      BY <2>2, <2>6
    <3>2. /\ k[n + 1] \in Seq(T) /\ Len(k[n + 1]) = Len(k[n]) + 1
          /\ \A i \in 1..Len(k[n]) : k[n + 1][i] = k[n][i]
          /\ k[n + 1][Len(k[n]) + 1] = q[n + 1]
      BY <2>1, <2>3, <3>1
    <3>3. DOMAIN k[n + 1] = 1..(Len(k[n]) + 1) /\ DOMAIN k[n] = 1..Len(k[n]) /\ Len(k[n]) \in Nat
      BY <2>1, <3>2
    <3>4. Range(k[n + 1]) = Range(k[n]) \cup {q[n + 1]}
      <4>1. PICK m \in Nat : m = Len(k[n])
        BY <3>3
      <4>2. \A x : x \in Range(k[n + 1]) <=> \E i \in 1..(m + 1) : x = k[n + 1][i]
        BY <3>3, <4>1 DEF Range
      <4>3. \A x : x \in Range(k[n]) <=> \E i \in 1..m : x = k[n][i]
        BY <3>3, <4>1 DEF Range
      <4>4. \A i : i \in 1..(m + 1) <=> i \in 1..m \/ i = m + 1
        OBVIOUS
      <4>5. \A i \in 1..m : k[n + 1][i] = k[n][i]
        BY <3>2, <4>1
      <4>6. k[n + 1][m + 1] = q[n + 1]
        BY <3>2, <4>1
      <4>7. ASSUME NEW x, x \in Range(k[n + 1]) PROVE x \in Range(k[n]) \/ x = q[n + 1]
        <5>1. PICK i \in 1..(m + 1) : x = k[n + 1][i]
          BY <4>2, <4>7
        <5>2. CASE i \in 1..m
          BY <4>3, <4>5, <5>1, <5>2
        <5>3. CASE i = m + 1
          BY <4>6, <5>1, <5>3
        <5> QED
          BY <4>4, <5>1, <5>2, <5>3
      <4>8. ASSUME NEW x, x \in Range(k[n]) PROVE x \in Range(k[n + 1])
        <5>1. PICK i \in 1..m : x = k[n][i]
          BY <4>3, <4>8
        <5> QED
          BY <4>2, <4>4, <4>5, <5>1
      <4>9. q[n + 1] \in Range(k[n + 1])
        BY <4>2, <4>6
      <4> QED
        BY <4>7, <4>8, <4>9
    <3> QED
      BY <2>1, <2>4, <2>6, <3>2, <3>4
  <2> QED
    BY <2>5, <2>6
<1>5. Good(Len(q))
  <2> HIDE DEF N
  <2>1. Nat \subseteq N
    BY <1>3, <1>4, NatSetInduction
  <2> USE DEF N
  <2>2. Len(q) \in Nat
    OBVIOUS
  <2> QED
    BY <2>1, <2>2
<1>6. first(Len(q)) = Range(q)
  <2>1. DOMAIN q = 1..Len(q)
    OBVIOUS
  <2> QED
    BY <2>1 DEF Range
<1> QED
  BY <1>1, <1>5, <1>6 DEF Kept
-----------------------------------------------------------------------------
(* The month's spend *)

LEMMA FiniteMax ==
  ASSUME NEW S \in SUBSET Nat, IsFiniteSet(S), S # {}
  PROVE  Max(S) \in S /\ \A y \in S : Max(S) >= y
<1> DEFINE Topped(A) == \E x \in A : \A y \in A : x >= y
           T == {A \in FiniteSubsetsOf(Nat) : A # {} /\ ~Topped(A)}
<1>1. T = {}
  <2> SUFFICES ASSUME T # {} PROVE FALSE
    OBVIOUS
  <2>1. T \subseteq FiniteSubsetsOf(Nat)
    OBVIOUS
  <2> HIDE DEF T
  <2>2. PICK A \in T : \A B \in T : ~(<<B, A>> \in StrictSubsetOrdering(Nat))
    BY <2>1, FS_StrictSubsetOrderingWellFounded, WFMin
  <2> USE DEF T
  <2>3. A \in SUBSET Nat /\ IsFiniteSet(A) /\ A # {} /\ ~Topped(A)
    BY DEF FiniteSubsetsOf
  <2>4. PICK x \in A : TRUE
    BY <2>3
  <2>5. PICK B : B = A \ {x}
    OBVIOUS
  <2>6. B \in SUBSET Nat /\ x \in Nat /\ A = B \cup {x}
    BY <2>3, <2>4, <2>5
  <2>7. IsFiniteSet(B)
    BY <2>3, <2>5, FS_RemoveElement
  <2>8. <<B, A>> \in StrictSubsetOrdering(Nat)
    BY <2>3, <2>4, <2>5 DEF StrictSubsetOrdering
  <2>9. B \notin T
    BY <2>2, <2>8
  <2>10. B = {} \/ Topped(B)
    BY <2>6, <2>7, <2>9 DEF FiniteSubsetsOf
  <2>11. Topped(A)
    <3>1. CASE B = {}
      BY <2>6, <3>1
    <3>2. CASE Topped(B)
      <4>1. PICK m \in B : \A y \in B : m >= y
        BY <3>2
      <4>2. CASE m >= x
        BY <2>6, <4>1, <4>2
      <4>3. CASE ~(m >= x)
        <5>1. \A y \in B : x >= y
          BY <2>6, <4>1, <4>3
        <5> QED
          BY <2>6, <5>1
      <4> QED
        BY <4>2, <4>3
    <3> QED
      BY <2>10, <3>1, <3>2
  <2> QED
    BY <2>3, <2>11
<1>2. Topped(S)
  BY <1>1 DEF FiniteSubsetsOf
<1> QED
  BY <1>2 DEF Max

\* n sets of at most m members each.
LEMMA ImagesOf ==
  ASSUME NEW K, IsFiniteSet(K), NEW m \in Nat, NEW Q,
         \A l \in K : Q[l] \in Seq(Range(Q[l])) /\ Len(Q[l]) <= m,
         NEW S, S \subseteq UNION {Range(Q[l]) : l \in K}
  PROVE  IsFiniteSet(S) /\ Cardinality(S) <= Cardinality(K) * m
<1> DEFINE P == K \X (1..m)
           f == [p \in P |-> Q[p[1]][p[2]]]
           R == {f[p] : p \in P}
<1>1. IsFiniteSet(1..m) /\ Cardinality(1..m) = m
  BY FS_Interval
<1>2. IsFiniteSet(P) /\ Cardinality(P) = Cardinality(K) * Cardinality(1..m)
  BY <1>1, FS_Product
<1>3. f \in Surjection(P, R)
  BY DEF Surjection
<1>4. S \subseteq R
  <2> SUFFICES ASSUME NEW x \in S PROVE x \in R
    OBVIOUS
  <2>1. PICK l \in K : x \in Range(Q[l])
    OBVIOUS
  <2>2. PICK i \in DOMAIN Q[l] : x = Q[l][i]
    BY <2>1 DEF Range
  <2>3. DOMAIN Q[l] = 1..Len(Q[l]) /\ Len(Q[l]) \in Nat /\ Len(Q[l]) <= m
    OBVIOUS
  <2>4. i \in 1..m
    BY <2>3
  <2>5. <<l, i>> \in P /\ f[<<l, i>>] = x
    BY <2>2, <2>4
  <2> QED
    BY <2>5
<1> HIDE DEF P, f, R
<1>5. IsFiniteSet(R) /\ Cardinality(R) <= Cardinality(P)
  BY <1>2, <1>3, FS_Surjection
<1>6. IsFiniteSet(S) /\ Cardinality(S) <= Cardinality(R)
  BY <1>4, <1>5, FS_Subset
<1>7. Cardinality(S) \in Nat /\ Cardinality(R) \in Nat /\ Cardinality(P) \in Nat
  BY <1>2, <1>5, <1>6, FS_CardinalityType
<1> QED
  BY <1>1, <1>2, <1>5, <1>6, <1>7
-----------------------------------------------------------------------------
(* What every variable ranges over, and where a job can be. *)

Rows == [search : Searches, text : Nat]
Places == {"idle", "photo", "record", "list", "read", "taste", "match", "rank", "score"}
Work == [at : Places, photo : Nat \ {0}, todo : Seq(Rows), vec : Nat, left : SUBSET Listings]
States == {"free", "waiting", "active", "completed", "failed"}

\* The places at which a job works on a search it has listed.
Busy == {"read", "taste", "match", "rank", "score"}

PlaceOK(j, w) ==
  /\ w.at \in Busy => w.todo # <<>>
  /\ j \in Listings => w.at \notin {"rank", "score"}
  /\ j \notin Listings => w.at \in {"idle", "taste", "rank", "score"}
  /\ w.at = "record" => w.photo <= Len(Photos[j])

SearchTypes ==
  /\ life \in [Searches -> {"new", "live", "gone"}] /\ active \in [Searches -> BOOLEAN]
  /\ brief \in [Searches -> Nat] /\ vec \in [Searches -> Nat] /\ recent \in Seq(Searches)

ResultTypes ==
  /\ embedded \subseteq Listings /\ IsFiniteSet(analysed)
  /\ score \in [Listings -> [Searches -> [vec : Nat, text : Nat]]]

QueueTypes ==
  /\ status \in [Jobs -> States] /\ tries \in [Jobs -> Nat] /\ work \in [Jobs -> Work]
  /\ \A j \in Jobs : PlaceOK(j, work[j])
  /\ \A j \in Jobs : status[j] # "active" => work[j] = Idle

HistoryTypes ==
  /\ calls \in [Searches -> Nat]
  /\ ranked \in [Searches -> SUBSET Listings] /\ lost \subseteq Searches

StepTypes == SearchTypes /\ ResultTypes /\ QueueTypes /\ HistoryTypes
Types == StepTypes /\ owed \in [Listings -> SUBSET Searches]

LEMMA IdleIsWork == Idle \in Work /\ \A j : PlaceOK(j, Idle)
<1>1. <<>> \in Seq(Rows)
  OBVIOUS
<1> QED
  BY <1>1 DEF Idle, Work, Places, Busy, PlaceOK

LEMMA EndKeeps ==
  ASSUME QueueTypes, NEW j \in Jobs, NEW how \in States \ {"active"}, End(j, how)
  PROVE  QueueTypes'
  BY IdleIsWork DEF QueueTypes, End, States

LEMMA ActiveKeeps ==
  ASSUME QueueTypes, NEW j \in Jobs, NEW w \in Work, PlaceOK(j, w), Active(j, w),
         tries' \in [Jobs -> Nat]
  PROVE  QueueTypes'
  BY DEF QueueTypes, Active, States

LEMMA BeginKeeps ==
  ASSUME QueueTypes, NEW j \in Jobs, NEW w \in Work, PlaceOK(j, w), Begin(j, w)
  PROVE  QueueTypes'
<1>1. tries' \in [Jobs -> Nat]
  BY DEF QueueTypes, Begin
<1> QED
  BY <1>1, ActiveKeeps DEF Begin

LEMMA SetKeeps ==
  ASSUME QueueTypes, NEW j \in Jobs, NEW w \in Work, PlaceOK(j, w), Set(j, w)
  PROVE  QueueTypes'
<1>1. tries' \in [Jobs -> Nat]
  BY DEF QueueTypes, Set
<1> QED
  BY <1>1, ActiveKeeps DEF Set

LEMMA EnqueueKeeps ==
  ASSUME QueueTypes, NEW j \in Jobs, Enqueue(j), UNCHANGED work
  PROVE  QueueTypes'
  BY DEF QueueTypes, Enqueue, queueVars, States

LEMMA OnwardKeeps ==
  ASSUME QueueTypes, NEW j \in Jobs, NEW todo \in Seq(Rows), Onward(j, todo)
  PROVE  QueueTypes'
<1>1. CASE todo = <<>>
  <2>1. End(j, "completed")
    BY <1>1 DEF Onward
  <2> QED
    BY <2>1, EndKeeps DEF States
<1>2. CASE todo # <<>>
  <2>1. PICK w : w = [Idle EXCEPT !.at = IF j \in Listings THEN "read" ELSE "taste", !.todo = todo]
    OBVIOUS
  <2>2. w = [at |-> IF j \in Listings THEN "read" ELSE "taste", photo |-> 1, todo |-> todo,
             vec |-> 0, left |-> {}]
    BY <2>1 DEF Idle
  <2>3. w \in Work
    BY <2>2 DEF Work, Places
  <2>4. PlaceOK(j, w)
    BY <1>2, <2>2 DEF PlaceOK, Busy
  <2>5. Set(j, w)
    BY <1>2, <2>1 DEF Onward
  <2> QED
    BY <2>3, <2>4, <2>5, SetKeeps
<1> QED
  BY <1>1, <1>2

\* The searches a job lists are rows of the table as it stands.
LEMMA ListedFacts ==
  recent \in Seq(Searches) =>
    /\ listActive \in Seq(Searches) /\ Range(listActive) = Range(recent) \cap {s \in Operators : active[s]}
    /\ \A l \in Listings : /\ listActiveByOutcode(l) \in Seq(Searches)
                           /\ Range(listActiveByOutcode(l)) \subseteq Range(recent)
<1> SUFFICES ASSUME recent \in Seq(Searches)
    PROVE  /\ listActive \in Seq(Searches) /\ Range(listActive) = Range(recent) \cap {s \in Operators : active[s]}
           /\ \A l \in Listings : /\ listActiveByOutcode(l) \in Seq(Searches)
                                  /\ Range(listActiveByOutcode(l)) \subseteq Range(recent)
  OBVIOUS
<1>1. listActive \in Seq(Searches) /\ Range(listActive) = Range(recent) \cap {s \in Operators : active[s]}
  BY KeptFacts DEF listActive
<1>2. ASSUME NEW l \in Listings
      PROVE /\ listActiveByOutcode(l) \in Seq(Searches)
            /\ Range(listActiveByOutcode(l)) \subseteq Range(recent)
  <2>1. PICK q : q = Kept(listActive, Covering(l, listActive))
    OBVIOUS
  <2>2. q \in Seq(Searches) /\ Range(q) \subseteq Range(recent)
    BY <1>1, <2>1, KeptFacts
  <2>3. listActiveByOutcode(l) = Prefix(q, MaxSearchesPerListing)
    BY <2>1 DEF listActiveByOutcode
  <2>4. PICK n \in Nat : n <= Len(q) /\ listActiveByOutcode(l) = SubSeq(q, 1, n)
    <3>1. Len(q) \in Nat /\ MaxSearchesPerListing \in Nat
      BY <2>2, ScoringAssumption DEF ScoringAssumption
    <3> QED
      BY <2>3, <3>1 DEF Prefix
  <2>5. /\ SubSeq(q, 1, n) \in Seq(Searches) /\ DOMAIN SubSeq(q, 1, n) = 1..n
        /\ \A i \in 1..n : SubSeq(q, 1, n)[i] = q[i]
    BY <2>2, <2>4
  <2>6. Range(SubSeq(q, 1, n)) \subseteq Range(q)
    <3>1. 1..n \subseteq DOMAIN q
      BY <2>2, <2>4
    <3> QED
      BY <2>5, <3>1 DEF Range
  <2> QED
    BY <2>2, <2>4, <2>5, <2>6
<1> QED
  BY <1>1, <1>2

\* A sequence of searches becomes one of rows.
LEMMA RowsOf ==
  ASSUME NEW q \in Seq(Searches), brief \in [Searches -> Nat]
  PROVE  /\ [i \in DOMAIN q |-> Row(q[i])] \in Seq(Rows)
         /\ Len([i \in DOMAIN q |-> Row(q[i])]) = Len(q)
<1>1. DOMAIN q = 1..Len(q) /\ Len(q) \in Nat /\ \A i \in 1..Len(q) : q[i] \in Searches
  BY ElementOfSeq
<1>2. \A i \in 1..Len(q) : Row(q[i]) \in Rows
  BY <1>1 DEF Row, Rows
<1> QED
  BY <1>1, <1>2, IsASeq, LenProperties

LEMMA CurrentRow ==
  ASSUME QueueTypes, NEW j \in Jobs, work[j].at \in Busy
  PROVE  /\ work[j] \in Work /\ work[j].todo \in Seq(Rows) /\ work[j].todo # <<>>
         /\ Current(j) \in Rows /\ Current(j) = work[j].todo[1]
         /\ Tail(work[j].todo) \in Seq(Rows)
<1>1. work[j] \in Work /\ work[j].todo # <<>>
  BY DEF QueueTypes, PlaceOK
<1>2. work[j].todo \in Seq(Rows)
  BY <1>1 DEF Work
<1> QED
  BY <1>1, <1>2, HeadTailProperties DEF Current

LEMMA MoveKeeps ==
  ASSUME QueueTypes, NEW j \in Jobs, NEW w, w \in Work, Set(j, w),
         w.at \in Busy => w.todo # <<>>,
         j \in Listings => w.at \notin {"rank", "score"},
         j \notin Listings => w.at \in {"idle", "taste", "rank", "score"},
         w.at = "record" => w.photo <= Len(Photos[j])
  PROVE  QueueTypes'
<1>1. PlaceOK(j, w)
  BY DEF PlaceOK
<1> QED
  BY <1>1, SetKeeps

LEMMA QueueUnchanged ==
  ASSUME QueueTypes, UNCHANGED <<queueVars, work>> PROVE QueueTypes'
  BY DEF QueueTypes, queueVars

LEMMA WriteTypes ==
  ASSUME StepTypes, NEW s \in Searches, NEW v \in Nat, NEW st \in BOOLEAN, Write(s, v, st),
         life' \in [Searches -> {"new", "live", "gone"}]
  PROVE  StepTypes'
<1>1. recent' \in Seq(Searches)
  <2>1. recent' = <<s>> \o Kept(recent, Searches \ {s})
    BY DEF Write, ToFront
  <2>2. Kept(recent, Searches \ {s}) \in Seq(Searches)
    BY KeptFacts DEF StepTypes, SearchTypes
  <2> QED
    BY <2>1, <2>2
<1>2. SearchTypes'
  BY <1>1 DEF StepTypes, SearchTypes, Write
<1>3. ResultTypes'
  BY DEF StepTypes, ResultTypes, Write, resultVars
<1>4. QueueTypes'
  BY QueueUnchanged DEF StepTypes, Write
<1>5. calls' \in [Searches -> Nat]
  BY DEF StepTypes, HistoryTypes, Write
<1>6. lost' \subseteq Searches /\ UNCHANGED ranked
  BY DEF StepTypes, HistoryTypes, Write
<1> QED
  BY <1>2, <1>3, <1>4, <1>5, <1>6 DEF StepTypes, HistoryTypes

LEMMA SearchCallTypes ==
  ASSUME StepTypes, NEW s \in Searches, SearchCall(s) PROVE StepTypes'
<1>1. CASE create(s)
  <2>1. life' \in [Searches -> {"new", "live", "gone"}]
    BY <1>1 DEF create, StepTypes, SearchTypes
  <2> QED
    BY <1>1, <2>1, WriteTypes DEF create
<1>2. CASE update(s) \/ setStatus(s)
  <2>1. life' \in [Searches -> {"new", "live", "gone"}]
    BY <1>2 DEF update, setStatus, StepTypes, SearchTypes
  <2>2. brief[s] \in Nat /\ brief[s] + 1 \in Nat
    BY DEF StepTypes, SearchTypes
  <2>3. \E v \in Nat, st \in BOOLEAN : Write(s, v, st)
    <3>1. CASE update(s)
      BY <2>2, <3>1 DEF update
    <3>2. CASE setStatus(s)
      <4>1. PICK st : st = ~active[s]
        OBVIOUS
      <4>2. st \in BOOLEAN
        BY <4>1, Zenon
      <4>3. Write(s, brief[s], st)
        BY <3>2, <4>1 DEF setStatus
      <4> QED
        BY <2>2, <4>2, <4>3
    <3> QED
      BY <1>2, <3>1, <3>2
  <2> QED
    BY <2>1, <2>3, WriteTypes
<1>3. CASE maybeTriggerRecompute(s) \/ TriggerFails(s)
  <2>1. SearchTypes' /\ ResultTypes'
    BY <1>3 DEF maybeTriggerRecompute, TriggerFails, StepTypes, SearchTypes, ResultTypes, searchVars, resultVars
  <2>2. QueueTypes'
    <3>1. Enqueue(s) \/ UNCHANGED queueVars
      BY <1>3 DEF maybeTriggerRecompute, TriggerFails
    <3>2. UNCHANGED work
      BY <1>3 DEF maybeTriggerRecompute, TriggerFails
    <3> QED
      BY <3>1, <3>2, EnqueueKeeps, QueueUnchanged DEF StepTypes, Jobs
  <2>3. calls' \in [Searches -> Nat]
    BY <1>3 DEF maybeTriggerRecompute, TriggerFails, StepTypes, HistoryTypes
  <2>4. lost' \subseteq Searches /\ UNCHANGED ranked
    BY <1>3 DEF maybeTriggerRecompute, TriggerFails, StepTypes, HistoryTypes
  <2> QED
    BY <2>1, <2>2, <2>3, <2>4 DEF StepTypes, HistoryTypes
<1>4. CASE remove(s)
  <2>1. recent' \in Seq(Searches)
    BY <1>4, KeptFacts DEF remove, StepTypes, SearchTypes
  <2>2. SearchTypes'
    BY <1>4, <2>1 DEF remove, StepTypes, SearchTypes
  <2>3. ResultTypes'
    BY <1>4 DEF remove, StepTypes, ResultTypes, Unscored
  <2>4. QueueTypes'
    BY <1>4, QueueUnchanged DEF remove, StepTypes
  <2>5. HistoryTypes'
    BY <1>4 DEF remove, StepTypes, HistoryTypes
  <2> QED
    BY <2>2, <2>3, <2>4, <2>5 DEF StepTypes
<1> QED
  BY <1>1, <1>2, <1>3, <1>4 DEF SearchCall

\* A step of a job that writes no search, and what it has written since.
LEMMA JobFrame ==
  ASSUME StepTypes, QueueTypes', UNCHANGED <<searchVars, calls>>,
         UNCHANGED resultVars \/ ResultTypes',
         ranked' \in [Searches -> SUBSET Listings], lost' \subseteq Searches
  PROVE  StepTypes'
<1>1. SearchTypes' /\ calls' \in [Searches -> Nat]
  BY DEF StepTypes, SearchTypes, HistoryTypes, searchVars
<1>2. ResultTypes'
  BY DEF StepTypes, ResultTypes, resultVars
<1> QED
  BY <1>1, <1>2 DEF StepTypes, HistoryTypes

LEMMA UpsertTypes ==
  ASSUME ResultTypes, NEW l \in Listings, NEW x \in Rows, NEW v \in Nat,
         upsertByListingAndSearch(l, x, v), UNCHANGED <<embedded, analysed>>
  PROVE  ResultTypes'
<1>1. PICK made : made = [vec |-> v, text |-> x.text]
  OBVIOUS
<1>2. made \in [vec : Nat, text : Nat] /\ x.search \in Searches
  BY <1>1 DEF Rows
<1>3. score' = [score EXCEPT ![l][x.search] = made]
  BY <1>1 DEF upsertByListingAndSearch
<1> QED
  BY <1>2, <1>3 DEF ResultTypes

LEMMA AnalyzeTypes ==
  ASSUME StepTypes, NEW l \in Listings, enqueueAnalyze(l) \/ AnalyzeStep(l) PROVE StepTypes'
<1> l \in Jobs
  BY DEF Jobs
<1> QueueTypes /\ work[l] \in Work /\ ranked \in [Searches -> SUBSET Listings] /\ lost \subseteq Searches
  BY DEF StepTypes, QueueTypes, HistoryTypes
<1>1. CASE enqueueAnalyze(l)
  <2>1. QueueTypes'
    BY <1>1, EnqueueKeeps DEF enqueueAnalyze
  <2> QED
    BY <1>1, <2>1, JobFrame DEF enqueueAnalyze
<1>2. CASE CheckBudget(l)
  <2>1. QueueTypes'
    <3>1. CASE End(l, "completed")
      BY <3>1, EndKeeps DEF States
    <3>2. CASE Begin(l, [Idle EXCEPT !.at = "photo"])
      <4>1. PICK w : w = [Idle EXCEPT !.at = "photo"]
        OBVIOUS
      <4>2. w = [at |-> "photo", photo |-> 1, todo |-> <<>>, vec |-> 0, left |-> {}]
        BY <4>1 DEF Idle
      <4>3. w \in Work
        BY <4>2 DEF Work, Places
      <4>4. PlaceOK(l, w)
        BY <4>2 DEF PlaceOK, Busy
      <4> QED
        BY <3>2, <4>1, <4>3, <4>4, BeginKeeps
    <3> QED
      BY <1>2, <3>1, <3>2 DEF CheckBudget
  <2> QED
    BY <1>2, <2>1, JobFrame DEF CheckBudget
<1>3. CASE ScorePhoto(l)
  <2>1. PICK n, m : n = work[l].photo /\ m = [work[l] EXCEPT !.photo = @ + 1]
    OBVIOUS
  <2>2. PICK h : h = [work[l] EXCEPT !.at = "record"]
    OBVIOUS
  <2>3. /\ n \in Nat \ {0} /\ n <= Len(Photos[l]) /\ work[l].at = "photo"
        /\ Set(l, m) \/ Set(l, h)
    BY <1>3, <2>1, <2>2 DEF ScorePhoto, At, Work
  <2>4. /\ m = [at |-> "photo", photo |-> n + 1, todo |-> work[l].todo, vec |-> work[l].vec, left |-> work[l].left]
        /\ h = [at |-> "record", photo |-> n, todo |-> work[l].todo, vec |-> work[l].vec, left |-> work[l].left]
    BY <2>1, <2>2, <2>3 DEF Work
  <2>5. work[l].vec \in Nat /\ work[l].left \in SUBSET Listings /\ n + 1 \in Nat \ {0}
    BY <2>3 DEF Work
  <2>6. ASSUME Set(l, m) PROVE QueueTypes'
    <3>1. m \in Work
      BY <2>3, <2>4, <2>5 DEF Work, Places
    <3>2. QueueTypes'
      BY <2>3, <2>4, <2>5, <2>6, <3>1, MoveKeeps DEF Busy
    <3> QED
      BY <3>2
  <2>7. ASSUME Set(l, h) PROVE QueueTypes'
    <3>1. h \in Work
      BY <2>3, <2>4, <2>5 DEF Work, Places
    <3>2. QueueTypes'
      BY <2>3, <2>4, <2>5, <2>7, <3>1, MoveKeeps DEF Busy
    <3> QED
      BY <3>2
  <2>8. QueueTypes'
    BY <2>3, <2>6, <2>7
  <2> QED
    BY <1>3, <2>8, JobFrame DEF ScorePhoto
<1>4. CASE RecordPhoto(l)
  <2>1. PICK n, m : n = work[l].photo /\ m = [work[l] EXCEPT !.at = "photo", !.photo = @ + 1]
    OBVIOUS
  <2>2. n \in Nat \ {0} /\ Set(l, m)
    BY <1>4, <2>1 DEF RecordPhoto, Work
  <2>3. m = [at |-> "photo", photo |-> n + 1, todo |-> work[l].todo, vec |-> work[l].vec, left |-> work[l].left]
    BY <2>1 DEF Work
  <2>4. work[l].vec \in Nat /\ work[l].left \in SUBSET Listings /\ n + 1 \in Nat \ {0}
    BY <2>2 DEF Work
  <2>5. QueueTypes'
    <3>1. m \in Work
      BY <2>2, <2>3, <2>4 DEF Work, Places
    <3> QED
      BY <2>2, <2>3, <2>4, <3>1, MoveKeeps DEF Busy
  <2>6. ResultTypes'
    <3>1. /\ analysed' = analysed \cup {Photos[l][work[l].photo]} /\ UNCHANGED <<embedded, score>>
          /\ IsFiniteSet(analysed)
      BY <1>4 DEF RecordPhoto, StepTypes, ResultTypes
    <3>2. IsFiniteSet(analysed')
      BY <3>1, FS_AddElement
    <3> QED
      BY <3>1, <3>2 DEF StepTypes, ResultTypes
  <2> QED
    BY <1>4, <2>5, <2>6, JobFrame DEF RecordPhoto
<1>5. CASE EmbedListing(l)
  <2>1. PICK w : w = [Idle EXCEPT !.at = "list"]
    OBVIOUS
  <2>2. w = [at |-> "list", photo |-> 1, todo |-> <<>>, vec |-> 0, left |-> {}]
    BY <2>1 DEF Idle
  <2>3. w \in Work
    BY <2>2 DEF Work, Places
  <2>4. PlaceOK(l, w)
    BY <2>2 DEF PlaceOK, Busy
  <2>5. QueueTypes'
    BY <1>5, <2>1, <2>3, <2>4, SetKeeps DEF EmbedListing
  <2>6. ResultTypes'
    BY <1>5 DEF EmbedListing, StepTypes, ResultTypes
  <2> QED
    BY <1>5, <2>5, <2>6, JobFrame DEF EmbedListing
<1>6. CASE ListSearches(l)
  <2>1. PICK q : q = listActiveByOutcode(l)
    OBVIOUS
  <2>2. q \in Seq(Searches) /\ brief \in [Searches -> Nat]
    BY <2>1, ListedFacts DEF StepTypes, SearchTypes
  <2>3. Onward(l, [i \in DOMAIN q |-> Row(q[i])])
    BY <1>6, <2>1 DEF ListSearches
  <2>4. QueueTypes'
    BY <2>2, <2>3, RowsOf, OnwardKeeps
  <2> QED
    BY <1>6, <2>4, JobFrame DEF ListSearches
<1>7. CASE ReadVector(l)
  <2>1. /\ work[l].at = "read" /\ Current(l) \in Rows /\ Tail(work[l].todo) \in Seq(Rows)
        /\ work[l].todo # <<>>
    BY <1>7, CurrentRow DEF ReadVector, At, Busy
  <2>2. PICK found : found = IF Live(Current(l).search) THEN vec[Current(l).search] ELSE 0
    OBVIOUS
  <2>3. found \in Nat
    BY <2>1, <2>2 DEF Rows, StepTypes, SearchTypes
  <2>4. PICK m, h : /\ m = [work[l] EXCEPT !.at = "match", !.vec = found]
                    /\ h = [work[l] EXCEPT !.at = "taste"]
    OBVIOUS
  <2>5. \/ Set(l, m) \/ Set(l, h) \/ Onward(l, Tail(work[l].todo))
    BY <1>7, <2>2, <2>4 DEF ReadVector
  <2>6. /\ m = [at |-> "match", photo |-> work[l].photo, todo |-> work[l].todo, vec |-> found, left |-> work[l].left]
        /\ h = [at |-> "taste", photo |-> work[l].photo, todo |-> work[l].todo, vec |-> work[l].vec, left |-> work[l].left]
    BY <2>4 DEF Work
  <2>7. work[l].photo \in Nat \ {0} /\ work[l].vec \in Nat /\ work[l].left \in SUBSET Listings
    BY DEF Work
  <2>8. ASSUME Set(l, m) PROVE QueueTypes'
    <3>1. m \in Work
      BY <2>1, <2>3, <2>6, <2>7 DEF Work, Places
    <3>2. QueueTypes'
      BY <2>1, <2>3, <2>6, <2>7, <2>8, <3>1, MoveKeeps DEF Busy
    <3> QED
      BY <3>2
  <2>9. ASSUME Set(l, h) PROVE QueueTypes'
    <3>1. h \in Work
      BY <2>1, <2>6, <2>7 DEF Work, Places
    <3>2. QueueTypes'
      BY <2>1, <2>6, <2>7, <2>9, <3>1, MoveKeeps DEF Busy
    <3> QED
      BY <3>2
  <2>10. QueueTypes'
    BY <2>1, <2>5, <2>8, <2>9, OnwardKeeps
  <2> QED
    BY <1>7, <2>10, JobFrame DEF ReadVector
<1>8. CASE ScoreListing(l)
  <2>1. /\ Current(l) \in Rows /\ Tail(work[l].todo) \in Seq(Rows) /\ work[l].vec \in Nat
    BY <1>8, CurrentRow DEF ScoreListing, At, Busy, Work
  <2>2. QueueTypes'
    BY <1>8, <2>1, OnwardKeeps DEF ScoreListing
  <2>3. ResultTypes'
    BY <1>8, <2>1, UpsertTypes DEF ScoreListing, StepTypes
  <2> QED
    BY <1>8, <2>2, <2>3, JobFrame DEF ScoreListing
<1> QED
  BY <1>1, <1>2, <1>3, <1>4, <1>5, <1>6, <1>7, <1>8 DEF AnalyzeStep

LEMMA JobTypes ==
  ASSUME StepTypes, NEW j \in Jobs, JobStep(j) \/ RecomputeStep(j) PROVE StepTypes'
<1> QueueTypes /\ work[j] \in Work /\ ranked \in [Searches -> SUBSET Listings] /\ lost \subseteq Searches
  BY DEF StepTypes, QueueTypes, HistoryTypes
<1>1. CASE Reject(j) \/ Drop(j) \/ Evict(j)
  <2>1. \E how \in States \ {"active"} : End(j, how)
    BY <1>1 DEF Reject, Drop, Evict, States
  <2>2. QueueTypes'
    BY <2>1, EndKeeps
  <2>3. lost' \subseteq Searches
    BY <1>1 DEF Reject, Drop, Evict, Missed
  <2> QED
    BY <1>1, <2>2, <2>3, JobFrame DEF Reject, Drop, Evict
<1>2. CASE writeKeywordsEmbedding(j)
  <2>1. /\ work[j].at = "taste" /\ Current(j) \in Rows /\ work[j].todo # <<>>
    BY <1>2, CurrentRow DEF writeKeywordsEmbedding, At, Busy
  <2>2. PICK a, n, m : /\ a = IF j \in Listings THEN "match" ELSE "rank"
                       /\ n = Current(j).text
                       /\ m = [work[j] EXCEPT !.at = a, !.vec = n]
    OBVIOUS
  <2>3. n \in Nat /\ Set(j, m)
    BY <1>2, <2>1, <2>2 DEF writeKeywordsEmbedding, Rows
  <2>4. m = [at |-> a, photo |-> work[j].photo, todo |-> work[j].todo, vec |-> n, left |-> work[j].left]
    BY <2>2 DEF Work
  <2>5. work[j].photo \in Nat \ {0} /\ work[j].left \in SUBSET Listings
    BY DEF Work
  <2>6. QueueTypes'
    <3>1. m \in Work
      BY <2>1, <2>2, <2>3, <2>4, <2>5 DEF Work, Places
    <3> QED
      BY <2>1, <2>2, <2>3, <2>4, <2>5, <3>1, MoveKeeps DEF Busy
  <2>7. SearchTypes'
    BY <1>2, <2>1 DEF writeKeywordsEmbedding, StepTypes, SearchTypes, Rows
  <2> QED
    BY <1>2, <2>6, <2>7 DEF writeKeywordsEmbedding, StepTypes, ResultTypes, resultVars, HistoryTypes
<1>3. CASE Load(j)
  <2>1. PICK found : found = IF j = All THEN listActive
                             ELSE IF j \in Operators /\ Live(j) THEN <<j>> ELSE <<>>
    OBVIOUS
  <2>2. found \in Seq(Searches) /\ brief \in [Searches -> Nat]
    <3>1. CASE j = All
      BY <2>1, <3>1, ListedFacts DEF StepTypes, SearchTypes
    <3>2. CASE j # All
      <4>1. j \in Searches
        BY <1>3, <3>2 DEF Load, Jobs
      <4> QED
        BY <2>1, <3>2, <4>1 DEF StepTypes, SearchTypes
    <3> QED
      BY <3>1, <3>2
  <2>3. PICK rows : rows = [i \in DOMAIN found |-> Row(found[i])]
    OBVIOUS
  <2>4. rows \in Seq(Rows)
    BY <2>2, <2>3, RowsOf
  <2>5. PICK todo : todo = Tasteful(rows)
    OBVIOUS
  <2>6. todo \in Seq(Rows)
    BY <2>4, <2>5, KeptFacts DEF Tasteful
  <2>7. PICK w : w = [Idle EXCEPT !.at = "taste", !.todo = todo]
    OBVIOUS
  <2>8. IF todo = <<>> THEN End(j, "completed") ELSE Begin(j, w)
    BY <1>3, <2>1, <2>3, <2>5, <2>7 DEF Load
  <2>9. w = [at |-> "taste", photo |-> 1, todo |-> todo, vec |-> 0, left |-> {}]
    BY <2>7 DEF Idle
  <2>10. w \in Work
    BY <2>6, <2>9 DEF Work, Places
  <2>11. todo # <<>> => PlaceOK(j, w)
    BY <2>9 DEF PlaceOK, Busy
  <2>12. QueueTypes'
    BY <2>8, <2>10, <2>11, EndKeeps, BeginKeeps DEF States
  <2>13. lost' \subseteq Searches
    BY <1>3 DEF Load
  <2> QED
    BY <1>3, <2>12, <2>13, JobFrame DEF Load
<1>4. CASE Rank(j)
  <2>1. /\ work[j].at = "rank" /\ Current(j) \in Rows /\ Tail(work[j].todo) \in Seq(Rows)
        /\ work[j].todo # <<>> /\ j \notin Listings
    BY <1>4, CurrentRow DEF Rank, At, Busy, QueueTypes, PlaceOK
  <2>2. PICK c \in vectorTopK(Content(Current(j))) :
          /\ IF c = {} THEN Onward(j, Tail(work[j].todo))
             ELSE Set(j, [work[j] EXCEPT !.at = "score", !.left = c])
          /\ ranked' = IF j = Current(j).search THEN [ranked EXCEPT ![j] = c] ELSE ranked
    BY <1>4 DEF Rank
  <2>3. c \subseteq Listings
    BY <2>2 DEF vectorTopK, buildSearchPrefilter
  <2>4. PICK m : m = [work[j] EXCEPT !.at = "score", !.left = c]
    OBVIOUS
  <2>5. m = [at |-> "score", photo |-> work[j].photo, todo |-> work[j].todo, vec |-> work[j].vec, left |-> c]
    BY <2>4 DEF Work
  <2>6. work[j].photo \in Nat \ {0} /\ work[j].vec \in Nat
    BY DEF Work
  <2>7. ASSUME Set(j, m) PROVE QueueTypes'
    <3>1. m \in Work
      BY <2>1, <2>3, <2>5, <2>6 DEF Work, Places
    <3>2. QueueTypes'
      BY <2>1, <2>3, <2>5, <2>6, <2>7, <3>1, MoveKeeps DEF Busy
    <3> QED
      BY <3>2
  <2>8. QueueTypes'
    BY <2>1, <2>2, <2>4, <2>7, OnwardKeeps
  <2>9. ranked' \in [Searches -> SUBSET Listings]
    BY <2>2, <2>3
  <2> QED
    BY <1>4, <2>8, <2>9, JobFrame DEF Rank
<1>5. CASE ScoreCandidate(j)
  <2>1. /\ work[j].at = "score" /\ Current(j) \in Rows /\ Tail(work[j].todo) \in Seq(Rows)
        /\ work[j].todo # <<>> /\ j \notin Listings
    BY <1>5, CurrentRow DEF ScoreCandidate, At, Busy, QueueTypes, PlaceOK
  <2>2. /\ work[j].photo \in Nat \ {0} /\ work[j].vec \in Nat /\ work[j].left \in SUBSET Listings
    BY DEF Work
  <2>3. PICK l \in work[j].left :
          /\ upsertByListingAndSearch(l, Current(j), work[j].vec)
          /\ IF work[j].left = {l} THEN Onward(j, Tail(work[j].todo))
             ELSE Set(j, [work[j] EXCEPT !.left = @ \ {l}])
    BY <1>5 DEF ScoreCandidate
  <2>4. PICK m : m = [work[j] EXCEPT !.left = @ \ {l}]
    OBVIOUS
  <2>5. m = [at |-> "score", photo |-> work[j].photo, todo |-> work[j].todo, vec |-> work[j].vec, left |-> work[j].left \ {l}]
    BY <2>1, <2>4 DEF Work
  <2>6. ASSUME Set(j, m) PROVE QueueTypes'
    <3>1. m \in Work
      BY <2>1, <2>2, <2>5 DEF Work, Places
    <3>2. QueueTypes'
      BY <2>1, <2>2, <2>5, <2>6, <3>1, MoveKeeps DEF Busy
    <3> QED
      BY <3>2
  <2>7. QueueTypes'
    BY <2>1, <2>3, <2>4, <2>6, OnwardKeeps
  <2>8. ResultTypes'
    BY <1>5, <2>1, <2>2, <2>3, UpsertTypes DEF ScoreCandidate, StepTypes
  <2> QED
    BY <1>5, <2>7, <2>8, JobFrame DEF ScoreCandidate
<1> QED
  BY <1>1, <1>2, <1>3, <1>4, <1>5 DEF JobStep, RecomputeStep

LEMMA StepKeepsTypes == ASSUME StepTypes, Step PROVE StepTypes'
<1>1. ASSUME NEW s \in Unsettled, SearchCall(s) PROVE StepTypes'
  BY <1>1, SearchCallTypes, ScoringAssumption DEF ScoringAssumption
<1>2. ASSUME NEW l \in Listings, enqueueAnalyze(l) \/ AnalyzeStep(l) PROVE StepTypes'
  BY <1>2, AnalyzeTypes
<1>3. CASE SavePreferences
  <2>1. QueueTypes'
    BY <1>3, EnqueueKeeps DEF SavePreferences, StepTypes, Jobs
  <2> QED
    BY <1>3, <2>1, JobFrame DEF SavePreferences, StepTypes, HistoryTypes
<1>4. ASSUME NEW j \in Jobs, JobStep(j) \/ RecomputeStep(j) PROVE StepTypes'
  BY <1>4, JobTypes
<1> QED
  BY <1>1, <1>2, <1>3, <1>4 DEF Step

LEMMA DeservingAreSearches ==
  recent \in Seq(Searches) =>
    \A l \in Listings : Deserving(l) \subseteq Range(recent) /\ Deserving(l) \subseteq Searches
<1> SUFFICES ASSUME recent \in Seq(Searches), NEW l \in Listings
    PROVE Deserving(l) \subseteq Range(recent) /\ Deserving(l) \subseteq Searches
  OBVIOUS
<1>1. Range(recent) \subseteq Searches
  BY ElementOfSeq DEF Range
<1> QED
  BY <1>1, ListedFacts DEF Deserving

LEMMA SetToSeqFacts ==
  ASSUME NEW S, IsFiniteSet(S)
  PROVE  SetToSeq(S) \in Seq(S) /\ Range(SetToSeq(S)) \subseteq S
<1>1. Cardinality(S) \in Nat
  BY FS_CardinalityType
<1>2. PICK f : f \in Bijection(1..Cardinality(S), S)
  BY FS_NatBijection, FS_CardinalityType DEF ExistsBijection
<1>3. f \in [1..Cardinality(S) -> S] /\ IsInjective(f)
  BY <1>2 DEF Bijection, Injection, IsInjective
<1>4. SetToSeq(S) \in [1..Cardinality(S) -> S]
  BY <1>3 DEF SetToSeq
<1> QED
  BY <1>1, <1>4 DEF Range

LEMMA InitTypes == Init => Types
<1> SUFFICES ASSUME Init PROVE Types
  OBVIOUS
<1> USE DEF Init
<1>1. recent \in Seq(Searches)
  <2>1. IsFiniteSet(Searches \ Unsettled)
    BY ScoringAssumption, FS_Difference DEF ScoringAssumption
  <2>2. recent \in Seq(Searches \ Unsettled)
    BY <2>1, SetToSeqFacts
  <2> QED
    BY <2>2
<1>2. SearchTypes
  BY <1>1 DEF SearchTypes
<1>3. ResultTypes
  BY FS_EmptySet DEF ResultTypes, Unscored
<1>4. QueueTypes
  BY IdleIsWork DEF QueueTypes, States
<1>5. HistoryTypes /\ owed \in [Listings -> SUBSET Searches]
  BY DEF HistoryTypes
<1> QED
  BY <1>2, <1>3, <1>4, <1>5 DEF Types, StepTypes

LEMMA NextTypes == Types /\ [Next]_vars => Types'
<1> SUFFICES ASSUME Types, [Next]_vars PROVE Types'
  OBVIOUS
<1>1. CASE Next
  <2>1. StepTypes'
    BY <1>1, StepKeepsTypes DEF Next, Types
  <2>2. \A l \in Listings : Deserving(l)' \subseteq Searches
    <3>1. (recent \in Seq(Searches) =>
             \A l \in Listings : Deserving(l) \subseteq Range(recent) /\ Deserving(l) \subseteq Searches)'
      BY DeservingAreSearches, PTL
    <3> QED
      BY <2>1, <3>1 DEF StepTypes, SearchTypes
  <2>3. owed' \in [Listings -> SUBSET Searches]
    BY <1>1, <2>2 DEF Next, Remember, Types
  <2> QED
    BY <2>1, <2>3 DEF Types
<1>2. CASE UNCHANGED vars
  BY <1>2 DEF vars, searchVars, resultVars, queueVars, Types, StepTypes, SearchTypes, ResultTypes,
     QueueTypes, HistoryTypes
<1> QED
  BY <1>1, <1>2

\* Every variable stays in its range, and a job that works on a search has one
\* to work on (analyzeListing, recomputeForSearch).
THEOREM ScoringTypes == Spec => []Types
  BY InitTypes, NextTypes, PTL DEF Spec
-----------------------------------------------------------------------------
(* Every image on record was there when a budget was last looked at, or belongs *)
(* to a listing whose job was running then or started on that look.            *)

Charged ==
  Budget > 0 =>
    \E base \in SUBSET analysed, crew \in SUBSET Listings :
      /\ Cardinality(base) < Budget /\ Cardinality(crew) <= Workers
      /\ \A l \in Listings : status[l] = "active" => l \in crew
      /\ analysed \subseteq base \cup UNION {Range(Photos[l]) : l \in crew}

NoneStarts == \A l \in Listings : status'[l] = "active" => status[l] = "active"

LEMMA ChargedFrame ==
  ASSUME Charged, UNCHANGED analysed, NoneStarts PROVE Charged'
  BY DEF Charged, NoneStarts

LEMMA QueueStarts ==
  ASSUME QueueTypes, NEW j \in Jobs,
         \/ UNCHANGED status \/ Enqueue(j) \/ \E how \in States \ {"active"} : End(j, how)
         \/ \E w : Active(j, w) /\ (status[j] = "active" \/ j \notin Listings)
  PROVE  NoneStarts
<1>1. CASE UNCHANGED status
  BY <1>1 DEF NoneStarts
<1>2. CASE Enqueue(j)
  BY <1>2 DEF NoneStarts, Enqueue, queueVars, QueueTypes, Jobs
<1>3. CASE \E how \in States \ {"active"} : End(j, how)
  BY <1>3 DEF NoneStarts, End, QueueTypes, Jobs
<1>4. CASE \E w : Active(j, w) /\ (status[j] = "active" \/ j \notin Listings)
  BY <1>4 DEF NoneStarts, Active, QueueTypes, Jobs
<1> QED
  BY <1>1, <1>2, <1>3, <1>4

LEMMA OnwardStarts ==
  ASSUME QueueTypes, NEW j \in Jobs, NEW todo, Onward(j, todo), status[j] = "active"
  PROVE  NoneStarts
<1>1. (\E how \in States \ {"active"} : End(j, how)) \/ \E w : Active(j, w)
  BY DEF Onward, Set, States
<1> QED
  BY <1>1, QueueStarts

LEMMA InitCharged == Init => Charged
<1> SUFFICES ASSUME Init, Budget > 0 PROVE Charged
  BY DEF Charged
<1>1. Cardinality({}) = 0
  BY FS_EmptySet
<1>2. \A l \in Listings : status[l] # "active"
  BY DEF Init, Jobs
<1>3. analysed = {}
  BY DEF Init
<1>4. 0 < Budget /\ 0 <= Workers
  BY ScoringAssumption DEF ScoringAssumption
<1> QED
  BY <1>1, <1>2, <1>3, <1>4 DEF Charged

\* A look at the budget starts the count anew.
LEMMA CheckBudgetCharged ==
  ASSUME Types, Charged, NEW l \in Listings, CheckBudget(l) PROVE Charged'
<1> QueueTypes /\ l \in Jobs
  BY DEF Types, StepTypes, Jobs
<1>1. UNCHANGED analysed
  BY DEF CheckBudget, resultVars
<1>2. CASE End(l, "completed")
  <2>1. NoneStarts
    BY <1>2, QueueStarts DEF States
  <2> QED
    BY <1>1, <2>1, ChargedFrame
<1>3. CASE Begin(l, [Idle EXCEPT !.at = "photo"]) /\ ~(Budget > 0 /\ Cardinality(analysed) >= Budget)
  <2> SUFFICES ASSUME Budget > 0 PROVE Charged'
    BY DEF Charged
  <2>1. PICK running : running = {i \in Listings : status[i] = "active"}
    OBVIOUS
  <2>2. Cardinality(running) < Workers
    BY <2>1 DEF CheckBudget, Take, QueueOf
  <2>3. IsFiniteSet(running) /\ Cardinality(running) \in Nat
    BY <2>1, ScoringAssumption, FS_Subset, FS_CardinalityType DEF ScoringAssumption
  <2>4. PICK crew : crew = running \cup {l}
    OBVIOUS
  <2>5. Cardinality(crew) <= Workers
    <3>1. Cardinality(crew) = Cardinality(running) \/ Cardinality(crew) = Cardinality(running) + 1
      BY <2>3, <2>4, FS_AddElement
    <3>2. Workers \in Nat
      BY ScoringAssumption DEF ScoringAssumption
    <3> QED
      BY <2>2, <2>3, <3>1, <3>2
  <2>6. crew \in SUBSET Listings /\ \A i \in Listings : status'[i] = "active" => i \in crew
    BY <1>3, <2>1, <2>4 DEF Begin, Active, QueueTypes, Jobs
  <2>7. Cardinality(analysed) < Budget
    <3>1. Cardinality(analysed) \in Nat /\ Budget \in Nat
      BY FS_CardinalityType, ScoringAssumption DEF ScoringAssumption, Types, StepTypes, ResultTypes
    <3> QED
      BY <1>3, <3>1
  <2>8. /\ analysed' \in SUBSET analysed' /\ Cardinality(analysed') < Budget
        /\ analysed' \subseteq analysed' \cup UNION {Range(Photos[i]) : i \in crew}
    BY <1>1, <2>7
  <2> QED
    BY <2>5, <2>6, <2>8 DEF Charged
<1> QED
  BY <1>2, <1>3 DEF CheckBudget

LEMMA RecordPhotoCharged ==
  ASSUME Types, Charged, NEW l \in Listings, RecordPhoto(l) PROVE Charged'
<1> SUFFICES ASSUME Budget > 0 PROVE Charged'
  BY DEF Charged
<1> QueueTypes /\ l \in Jobs
  BY DEF Types, StepTypes, Jobs
<1>1. /\ status[l] = "active" /\ work[l].at = "record"
      /\ analysed' = analysed \cup {Photos[l][work[l].photo]}
  BY DEF RecordPhoto, At
<1>2. NoneStarts
  BY <1>1, QueueStarts DEF RecordPhoto, Set
<1>3. Photos[l][work[l].photo] \in Range(Photos[l])
  <2>1. work[l].photo \in Nat \ {0} /\ work[l].photo <= Len(Photos[l])
    BY <1>1 DEF QueueTypes, PlaceOK, Work
  <2>2. Photos[l] \in Seq(Range(Photos[l]))
    BY ScoringAssumption DEF ScoringAssumption
  <2>3. work[l].photo \in DOMAIN Photos[l]
    BY <2>1, <2>2
  <2> QED
    BY <2>3 DEF Range
<1>4. PICK base \in SUBSET analysed, crew \in SUBSET Listings :
      /\ Cardinality(base) < Budget /\ Cardinality(crew) <= Workers
      /\ \A i \in Listings : status[i] = "active" => i \in crew
      /\ analysed \subseteq base \cup UNION {Range(Photos[i]) : i \in crew}
  BY DEF Charged
<1>5. /\ base \in SUBSET analysed'
      /\ \A i \in Listings : status'[i] = "active" => i \in crew
      /\ analysed' \subseteq base \cup UNION {Range(Photos[i]) : i \in crew}
  BY <1>1, <1>2, <1>3, <1>4 DEF NoneStarts
<1> QED
  BY <1>4, <1>5 DEF Charged

LEMMA NextCharged == Types /\ Charged /\ [Next]_vars => Charged'
<1> SUFFICES ASSUME Types, Charged, [Next]_vars PROVE Charged'
  OBVIOUS
<1> QueueTypes
  BY DEF Types, StepTypes
<1>1. ASSUME NEW s \in Unsettled, SearchCall(s) PROVE Charged'
  <2>1. s \in Jobs
    BY ScoringAssumption DEF ScoringAssumption, Jobs
  <2>2. UNCHANGED status \/ Enqueue(s)
    BY <1>1 DEF SearchCall, create, update, setStatus, Write, maybeTriggerRecompute, TriggerFails, remove, queueVars
  <2>3. UNCHANGED analysed
    BY <1>1 DEF SearchCall, create, update, setStatus, Write, maybeTriggerRecompute, TriggerFails, remove, resultVars
  <2>4. NoneStarts
    BY <2>1, <2>2, QueueStarts
  <2> QED
    BY <2>3, <2>4, ChargedFrame
<1>2. ASSUME NEW l \in Listings, enqueueAnalyze(l) \/ AnalyzeStep(l) PROVE Charged'
  <2> l \in Jobs
    BY DEF Jobs
  <2>1. CASE enqueueAnalyze(l)
    BY <2>1, QueueStarts, ChargedFrame DEF enqueueAnalyze, resultVars
  <2>2. CASE ScorePhoto(l)
    <3>1. status[l] = "active" /\ (\E w : Active(l, w)) /\ UNCHANGED analysed
      BY <2>2 DEF ScorePhoto, At, Set, resultVars
    <3> QED
      BY <3>1, QueueStarts, ChargedFrame
  <2>3. CASE EmbedListing(l)
    <3>1. status[l] = "active" /\ (\E w : Active(l, w)) /\ UNCHANGED analysed
      BY <2>3 DEF EmbedListing, At, Set
    <3> QED
      BY <3>1, QueueStarts, ChargedFrame
  <2>4. CASE ListSearches(l) \/ ScoreListing(l)
    <3>1. status[l] = "active" /\ (\E todo : Onward(l, todo)) /\ UNCHANGED analysed
      BY <2>4 DEF ListSearches, ScoreListing, At, resultVars
    <3> QED
      BY <3>1, OnwardStarts, ChargedFrame
  <2>5. CASE ReadVector(l)
    <3>1. status[l] = "active" /\ ((\E w : Active(l, w)) \/ \E todo : Onward(l, todo)) /\ UNCHANGED analysed
      BY <2>5 DEF ReadVector, At, Set, resultVars
    <3> QED
      BY <3>1, QueueStarts, OnwardStarts, ChargedFrame
  <2> QED
    BY <1>2, <2>1, <2>2, <2>3, <2>4, <2>5, CheckBudgetCharged, RecordPhotoCharged DEF AnalyzeStep
<1>3. CASE SavePreferences
  <2>1. All \in Jobs
    BY DEF Jobs
  <2> QED
    BY <1>3, <2>1, QueueStarts, ChargedFrame DEF SavePreferences, resultVars
<1>4. ASSUME NEW j \in Jobs, JobStep(j) \/ RecomputeStep(j) PROVE Charged'
  <2>1. UNCHANGED analysed
    BY <1>4 DEF JobStep, RecomputeStep, Reject, Drop, Evict, writeKeywordsEmbedding, Load, Rank, ScoreCandidate, resultVars
  <2>2. CASE Reject(j) \/ Drop(j) \/ Evict(j)
    <3>1. \E how \in States \ {"active"} : End(j, how)
      BY <2>2 DEF Reject, Drop, Evict, States
    <3> QED
      BY <2>1, <3>1, QueueStarts, ChargedFrame
  <2>3. CASE writeKeywordsEmbedding(j)
    <3>1. status[j] = "active" /\ \E w : Active(j, w)
      BY <2>3 DEF writeKeywordsEmbedding, At, Set
    <3> QED
      BY <2>1, <3>1, QueueStarts, ChargedFrame
  <2>4. CASE Load(j)
    <3>1. j \notin Listings /\ ((\E w : Active(j, w)) \/ End(j, "completed"))
      BY <2>4 DEF Load, Begin
    <3> QED
      BY <2>1, <3>1, QueueStarts, ChargedFrame DEF States
  <2>5. CASE Rank(j) \/ ScoreCandidate(j)
    <3>1. status[j] = "active" /\ ((\E w : Active(j, w)) \/ \E todo : Onward(j, todo))
      BY <2>5 DEF Rank, ScoreCandidate, At, Set
    <3> QED
      BY <2>1, <3>1, QueueStarts, OnwardStarts, ChargedFrame
  <2> QED
    BY <1>4, <2>2, <2>3, <2>4, <2>5 DEF JobStep, RecomputeStep
<1>5. CASE UNCHANGED vars
  <2>1. UNCHANGED <<analysed, status>>
    BY <1>5 DEF vars, resultVars, queueVars
  <2> QED
    BY <2>1, ChargedFrame DEF NoneStarts
<1> QED
  BY <1>1, <1>2, <1>3, <1>4, <1>5 DEF Next, Step

LEMMA ChargedBounds == Types /\ Charged => SpendBounded
<1> SUFFICES ASSUME Types, Charged, Budget > 0
    PROVE Cardinality(analysed) <= Budget - 1 + Workers * Max({0} \cup {Len(Photos[l]) : l \in Listings})
  BY DEF SpendBounded
<1>1. PICK m : m = Max({0} \cup {Len(Photos[l]) : l \in Listings})
  OBVIOUS
<1>2. \A l \in Listings : Photos[l] \in Seq(Range(Photos[l])) /\ Len(Photos[l]) \in Nat
  BY ScoringAssumption DEF ScoringAssumption
<1>3. m \in Nat /\ \A l \in Listings : Len(Photos[l]) <= m
  <2>1. PICK lens : lens = {Len(Photos[l]) : l \in Listings}
    OBVIOUS
  <2>2. IsFiniteSet(lens)
    <3>1. PICK f : f = [l \in Listings |-> Len(Photos[l])]
      OBVIOUS
    <3>2. f \in Surjection(Listings, lens)
      BY <2>1, <3>1 DEF Surjection
    <3> QED
      BY <3>2, FS_Surjection, ScoringAssumption DEF ScoringAssumption
  <2>3. IsFiniteSet({0} \cup lens)
    BY <2>2, FS_AddElement
  <2>4. {0} \cup lens \in SUBSET Nat
    BY <1>2, <2>1
  <2>5. m \in {0} \cup lens /\ \A y \in {0} \cup lens : m >= y
    BY <1>1, <2>1, <2>3, <2>4, FiniteMax
  <2> QED
    BY <1>2, <2>1, <2>4, <2>5
<1>4. PICK base \in SUBSET analysed, crew \in SUBSET Listings :
      /\ Cardinality(base) < Budget /\ Cardinality(crew) <= Workers
      /\ analysed \subseteq base \cup UNION {Range(Photos[i]) : i \in crew}
  BY DEF Charged
<1>5. PICK paid : paid = analysed \ base
  OBVIOUS
<1>6. IsFiniteSet(crew) /\ Cardinality(crew) \in Nat
  BY FS_Subset, FS_CardinalityType, ScoringAssumption DEF ScoringAssumption
<1>7. paid \subseteq UNION {Range(Photos[i]) : i \in crew}
  BY <1>4, <1>5
<1>8. IsFiniteSet(paid) /\ Cardinality(paid) <= Cardinality(crew) * m
  BY <1>2, <1>3, <1>6, <1>7, ImagesOf
<1>9. IsFiniteSet(base) /\ IsFiniteSet(analysed) /\ analysed = base \cup paid
  BY <1>5, FS_Subset DEF Types, StepTypes, ResultTypes
<1>10. Cardinality(analysed) <= Cardinality(base) + Cardinality(paid)
  <2>1. /\ Cardinality(base \cup paid) = Cardinality(base) + Cardinality(paid) - Cardinality(base \cap paid)
        /\ IsFiniteSet(base \cap paid)
    BY <1>8, <1>9, FS_Union, FS_Intersection
  <2>2. Cardinality(base \cap paid) \in Nat /\ Cardinality(base) \in Nat /\ Cardinality(paid) \in Nat
    BY <1>8, <1>9, <2>1, FS_CardinalityType
  <2> QED
    BY <1>9, <2>1, <2>2
<1>11. /\ Workers \in Nat /\ Budget \in Nat /\ Cardinality(base) \in Nat /\ Cardinality(paid) \in Nat
       /\ Cardinality(analysed) \in Nat
  BY <1>8, <1>9, FS_CardinalityType, ScoringAssumption DEF ScoringAssumption
<1>12. Cardinality(crew) * m <= Workers * m
  <2>1. \A a, b, c \in Nat : a <= b => a * c <= b * c
    OBVIOUS
  <2> QED
    BY <1>3, <1>4, <1>6, <1>11, <2>1
<1>13. Cardinality(crew) * m \in Nat /\ Workers * m \in Nat
  BY <1>3, <1>6, <1>11
<1>14. Cardinality(analysed) <= Budget - 1 + Workers * m
  BY <1>4, <1>8, <1>10, <1>11, <1>12, <1>13
<1> QED
  BY <1>1, <1>14

\* However many jobs run at a time, and in whatever order they look at the budget
\* and record their images, they overshoot it by no more than what the jobs of one
\* worker pool can hold (killSwitchReason, analyzeListing).
THEOREM SpendSound == Spec => []SpendBounded
<1>1. Init => Types /\ Charged
  BY InitTypes, InitCharged
<1>2. Types /\ Charged /\ [Next]_vars => (Types /\ Charged)'
  BY NextTypes, NextCharged
<1> QED
  BY <1>1, <1>2, ChargedBounds, PTL DEF Spec
-----------------------------------------------------------------------------
(* The rows that jobs carry with them *)

Carried(j) == Range(work[j].todo)

SearchRows ==
  \A s \in Searches : (s \in Range(recent) => Live(s)) /\ (Live(s) => brief[s] # 0)

\* A row says what its search said when it was read; the search has existed, and
\* says the same still, unless it is gone or known to have been overtaken.
RowOK(r) ==
  /\ r.text # 0 /\ life[r.search] # "new"
  /\ Live(r.search) => r.text <= brief[r.search]
  /\ Live(r.search) /\ r.search \notin lost => r.text = brief[r.search]

\* The recompute of one search works on that search alone.
OwnRow(j) == Len(work[j].todo) <= 1 /\ \A r \in Carried(j) : r.search = j

RowInv ==
  /\ SearchRows
  /\ \A j \in Jobs : \A r \in Carried(j) : RowOK(r)
  /\ \A j \in Searches : OwnRow(j)

LEMMA CarriedRows ==
  ASSUME QueueTypes, NEW j \in Jobs
  PROVE  /\ work[j].todo \in Seq(Rows) /\ Carried(j) \subseteq Rows
         /\ DOMAIN work[j].todo = 1..Len(work[j].todo) /\ Len(work[j].todo) \in Nat
<1>1. work[j].todo \in Seq(Rows)
  BY DEF QueueTypes, Work
<1> QED
  BY <1>1, ElementOfSeq DEF Carried, Range

LEMMA CurrentCarried ==
  ASSUME QueueTypes, NEW j \in Jobs, work[j].at \in Busy
  PROVE  Current(j) \in Carried(j) /\ Current(j) \in Rows
<1>1. /\ Current(j) = work[j].todo[1] /\ Current(j) \in Rows
      /\ work[j].todo \in Seq(Rows) /\ work[j].todo # <<>>
  BY CurrentRow
<1>2. 1 \in DOMAIN work[j].todo
  BY <1>1
<1> QED
  BY <1>1, <1>2 DEF Carried, Range

LEMMA TailRange ==
  ASSUME NEW T, NEW q \in Seq(T), q # <<>>
  PROVE  /\ Tail(q) \in Seq(T) /\ Len(Tail(q)) = Len(q) - 1 /\ Range(Tail(q)) \subseteq Range(q)
         /\ \A x \in Range(q) : x = q[1] \/ x \in Range(Tail(q))
<1>1. /\ Tail(q) \in Seq(T) /\ Len(Tail(q)) = Len(q) - 1 /\ Len(q) \in Nat
      /\ \A i \in 1..Len(Tail(q)) : Tail(q)[i] = q[i + 1]
  BY HeadTailProperties
<1>2. DOMAIN q = 1..Len(q) /\ DOMAIN Tail(q) = 1..(Len(q) - 1)
  BY <1>1
<1>3. ASSUME NEW x \in Range(Tail(q)) PROVE x \in Range(q)
  <2>1. PICK i \in 1..(Len(q) - 1) : x = Tail(q)[i]
    BY <1>2 DEF Range
  <2>2. i + 1 \in DOMAIN q /\ x = q[i + 1]
    BY <1>1, <1>2, <2>1
  <2> QED
    BY <2>2 DEF Range
<1>4. ASSUME NEW x \in Range(q) PROVE x = q[1] \/ x \in Range(Tail(q))
  <2>1. PICK i \in 1..Len(q) : x = q[i]
    BY <1>2 DEF Range
  <2>2. CASE i # 1
    <3>1. i - 1 \in 1..(Len(q) - 1) /\ (i - 1) + 1 = i
      BY <1>1, <2>2
    <3>2. Tail(q)[i - 1] = x
      BY <1>1, <2>1, <3>1
    <3> QED
      BY <1>2, <3>1, <3>2 DEF Range
  <2> QED
    BY <2>1, <2>2
<1> QED
  BY <1>1, <1>3, <1>4

LEMMA RowsRange ==
  ASSUME NEW q \in Seq(Searches), brief \in [Searches -> Nat]
  PROVE  Range([i \in DOMAIN q |-> Row(q[i])]) = {Row(s) : s \in Range(q)}
  BY DEF Range

\* A row read in this state.
FreshRow(r) == r \in Rows /\ Live(r.search) /\ r.text = brief[r.search]

LEMMA ListedAreFresh ==
  ASSUME SearchTypes, SearchRows, NEW q \in Seq(Searches), Range(q) \subseteq Range(recent)
  PROVE  \A r \in Range([i \in DOMAIN q |-> Row(q[i])]) : FreshRow(r)
<1>1. brief \in [Searches -> Nat] /\ Range(q) \subseteq Searches
  BY ElementOfSeq DEF SearchTypes, Range
<1>2. \A s \in Range(q) : FreshRow(Row(s))
  BY <1>1 DEF FreshRow, SearchRows, Row, Rows
<1> QED
  BY <1>1, <1>2, RowsRange

JobAct(j) == JobStep(j) \/ RecomputeStep(j) \/ (j \in Listings /\ AnalyzeStep(j))

\* What j carries after its step.
CarriesOn(j) == \A r \in Range(work'[j].todo) : r \in Carried(j) \/ FreshRow(r)

LEMMA EndCarries ==
  ASSUME QueueTypes, NEW j \in Jobs, NEW how, End(j, how) PROVE work'[j] = Idle /\ CarriesOn(j)
<1>1. work'[j] = Idle
  BY DEF End, QueueTypes
<1>2. Range(work'[j].todo) = {}
  BY <1>1 DEF Idle, Range
<1> QED
  BY <1>1, <1>2 DEF CarriesOn

LEMMA OnwardCarries ==
  ASSUME QueueTypes, NEW j \in Jobs, NEW todo, Onward(j, todo)
  PROVE  work'[j].todo = todo
<1>1. CASE todo = <<>>
  BY <1>1, EndCarries DEF Onward, Idle
<1>2. CASE todo # <<>>
  BY <1>2 DEF Onward, Set, Active, QueueTypes, Idle
<1> QED
  BY <1>1, <1>2

LEMMA AnalyzeCarries ==
  ASSUME StepTypes, SearchRows, NEW l \in Listings, AnalyzeStep(l) PROVE CarriesOn(l)
<1> l \in Jobs /\ QueueTypes /\ work[l] \in Work
  BY DEF Jobs, StepTypes, QueueTypes
<1>1. CASE CheckBudget(l)
  <2>1. CASE End(l, "completed")
    BY <2>1, EndCarries
  <2>2. CASE Begin(l, [Idle EXCEPT !.at = "photo"])
    <3>1. work'[l].todo = <<>>
      BY <2>2 DEF Begin, Active, QueueTypes, Idle
    <3> QED
      BY <3>1 DEF CarriesOn, Range
  <2> QED
    BY <1>1, <2>1, <2>2 DEF CheckBudget
<1>2. CASE ScorePhoto(l) \/ RecordPhoto(l)
  <2>1. PICK a, n, w : /\ a \in Places /\ w = [work[l] EXCEPT !.at = a, !.photo = n]
                       /\ work' = [work EXCEPT ![l] = w]
    <3>1. CASE ScorePhoto(l)
      <4>1. \/ work' = [work EXCEPT ![l] = [work[l] EXCEPT !.photo = @ + 1]]
            \/ work' = [work EXCEPT ![l] = [work[l] EXCEPT !.at = "record"]]
        BY <3>1 DEF ScorePhoto, Set, Active
      <4>2. /\ [work[l] EXCEPT !.photo = @ + 1] = [work[l] EXCEPT !.at = work[l].at, !.photo = work[l].photo + 1]
            /\ [work[l] EXCEPT !.at = "record"] = [work[l] EXCEPT !.at = "record", !.photo = work[l].photo]
        BY DEF Work
      <4>3. work[l].at \in Places /\ "record" \in Places
        BY DEF Places, Work
      <4>4. CASE work' = [work EXCEPT ![l] = [work[l] EXCEPT !.photo = @ + 1]]
        <5>1. work' = [work EXCEPT ![l] = [work[l] EXCEPT !.at = work[l].at, !.photo = work[l].photo + 1]]
          BY <4>2, <4>4
        <5> QED
          BY <4>3, <5>1
      <4>5. CASE work' = [work EXCEPT ![l] = [work[l] EXCEPT !.at = "record"]]
        <5>1. work' = [work EXCEPT ![l] = [work[l] EXCEPT !.at = "record", !.photo = work[l].photo]]
          BY <4>2, <4>5
        <5> QED
          BY <4>3, <5>1
      <4> QED
        BY <4>1, <4>4, <4>5
    <3>2. CASE RecordPhoto(l)
      BY <3>2 DEF RecordPhoto, Set, Active, Places
    <3> QED
      BY <1>2, <3>1, <3>2
  <2>2. w.todo = work[l].todo
    BY <2>1 DEF Work
  <2>3. work'[l].todo = work[l].todo
    BY <2>1, <2>2 DEF QueueTypes
  <2> QED
    BY <2>3 DEF CarriesOn, Carried
<1>3. CASE EmbedListing(l)
  <2>1. work'[l].todo = <<>>
    BY <1>3 DEF EmbedListing, Set, Active, QueueTypes, Idle
  <2> QED
    BY <2>1 DEF CarriesOn, Range
<1>4. CASE ListSearches(l)
  <2>1. PICK q : q = listActiveByOutcode(l)
    OBVIOUS
  <2>2. q \in Seq(Searches) /\ Range(q) \subseteq Range(recent)
    BY <2>1, ListedFacts DEF StepTypes, SearchTypes
  <2>3. work'[l].todo = [i \in DOMAIN q |-> Row(q[i])]
    BY <1>4, <2>1, OnwardCarries DEF ListSearches
  <2> QED
    BY <2>2, <2>3, ListedAreFresh DEF CarriesOn, StepTypes
<1>5. CASE ReadVector(l)
  <2>1. work[l].todo \in Seq(Rows) /\ work[l].todo # <<>>
    BY <1>5, CurrentRow DEF ReadVector, At, Busy
  <2>2. \/ work'[l].todo = work[l].todo
        \/ Onward(l, Tail(work[l].todo))
    BY <1>5 DEF ReadVector, Set, Active, QueueTypes, Work
  <2>3. Range(work'[l].todo) \subseteq Range(work[l].todo)
    BY <2>1, <2>2, OnwardCarries, TailRange
  <2> QED
    BY <2>3 DEF CarriesOn, Carried
<1>6. CASE ScoreListing(l)
  <2>1. work[l].todo \in Seq(Rows) /\ work[l].todo # <<>>
    BY <1>6, CurrentRow DEF ScoreListing, At, Busy
  <2>2. Range(work'[l].todo) \subseteq Range(work[l].todo)
    BY <1>6, <2>1, OnwardCarries, TailRange DEF ScoreListing
  <2> QED
    BY <2>2 DEF CarriesOn, Carried
<1> QED
  BY <1>1, <1>2, <1>3, <1>4, <1>5, <1>6 DEF AnalyzeStep

\* The rows a recompute sets out with.
Found(j) == IF j = All THEN listActive ELSE IF j \in Operators /\ Live(j) THEN <<j>> ELSE <<>>
Loaded(j) == Tasteful([i \in DOMAIN Found(j) |-> Row(Found(j)[i])])

LEMMA LoadCarries ==
  ASSUME StepTypes, SearchRows, NEW j \in Jobs, Load(j)
  PROVE  /\ CarriesOn(j) /\ work'[j].todo = Loaded(j) /\ Loaded(j) \in Seq(Rows)
         /\ j \in Searches => /\ Len(Loaded(j)) <= 1
                              /\ \A r \in Range(Loaded(j)) : r.search = j
         /\ j \in Operators /\ Live(j) /\ searchHasTaste(BriefsOf[j][brief[j]]) => Loaded(j) # <<>>
<1> QueueTypes /\ work[j] \in Work /\ brief \in [Searches -> Nat] /\ recent \in Seq(Searches)
  BY DEF StepTypes, QueueTypes, SearchTypes
<1>1. PICK found : found = Found(j)
  OBVIOUS
<1>2. j = All \/ j \in Searches
  BY DEF Load, Jobs
<1>3. found \in Seq(Searches) /\ (j # All => Len(found) <= 1 /\ Range(found) \subseteq {j})
  <2>1. CASE j = All
    BY <1>1, <2>1, ListedFacts DEF Found
  <2>2. CASE j # All
    <3>1. found = <<>> \/ (found = <<j>> /\ j \in Searches)
      BY <1>1, <1>2, <2>2 DEF Found
    <3>2. CASE found = <<>>
      BY <3>2 DEF Range
    <3>3. CASE found = <<j>> /\ j \in Searches
      <4>1. found \in Seq(Searches) /\ Len(found) = 1 /\ DOMAIN found = {1} /\ found[1] = j
        BY <3>3
      <4> QED
        BY <4>1 DEF Range
    <3> QED
      BY <3>1, <3>2, <3>3
  <2> QED
    BY <2>1, <2>2
<1>4. Range(found) \subseteq {s \in Searches : Live(s)}
  <2>1. CASE j = All
    <3>1. Range(found) \subseteq Range(recent)
      BY <1>1, <2>1, ListedFacts DEF Found
    <3>2. Range(recent) \subseteq Searches
      BY ElementOfSeq DEF Range
    <3> QED
      BY <3>1, <3>2 DEF SearchRows
  <2>2. CASE j # All
    BY <1>1, <1>2, <2>2 DEF Found, Range
  <2> QED
    BY <2>1, <2>2
<1>5. PICK rows : rows = [i \in DOMAIN found |-> Row(found[i])]
  OBVIOUS
<1>6. rows \in Seq(Rows) /\ Len(rows) = Len(found)
  BY <1>3, <1>5, RowsOf
<1>7. Range(rows) = {Row(s) : s \in Range(found)}
  BY <1>3, <1>5, RowsRange
<1>8. \A r \in Range(rows) : FreshRow(r)
  <2>1. \A s \in Searches : Live(s) => FreshRow(Row(s))
    BY DEF FreshRow, Row, Rows
  <2> QED
    BY <1>4, <1>7, <2>1
<1>9. PICK todo : todo = Loaded(j)
  OBVIOUS
<1>10. todo = Kept(rows, {x \in Range(rows) : searchHasTaste(Content(x))})
  BY <1>1, <1>5, <1>9 DEF Loaded, Tasteful
<1>11. /\ todo \in Seq(Rows) /\ Len(todo) <= Len(rows)
       /\ Range(todo) = Range(rows) \cap {x \in Range(rows) : searchHasTaste(Content(x))}
  BY <1>6, <1>10, KeptFacts
<1>12. work'[j].todo = todo
  <2>1. IF todo = <<>> THEN End(j, "completed") ELSE Begin(j, [Idle EXCEPT !.at = "taste", !.todo = todo])
    BY <1>1, <1>5, <1>9 DEF Load, Loaded, Found
  <2>2. CASE todo = <<>>
    BY <2>1, <2>2, EndCarries DEF Idle
  <2>3. CASE todo # <<>>
    BY <2>1, <2>3 DEF Begin, Active, QueueTypes, Idle
  <2> QED
    BY <2>2, <2>3
<1>13. CarriesOn(j)
  BY <1>8, <1>11, <1>12 DEF CarriesOn
<1>14. j \in Searches => Len(todo) <= 1 /\ \A r \in Range(todo) : r.search = j
  <2> SUFFICES ASSUME j \in Searches PROVE Len(todo) <= 1 /\ \A r \in Range(todo) : r.search = j
    OBVIOUS
  <2>1. j # All
    BY ScoringAssumption DEF ScoringAssumption
  <2>2. Len(todo) \in Nat /\ Len(rows) \in Nat /\ Len(found) \in Nat /\ Len(found) <= 1
    BY <1>3, <1>6, <1>11, <2>1
  <2>3. Len(todo) <= 1
    BY <1>6, <1>11, <2>2
  <2>4. \A r \in Range(rows) : r.search = j
    BY <1>3, <1>7, <2>1 DEF Row
  <2> QED
    BY <1>11, <2>3, <2>4
<1>15. ASSUME j \in Operators, Live(j), searchHasTaste(BriefsOf[j][brief[j]]) PROVE todo # <<>>
  <2>1. j # All /\ j \in Searches
    BY <1>15, ScoringAssumption DEF ScoringAssumption
  <2>2. found = <<j>>
    BY <1>1, <1>15, <2>1 DEF Found
  <2>3. Row(j) \in Range(rows)
    BY <1>7, <2>2 DEF Range
  <2>4. Row(j) \in Range(todo)
    BY <1>11, <1>15, <2>3 DEF Content, Row
  <2>5. todo = <<>> => Range(todo) = {}
    BY DEF Range
  <2> QED
    BY <2>4, <2>5
<1> QED
  BY <1>9, <1>11, <1>12, <1>13, <1>14, <1>15
-----------------------------------------------------------------------------
(* What a step of a job may touch *)

LEMMA StaysElsewhere ==
  ASSUME QueueTypes, NEW j \in Jobs,
         (\E how : End(j, how)) \/ (\E w : Active(j, w)) \/ (\E todo : Onward(j, todo))
  PROVE  \A i \in Jobs : i # j => status'[i] = status[i] /\ work'[i] = work[i]
<1>1. CASE \E how : End(j, how)
  BY <1>1 DEF End, QueueTypes
<1>2. CASE \E w : Active(j, w)
  BY <1>2 DEF Active, QueueTypes
<1>3. CASE \E todo : Onward(j, todo)
  <2>1. (\E how : End(j, how)) \/ \E w : Active(j, w)
    BY <1>3 DEF Onward, Set
  <2> QED
    BY <1>1, <1>2, <2>1
<1> QED
  BY <1>1, <1>2, <1>3

LEMMA JobElsewhere ==
  ASSUME QueueTypes, NEW j \in Jobs, JobAct(j)
  PROVE  \A i \in Jobs : i # j => status'[i] = status[i] /\ work'[i] = work[i]
<1>1. CASE Reject(j) \/ Drop(j) \/ Evict(j)
  BY <1>1, StaysElsewhere DEF Reject, Drop, Evict
<1>2. CASE writeKeywordsEmbedding(j)
  BY <1>2, StaysElsewhere DEF writeKeywordsEmbedding, Set
<1>3. CASE Load(j)
  <2>1. (\E how : End(j, how)) \/ (\E w : Active(j, w))
    BY <1>3 DEF Load, Begin
  <2> QED
    BY <2>1, StaysElsewhere
<1>4. CASE Rank(j) \/ ScoreCandidate(j)
  <2>1. (\E w : Active(j, w)) \/ (\E todo : Onward(j, todo))
    BY <1>4 DEF Rank, ScoreCandidate, Set
  <2> QED
    BY <2>1, StaysElsewhere
<1>5. CASE CheckBudget(j) \/ ScorePhoto(j) \/ RecordPhoto(j) \/ EmbedListing(j)
  <2>1. (\E how : End(j, how)) \/ (\E w : Active(j, w))
    BY <1>5 DEF CheckBudget, ScorePhoto, RecordPhoto, EmbedListing, Begin, Set
  <2> QED
    BY <2>1, StaysElsewhere
<1>6. CASE ListSearches(j) \/ ReadVector(j) \/ ScoreListing(j)
  <2>1. (\E w : Active(j, w)) \/ (\E todo : Onward(j, todo))
    BY <1>6 DEF ListSearches, ReadVector, ScoreListing, Set
  <2> QED
    BY <2>1, StaysElsewhere
<1> QED
  BY <1>1, <1>2, <1>3, <1>4, <1>5, <1>6 DEF JobAct, JobStep, RecomputeStep, AnalyzeStep

LEMMA JobTables ==
  ASSUME StepTypes, NEW j \in Jobs, JobAct(j)
  PROVE  /\ UNCHANGED <<life, active, brief, recent, calls>>
         /\ \A s \in Searches : s # j => ranked'[s] = ranked[s] /\ (s \in lost' <=> s \in lost)
<1>1. UNCHANGED <<life, active, brief, recent, calls>>
  BY DEF JobAct, JobStep, RecomputeStep, AnalyzeStep, Reject, Drop, Evict, writeKeywordsEmbedding, Load,
     Rank, ScoreCandidate, CheckBudget, ScorePhoto, RecordPhoto, EmbedListing, ListSearches, ReadVector,
     ScoreListing, searchVars
<1>2. \A s \in Searches : s # j => (s \in lost' <=> s \in lost)
  BY DEF JobAct, JobStep, RecomputeStep, AnalyzeStep, Reject, Drop, Evict, writeKeywordsEmbedding, Load,
     Rank, ScoreCandidate, CheckBudget, ScorePhoto, RecordPhoto, EmbedListing, ListSearches, ReadVector,
     ScoreListing, Missed
<1>3. \A s \in Searches : s # j => ranked'[s] = ranked[s]
  <2>1. CASE Rank(j)
    BY <2>1 DEF Rank, StepTypes, HistoryTypes
  <2>2. CASE ~Rank(j)
    BY <2>2 DEF JobAct, JobStep, RecomputeStep, AnalyzeStep, Reject, Drop, Evict, writeKeywordsEmbedding, Load,
       ScoreCandidate, CheckBudget, ScorePhoto, RecordPhoto, EmbedListing, ListSearches, ReadVector,
       ScoreListing
  <2> QED
    BY <2>1, <2>2
<1> QED
  BY <1>1, <1>2, <1>3

\* A job writes what it read of the search it is at.
LEMMA JobWrites ==
  ASSUME StepTypes, NEW j \in Jobs, JobAct(j)
  PROVE  /\ \/ UNCHANGED vec
            \/ /\ work[j].at \in Busy
               /\ vec' = [vec EXCEPT ![Current(j).search] = Current(j).text]
         /\ \/ UNCHANGED score
            \/ /\ work[j].at \in Busy
               /\ \E l \in Listings : upsertByListingAndSearch(l, Current(j), work[j].vec)
<1> QueueTypes
  BY DEF StepTypes
<1>1. CASE writeKeywordsEmbedding(j)
  BY <1>1 DEF writeKeywordsEmbedding, At, Busy, resultVars
<1>2. CASE ScoreListing(j) /\ j \in Listings
  BY <1>2 DEF ScoreListing, At, Busy, searchVars
<1>3. CASE ScoreCandidate(j)
  <2>1. work[j].left \subseteq Listings
    BY DEF QueueTypes, Work
  <2> QED
    BY <1>3, <2>1 DEF ScoreCandidate, At, Busy, searchVars
<1>4. CASE Reject(j) \/ Drop(j) \/ Evict(j) \/ Load(j) \/ Rank(j)
  BY <1>4 DEF Reject, Drop, Evict, Load, Rank, searchVars, resultVars
<1>5. CASE CheckBudget(j) \/ ScorePhoto(j) \/ RecordPhoto(j) \/ EmbedListing(j) \/ ListSearches(j) \/ ReadVector(j)
  BY <1>5 DEF CheckBudget, ScorePhoto, RecordPhoto, EmbedListing, ListSearches, ReadVector, searchVars, resultVars
<1> QED
  BY <1>1, <1>2, <1>3, <1>4, <1>5 DEF JobAct, JobStep, RecomputeStep, AnalyzeStep

LEMMA JobCarries ==
  ASSUME StepTypes, SearchRows, NEW j \in Jobs, JobAct(j)
  PROVE  /\ CarriesOn(j)
         /\ j \in Searches => \/ Len(work'[j].todo) <= 1 /\ \A r \in Range(work'[j].todo) : r.search = j
                              \/ Len(work'[j].todo) <= Len(work[j].todo) /\ Range(work'[j].todo) \subseteq Carried(j)
<1> QueueTypes /\ work[j] \in Work /\ work[j].todo \in Seq(Rows)
  BY DEF StepTypes, QueueTypes, Work
<1>1. CASE j \in Listings /\ AnalyzeStep(j)
  BY <1>1, AnalyzeCarries, ScoringAssumption DEF ScoringAssumption
<1>2. CASE Load(j)
  BY <1>2, LoadCarries
<1>3. CASE Reject(j) \/ Drop(j) \/ Evict(j)
  <2>1. work'[j] = Idle
    BY <1>3, EndCarries DEF Reject, Drop, Evict
  <2>2. Len(work'[j].todo) = 0 /\ Range(work'[j].todo) = {}
    BY <2>1 DEF Idle, Range
  <2> QED
    BY <2>2 DEF CarriesOn
<1>4. CASE \/ work'[j].todo = work[j].todo
           \/ work[j].todo # <<>> /\ work'[j].todo = Tail(work[j].todo)
  <2>1. Len(work'[j].todo) <= Len(work[j].todo) /\ Range(work'[j].todo) \subseteq Carried(j)
    <3>1. Len(work[j].todo) \in Nat
      OBVIOUS
    <3>2. CASE work'[j].todo = work[j].todo
      BY <3>1, <3>2 DEF Carried
    <3>3. CASE work[j].todo # <<>> /\ work'[j].todo = Tail(work[j].todo)
      BY <3>1, <3>3, TailRange DEF Carried
    <3> QED
      BY <1>4, <3>2, <3>3
  <2> QED
    BY <2>1 DEF CarriesOn
<1>5. CASE writeKeywordsEmbedding(j)
  <2>1. PICK a, n, w : w = [work[j] EXCEPT !.at = a, !.vec = n] /\ work' = [work EXCEPT ![j] = w]
    BY <1>5 DEF writeKeywordsEmbedding, Set, Active
  <2>2. w.todo = work[j].todo
    BY <2>1 DEF Work
  <2>3. work'[j].todo = work[j].todo
    BY <2>1, <2>2 DEF QueueTypes
  <2> QED
    BY <1>4, <2>3
<1>6. CASE Rank(j) \/ ScoreCandidate(j)
  <2>1. work[j].todo # <<>>
    BY <1>6, CurrentRow DEF Rank, ScoreCandidate, At, Busy
  <2>2. CASE Onward(j, Tail(work[j].todo))
    BY <1>4, <2>1, <2>2, OnwardCarries
  <2>3. CASE ~Onward(j, Tail(work[j].todo))
    <3>1. \/ \E c : Set(j, [work[j] EXCEPT !.at = "score", !.left = c])
          \/ \E l : Set(j, [work[j] EXCEPT !.left = @ \ {l}])
      BY <1>6, <2>3 DEF Rank, ScoreCandidate
    <3>2. PICK w : w.todo = work[j].todo /\ work' = [work EXCEPT ![j] = w]
      <4>1. \A c : [work[j] EXCEPT !.at = "score", !.left = c].todo = work[j].todo
        BY DEF Work
      <4>2. \A l : [work[j] EXCEPT !.left = @ \ {l}].todo = work[j].todo
        BY DEF Work
      <4> QED
        BY <3>1, <4>1, <4>2 DEF Set, Active
    <3>3. work'[j].todo = work[j].todo
      BY <3>2 DEF QueueTypes
    <3> QED
      BY <1>4, <3>3
  <2> QED
    BY <2>2, <2>3
<1> QED
  BY <1>1, <1>2, <1>3, <1>5, <1>6 DEF JobAct, JobStep, RecomputeStep
-----------------------------------------------------------------------------
(* Rows stay true, or their search counts as overtaken *)

LEMMA InitRows == Init => RowInv
<1> SUFFICES ASSUME Init PROVE RowInv
  OBVIOUS
<1>1. IsFiniteSet(Searches \ Unsettled)
  BY ScoringAssumption, FS_Difference DEF ScoringAssumption
<1>2. Range(recent) \subseteq Searches \ Unsettled
  BY <1>1, SetToSeqFacts DEF Init
<1>3. SearchRows
  <2>1. /\ life = [s \in Searches |-> IF s \in Unsettled THEN "new" ELSE "live"]
        /\ brief = [s \in Searches |-> IF s \in Unsettled THEN 0 ELSE 1]
    BY DEF Init
  <2>2. \A s \in Searches : (Live(s) <=> s \notin Unsettled) /\ (s \notin Unsettled => brief[s] # 0)
    BY <2>1 DEF Live
  <2> QED
    BY <1>2, <2>2 DEF SearchRows
<1>4. \A j \in Jobs : work[j].todo = <<>>
  BY DEF Init, Idle
<1>5. \A j \in Jobs : Carried(j) = {} /\ Len(work[j].todo) = 0
  BY <1>4 DEF Carried, Range
<1>6. \A j \in Searches : OwnRow(j)
  BY <1>5 DEF OwnRow, Jobs
<1> QED
  BY <1>3, <1>5, <1>6 DEF RowInv

\* A search ceases to count as overtaken by its own recompute only when no row
\* of it is older.
LEMMA LostLeaves ==
  ASSUME NEW j \in Jobs, JobAct(j), j \in lost, j \notin lost'
  PROVE  Live(j) /\ ~Overtaken(j, brief[j])
<1>1. CASE Load(j)
  BY <1>1 DEF Load
<1>2. CASE Reject(j) \/ Drop(j) \/ Evict(j)
  BY <1>2 DEF Reject, Drop, Evict, Missed
<1>3. CASE writeKeywordsEmbedding(j) \/ Rank(j) \/ ScoreCandidate(j)
  BY <1>3 DEF writeKeywordsEmbedding, Rank, ScoreCandidate
<1>4. CASE AnalyzeStep(j)
  BY <1>4 DEF AnalyzeStep, CheckBudget, ScorePhoto, RecordPhoto, EmbedListing, ListSearches, ReadVector,
     ScoreListing
<1> QED
  BY <1>1, <1>2, <1>3, <1>4 DEF JobAct, JobStep, RecomputeStep

LEMMA NotOvertaken ==
  ASSUME QueueTypes, NEW s, NEW v, ~Overtaken(s, v), NEW j \in Jobs, NEW r \in Carried(j), r.search = s
  PROVE  ~(r.text < v)
<1>1. PICK i \in DOMAIN work[j].todo : r = work[j].todo[i]
  BY DEF Carried, Range
<1> QED
  BY <1>1 DEF Overtaken

LEMMA RowStays ==
  ASSUME StepTypes, RowInv, NEW j \in Jobs, JobAct(j), NEW i \in Jobs, NEW r \in Carried(i)
  PROVE  RowOK(r)'
<1> QueueTypes /\ brief \in [Searches -> Nat]
  BY DEF StepTypes, SearchTypes
<1>1. RowOK(r) /\ r \in Rows
  BY CarriedRows DEF RowInv
<1>2. r.search \in Searches /\ r.text \in Nat
  BY <1>1 DEF Rows
<1>3. UNCHANGED <<life, brief>>
  BY JobTables
<1>4. CASE r.search \in lost' \/ r.search \notin lost
  BY <1>1, <1>3, <1>4 DEF RowOK, Live
<1>5. CASE r.search \notin lost' /\ r.search \in lost
  <2>1. r.search = j
    BY <1>2, <1>5, JobTables
  <2>2. Live(r.search) /\ ~Overtaken(r.search, brief[r.search])
    BY <1>5, <2>1, LostLeaves
  <2>3. ~(r.text < brief[r.search])
    BY <2>2, NotOvertaken
  <2>4. r.text <= brief[r.search] /\ brief[r.search] \in Nat
    BY <1>1, <1>2, <2>2 DEF RowOK
  <2>5. r.text = brief[r.search]
    BY <1>2, <2>3, <2>4
  <2> QED
    BY <1>1, <1>3, <2>5 DEF RowOK, Live
<1> QED
  BY <1>4, <1>5

LEMMA JobRows ==
  ASSUME StepTypes, RowInv, NEW j \in Jobs, JobAct(j) PROVE RowInv'
<1> QueueTypes /\ SearchRows
  BY DEF StepTypes, RowInv
<1>1. UNCHANGED <<life, active, brief, recent, calls>>
  BY JobTables
<1>2. \A i \in Jobs : i # j => work'[i] = work[i]
  BY JobElsewhere
<1>3. SearchRows'
  BY <1>1 DEF SearchRows, Live
<1>4. ASSUME NEW r, FreshRow(r) PROVE RowOK(r)'
  <2>1. r.search \in Searches /\ r.text \in Nat
    BY <1>4 DEF FreshRow, Rows
  <2> QED
    BY <1>1, <1>4, <2>1 DEF FreshRow, RowOK, SearchRows, Live
<1>5. \A i \in Jobs : \A r \in Range(work'[i].todo) : RowOK(r)'
  <2> SUFFICES ASSUME NEW i \in Jobs, NEW r \in Range(work'[i].todo) PROVE RowOK(r)'
    OBVIOUS
  <2>1. CASE i = j
    <3>1. r \in Carried(j) \/ FreshRow(r)
      BY <2>1, JobCarries DEF CarriesOn
    <3> QED
      BY <1>4, <3>1, RowStays
  <2>2. CASE i # j
    <3>1. r \in Carried(i)
      BY <1>2, <2>2 DEF Carried
    <3> QED
      BY <3>1, RowStays
  <2> QED
    BY <2>1, <2>2
<1>6. \A i \in Searches : OwnRow(i)'
  <2> SUFFICES ASSUME NEW i \in Searches PROVE OwnRow(i)'
    OBVIOUS
  <2>1. i \in Jobs /\ OwnRow(i)
    BY DEF Jobs, RowInv
  <2>2. CASE i = j
    <3>1. CASE Len(work'[j].todo) <= 1 /\ \A r \in Range(work'[j].todo) : r.search = j
      BY <2>2, <3>1 DEF OwnRow, Carried
    <3>2. CASE Len(work'[j].todo) <= Len(work[j].todo) /\ Range(work'[j].todo) \subseteq Carried(j)
      <4>1. QueueTypes'
        BY StepKeepsTypes, <1>1 DEF JobAct, StepTypes, Step, Jobs
      <4>2. work[j].todo \in Seq(Rows) /\ work'[j].todo \in Seq(Rows)
        BY <4>1 DEF QueueTypes, Work
      <4>3. Len(work[j].todo) \in Nat /\ Len(work'[j].todo) \in Nat /\ Len(work[j].todo) <= 1
        BY <2>1, <2>2, <4>2 DEF OwnRow
      <4>4. Len(work'[j].todo) <= 1
        BY <3>2, <4>3
      <4> QED
        BY <2>1, <2>2, <3>2, <4>4 DEF OwnRow, Carried
    <3> QED
      BY <2>2, <3>1, <3>2, JobCarries
  <2>3. CASE i # j
    BY <1>2, <2>1, <2>3 DEF OwnRow, Carried
  <2> QED
    BY <2>2, <2>3
<1> QED
  BY <1>3, <1>5, <1>6 DEF RowInv, Carried

\* Rows when no job has moved.
LEMMA RowsUnmoved ==
  ASSUME RowInv, UNCHANGED work, SearchRows',
         \A j \in Jobs : \A r \in Carried(j) : RowOK(r)'
  PROVE  RowInv'
  BY DEF RowInv, OwnRow, Carried

LEMMA WriteRows ==
  ASSUME StepTypes, RowInv, NEW s \in Searches, NEW v \in Nat \ {0}, NEW st, Write(s, v, st),
         life' = [life EXCEPT ![s] = "live"],
         life[s] = "new" \/ (Live(s) /\ v \in {brief[s], brief[s] + 1})
  PROVE  RowInv'
<1> QueueTypes /\ SearchTypes
  BY DEF StepTypes
<1>1. /\ brief' = [brief EXCEPT ![s] = v] /\ recent' = <<s>> \o Kept(recent, Searches \ {s})
      /\ UNCHANGED work
      /\ lost' = IF v = brief[s] THEN lost ELSE IF Overtaken(s, v) THEN lost \cup {s} ELSE lost \ {s}
  BY DEF Write, ToFront
<1>2. Range(recent') \subseteq Range(recent) \cup {s}
  <2>1. PICK q : q = Kept(recent, Searches \ {s})
    OBVIOUS
  <2>2. q \in Seq(Searches) /\ Range(q) \subseteq Range(recent)
    BY <2>1, KeptFacts DEF SearchTypes
  <2>3. Range(<<s>> \o q) \subseteq Range(q) \cup {s}
    <3>1. <<s>> \in Seq(Searches) /\ Len(<<s>>) = 1 /\ <<s>>[1] = s
      OBVIOUS
    <3>2. /\ Len(<<s>> \o q) = Len(q) + 1 /\ DOMAIN (<<s>> \o q) = 1..(Len(q) + 1)
          /\ \A i \in 1..(Len(q) + 1) : (<<s>> \o q)[i] = IF i = 1 THEN s ELSE q[i - 1]
      BY <2>2, <3>1, ConcatProperties
    <3>3. \A i \in 1..(Len(q) + 1) : i # 1 => i - 1 \in DOMAIN q
      BY <2>2
    <3> QED
      BY <3>2, <3>3 DEF Range
  <2> QED
    BY <1>1, <2>1, <2>2, <2>3
<1>3. SearchRows'
  BY <1>1, <1>2 DEF SearchRows, SearchTypes, Live, RowInv
<1>4. ASSUME NEW j \in Jobs, NEW r \in Carried(j) PROVE RowOK(r)'
  <2>1. RowOK(r) /\ r \in Rows
    BY CarriedRows DEF RowInv
  <2>2. r.search \in Searches /\ r.text \in Nat
    BY <2>1 DEF Rows
  <2>3. CASE r.search # s
    <3>1. /\ life'[r.search] = life[r.search] /\ brief'[r.search] = brief[r.search]
          /\ (r.search \in lost' <=> r.search \in lost)
      BY <1>1, <2>2, <2>3 DEF SearchTypes
    <3> QED
      BY <2>1, <3>1 DEF RowOK, Live
  <2>4. CASE r.search = s
    <3>1. Live(s) /\ brief[s] \in Nat /\ r.text <= brief[s] /\ r.text # 0 /\ life'[s] = "live"
          /\ brief'[s] = v
      BY <1>1, <2>1, <2>2, <2>4 DEF RowOK, Live, SearchTypes
    <3>2. CASE v = brief[s]
      BY <1>1, <2>1, <2>4, <3>1, <3>2 DEF RowOK, Live
    <3>3. CASE v # brief[s]
      <4>1. v = brief[s] + 1
        BY <3>1, <3>3 DEF Live
      <4>2. r.text < v
        BY <2>2, <3>1, <4>1
      <4>3. Overtaken(s, v)
        BY <2>4, <4>2, NotOvertaken
      <4>4. s \in lost'
        BY <1>1, <3>3, <4>3
      <4>5. r.text <= v
        BY <2>2, <3>1, <4>1
      <4> QED
        BY <2>4, <3>1, <4>4, <4>5 DEF RowOK, Live
    <3> QED
      BY <3>2, <3>3
  <2> QED
    BY <2>3, <2>4
<1> QED
  BY <1>1, <1>3, <1>4, RowsUnmoved

LEMMA SearchCallRows ==
  ASSUME StepTypes, RowInv, NEW s \in Searches, SearchCall(s) PROVE RowInv'
<1> QueueTypes /\ SearchTypes /\ SearchRows
  BY DEF StepTypes, RowInv
<1> brief[s] \in Nat
  BY DEF SearchTypes
<1>1. CASE create(s)
  <2>1. life' = [life EXCEPT ![s] = "live"] /\ life[s] = "new" /\ \E st : Write(s, 1, st)
    BY <1>1 DEF create
  <2>2. 1 \in Nat \ {0}
    OBVIOUS
  <2> QED
    BY <2>1, <2>2, WriteRows
<1>2. CASE update(s)
  <2>1. life' = [life EXCEPT ![s] = "live"]
    BY <1>2 DEF update, Live, SearchTypes
  <2>2. \E st : Write(s, brief[s] + 1, st)
    BY <1>2 DEF update
  <2>3. Live(s) /\ brief[s] + 1 \in Nat \ {0}
    BY <1>2 DEF update
  <2> QED
    BY <2>1, <2>2, <2>3, WriteRows
<1>3. CASE setStatus(s)
  <2>1. life' = [life EXCEPT ![s] = "live"]
    BY <1>3 DEF setStatus, Live, SearchTypes
  <2>2. \E st : Write(s, brief[s], st)
    BY <1>3 DEF setStatus
  <2>3. Live(s) /\ brief[s] \in Nat \ {0}
    BY <1>3 DEF setStatus, SearchRows
  <2> QED
    BY <2>1, <2>2, <2>3, WriteRows
<1>4. CASE maybeTriggerRecompute(s) \/ TriggerFails(s)
  <2>1. UNCHANGED <<life, brief, recent, work>> /\ lost \subseteq lost'
    BY <1>4 DEF maybeTriggerRecompute, TriggerFails, searchVars
  <2>2. SearchRows'
    BY <2>1 DEF SearchRows, Live
  <2>3. \A j \in Jobs : \A r \in Carried(j) : RowOK(r)'
    BY <2>1 DEF RowInv, RowOK, Live
  <2> QED
    BY <2>1, <2>2, <2>3, RowsUnmoved
<1>5. CASE remove(s)
  <2>1. /\ life' = [life EXCEPT ![s] = "gone"] /\ recent' = Kept(recent, Searches \ {s})
        /\ brief' = [brief EXCEPT ![s] = 0] /\ UNCHANGED <<work, lost>>
    BY <1>5 DEF remove
  <2>2. Range(recent') = Range(recent) \cap (Searches \ {s})
    BY <2>1, KeptFacts DEF SearchTypes
  <2>3. SearchRows'
    BY <2>1, <2>2 DEF SearchRows, Live, SearchTypes
  <2>4. \A j \in Jobs : \A r \in Carried(j) : RowOK(r)'
    <3> SUFFICES ASSUME NEW j \in Jobs, NEW r \in Carried(j) PROVE RowOK(r)'
      OBVIOUS
    <3>1. RowOK(r) /\ r.search \in Searches
      BY CarriedRows DEF RowInv, Rows
    <3> QED
      BY <2>1, <3>1 DEF RowOK, Live, SearchTypes
  <2> QED
    BY <2>1, <2>3, <2>4, RowsUnmoved
<1> QED
  BY <1>1, <1>2, <1>3, <1>4, <1>5 DEF SearchCall

\* Every step is one of the router's, one that only enqueues, or one of a job.
LEMMA StepKinds ==
  ASSUME Step
  PROVE  \/ \E s \in Unsettled : SearchCall(s)
         \/ \E l \in Listings : enqueueAnalyze(l)
         \/ SavePreferences
         \/ \E j \in Jobs : JobAct(j)
  BY DEF Step, JobAct, Jobs

LEMMA NextRows == Types /\ RowInv /\ [Next]_vars => RowInv'
<1> SUFFICES ASSUME Types, RowInv, [Next]_vars PROVE RowInv'
  OBVIOUS
<1> StepTypes
  BY DEF Types
<1>1. CASE \E s \in Unsettled : SearchCall(s)
  BY <1>1, SearchCallRows, ScoringAssumption DEF ScoringAssumption
<1>2. CASE UNCHANGED <<searchVars, work, lost>>
  BY <1>2 DEF searchVars, RowInv, SearchRows, OwnRow, RowOK, Carried, Live
<1>3. ASSUME NEW j \in Jobs, JobAct(j) PROVE RowInv'
  BY <1>3, JobRows
<1> QED
  BY <1>1, <1>2, <1>3, StepKinds DEF Next, vars, enqueueAnalyze, SavePreferences
-----------------------------------------------------------------------------
(* An edit reaches the scores *)

Reached(t) == vec[t] = brief[t]
ScoredTo(t, S) == \A l \in S : score[l][t].text = brief[t]

\* How far the recompute of t has brought its latest brief.
EditOK(t) ==
  /\ active[t] /\ searchHasTaste(BriefsOf[t][brief[t]]) /\ calls[t] = 0
       /\ status[t] \notin {"waiting", "active"}
     => Reached(t) /\ ScoredTo(t, ranked[t])
  /\ work[t].at = "rank" => Reached(t)
  /\ work[t].at = "score" => Reached(t) /\ ScoredTo(t, ranked[t] \ work[t].left)

EditInv == \A t \in Operators \ lost : Live(t) => EditOK(t)

\* A step that leaves in place what already came from the latest brief of t.
Improves(t) ==
  /\ vec[t] = brief[t] => vec'[t] = brief[t]
  /\ \A l \in Listings : score[l][t].text = brief[t] => score'[l][t].text = brief[t]

LEMMA EditStays ==
  ASSUME Types, NEW t \in Operators, EditOK(t), Improves(t),
         brief'[t] = brief[t], active'[t] = active[t], calls'[t] = calls[t],
         ranked'[t] = ranked[t], work'[t] = work[t],
         status'[t] = status[t] \/ status'[t] = "waiting"
  PROVE  EditOK(t)'
<1>1. ranked[t] \subseteq Listings
  BY ScoringAssumption DEF ScoringAssumption, Types, StepTypes, HistoryTypes
<1>2. Reached(t) => Reached(t)'
  BY DEF Reached, Improves
<1>3. ScoredTo(t, ranked[t]) => ScoredTo(t, ranked[t])'
  BY <1>1 DEF ScoredTo, Improves
<1>4. ScoredTo(t, ranked[t] \ work[t].left) => ScoredTo(t, ranked[t] \ work[t].left)'
  BY <1>1 DEF ScoredTo, Improves
<1> QED
  BY <1>2, <1>3, <1>4 DEF EditOK

\* What any job writes of t is of its latest brief, unless t was overtaken.
LEMMA JobImproves ==
  ASSUME Types, RowInv, NEW j \in Jobs, JobAct(j), NEW t \in Searches, t \notin lost, Live(t)
  PROVE  Improves(t)
<1> StepTypes /\ QueueTypes /\ vec \in [Searches -> Nat]
    /\ score \in [Listings -> [Searches -> [vec : Nat, text : Nat]]]
  BY DEF Types, StepTypes, SearchTypes, ResultTypes
<1>1. work[j].at \in Busy => /\ Current(j) \in Rows /\ Current(j).search \in Searches
                             /\ (Current(j).search = t => Current(j).text = brief[t])
  BY CurrentCarried DEF RowInv, RowOK, Rows
<1>2. vec[t] = brief[t] => vec'[t] = brief[t]
  BY <1>1, JobWrites
<1>3. ASSUME NEW l \in Listings, score[l][t].text = brief[t] PROVE score'[l][t].text = brief[t]
  <2>1. CASE UNCHANGED score
    BY <1>3, <2>1
  <2>2. CASE work[j].at \in Busy /\ \E k \in Listings : upsertByListingAndSearch(k, Current(j), work[j].vec)
    <3>1. PICK k \in Listings : upsertByListingAndSearch(k, Current(j), work[j].vec)
      BY <2>2
    <3>2. PICK made, s : /\ made = [vec |-> work[j].vec, text |-> Current(j).text] /\ s = Current(j).search
      OBVIOUS
    <3>3. score' = [score EXCEPT ![k][s] = made] /\ made.text = Current(j).text
      BY <3>1, <3>2 DEF upsertByListingAndSearch
    <3>4. CASE k = l /\ s = t
      <4>1. score'[l][t] = made
        BY <1>1, <2>2, <3>2, <3>3, <3>4
      <4> QED
        BY <1>1, <2>2, <3>2, <3>3, <3>4, <4>1
    <3>5. CASE ~(k = l /\ s = t)
      <4>1. score'[l][t] = score[l][t]
        BY <3>3, <3>5
      <4> QED
        BY <1>3, <4>1
    <3> QED
      BY <3>4, <3>5
  <2> QED
    BY <2>1, <2>2, JobWrites
<1> QED
  BY <1>2, <1>3 DEF Improves

\* The one row of a recompute of t.
LEMMA OwnCurrent ==
  ASSUME Types, RowInv, NEW t \in Searches, work[t].at \in Busy
  PROVE  /\ Current(t).search = t /\ Tail(work[t].todo) = <<>>
         /\ Live(t) /\ t \notin lost => Current(t).text = brief[t]
<1> t \in Jobs /\ QueueTypes
  BY DEF Jobs, Types, StepTypes
<1>1. Current(t) \in Carried(t) /\ OwnRow(t) /\ RowOK(Current(t))
  BY CurrentCarried DEF RowInv
<1>2. work[t].todo \in Seq(Rows) /\ work[t].todo # <<>> /\ Len(work[t].todo) <= 1
  BY <1>1, CurrentRow DEF OwnRow
<1>3. Len(Tail(work[t].todo)) = 0 /\ Tail(work[t].todo) \in Seq(Rows)
  <2>1. /\ Len(work[t].todo) \in Nat /\ Tail(work[t].todo) \in Seq(Rows)
        /\ Len(Tail(work[t].todo)) = Len(work[t].todo) - 1 /\ Len(Tail(work[t].todo)) \in Nat
    BY <1>2, TailRange, LenProperties
  <2>2. \A n, m \in Nat : n <= 1 /\ m = n - 1 => m = 0
    OBVIOUS
  <2> QED
    BY <1>2, <2>1, <2>2
<1>4. Tail(work[t].todo) = <<>>
  BY <1>3, EmptySeq
<1> QED
  BY <1>1, <1>4 DEF OwnRow, RowOK

LEMMA OwnEnd ==
  ASSUME QueueTypes, NEW t \in Jobs, NEW how, End(t, how)
  PROVE  status'[t] = how /\ work'[t].at = "idle"
  BY DEF QueueTypes, End, Idle

LEMMA OwnRankEdit ==
  ASSUME Types, RowInv, NEW t \in Operators, t \in Searches, t \notin lost, Live(t), EditOK(t),
         Rank(t)
  PROVE  EditOK(t)'
<1> t \in Jobs /\ QueueTypes /\ work[t] \in Work /\ ranked \in [Searches -> SUBSET Listings]
  BY DEF Jobs, Types, StepTypes, QueueTypes, HistoryTypes
<1>1. work[t].at = "rank" /\ Reached(t) /\ Current(t).search = t /\ Tail(work[t].todo) = <<>>
  BY OwnCurrent DEF Rank, At, Busy, EditOK
<1>2. PICK c : /\ IF c = {} THEN Onward(t, <<>>) ELSE Set(t, [work[t] EXCEPT !.at = "score", !.left = c])
               /\ ranked' = [ranked EXCEPT ![t] = c]
  BY <1>1 DEF Rank
<1>3. Reached(t)'
  BY <1>1 DEF Rank, searchVars, Reached
<1>4. ranked'[t] = c
  BY <1>2
<1>5. CASE c = {}
  <2>1. End(t, "completed")
    BY <1>2, <1>5 DEF Onward
  <2>2. work'[t].at = "idle"
    BY <2>1, OwnEnd
  <2>3. ScoredTo(t, ranked[t])'
    BY <1>4, <1>5 DEF ScoredTo
  <2> QED
    BY <1>3, <2>2, <2>3 DEF EditOK
<1>6. CASE c # {}
  <2>1. PICK w : w = [work[t] EXCEPT !.at = "score", !.left = c]
    OBVIOUS
  <2>2. w.at = "score" /\ w.left = c
    BY <2>1 DEF Work
  <2>3. work'[t] = w /\ status'[t] = "active"
    BY <1>2, <1>6, <2>1 DEF Set, Active, QueueTypes
  <2>4. ScoredTo(t, ranked[t] \ work[t].left)'
    BY <1>4, <2>2, <2>3 DEF ScoredTo
  <2> QED
    BY <1>3, <2>2, <2>3, <2>4 DEF EditOK
<1> QED
  BY <1>5, <1>6

LEMMA OwnScoreEdit ==
  ASSUME Types, RowInv, NEW t \in Operators, t \in Searches, t \notin lost, Live(t), EditOK(t),
         ScoreCandidate(t)
  PROVE  EditOK(t)'
<1> /\ t \in Jobs /\ QueueTypes /\ work[t] \in Work /\ ranked \in [Searches -> SUBSET Listings]
    /\ score \in [Listings -> [Searches -> [vec : Nat, text : Nat]]] /\ work[t].left \subseteq Listings
  BY DEF Jobs, Types, StepTypes, QueueTypes, HistoryTypes, ResultTypes, Work
<1>1. /\ work[t].at = "score" /\ Reached(t) /\ Current(t).search = t /\ Tail(work[t].todo) = <<>>
      /\ Current(t).text = brief[t] /\ ScoredTo(t, ranked[t] \ work[t].left)
  BY OwnCurrent DEF ScoreCandidate, At, Busy, EditOK
<1>2. PICK l \in work[t].left :
        /\ upsertByListingAndSearch(l, Current(t), work[t].vec)
        /\ IF work[t].left = {l} THEN Onward(t, <<>>) ELSE Set(t, [work[t] EXCEPT !.left = @ \ {l}])
  BY <1>1 DEF ScoreCandidate
<1>3. Reached(t)' /\ UNCHANGED <<brief, ranked>>
  BY <1>1 DEF ScoreCandidate, searchVars, Reached
<1>4. \A k \in ranked[t] : (k = l \/ k \notin work[t].left) => score'[k][t].text = brief[t]
  <2>1. PICK made : made = [vec |-> work[t].vec, text |-> Current(t).text]
    OBVIOUS
  <2>2. score' = [score EXCEPT ![l][t] = made] /\ made.text = brief[t]
    BY <1>1, <1>2, <2>1 DEF upsertByListingAndSearch
  <2>3. score'[l][t] = made /\ \A k \in Listings : k # l => score'[k][t] = score[k][t]
    BY <2>2
  <2>4. \A k \in ranked[t] : k \notin work[t].left => score[k][t].text = brief[t]
    BY <1>1 DEF ScoredTo
  <2> QED
    BY <2>2, <2>3, <2>4
<1>5. CASE work[t].left = {l}
  <2>1. End(t, "completed")
    BY <1>2, <1>5 DEF Onward
  <2>2. work'[t].at = "idle"
    BY <2>1, OwnEnd
  <2>3. ScoredTo(t, ranked[t])'
    BY <1>3, <1>4, <1>5 DEF ScoredTo
  <2> QED
    BY <1>3, <2>2, <2>3 DEF EditOK
<1>6. CASE work[t].left # {l}
  <2>1. PICK w : w = [work[t] EXCEPT !.left = @ \ {l}]
    OBVIOUS
  <2>2. w.at = "score" /\ w.left = work[t].left \ {l}
    BY <1>1, <2>1 DEF Work
  <2>3. work'[t] = w /\ status'[t] = "active"
    BY <1>2, <1>6, <2>1 DEF Set, Active, QueueTypes
  <2>4. ScoredTo(t, ranked[t] \ work[t].left)'
    BY <1>3, <1>4, <2>2, <2>3 DEF ScoredTo
  <2> QED
    BY <1>3, <2>2, <2>3, <2>4 DEF EditOK
<1> QED
  BY <1>5, <1>6

\* The step of t's own recompute.
LEMMA OwnEdit ==
  ASSUME Types, RowInv, EditInv, NEW t \in Operators, JobAct(t), t \notin lost', Live(t)
  PROVE  EditOK(t)'
<1> /\ t \in Searches /\ t \in Jobs /\ t \notin Listings /\ t # All /\ StepTypes /\ QueueTypes /\ work[t] \in Work
    /\ vec \in [Searches -> Nat] /\ SearchRows
  BY ScoringAssumption DEF ScoringAssumption, Jobs, Types, StepTypes, QueueTypes, SearchTypes, RowInv
<1>1. CASE Reject(t)
  <2>1. End(t, "waiting")
    BY <1>1 DEF Reject, Missed
  <2> QED
    BY <2>1, OwnEnd DEF EditOK
<1>2. CASE Drop(t)
  BY <1>2 DEF Drop, Missed
<1>3. CASE Evict(t)
  <2>1. /\ status'[t] = "free" /\ work'[t].at = "idle" /\ status[t] \in {"completed", "failed"}
        /\ UNCHANGED <<active, brief, calls, vec, score, ranked>> /\ t \notin lost
    BY <1>3, OwnEnd DEF Evict, searchVars, resultVars
  <2>2. EditOK(t)
    BY <2>1 DEF EditInv
  <2> QED
    BY <2>1, <2>2 DEF EditOK, Reached, ScoredTo
<1>4. CASE writeKeywordsEmbedding(t)
  <2>1. work[t].at = "taste" /\ t \notin lost
    BY <1>4 DEF writeKeywordsEmbedding, At
  <2>2. Current(t).search = t /\ Current(t).text = brief[t]
    BY <2>1, OwnCurrent DEF Busy
  <2>3. vec'[t] = brief[t] /\ UNCHANGED brief
    BY <1>4, <2>2 DEF writeKeywordsEmbedding
  <2>4. PICK n, w : w = [work[t] EXCEPT !.at = "rank", !.vec = n] /\ Active(t, w)
    BY <1>4 DEF writeKeywordsEmbedding, Set
  <2>5. w.at = "rank"
    BY <2>4 DEF Work
  <2>6. work'[t].at = "rank" /\ status'[t] = "active"
    BY <2>4, <2>5 DEF Active, QueueTypes
  <2> QED
    BY <2>3, <2>6 DEF EditOK, Reached
<1>5. CASE Load(t)
  <2>1. PICK todo : todo = Loaded(t)
    OBVIOUS
  <2>2. IF todo = <<>> THEN End(t, "completed") ELSE Begin(t, [Idle EXCEPT !.at = "taste", !.todo = todo])
    BY <1>5, <2>1 DEF Load, Loaded, Found
  <2>3. CASE todo = <<>>
    <3>1. ~searchHasTaste(BriefsOf[t][brief[t]])
      BY <1>5, <2>1, <2>3, LoadCarries
    <3>2. work'[t].at = "idle" /\ UNCHANGED brief
      BY <1>5, <2>2, <2>3, OwnEnd DEF Load, searchVars
    <3> QED
      BY <3>1, <3>2 DEF EditOK
  <2>4. CASE todo # <<>>
    <3>1. status'[t] = "active" /\ work'[t].at = "taste"
      BY <2>2, <2>4 DEF Begin, Active, QueueTypes, Idle
    <3> QED
      BY <3>1 DEF EditOK
  <2> QED
    BY <2>3, <2>4
<1>6. CASE Rank(t) \/ ScoreCandidate(t)
  <2>1. t \notin lost
    BY <1>6 DEF Rank, ScoreCandidate
  <2>2. EditOK(t)
    BY <2>1 DEF EditInv
  <2> QED
    BY <1>6, <2>1, <2>2, OwnRankEdit, OwnScoreEdit
<1> QED
  BY <1>1, <1>2, <1>3, <1>4, <1>5, <1>6 DEF JobAct, JobStep, RecomputeStep

LEMMA JobEdit ==
  ASSUME Types, RowInv, EditInv, NEW j \in Jobs, JobAct(j) PROVE EditInv'
<1> SUFFICES ASSUME NEW t \in Operators, t \notin lost', Live(t)' PROVE EditOK(t)'
  BY DEF EditInv
<1> t \in Searches /\ t \in Jobs /\ StepTypes /\ QueueTypes
  BY ScoringAssumption DEF ScoringAssumption, Jobs, Types, StepTypes
<1>1. UNCHANGED <<life, active, brief, recent, calls>> /\ Live(t)
  BY JobTables DEF Live
<1>2. CASE j = t
  BY <1>1, <1>2, OwnEdit
<1>3. CASE j # t
  <2>1. t \notin lost /\ ranked'[t] = ranked[t] /\ status'[t] = status[t] /\ work'[t] = work[t]
    BY <1>3, JobTables, JobElsewhere
  <2>2. EditOK(t) /\ Improves(t)
    BY <1>1, <2>1, JobImproves DEF EditInv
  <2> QED
    BY <1>1, <2>1, <2>2, EditStays
<1> QED
  BY <1>2, <1>3
-----------------------------------------------------------------------------

\* The router writes s: its latest brief is now to be recomputed.
LEMMA WriteEdit ==
  ASSUME Types, RowInv, EditInv, NEW s \in Searches, NEW v, NEW st, Write(s, v, st),
         life' = [life EXCEPT ![s] = "live"],
         life[s] = "new" \/ (Live(s) /\ v \in {brief[s], brief[s] + 1})
  PROVE  EditInv'
<1> SUFFICES ASSUME NEW t \in Operators, t \notin lost', Live(t)' PROVE EditOK(t)'
  BY DEF EditInv
<1> /\ t \in Searches /\ t \in Jobs /\ s \in Jobs /\ StepTypes /\ QueueTypes
    /\ brief \in [Searches -> Nat] /\ calls \in [Searches -> Nat]
    /\ active \in [Searches -> BOOLEAN] /\ life \in [Searches -> {"new", "live", "gone"}]
  BY ScoringAssumption DEF ScoringAssumption, Jobs, Types, StepTypes, SearchTypes, HistoryTypes
<1>1. /\ brief' = [brief EXCEPT ![s] = v] /\ active' = [active EXCEPT ![s] = st]
      /\ calls' = [calls EXCEPT ![s] = calls[s] + 1]
      /\ lost' = IF v = brief[s] THEN lost ELSE IF Overtaken(s, v) THEN lost \cup {s} ELSE lost \ {s}
      /\ UNCHANGED <<vec, score, status, work, ranked>>
  BY DEF Write, resultVars, queueVars
<1>2. CASE t # s
  <2>1. t \notin lost /\ Live(t)
    BY <1>1, <1>2 DEF Live
  <2>2. EditOK(t)
    BY <2>1 DEF EditInv
  <2>3. Improves(t)
    BY <1>1 DEF Improves
  <2> QED
    BY <1>1, <1>2, <2>2, <2>3, EditStays
<1>3. CASE t = s
  <2>1. calls'[t] # 0
    BY <1>1, <1>3
  <2>2. CASE v = brief[s] /\ Live(s)
    <3>1. EditOK(t) /\ brief'[t] = brief[t]
      BY <1>1, <1>3, <2>2 DEF EditInv
    <3> QED
      BY <1>1, <2>1, <3>1 DEF EditOK, Reached, ScoredTo
  <2>3. CASE ~(v = brief[s] /\ Live(s))
    <3>1. work[t].at \notin {"rank", "score"}
      <4> SUFFICES ASSUME work[t].at \in {"rank", "score"} PROVE FALSE
        OBVIOUS
      <4>1. /\ Current(t) \in Carried(t) /\ Current(t) \in Rows /\ RowOK(Current(t))
            /\ Current(t).search = t
        BY CurrentCarried, OwnCurrent DEF Busy, RowInv
      <4>2. life[t] # "new" /\ Current(t).text \in Nat
        BY <4>1 DEF RowOK, Rows
      <4>3. Live(t) /\ v = brief[t] + 1
        BY <1>3, <2>3, <4>2
      <4>4. Current(t).text < v /\ v # brief[t]
        BY <4>1, <4>2, <4>3 DEF RowOK
      <4>5. Overtaken(t, v)
        BY <4>1, <4>4, NotOvertaken
      <4> QED
        BY <1>1, <1>3, <4>4, <4>5
    <3> QED
      BY <1>1, <2>1, <3>1 DEF EditOK
  <2> QED
    BY <2>2, <2>3
<1> QED
  BY <1>2, <1>3

LEMMA SearchCallEdit ==
  ASSUME Types, RowInv, EditInv, NEW s \in Searches, SearchCall(s) PROVE EditInv'
<1> /\ s \in Jobs /\ StepTypes /\ QueueTypes /\ SearchRows
    /\ brief \in [Searches -> Nat] /\ life \in [Searches -> {"new", "live", "gone"}]
    /\ calls \in [Searches -> Nat] /\ score \in [Listings -> [Searches -> [vec : Nat, text : Nat]]]
  BY DEF Jobs, Types, StepTypes, SearchTypes, HistoryTypes, ResultTypes, RowInv
<1>1. CASE create(s)
  <2>1. life' = [life EXCEPT ![s] = "live"] /\ life[s] = "new" /\ \E st : Write(s, 1, st)
    BY <1>1 DEF create
  <2> QED
    BY <2>1, WriteEdit
<1>2. CASE update(s)
  <2>1. life' = [life EXCEPT ![s] = "live"] /\ Live(s) /\ \E st : Write(s, brief[s] + 1, st)
    BY <1>2 DEF update, Live
  <2> QED
    BY <2>1, WriteEdit
<1>3. CASE setStatus(s)
  <2>1. life' = [life EXCEPT ![s] = "live"] /\ Live(s) /\ \E st : Write(s, brief[s], st)
    BY <1>3 DEF setStatus, Live
  <2> QED
    BY <2>1, WriteEdit
<1>4. CASE maybeTriggerRecompute(s) \/ TriggerFails(s)
  <2> SUFFICES ASSUME NEW t \in Operators, t \notin lost', Live(t)' PROVE EditOK(t)'
    BY DEF EditInv
  <2> t \in Searches /\ t \in Jobs
    BY ScoringAssumption DEF ScoringAssumption, Jobs
  <2>1. /\ UNCHANGED <<life, active, brief, vec, score, work, ranked>> /\ lost \subseteq lost'
        /\ calls' = [calls EXCEPT ![s] = calls[s] - 1]
    BY <1>4 DEF maybeTriggerRecompute, TriggerFails, searchVars, resultVars
  <2>2. EditOK(t) /\ Live(t)
    BY <2>1 DEF EditInv, Live
  <2>3. Improves(t)
    BY <2>1 DEF Improves
  <2>4. CASE t # s
    <3>1. status'[t] = status[t]
      BY <1>4, <2>4 DEF maybeTriggerRecompute, TriggerFails, Enqueue, queueVars, QueueTypes
    <3> QED
      BY <2>1, <2>2, <2>3, <2>4, <3>1, EditStays
  <2>5. CASE t = s
    <3>1. maybeTriggerRecompute(s)
      BY <1>4, <2>5 DEF TriggerFails
    <3>2. CASE active[s]
      <4>1. Enqueue(s) /\ status[s] \in {"free", "waiting"}
        BY <2>1, <2>2, <2>5, <3>1, <3>2 DEF maybeTriggerRecompute
      <4>2. status'[t] = "waiting"
        BY <2>5, <4>1 DEF Enqueue, queueVars, QueueTypes
      <4> QED
        BY <2>1, <2>2, <4>2 DEF EditOK, Reached, ScoredTo
    <3>3. CASE ~active[s]
      BY <2>1, <2>2, <2>5, <3>3 DEF EditOK, Reached, ScoredTo
    <3> QED
      BY <3>2, <3>3
  <2> QED
    BY <2>4, <2>5
<1>5. CASE remove(s)
  <2> SUFFICES ASSUME NEW t \in Operators, t \notin lost', Live(t)' PROVE EditOK(t)'
    BY DEF EditInv
  <2> t \in Searches /\ t \in Jobs
    BY ScoringAssumption DEF ScoringAssumption, Jobs
  <2>1. /\ life' = [life EXCEPT ![s] = "gone"] /\ active' = [active EXCEPT ![s] = FALSE]
        /\ brief' = [brief EXCEPT ![s] = 0] /\ vec' = [vec EXCEPT ![s] = 0]
        /\ score' = [l \in Listings |-> [score[l] EXCEPT ![s] = Unscored]]
        /\ ranked' = [ranked EXCEPT ![s] = {}] /\ UNCHANGED <<status, work, calls, lost>>
    BY <1>5 DEF remove, queueVars
  <2>2. t # s /\ Live(t)
    BY <2>1 DEF Live
  <2>3. EditOK(t)
    BY <2>1, <2>2 DEF EditInv
  <2>4. Improves(t)
    BY <2>1, <2>2 DEF Improves, Types, StepTypes, SearchTypes
  <2>5. /\ brief'[t] = brief[t] /\ active'[t] = active[t] /\ ranked'[t] = ranked[t]
    BY <2>1, <2>2 DEF Types, StepTypes, SearchTypes, HistoryTypes
  <2> QED
    BY <2>1, <2>3, <2>4, <2>5, EditStays
<1> QED
  BY <1>1, <1>2, <1>3, <1>4, <1>5 DEF SearchCall

LEMMA EnqueueEdit ==
  ASSUME Types, EditInv, NEW j \in Jobs, j \notin Searches, Enqueue(j),
         UNCHANGED <<searchVars, resultVars, work, calls, ranked, lost>>
  PROVE  EditInv'
<1> SUFFICES ASSUME NEW t \in Operators, t \notin lost', Live(t)' PROVE EditOK(t)'
  BY DEF EditInv
<1> t \in Searches /\ t \in Jobs /\ QueueTypes
  BY ScoringAssumption DEF ScoringAssumption, Jobs, Types, StepTypes
<1>1. UNCHANGED <<life, active, brief, vec, score, work, calls, ranked, lost>>
  BY DEF searchVars, resultVars
<1>2. EditOK(t) /\ Improves(t)
  BY <1>1 DEF EditInv, Live, Improves
<1>3. status'[t] = status[t]
  BY DEF Enqueue, queueVars, QueueTypes
<1> QED
  BY <1>1, <1>2, <1>3, EditStays

LEMMA NextEdit == Types /\ RowInv /\ EditInv /\ [Next]_vars => EditInv'
<1> SUFFICES ASSUME Types, RowInv, EditInv, [Next]_vars PROVE EditInv'
  OBVIOUS
<1>1. CASE \E s \in Unsettled : SearchCall(s)
  BY <1>1, SearchCallEdit, ScoringAssumption DEF ScoringAssumption
<1>2. CASE \E l \in Listings : enqueueAnalyze(l)
  BY <1>2, EnqueueEdit, ScoringAssumption DEF ScoringAssumption, enqueueAnalyze, Jobs
<1>3. CASE SavePreferences
  BY <1>3, EnqueueEdit, ScoringAssumption DEF ScoringAssumption, SavePreferences, Jobs
<1>4. CASE \E j \in Jobs : JobAct(j)
  BY <1>4, JobEdit
<1>5. CASE UNCHANGED vars
  BY <1>5 DEF vars, searchVars, resultVars, queueVars, EditInv, EditOK, Reached, ScoredTo, Live
<1> QED
  BY <1>1, <1>2, <1>3, <1>4, <1>5, StepKinds DEF Next

LEMMA InitEdit == Init => EditInv
<1> SUFFICES ASSUME Init, NEW t \in Operators, t \notin lost, Live(t) PROVE FALSE
  BY DEF EditInv
<1>1. t \in Searches
  BY ScoringAssumption DEF ScoringAssumption
<1> QED
  BY <1>1 DEF Init, Live

ScoringInv == Types /\ RowInv /\ EditInv

\* Whatever edits, pauses and recomputes of other searches come in between, the
\* vector and the scores of a search are of its latest brief once its recompute is
\* done, unless the edit's trigger was lost or overtaken (maybeTriggerRecompute,
\* recomputeForSearch).
THEOREM EditSound == Spec => []EditReachesScores
<1>1. Init => ScoringInv
  BY InitTypes, InitRows, InitEdit DEF ScoringInv
<1>2. ScoringInv /\ [Next]_vars => ScoringInv'
  BY NextTypes, NextRows, NextEdit DEF ScoringInv
<1>3. ScoringInv => EditReachesScores
  BY DEF ScoringInv, EditInv, EditOK, EditReachesScores, Reached, ScoredTo
<1> QED
  BY <1>1, <1>2, <1>3, PTL DEF Spec
-----------------------------------------------------------------------------
(* A listing gets the scores it is owed *)

Owed(l, s) ==
  score[l][s] # Unscored \/ \E r \in Carried(l) : r.search = s /\ searchHasTaste(Content(r))

OwedOK(l) ==
  /\ status[l] \in {"free", "waiting", "failed"} => owed[l] = {}
  /\ status[l] = "completed" => \A s \in owed[l] : score[l][s] # Unscored
  /\ work[l].at \in Busy => \A s \in owed[l] : Owed(l, s)

OwedInv == \A l \in Listings : OwedOK(l)

LEMMA InitOwed == Init => OwedInv
<1> SUFFICES ASSUME Init, NEW l \in Listings PROVE OwedOK(l)
  BY DEF OwedInv
<1>1. owed[l] = {}
  BY DEF Init
<1> QED
  BY <1>1 DEF OwedOK
-----------------------------------------------------------------------------

LEMMA DeservingAfter ==
  (recent \in Seq(Searches) =>
     \A l \in Listings : Deserving(l) \subseteq Range(recent) /\ Deserving(l) \subseteq Searches)'
BY DeservingAreSearches, PTL

\* What is owed after a step.
LEMMA OwedAfter ==
  ASSUME Remember, recent' \in Seq(Searches), NEW k \in Listings
  PROVE  /\ status'[k] \in {"free", "waiting", "failed"} => owed'[k] = {}
         /\ work[k].at # "list" => owed'[k] \subseteq owed[k]
         /\ owed'[k] \subseteq Deserving(k)' /\ Deserving(k)' \subseteq Range(recent')
<1>1. recent' \in Seq(Searches) =>
        \A l \in Listings : Deserving(l)' \subseteq Range(recent') /\ Deserving(l)' \subseteq Searches
  BY DeservingAfter
<1>2. owed'[k] = IF status'[k] \in {"free", "waiting", "failed"} THEN {}
                 ELSE IF work[k].at = "list" THEN Deserving(k)'
                 ELSE {s \in owed[k] : s \in Deserving(k)'}
  BY DEF Remember
<1> QED
  BY <1>1, <1>2

ScoreStays(l) ==
  \A s \in Range(recent') : score[l][s] # Unscored => score'[l][s] # Unscored

LEMMA OwedStays ==
  ASSUME Types, Remember, recent' \in Seq(Searches), NEW l \in Listings, OwedOK(l), ScoreStays(l),
         work'[l] = work[l], status'[l] = status[l] \/ status'[l] = "waiting"
  PROVE  OwedOK(l)'
<1>1. CASE status'[l] \in {"free", "waiting", "failed"}
  BY <1>1, OwedAfter DEF OwedOK
<1>2. CASE status'[l] \notin {"free", "waiting", "failed"}
  <2>1. status'[l] = status[l] /\ l \in Jobs /\ (status[l] # "active" => work[l].at = "idle")
    BY <1>2 DEF Jobs, Types, StepTypes, QueueTypes, Idle
  <2>2. CASE work[l].at = "list"
    BY <1>2, <2>1, <2>2 DEF OwedOK, Busy, Types, StepTypes, QueueTypes, States
  <2>3. CASE work[l].at # "list"
    <3>1. \A s \in owed'[l] : s \in owed[l] /\ (score[l][s] # Unscored => score'[l][s] # Unscored)
      BY <2>3, OwedAfter DEF ScoreStays
    <3> QED
      BY <1>2, <2>1, <3>1 DEF OwedOK, Owed, Carried, Content
  <2> QED
    BY <2>2, <2>3
<1> QED
  BY <1>1, <1>2

LEMMA JobScoreStays ==
  ASSUME Types, RowInv, NEW j \in Jobs, JobAct(j), NEW l \in Listings PROVE ScoreStays(l)
<1> /\ StepTypes /\ QueueTypes /\ recent' = recent
    /\ score \in [Listings -> [Searches -> [vec : Nat, text : Nat]]]
  BY JobTables DEF Types, StepTypes, ResultTypes
<1>1. CASE UNCHANGED score
  BY <1>1 DEF ScoreStays
<1>2. CASE work[j].at \in Busy /\ \E k \in Listings : upsertByListingAndSearch(k, Current(j), work[j].vec)
  <2>1. PICK k \in Listings : upsertByListingAndSearch(k, Current(j), work[j].vec)
    BY <1>2
  <2>2. Current(j).text # 0
    BY <1>2, CurrentCarried DEF RowInv, RowOK
  <2>3. PICK made, x : made = [vec |-> work[j].vec, text |-> Current(j).text] /\ x = Current(j).search
    OBVIOUS
  <2>4. score' = [score EXCEPT ![k][x] = made] /\ made # Unscored
    BY <2>1, <2>2, <2>3 DEF upsertByListingAndSearch, Unscored
  <2>5. \A s : score'[l][s] = score[l][s] \/ score'[l][s] = made
    BY <2>4
  <2> QED
    BY <2>4, <2>5 DEF ScoreStays
<1> QED
  BY <1>1, <1>2, JobWrites

LEMMA OwedEnd ==
  ASSUME QueueTypes, NEW l \in Listings, NEW todo, Onward(l, todo)
  PROVE  /\ work'[l].todo = todo
         /\ todo = <<>> => status'[l] = "completed" /\ work'[l].at = "idle"
         /\ todo # <<>> => status'[l] = "active"
<1> l \in Jobs
  BY DEF Jobs
<1>1. work'[l].todo = todo
  BY OnwardCarries
<1>2. CASE todo = <<>>
  BY <1>1, <1>2, OwnEnd DEF Onward
<1>3. CASE todo # <<>>
  BY <1>1, <1>3 DEF Onward, Set, Active, QueueTypes
<1> QED
  BY <1>1, <1>2, <1>3

\* The job goes on, and everything owed is scored or still to come.
LEMMA OwedOnward ==
  ASSUME QueueTypes, NEW l \in Listings, NEW todo, Onward(l, todo),
         \A s \in owed'[l] : score'[l][s] # Unscored
                             \/ \E r \in Range(todo) : r.search = s /\ searchHasTaste(Content(r))
  PROVE  OwedOK(l)'
<1>1. CASE todo = <<>>
  <2>1. Range(todo) = {}
    BY <1>1 DEF Range
  <2> QED
    BY <1>1, <2>1, OwedEnd DEF OwedOK, Busy
<1>2. CASE todo # <<>>
  BY <1>2, OwedEnd DEF OwedOK, Owed, Carried, Content
<1> QED
  BY <1>1, <1>2

LEMMA ListOwed ==
  ASSUME Types, RowInv, Remember, recent' \in Seq(Searches), NEW l \in Listings, ListSearches(l)
  PROVE  OwedOK(l)'
<1> QueueTypes /\ recent \in Seq(Searches) /\ brief \in [Searches -> Nat]
  BY DEF Types, StepTypes, QueueTypes, SearchTypes
<1>1. PICK q : q = listActiveByOutcode(l)
  OBVIOUS
<1>2. q \in Seq(Searches)
  BY <1>1, ListedFacts
<1>3. Onward(l, [i \in DOMAIN q |-> Row(q[i])])
  BY <1>1 DEF ListSearches
<1>4. UNCHANGED <<recent, active, brief>>
  BY DEF ListSearches, searchVars
<1>5. listActiveByOutcode(l)' = q
  BY <1>1, <1>4 DEF listActiveByOutcode, listActive, Covering
<1>6. Deserving(l)' = {s \in Range(q) : searchHasTaste(BriefsOf[s][brief[s]])}
  BY <1>4, <1>5 DEF Deserving
<1>7. \A s \in owed'[l] : \E r \in Range([i \in DOMAIN q |-> Row(q[i])]) :
        r.search = s /\ searchHasTaste(Content(r))
  <2> SUFFICES ASSUME NEW s \in owed'[l]
      PROVE \E r \in Range([i \in DOMAIN q |-> Row(q[i])]) : r.search = s /\ searchHasTaste(Content(r))
    OBVIOUS
  <2>1. s \in Range(q) /\ searchHasTaste(BriefsOf[s][brief[s]])
    BY <1>6, OwedAfter
  <2>2. Row(s) \in Range([i \in DOMAIN q |-> Row(q[i])])
    BY <1>2, <2>1, RowsRange
  <2>3. Row(s).search = s /\ Content(Row(s)) = BriefsOf[s][brief[s]]
    BY DEF Row, Content
  <2> QED
    BY <2>1, <2>2, <2>3
<1> QED
  BY <1>3, <1>7, OwedOnward

LEMMA ReadOwed ==
  ASSUME Types, RowInv, Remember, recent' \in Seq(Searches), NEW l \in Listings, OwedOK(l), ReadVector(l)
  PROVE  OwedOK(l)'
<1> l \in Jobs /\ QueueTypes /\ work[l] \in Work
  BY DEF Jobs, Types, StepTypes, QueueTypes
<1>1. work[l].at = "read" /\ UNCHANGED score
  BY DEF ReadVector, At, resultVars
<1>2. /\ work[l].todo \in Seq(Rows) /\ work[l].todo # <<>> /\ Current(l) = work[l].todo[1]
  BY <1>1, CurrentRow DEF Busy
<1>3. \A s \in owed'[l] : s \in owed[l] /\ Owed(l, s)
  BY <1>1, OwedAfter DEF OwedOK, Busy
<1>4. CASE ~searchHasTaste(Content(Current(l))) /\ Onward(l, Tail(work[l].todo))
  <2>1. \A r \in Carried(l) : searchHasTaste(Content(r)) => r \in Range(Tail(work[l].todo))
    BY <1>2, <1>4, TailRange DEF Carried
  <2> QED
    BY <1>1, <1>3, <1>4, <2>1, OwedOnward DEF Owed
<1>5. CASE \E a, n : Set(l, [work[l] EXCEPT !.at = a, !.vec = n])
  <2>1. PICK a, n, w : w = [work[l] EXCEPT !.at = a, !.vec = n] /\ Active(l, w)
    BY <1>5 DEF Set
  <2>2. w.todo = work[l].todo
    BY <2>1 DEF Work
  <2>3. work'[l].todo = work[l].todo /\ status'[l] = "active"
    BY <2>1, <2>2 DEF Active, QueueTypes
  <2> QED
    BY <1>1, <1>3, <2>3 DEF OwedOK, Owed, Carried, Content
<1>6. [work[l] EXCEPT !.at = "taste"] = [work[l] EXCEPT !.at = "taste", !.vec = work[l].vec]
  BY DEF Work
<1> QED
  BY <1>4, <1>5, <1>6 DEF ReadVector

LEMMA ScoreOwed ==
  ASSUME Types, RowInv, Remember, recent' \in Seq(Searches), NEW l \in Listings, OwedOK(l), ScoreListing(l)
  PROVE  OwedOK(l)'
<1> /\ l \in Jobs /\ QueueTypes /\ work[l] \in Work
    /\ score \in [Listings -> [Searches -> [vec : Nat, text : Nat]]]
  BY DEF Jobs, Types, StepTypes, QueueTypes, ResultTypes
<1>1. work[l].at = "match" /\ Onward(l, Tail(work[l].todo))
  BY DEF ScoreListing, At
<1>2. /\ work[l].todo \in Seq(Rows) /\ work[l].todo # <<>> /\ Current(l) = work[l].todo[1]
      /\ Current(l).search \in Searches /\ Current(l).text # 0
  BY <1>1, CurrentRow, CurrentCarried DEF Busy, Rows, RowInv, RowOK
<1>3. \A s \in owed'[l] : s \in owed[l] /\ Owed(l, s)
  BY <1>1, OwedAfter DEF OwedOK, Busy
<1>4. PICK made, x : made = [vec |-> work[l].vec, text |-> Current(l).text] /\ x = Current(l).search
  OBVIOUS
<1>5. score' = [score EXCEPT ![l][x] = made] /\ made # Unscored /\ x \in Searches
  BY <1>2, <1>4 DEF ScoreListing, upsertByListingAndSearch, Unscored
<1>6. score'[l][x] # Unscored /\ \A s : score[l][s] # Unscored => score'[l][s] # Unscored
  <2>1. score'[l][x] = made
    BY <1>5
  <2>2. \A s : s # x => score'[l][s] = score[l][s]
    BY <1>5
  <2> QED
    BY <1>5, <2>1, <2>2
<1>7. \A r \in Carried(l) : r.search = x \/ r \in Range(Tail(work[l].todo))
  BY <1>2, <1>4, TailRange DEF Carried
<1>8. \A s \in owed'[l] : score'[l][s] # Unscored
        \/ \E r \in Range(Tail(work[l].todo)) : r.search = s /\ searchHasTaste(Content(r))
  BY <1>3, <1>6, <1>7 DEF Owed
<1> QED
  BY <1>1, <1>8, OwedOnward

LEMMA OwnOwed ==
  ASSUME Types, RowInv, Remember, recent' \in Seq(Searches), NEW l \in Listings, OwedOK(l), JobAct(l)
  PROVE  OwedOK(l)'
<1> l \in Jobs /\ QueueTypes /\ work[l] \in Work /\ work[l].at \notin {"rank", "score"}
  BY DEF Jobs, Types, StepTypes, QueueTypes, PlaceOK
<1>1. CASE Reject(l) \/ Drop(l) \/ Evict(l)
  <2>1. status'[l] \in {"free", "waiting", "failed"}
    BY <1>1, OwnEnd DEF Reject, Drop, Evict
  <2> QED
    BY <2>1, OwedAfter DEF OwedOK
<1>2. CASE writeKeywordsEmbedding(l)
  <2>1. work[l].at = "taste" /\ UNCHANGED score
    BY <1>2 DEF writeKeywordsEmbedding, At, resultVars
  <2>2. \A s \in owed'[l] : s \in owed[l] /\ Owed(l, s)
    BY <2>1, OwedAfter DEF OwedOK, Busy
  <2>3. PICK a, n, w : w = [work[l] EXCEPT !.at = a, !.vec = n] /\ Active(l, w)
    BY <1>2 DEF writeKeywordsEmbedding, Set
  <2>4. w.todo = work[l].todo
    BY <2>3 DEF Work
  <2>5. work'[l].todo = work[l].todo /\ status'[l] = "active"
    BY <2>3, <2>4 DEF Active, QueueTypes
  <2> QED
    BY <2>1, <2>2, <2>5 DEF OwedOK, Owed, Carried, Content
<1>3. CASE RecomputeStep(l)
  BY <1>3 DEF RecomputeStep, Load, Rank, ScoreCandidate, At
<1>4. CASE CheckBudget(l)
  <2>1. status[l] = "waiting" /\ work[l].at = "idle"
    BY <1>4 DEF CheckBudget, Take, QueueTypes, Idle
  <2>2. owed'[l] = {}
    BY <2>1, OwedAfter DEF OwedOK
  <2> QED
    BY <2>2 DEF OwedOK
<1>5. CASE ScorePhoto(l) \/ RecordPhoto(l)
  <2>1. PICK w : Active(l, w) /\ w.at \in {"photo", "record"}
    <3>1. CASE ScorePhoto(l)
      <4>1. work[l].at = "photo"
        BY <3>1 DEF ScorePhoto, At
      <4>2. \/ Active(l, [work[l] EXCEPT !.photo = @ + 1]) \/ Active(l, [work[l] EXCEPT !.at = "record"])
        BY <3>1 DEF ScorePhoto, Set
      <4>3. /\ [work[l] EXCEPT !.photo = @ + 1].at = "photo" /\ [work[l] EXCEPT !.at = "record"].at = "record"
        BY <4>1 DEF Work
      <4> QED
        BY <4>2, <4>3
    <3>2. CASE RecordPhoto(l)
      <4>1. Active(l, [work[l] EXCEPT !.at = "photo", !.photo = @ + 1])
        BY <3>2 DEF RecordPhoto, Set
      <4>2. [work[l] EXCEPT !.at = "photo", !.photo = @ + 1].at = "photo"
        BY DEF Work
      <4> QED
        BY <4>1, <4>2
    <3> QED
      BY <1>5, <3>1, <3>2
  <2>2. work'[l] = w /\ status'[l] = "active"
    BY <2>1 DEF Active, QueueTypes
  <2> QED
    BY <2>1, <2>2 DEF OwedOK, Busy
<1>6. CASE EmbedListing(l)
  <2>1. work'[l].at = "list" /\ status'[l] = "active"
    BY <1>6 DEF EmbedListing, Set, Active, QueueTypes, Idle
  <2> QED
    BY <2>1 DEF OwedOK, Busy
<1> QED
  BY <1>1, <1>2, <1>3, <1>4, <1>5, <1>6, ListOwed, ReadOwed, ScoreOwed DEF JobAct, JobStep, AnalyzeStep

LEMMA NextOwed == Types /\ RowInv /\ OwedInv /\ [Next]_vars => OwedInv'
<1> SUFFICES ASSUME Types, RowInv, OwedInv, [Next]_vars, NEW l \in Listings PROVE OwedOK(l)'
  BY DEF OwedInv
<1> l \in Jobs /\ OwedOK(l) /\ StepTypes /\ QueueTypes
  BY DEF Jobs, OwedInv, Types, StepTypes
<1>1. recent' \in Seq(Searches)
  BY NextTypes DEF Types, StepTypes, SearchTypes
<1>2. CASE UNCHANGED vars
  BY <1>2 DEF vars, searchVars, resultVars, queueVars, OwedOK, Owed, Carried, Content
<1>3. CASE Next
  <2> Remember /\ Step
    BY <1>3 DEF Next
  <2>1. ASSUME NEW s \in Searches, SearchCall(s) PROVE OwedOK(l)'
    <3>1. work'[l] = work[l] /\ (status'[l] = status[l] \/ status'[l] = "waiting")
      BY <2>1 DEF SearchCall, create, update, setStatus, Write, maybeTriggerRecompute, TriggerFails,
         remove, queueVars, Enqueue, QueueTypes
    <3>2. ScoreStays(l)
      <4>1. CASE remove(s)
        <5>1. /\ score' = [k \in Listings |-> [score[k] EXCEPT ![s] = Unscored]]
              /\ recent' = Kept(recent, Searches \ {s})
          BY <4>1 DEF remove
        <5>2. s \notin Range(recent')
          BY <5>1, KeptFacts DEF StepTypes, SearchTypes
        <5>3. \A t : t # s => score'[l][t] = score[l][t]
          BY <5>1
        <5> QED
          BY <5>2, <5>3 DEF ScoreStays
      <4>2. CASE ~remove(s)
        BY <2>1, <4>2 DEF SearchCall, create, update, setStatus, Write, maybeTriggerRecompute,
           TriggerFails, resultVars, ScoreStays
      <4> QED
        BY <4>1, <4>2
    <3> QED
      BY <1>1, <3>1, <3>2, OwedStays
  <2>2. ASSUME NEW j \in Jobs, Enqueue(j), UNCHANGED <<resultVars, work>> PROVE OwedOK(l)'
    <3>1. work'[l] = work[l] /\ (status'[l] = status[l] \/ status'[l] = "waiting")
      BY <2>2 DEF queueVars, Enqueue, QueueTypes
    <3>2. ScoreStays(l)
      BY <2>2 DEF resultVars, ScoreStays
    <3> QED
      BY <1>1, <3>1, <3>2, OwedStays
  <2>3. ASSUME NEW j \in Jobs, JobAct(j) PROVE OwedOK(l)'
    <3>1. CASE j = l
      BY <1>1, <2>3, <3>1, OwnOwed
    <3>2. CASE j # l
      <4>1. work'[l] = work[l] /\ status'[l] = status[l]
        BY <2>3, <3>2, JobElsewhere
      <4>2. ScoreStays(l)
        BY <2>3, JobScoreStays
      <4> QED
        BY <1>1, <4>1, <4>2, OwedStays
    <3> QED
      BY <3>1, <3>2
  <2>4. All \in Jobs /\ Listings \subseteq Jobs /\ Unsettled \subseteq Searches
    BY ScoringAssumption DEF ScoringAssumption, Jobs
  <2> QED
    BY <2>1, <2>2, <2>3, <2>4, StepKinds DEF enqueueAnalyze, SavePreferences
<1> QED
  BY <1>2, <1>3

\* A listing whose job has come to its end has the scores it was owed from the
\* moment its searches were listed, whatever else was written, edited or removed
\* while they were embedded and scored one by one (analyzeListing, scoreListing).
THEOREM AnalysisSound == Spec => []AnalysedIsScored
<1>1. Init => Types /\ RowInv /\ OwedInv
  BY InitTypes, InitRows, InitOwed
<1>2. Types /\ RowInv /\ OwedInv /\ [Next]_vars => (Types /\ RowInv /\ OwedInv)'
  BY NextTypes, NextRows, NextOwed
<1>3. OwedInv => AnalysedIsScored
  BY DEF OwedInv, OwedOK, AnalysedIsScored
<1> QED
  BY <1>1, <1>2, <1>3, PTL DEF Spec
=============================================================================
