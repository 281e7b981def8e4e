-------------------------- MODULE MCSearchScoring --------------------------
(* A small instance of SearchScoring for TLC. *)
EXTENDS SearchScoring

CONSTANTS s1, s2, s3, l1, l2, p1, p2, p3

\* s1 changes its brief from a price to a place; s2 stays; s3 says nothing.
Cheap == [words |-> FALSE, beds |-> 0, price |-> 5, outcodes |-> {1}]
Family == [words |-> TRUE, beds |-> 2, price |-> 0, outcodes |-> {1, 2}]
Roomy == [words |-> FALSE, beds |-> 1, price |-> 0, outcodes |-> {1, 2}]
Blank == [words |-> FALSE, beds |-> 0, price |-> 0, outcodes |-> {1}]

MCBriefs == [s \in Searches |->
  CASE s = s1 -> <<Cheap, Family>> [] s = s2 -> <<Roomy>> [] s = s3 -> <<Blank>>]

MCHome == [l \in Listings |-> IF l = l1 THEN [outcode |-> 1, beds |-> 3, price |-> 4]
                                        ELSE [outcode |-> 2, beds |-> 0, price |-> 9]]

MCPhotos == [l \in Listings |-> IF l = l1 THEN <<p1>> ELSE <<p2, p3>>]
=============================================================================
