---------------------------- MODULE Subsequences ----------------------------
(* What a filter or a Set of seen keys leaves of an array, in its order. *)
EXTENDS Integers, Sequences

\* The elements of seq at the places of I.
TakenTo(seq, I) ==
  LET taken[n \in 0..Len(seq)] ==
        IF n = 0 THEN <<>>
        ELSE IF n \in I THEN Append(taken[n - 1], seq[n]) ELSE taken[n - 1]
  IN  taken
Taken(seq, I) == TakenTo(seq, I)[Len(seq)]

Only(seq, Passes(_)) == Taken(seq, {i \in DOMAIN seq : Passes(seq[i])})

\* seq without what repeats an earlier element in its key.
Distinct(seq, Key(_)) ==
  Taken(seq, {i \in DOMAIN seq : \A k \in 1..(i - 1) : Key(seq[k]) # Key(seq[i])})
Once(seq) == Distinct(seq, LAMBDA x : x)
=============================================================================
