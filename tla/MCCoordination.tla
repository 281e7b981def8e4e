--------------------------- MODULE MCCoordination ---------------------------
(* One instance of the two single things that processes meet at: the lease of  *)
(* the scheduler in Redis and the warm-up row in Postgres.  They share no      *)
(* state, so their interleavings say nothing of either: a behaviour moves one  *)
(* and leaves the other as it began.                                           *)
EXTENDS LeaderLock, WarmupRow

EitherInit == Init /\ RowInit

EitherNext ==
  \/ Next /\ RowInit /\ UNCHANGED rowVars
  \/ RowNext /\ starts = 0 /\ UNCHANGED vars

Either == EitherInit /\ [][EitherNext]_<<vars, rowVars>> /\ Fairness
=============================================================================
