----------------------------- MODULE MCScheduler -----------------------------
(* Constant values for the runs of Scheduler: the timeouts keep the order of *)
(* the source (-1 < 250 < 5000 < 10000 < maxSigned31BitInt) at small scale.  *)
EXTENDS Scheduler

MCTimeout == [p \in Priorities |-> CASE p = 1 -> -1
                                     [] p = 2 -> 1
                                     [] p = 3 -> 2
                                     [] p = 4 -> 3
                                     [] p = 5 -> 100]
=============================================================================
