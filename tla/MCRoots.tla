------------------------------ MODULE MCRoots ------------------------------
(***************************************************************************)
(* Three instances of RootScheduler side by side, so that each property is *)
(* checked where it holds: each behaviour is one of the instance chosen at *)
(* the start.                                                              *)
(*   one     one root, lanes of every kind that expire, uncaught errors    *)
(*   two     two roots that share all that is not a field of the root; no  *)
(*           boundary that timed out is retried                            *)
(*   faults  one root and every fault a render can meet                    *)
(* The other root of `one` and `faults` is left alone.                     *)
(***************************************************************************)
EXTENDS RootScheduler

CONSTANTS A, B   \* roots

VARIABLE instance

OneFaults == {"suspend", "suspendInShell", "error"}
One == INSTANCE RootScheduler WITH
  UpdateLanes <- UpdateLanes, MaxEvents <- 4, RenderFaults <- OneFaults,
  UncaughtErrors <- TRUE, LanesExpire <- TRUE

TwoLanes == {0, 4}
TwoFaults == {"suspend", "error"}
Two == INSTANCE RootScheduler WITH
  UpdateLanes <- TwoLanes, MaxEvents <- 5, RenderFaults <- TwoFaults,
  UncaughtErrors <- TRUE, LanesExpire <- FALSE

FaultsLanes == {0, 6}
Faults == INSTANCE RootScheduler WITH
  UpdateLanes <- FaultsLanes, MaxEvents <- 4, RenderFaults <- AllFaults,
  UncaughtErrors <- TRUE, LanesExpire <- FALSE

InstancesInit ==
  /\ instance \in {"one", "two", "faults"}
  /\ Init

LeftAlone(r) == roots'[r] = roots[r]
NothingIsRetried == \A r \in Root : roots'[r].pendingLanes \cap RetryLanes = {}

InstancesNext ==
  /\ \/ instance = "one" /\ One!Next /\ LeftAlone(B)
     \/ instance = "two" /\ Two!Next /\ NothingIsRetried
     \/ instance = "faults" /\ Faults!Next /\ LeftAlone(B)
  /\ UNCHANGED instance

InstancesSpec == InstancesInit /\ [][InstancesNext]_<<instance, vars>>
=============================================================================
