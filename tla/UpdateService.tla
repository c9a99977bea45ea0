---------------------------- MODULE UpdateService ----------------------------
(***************************************************************************)
(* What React promises an update, without tasks, queues, effects or        *)
(* errors: it is committed by a render that began after it was made.       *)
(*                                                                         *)
(*            Update              Begin                  Commit            *)
(*   "done" ---------> "waiting" -------> "rendering" ---------> "done"    *)
(*                         '----<-- Update, Abandon --'                    *)
(*                                                                         *)
(* One life per root and lane.  A render takes any of the lanes that wait; *)
(* an update to a lane that is being rendered has to wait for a render of  *)
(* its own.                                                                *)
(***************************************************************************)
CONSTANTS Root, Lane

VARIABLE status

Init == status = [r \in Root |-> [l \in Lane |-> "done"]]

Update(old, new, lane) == new = [old EXCEPT ![lane] = "waiting"]

\* A render of `lanes` begins (none: it is abandoned); one that was in
\* progress is thrown away.
Begin(old, new, lanes) ==
  new = [l \in Lane |-> IF old[l] = "done" THEN "done"
                        ELSE IF l \in lanes THEN "rendering" ELSE "waiting"]

Commit(old, new) ==
  new = [l \in Lane |-> IF old[l] = "rendering" THEN "done" ELSE old[l]]

Step(old, new) ==
  \/ new = old
  \/ \E lane \in Lane : Update(old, new, lane)
  \/ \E lanes \in SUBSET Lane : Begin(old, new, lanes)
  \/ Commit(old, new)

Next ==
  /\ \A r \in Root : Step(status[r], status'[r])
  /\ DOMAIN status' = Root

Spec == Init /\ [][Next]_status
=============================================================================
