----------------------------- MODULE TaskService -----------------------------
(***************************************************************************)
(* What the scheduler promises its callers, without clock, queues or host: *)
(* the life of each task handed to unstable_scheduleCallback.              *)
(*                                                                         *)
(*        Schedule        Start            Return, Throw                   *)
(*   new ---------> live ------> running ----------------> dead            *)
(*                   |  <--------'  Continue                ^              *)
(*                   '---------------- Cancel --------------'              *)
(*                                                                         *)
(* At most one task runs at a time, a call to a task's callback follows a  *)
(* Schedule or a Continue that no other call has answered, and nothing but *)
(* its own continuation brings a task back.                                *)
(***************************************************************************)
CONSTANT Task

VARIABLE state

States == {"new", "live", "running", "dead"}

Init == state = [t \in Task |-> "new"]

Move(t, from, to) ==
  /\ state[t] = from
  /\ state' = [state EXCEPT ![t] = to]

Schedule(t) == Move(t, "new", "live")

Start(t) ==
  /\ \A u \in Task : state[u] # "running"
  /\ Move(t, "live", "running")

Continue(t) == Move(t, "running", "live")

\* Return without a continuation, or a throw.
End(t) == Move(t, "running", "dead")

Cancel(t) == Move(t, "live", "dead")

Next == \E t \in Task :
          Schedule(t) \/ Start(t) \/ Continue(t) \/ End(t) \/ Cancel(t)

Spec == Init /\ [][Next]_state
=============================================================================
