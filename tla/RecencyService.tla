--------------------------- MODULE RecencyService ---------------------------
(***************************************************************************)
(* What a cache of bounded size promises: it knows in which order its      *)
(* inputs were last read, and a clean-up forgets those read longest ago.   *)
(***************************************************************************)
EXTENDS Integers, Sequences, SequencesExt

CONSTANTS Inputs, Limits

VARIABLES
  recency,   \* the inputs that are cached, the last read first
  results,   \* input -> "pending" or "settled"
  limit,
  due        \* whether a clean-up will come

vars == <<recency, results, limit, due>>

Prefix(n) == SubSeq(recency, 1, IF n < Len(recency) THEN n ELSE Len(recency))

Init == recency = <<>> /\ results = <<>> /\ limit \in Limits /\ due = FALSE

Read(input) ==
  /\ \/ input \notin ToSet(recency) /\ recency' = <<input>> \o recency
     \/ \E i \in DOMAIN recency :
          recency[i] = input /\ recency' = <<input>> \o RemoveAt(recency, i)
  /\ results' = [i \in DOMAIN results \cup {input} |->
                   IF i \in DOMAIN results THEN results[i] ELSE "pending"]
  /\ due' = (due \/ (input \in DOMAIN results /\ Len(recency) > limit))
  /\ UNCHANGED limit

Settle(input) ==
  /\ input \in DOMAIN results
  /\ results' = [results EXCEPT ![input] = "settled"]
  /\ UNCHANGED <<recency, limit, due>>

SetLimit(n) ==
  /\ limit' = n
  /\ due' = (due \/ Len(recency) > n)
  /\ UNCHANGED <<recency, results>>

CleanUp ==
  /\ due
  /\ due' = FALSE
  /\ recency' = Prefix(limit)
  /\ results' = [i \in ToSet(Prefix(limit)) |-> results[i]]
  /\ UNCHANGED limit

Next ==
  \/ \E input \in Inputs : Read(input) \/ Settle(input)
  \/ \E n \in Limits : SetLimit(n)
  \/ CleanUp

Spec == Init /\ [][Next]_vars
=============================================================================
