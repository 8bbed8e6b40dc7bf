---------------------------- MODULE JobLifecycle ----------------------------
(***************************************************************************)
(* What the job pool of include/portable_async.h promises for each job     *)
(* identifier, with no pool, slots, cursor or clock: a job is started at   *)
(* most once, settles at most once, has its external work stopped only     *)
(* after it was cancelled or timed out, and is delivered to its owner      *)
(* last.  AsyncPool implements this specification (AsyncPool!Lifecycle).   *)
(***************************************************************************)
CONSTANT Ids

VARIABLES status,   \* progress of each identifier
          outcome   \* the terminal event that won, "none" while pending

vars == <<status, outcome>>

Outcomes == {"done", "failed", "cancelled", "timeout"}
StopOutcomes == {"cancelled", "timeout"}

Init == /\ status  = [i \in Ids |-> "fresh"]
        /\ outcome = [i \in Ids |-> "none"]

Start(i) == /\ status[i] = "fresh"
            /\ status' = [status EXCEPT ![i] = "pending"]
            /\ UNCHANGED outcome

\* Several jobs settle in one step when the owner cancels the whole pool.
Settle(S, o) ==
  /\ S # {}
  /\ \A i \in S : status[i] = "pending"
  /\ status'  = [i \in Ids |-> IF i \in S THEN "settled" ELSE status[i]]
  /\ outcome' = [i \in Ids |-> IF i \in S THEN o ELSE outcome[i]]

Stop(i) == /\ status[i] = "settled"
           /\ outcome[i] \in StopOutcomes
           /\ status' = [status EXCEPT ![i] = "stopped"]
           /\ UNCHANGED outcome

Deliver(i) == /\ status[i] \in {"settled", "stopped"}
              /\ status' = [status EXCEPT ![i] = "delivered"]
              /\ UNCHANGED outcome

Next == \/ \E i \in Ids : Start(i) \/ Stop(i) \/ Deliver(i)
        \/ \E S \in SUBSET Ids, o \in Outcomes : Settle(S, o)

Spec == Init /\ [][Next]_vars
=============================================================================
