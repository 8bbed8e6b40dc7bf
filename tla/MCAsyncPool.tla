---------------------------- MODULE MCAsyncPool ----------------------------
(* Small pools for TLC: the callbacks the owner may leave out. *)
EXTENDS AsyncPool

\* A stepped job that owns external work, and an event-driven one that does not.
TwoKinds == {[step |-> TRUE, stop |-> TRUE], [step |-> FALSE, stop |-> FALSE]}

\* Only stepped jobs, with external work to stop.
Stepped == {[step |-> TRUE, stop |-> TRUE]}

\* A visit is exact: a deadline neither early nor survived, and a poll visits a job
\* once and no more jobs than its budget.
VisitsAreExact == DeadlineExact /\ VisitOnce

\* Every job comes to its end: none is passed over, one with a duration ends, and one
\* that settled is delivered, although a poll may have a budget of one.
EveryJobEnds == NoStarvation /\ DeadlineDelivers /\ SettledIsDelivered
=============================================================================
