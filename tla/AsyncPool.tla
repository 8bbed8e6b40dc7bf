------------------------------ MODULE AsyncPool ------------------------------
(***************************************************************************)
(* The cooperative job pool of include/portable_async.h.                   *)
(*                                                                         *)
(* One loop owns the pool.  ps_async_poll is not one step: it calls the    *)
(* step, stop and done callbacks of the jobs it visits, and while such a   *)
(* callback runs the owner's code may call any pool function again.        *)
(* "phase" says where the poll is; every entry point may be called while   *)
(* the poll is idle or inside a callback, and the "running" flag is what   *)
(* the code uses to tell the two apart.                                    *)
(*                                                                         *)
(* Times are the milliseconds of a clock that wraps at ClockMod (2^32 in   *)
(* the program); identifiers are 1..MaxId (2^32 - 1 in the program).       *)
(***************************************************************************)
EXTENDS Integers, Sequences

CONSTANTS Capacity,   \* slots in the pool
          MaxId,      \* largest job identifier: UINT32_MAX
          ClockMod,   \* the millisecond clock is a number below this: 2^32
          Timeouts,   \* durations the owner asks for, acceptable or not
          Kinds,      \* callbacks the owner gives a job besides done
          Budgets,    \* visit budgets the owner passes to poll
          MaxGap      \* longest time the owner lets pass between two polls

ASSUME PoolAssumption ==
  /\ Capacity \in Nat \ {0}
  /\ MaxId \in Nat \ {0}
  /\ ClockMod \in Nat \ {0}
  /\ Timeouts \subseteq Nat
  /\ Kinds \subseteq [step : BOOLEAN, stop : BOOLEAN]
  /\ Budgets \subseteq Nat
  /\ MaxGap \in Nat

VARIABLES
  jobs,      \* the slots
  cursor,    \* next slot to visit
  running,   \* a poll is in progress
  next_id,   \* identifier of the next job; 0 once they are used up
  now,       \* the owner's clock
  \* locals of ps_async_poll
  phase, slot, scanned, visited, budget,
  \* history: what the callers and callbacks observed
  issued,    \* identifiers handed out so far
  winner,    \* first terminal event of each identifier
  stop_log,  \* reasons the stop callback was called with
  done_log,  \* states the done callback was called with
  seen,      \* slots visited by the poll in progress
  age,       \* true time since the job of a slot was submitted
  gap        \* true time since the last poll began

pool  == <<jobs, cursor, running, next_id>>
local == <<phase, slot, scanned, visited, budget, seen>>
log   == <<issued, winner, stop_log, done_log>>
time  == <<now, age, gap>>
vars  == <<pool, local, log, time>>

Slots == 0 .. Capacity - 1
Ids   == 1 .. MaxId
Clock == 0 .. ClockMod - 1

Outcomes     == {"done", "failed", "cancelled", "timeout"}
States       == Outcomes \cup {"pending"}
StopOutcomes == {"cancelled", "timeout"}
Callbacks    == {"step", "stop", "done"}

NoJob == [id |-> 0, started |-> 0, timeout |-> 0, state |-> "pending",
          step |-> FALSE, stop |-> FALSE]
Job == [id : 0 .. MaxId, started : Clock, timeout : Nat, state : States,
        step : BOOLEAN, stop : BOOLEAN]

-----------------------------------------------------------------------------
\* UINT32_MAX / 2: the longest duration a wrapping clock can measure.
MaxTimeout == (ClockMod - 1) \div 2

\* True ages are only compared with durations, so they saturate at the longest.
AgeCap == MaxTimeout

Live == {s \in Slots : jobs[s].id # 0}

\* The owner's code has control: between polls or inside a callback.
Callable == phase = "idle" \/ phase \in Callbacks

\* The guard every entry point starts with.  (Mutation: no guard.)
Reentrant == TRUE
Enterable == ~running

\* Identifiers are used once; after the last one the pool is exhausted.
\* (Mutation: they start again.)
NextIdAgain == IF next_id = MaxId THEN 1 ELSE next_id + 1
NextId == (next_id + 1) % (MaxId + 1)

\* The first free slot of the array.
FirstFree(s) == s \in Slots \ Live /\ \A t \in Slots \ Live : s <= t

\* Unsigned subtraction, exact across a wrap of the clock.  (Mutation: a comparison
\* of two moments.)
TimedOutUnwrapped(j) == j.timeout # 0 /\ now >= j.started + j.timeout
TimedOut(j) == j.timeout # 0 /\ (now - j.started) % ClockMod >= j.timeout

\* A step may return any number; what is not an outcome a step can have counts
\* as a failure.
StepState(r) == IF r \in {"pending", "done", "failed"} THEN r ELSE "failed"

\* Only a pending job can be completed or cancelled.  (Mutation: any job can.)
OpenWhileLive(j) == j.id # 0
Open(j) == j.state = "pending"

\* The stop callback is for jobs that did not end by themselves.  (Mutation: for all.)
StopsAny(j) == j.stop
Stops(j) == j.state \in StopOutcomes /\ j.stop

\* Record o as the terminal event of the identifiers in S that have none yet.
Won(S, o) == [i \in Ids |-> IF i \in S /\ winner[i] = "none" THEN o ELSE winner[i]]

-----------------------------------------------------------------------------
Init ==
  /\ jobs = [s \in Slots |-> NoJob]
  /\ cursor = 0 /\ running = FALSE /\ next_id = 1
  /\ now \in Clock
  /\ phase = "idle" /\ slot = 0 /\ scanned = 0 /\ visited = 0 /\ budget = 0
  /\ issued = {} /\ winner = [i \in Ids |-> "none"]
  /\ stop_log = [i \in Ids |-> <<>>] /\ done_log = [i \in Ids |-> <<>>]
  /\ seen = {} /\ age = [s \in Slots |-> 0] /\ gap = 0

\* ps_async_submit.  A job without step waits for ps_async_complete.
Submit(timeout, kind) ==
  /\ Callable /\ Enterable
  /\ next_id # 0
  /\ timeout <= MaxTimeout
  /\ \E s \in Slots :
       /\ FirstFree(s)
       /\ jobs' = [jobs EXCEPT ![s] =
            [id |-> next_id, started |-> now, timeout |-> timeout,
             state |-> "pending", step |-> kind.step, stop |-> kind.stop]]
       /\ age' = [age EXCEPT ![s] = 0]
  /\ next_id' = NextId
  /\ issued' = issued \cup {next_id}
  /\ UNCHANGED <<cursor, running, local, winner, stop_log, done_log, now, gap>>

\* ps_async_complete and, with state "cancelled", ps_async_cancel.
Complete(id, state) ==
  /\ Callable /\ Enterable
  /\ \E s \in Slots :
       /\ jobs[s].id = id /\ Open(jobs[s])
       /\ jobs' = [jobs EXCEPT ![s].state = state]
  /\ winner' = Won({id}, state)
  /\ UNCHANGED <<cursor, running, next_id, local, issued, stop_log, done_log, time>>

\* ps_async_cancel_all.
CancelAll ==
  /\ Callable /\ Enterable
  /\ LET open == {s \in Live : Open(jobs[s])} IN
       /\ open # {}
       /\ jobs' = [s \in Slots |-> IF s \in open
                     THEN [jobs[s] EXCEPT !.state = "cancelled"] ELSE jobs[s]]
       /\ winner' = Won({jobs[s].id : s \in open}, "cancelled")
  /\ UNCHANGED <<cursor, running, next_id, local, issued, stop_log, done_log, time>>

-----------------------------------------------------------------------------
\* ps_async_poll, from its entry to the return of each callback.
PollBegin(b) ==
  /\ phase = "idle" /\ Enterable
  /\ running' = TRUE /\ phase' = "scan"
  /\ budget' = b /\ gap' = 0
  /\ UNCHANGED <<jobs, cursor, next_id, slot, scanned, visited, seen, log, now, age>>

\* One round of the array at most, within the budget.
Scanning == phase = "scan" /\ scanned < Capacity /\ visited < budget

\* (Mutations: past the end; back to the first slot.)
CursorPastEnd == cursor + 1
CursorHome == 0
NextCursor == (cursor + 1) % Capacity

\* Take the slot under the cursor.
Advance == /\ Scanning
           /\ cursor' = NextCursor
           /\ scanned' = scanned + 1

PollSkip ==
  /\ Advance
  /\ cursor \notin Live
  /\ UNCHANGED <<jobs, running, next_id, phase, slot, visited, budget, seen, log, time>>

Visit == /\ Advance
         /\ cursor \in Live
         /\ visited' = visited + 1 /\ slot' = cursor
         /\ seen' = seen \cup {cursor}
         /\ UNCHANGED <<running, next_id, budget, issued, stop_log, done_log, time>>

\* The job timed out before its step could run.
VisitTimeout ==
  /\ Visit
  /\ Open(jobs[cursor]) /\ TimedOut(jobs[cursor])
  /\ jobs' = [jobs EXCEPT ![cursor].state = "timeout"]
  /\ winner' = Won({jobs[cursor].id}, "timeout")
  /\ phase' = "stop"

\* The job is pending and in time: call its step, if it has one.
VisitPending ==
  /\ Visit
  /\ Open(jobs[cursor]) /\ ~TimedOut(jobs[cursor])
  /\ phase' = IF jobs[cursor].step THEN "step" ELSE "scan"
  /\ UNCHANGED <<jobs, winner>>

\* The job was completed or cancelled since the last visit.
VisitSettled ==
  /\ Visit
  /\ ~Open(jobs[cursor])
  /\ phase' = "stop"
  /\ UNCHANGED <<jobs, winner>>

\* The step callback returns r.
StepReturns(r) ==
  /\ phase = "step"
  /\ LET state == StepState(r) IN
       /\ jobs' = [jobs EXCEPT ![slot].state = state]
       /\ winner' = IF state = "pending" THEN winner ELSE Won({jobs[slot].id}, state)
       /\ phase' = IF state = "pending" THEN "scan" ELSE "stop"
  /\ UNCHANGED <<cursor, running, next_id, slot, scanned, visited, budget, seen,
                 issued, stop_log, done_log, time>>

\* The stop callback, for a job that did not end by itself.
StopReturns ==
  /\ phase = "stop"
  /\ LET j == jobs[slot] IN
       stop_log' = IF Stops(j)
                   THEN [stop_log EXCEPT ![j.id] = Append(@, j.state)] ELSE stop_log
  /\ phase' = "done"
  /\ UNCHANGED <<pool, slot, scanned, visited, budget, seen, issued, winner, done_log, time>>

\* The done callback; the slot is free once it returns.  The code clears the id
\* and the pointers and never reads the rest of a slot with id 0 again.
DoneReturns ==
  /\ phase = "done"
  /\ done_log' = [done_log EXCEPT ![jobs[slot].id] = Append(@, jobs[slot].state)]
  /\ jobs' = [jobs EXCEPT ![slot] = NoJob]
  /\ age' = [age EXCEPT ![slot] = 0]
  /\ phase' = "scan"
  /\ UNCHANGED <<cursor, running, next_id, slot, scanned, visited, budget, seen,
                 issued, winner, stop_log, now, gap>>

PollEnd ==
  /\ phase = "scan" /\ ~Scanning
  /\ running' = FALSE /\ phase' = "idle"
  /\ slot' = 0 /\ scanned' = 0 /\ visited' = 0 /\ budget' = 0 /\ seen' = {}
  /\ UNCHANGED <<jobs, cursor, next_id, log, time>>

\* Time passes between polls, never for longer than MaxGap.
Tick ==
  /\ phase = "idle" /\ gap < MaxGap
  /\ now' = (now + 1) % ClockMod
  /\ age' = [s \in Slots |-> IF s \in Live /\ age[s] < AgeCap THEN age[s] + 1 ELSE age[s]]
  /\ gap' = gap + 1
  /\ UNCHANGED <<pool, local, log>>

-----------------------------------------------------------------------------
Callers == \/ \E t \in Timeouts, kind \in Kinds : Submit(t, kind)
           \/ \E i \in Ids, o \in {"done", "failed", "cancelled"} : Complete(i, o)
           \/ CancelAll

Poll == \/ PollSkip
        \/ VisitTimeout
        \/ VisitPending
        \/ VisitSettled
        \/ \E r \in States : StepReturns(r)
        \/ StopReturns
        \/ DoneReturns
        \/ PollEnd

Next == Callers \/ (\E b \in Budgets : PollBegin(b)) \/ Poll \/ Tick

Spec == Init /\ [][Next]_vars

\* The loop that owns the pool keeps polling (Budgets is then without 0), its
\* callbacks return, and the clock does not stop however often it polls.  Nothing
\* is asked of the callers.
Fairness == /\ WF_vars(Poll)
            /\ WF_vars(\E b \in Budgets : PollBegin(b))
            /\ SF_vars(Tick)

FairSpec == Spec /\ Fairness
-----------------------------------------------------------------------------
TypeOK ==
  /\ jobs \in [Slots -> Job]
  /\ cursor \in Slots /\ running \in BOOLEAN /\ next_id \in 0 .. MaxId
  /\ now \in Clock
  /\ phase \in {"idle", "scan"} \cup Callbacks
  /\ slot \in Slots /\ scanned \in 0 .. Capacity
  /\ visited \in Nat /\ budget \in Nat
  /\ issued \subseteq Ids
  /\ winner \in [Ids -> Outcomes \cup {"none"}]
  /\ stop_log \in [Ids -> Seq(Outcomes)] /\ done_log \in [Ids -> Seq(States)]
  /\ seen \subseteq Slots
  /\ age \in [Slots -> 0 .. AgeCap] /\ gap \in 0 .. MaxGap

\* Two jobs in the pool never share an identifier, and every one of them was
\* handed out (ps_async_submit, "IDs never repeat within a pool lifetime").
UniqueIds ==
  /\ \A s, t \in Live : jobs[s].id = jobs[t].id => s = t
  /\ \A s \in Live : jobs[s].id \in issued

\* The state a slot shows and the state a done callback was given are the first
\* terminal event of that job, whoever raced for it: worker completion, step,
\* deadline or cancellation ("First terminal event wins").
FirstEventWins ==
  /\ \A s \in Live : winner[jobs[s].id] =
                       IF jobs[s].state = "pending" THEN "none" ELSE jobs[s].state
  /\ \A i \in Ids : done_log[i] \in {<<>>, <<winner[i]>>}

\* A job's owner hears of the end of each job at most once, and the slot of a
\* job it has heard of is free.
DoneOnce ==
  \A i \in Ids : /\ Len(done_log[i]) <= 1
                 /\ done_log[i] # <<>> => \A s \in Live : jobs[s].id # i

\* External work is stopped once, before done, exactly when the job was cancelled
\* or timed out and has a stop callback.
StopBeforeDone ==
  /\ \A i \in Ids : stop_log[i] # <<>> =>
       stop_log[i] = <<winner[i]>> /\ winner[i] \in StopOutcomes
  /\ phase = "done" /\ jobs[slot].state \in StopOutcomes =>
       stop_log[jobs[slot].id] = IF jobs[slot].stop THEN <<jobs[slot].state>> ELSE <<>>

\* The invariant the proofs need: the properties above hold of every step because
\* a poll holds the slot it works on until it frees it, because next_id separates
\* used identifiers from fresh ones, and because the stop callback of a live job can
\* only have run for the job a poll is about to deliver.
PollHoldsSlot ==
  /\ running <=> phase # "idle"
  /\ phase \in Callbacks => slot \in Live
  /\ phase = "step" => Open(jobs[slot])
  /\ phase \in {"stop", "done"} => ~Open(jobs[slot])

NextIdIsFresh ==
  /\ \A i \in Ids : i \in issued <=> next_id = 0 \/ i < next_id
  /\ \A i \in Ids \ issued :
       winner[i] = "none" /\ stop_log[i] = <<>> /\ done_log[i] = <<>>

LogsFollowWinner ==
  /\ \A i \in Ids : done_log[i] # <<>> => winner[i] # "none"
  /\ \A s \in Live : stop_log[jobs[s].id] # <<>> => s = slot /\ phase = "done"

IInv == /\ TypeOK /\ PollHoldsSlot /\ NextIdIsFresh /\ LogsFollowWinner
        /\ UniqueIds /\ FirstEventWins /\ DoneOnce /\ StopBeforeDone

\* No job ends by deadline before its time, and a job visited after its deadline
\* does not survive the visit, whatever the clock did in between.
DeadlineExact ==
  [][ /\ VisitTimeout => age[cursor] >= jobs[cursor].timeout
      /\ VisitPending => \/ jobs[cursor].timeout = 0
                         \/ age[cursor] < jobs[cursor].timeout ]_vars

\* A poll visits a job at most once and never more jobs than its budget.
VisitOnce ==
  [][ visited' > visited => cursor \notin seen /\ visited' <= budget ]_vars

\* While a poll runs the pool belongs to it: a callback that calls back into the
\* pool changes no job but through its own return value.
NoReentry ==
  [][ (phase \in Callbacks /\ phase' = phase) => UNCHANGED pool ]_vars

\* The pool keeps the promise of JobLifecycle for every identifier.
Status(i) ==
  IF i \notin issued THEN "fresh"
  ELSE IF done_log[i] # <<>> THEN "delivered"
  ELSE IF stop_log[i] # <<>> THEN "stopped"
  ELSE IF winner[i] # "none" THEN "settled" ELSE "pending"

Abstract == INSTANCE JobLifecycle WITH
              status <- [i \in Ids |-> Status(i)], outcome <- winner

Lifecycle == Abstract!Spec

\* Every job that settled is delivered, although a poll may have a budget of one.
SettledIsDelivered ==
  \A i \in Ids : winner[i] # "none" ~> done_log[i] # <<>>

\* Round robin: no job is passed over for ever.
NoStarvation ==
  \A i \in Ids : (\E s \in Slots : jobs[s].id = i)
                   ~> (\E s \in seen : jobs[s].id = i) \/ done_log[i] # <<>>

\* A job with a duration ends, whatever its step and its worker do.
DeadlineDelivers ==
  \A i \in Ids : (\E s \in Slots : jobs[s].id = i /\ jobs[s].timeout # 0)
                   ~> done_log[i] # <<>>
=============================================================================
