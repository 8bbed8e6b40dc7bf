-------------------------- MODULE AsyncPool_proofs --------------------------
(***************************************************************************)
(* Proofs about AsyncPool, for every pool size, identifier range, clock    *)
(* width, set of durations and callback choice.                            *)
(***************************************************************************)
EXTENDS AsyncPool, TLAPS

LEMMA ConstantTypes ==
  /\ 0 \in Slots /\ 0 \in Clock /\ 0 \in 0 .. AgeCap /\ 0 \in 0 .. MaxGap
  /\ AgeCap \in Nat
BY PoolAssumption, SMT DEF Slots, Clock, AgeCap, MaxTimeout

\* The wrapping increments stay in their ranges.
LEMMA Wrapping ==
  /\ \A c \in Slots : (c + 1) % Capacity \in Slots
  /\ \A t \in Clock : (t + 1) % ClockMod \in Clock
  /\ \A n \in 1 .. MaxId :
       (n + 1) % (MaxId + 1) = IF n = MaxId THEN 0 ELSE n + 1
BY PoolAssumption, SMT DEF Slots, Clock

LEMMA InitIInv == Init => IInv
<1> SUFFICES ASSUME Init PROVE IInv
  OBVIOUS
<1>1. Live = {}
  BY DEF Init, Live, NoJob
<1>2. TypeOK
  <2>1. NoJob \in Job
    BY ConstantTypes, PoolAssumption, SMT DEF NoJob, Job, States, Outcomes
  <2>2. jobs \in [Slots -> Job] /\ age \in [Slots -> 0 .. AgeCap]
    BY <2>1, ConstantTypes DEF Init
  <2>3. /\ winner \in [Ids -> Outcomes \cup {"none"}]
        /\ stop_log \in [Ids -> Seq(Outcomes)] /\ done_log \in [Ids -> Seq(States)]
    BY SMT DEF Init
  <2>4. /\ cursor \in Slots /\ running \in BOOLEAN /\ next_id \in 0 .. MaxId
        /\ now \in Clock /\ slot \in Slots /\ scanned \in 0 .. Capacity
        /\ visited \in Nat /\ budget \in Nat /\ gap \in 0 .. MaxGap
    BY ConstantTypes, PoolAssumption, SMT DEF Init
  <2> QED
    BY <2>2, <2>3, <2>4 DEF Init, TypeOK
<1>3. PollHoldsSlot
  BY DEF Init, PollHoldsSlot, Callbacks
<1>4. NextIdIsFresh
  BY SMT DEF Init, NextIdIsFresh, Ids
<1>5. LogsFollowWinner /\ UniqueIds
  BY <1>1, SMT DEF Init, LogsFollowWinner, UniqueIds
<1>6. FirstEventWins /\ DoneOnce /\ StopBeforeDone
  BY <1>1, SMT DEF Init, FirstEventWins, DoneOnce, StopBeforeDone
<1> QED
  BY <1>2, <1>3, <1>4, <1>5, <1>6 DEF IInv

-----------------------------------------------------------------------------
\* Rewriting one field of a slot keeps it a job.
LEMMA StateOfJob ==
  ASSUME NEW j \in Job, NEW st \in States
  PROVE  [j EXCEPT !.state = st] \in Job
BY DEF Job

LEMMA WonTypes ==
  ASSUME winner \in [Ids -> Outcomes \cup {"none"}], NEW S, NEW o \in Outcomes
  PROVE  Won(S, o) \in [Ids -> Outcomes \cup {"none"}]
BY DEF Won

LEMMA TypeNext == TypeOK /\ PollHoldsSlot /\ [Next]_vars => TypeOK'
<1> SUFFICES ASSUME TypeOK, PollHoldsSlot, [Next]_vars PROVE TypeOK'
  OBVIOUS
<1> USE DEF TypeOK, pool, local, log, time
<1>1. ASSUME NEW t \in Timeouts, NEW kind \in Kinds, Submit(t, kind) PROVE TypeOK'
  <2>1. PICK s \in Slots :
          /\ jobs' = [jobs EXCEPT ![s] =
               [id |-> next_id, started |-> now, timeout |-> t,
                state |-> "pending", step |-> kind.step, stop |-> kind.stop]]
          /\ age' = [age EXCEPT ![s] = 0]
    BY <1>1 DEF Submit
  <2>2. [id |-> next_id, started |-> now, timeout |-> t, state |-> "pending",
         step |-> kind.step, stop |-> kind.stop] \in Job
    <3>1. t \in Nat /\ kind.step \in BOOLEAN /\ kind.stop \in BOOLEAN
      BY PoolAssumption
    <3> QED BY <3>1, SMT DEF Job, States
  <2>3. jobs' \in [Slots -> Job] /\ age' \in [Slots -> 0 .. AgeCap]
    BY <2>1, <2>2, ConstantTypes
  <2>4. next_id \in 1 .. MaxId
    BY <1>1, PoolAssumption, SMT DEF Submit
  <2>5. next_id' \in 0 .. MaxId /\ issued' \subseteq Ids
    BY <1>1, <2>4, Wrapping, PoolAssumption, SMT DEF Submit, NextId, Ids
  <2> QED BY <1>1, <2>3, <2>5 DEF Submit
<1>2. ASSUME NEW i \in Ids, NEW o \in {"done", "failed", "cancelled"}, Complete(i, o)
      PROVE TypeOK'
  <2>1. o \in Outcomes /\ o \in States
    BY DEF Outcomes, States
  <2>2. jobs' \in [Slots -> Job]
    BY <1>2, <2>1, StateOfJob DEF Complete
  <2>3. winner' \in [Ids -> Outcomes \cup {"none"}]
    BY <1>2, <2>1, WonTypes DEF Complete
  <2> QED BY <1>2, <2>2, <2>3 DEF Complete
<1>3. ASSUME CancelAll PROVE TypeOK'
  <2>1. "cancelled" \in Outcomes /\ "cancelled" \in States
    BY DEF Outcomes, States
  <2>2. jobs' \in [Slots -> Job]
    BY <1>3, <2>1, StateOfJob DEF CancelAll
  <2>3. winner' \in [Ids -> Outcomes \cup {"none"}]
    BY <1>3, <2>1, WonTypes DEF CancelAll
  <2> QED BY <1>3, <2>2, <2>3 DEF CancelAll
<1>4. ASSUME NEW b \in Budgets, PollBegin(b) PROVE TypeOK'
  BY <1>4, ConstantTypes, PoolAssumption DEF PollBegin, log
<1>5. ASSUME Advance PROVE cursor' \in Slots /\ scanned' \in 0 .. Capacity
  BY <1>5, Wrapping, PoolAssumption, SMT DEF Advance, NextCursor, Scanning
<1>6. ASSUME PollSkip PROVE TypeOK'
  BY <1>5, <1>6 DEF PollSkip
<1>7. ASSUME Visit, jobs' \in [Slots -> Job], phase' \in {"scan", "step", "stop"},
             winner' \in [Ids -> Outcomes \cup {"none"}]
      PROVE TypeOK'
  <2>1. visited' \in Nat /\ slot' \in Slots /\ seen' \subseteq Slots
    BY <1>7 DEF Visit
  <2>2. cursor' \in Slots /\ scanned' \in 0 .. Capacity
    BY <1>5, <1>7 DEF Visit
  <2> QED BY <1>7, <2>1, <2>2 DEF Visit, Callbacks
<1>8. ASSUME VisitTimeout PROVE TypeOK'
  <2>1. "timeout" \in Outcomes /\ "timeout" \in States
    BY DEF Outcomes, States
  <2>2. jobs' \in [Slots -> Job]
    BY <1>8, <2>1, StateOfJob DEF VisitTimeout
  <2>3. winner' \in [Ids -> Outcomes \cup {"none"}]
    BY <1>8, <2>1, WonTypes DEF VisitTimeout
  <2> QED BY <1>7, <1>8, <2>2, <2>3 DEF VisitTimeout
<1>9. ASSUME VisitPending PROVE TypeOK'
  BY <1>7, <1>9 DEF VisitPending
<1>10. ASSUME VisitSettled PROVE TypeOK'
  BY <1>7, <1>10 DEF VisitSettled
<1>11. ASSUME NEW r \in States, StepReturns(r) PROVE TypeOK'
  <2>1. StepState(r) \in States /\ (StepState(r) # "pending" => StepState(r) \in Outcomes)
    BY DEF StepState, States, Outcomes
  <2>2. jobs' \in [Slots -> Job]
    BY <1>11, <2>1, StateOfJob DEF StepReturns
  <2>3. winner' \in [Ids -> Outcomes \cup {"none"}]
    BY <1>11, <2>1, WonTypes DEF StepReturns
  <2> QED BY <1>11, <2>2, <2>3 DEF StepReturns, Callbacks
<1>12. ASSUME StopReturns PROVE TypeOK'
  <2>1. stop_log' \in [Ids -> Seq(Outcomes)]
    <3>1. jobs[slot] \in Job
      OBVIOUS
    <3>2. jobs[slot].state \in StopOutcomes => jobs[slot].state \in Outcomes
      BY DEF StopOutcomes, Outcomes
    <3>3. ASSUME NEW i \in Ids, jobs[slot].state \in Outcomes
          PROVE Append(stop_log[i], jobs[slot].state) \in Seq(Outcomes)
      BY <3>3
    <3> QED BY <1>12, <3>2, <3>3 DEF StopReturns, Stops
  <2> QED BY <1>12, <2>1 DEF StopReturns, Callbacks
<1>13. ASSUME DoneReturns PROVE TypeOK'
  <2>1. jobs[slot] \in Job /\ jobs[slot].state \in States
    BY DEF Job
  <2>2. done_log' \in [Ids -> Seq(States)]
    <3>1. ASSUME NEW i \in Ids PROVE Append(done_log[i], jobs[slot].state) \in Seq(States)
      BY <2>1
    <3> QED BY <1>13, <3>1 DEF DoneReturns
  <2>3. NoJob \in Job
    BY ConstantTypes, PoolAssumption, SMT DEF NoJob, Job, States, Outcomes
  <2>4. jobs' \in [Slots -> Job] /\ age' \in [Slots -> 0 .. AgeCap]
    BY <1>13, <2>3, ConstantTypes DEF DoneReturns
  <2> QED BY <1>13, <2>2, <2>4 DEF DoneReturns
<1>14. ASSUME PollEnd PROVE TypeOK'
  <2>1. slot' \in Slots /\ scanned' \in 0 .. Capacity /\ visited' \in Nat /\ budget' \in Nat
    BY <1>14, ConstantTypes, PoolAssumption, SMT DEF PollEnd
  <2>2. running' \in BOOLEAN /\ phase' \in {"idle", "scan"} \cup Callbacks /\ seen' \subseteq Slots
    BY <1>14 DEF PollEnd
  <2> QED BY <1>14, <2>1, <2>2 DEF PollEnd
<1>15. ASSUME Tick PROVE TypeOK'
  <2>1. now' \in Clock /\ gap' \in 0 .. MaxGap
    BY <1>15, Wrapping, PoolAssumption, SMT DEF Tick
  <2>2. age' \in [Slots -> 0 .. AgeCap]
    BY <1>15, ConstantTypes, SMT DEF Tick
  <2> QED BY <1>15, <2>1, <2>2 DEF Tick
<1>16. CASE UNCHANGED vars
  BY <1>16 DEF vars
<1> QED
  BY <1>1, <1>2, <1>3, <1>4, <1>6, <1>8, <1>9, <1>10, <1>11, <1>12, <1>13, <1>14, <1>15, <1>16
  DEF Next, Callers, Poll

-----------------------------------------------------------------------------
\* The part of the invariant that speaks of jobs and what their owners were told.
JobsInv == /\ NextIdIsFresh /\ LogsFollowWinner /\ UniqueIds
           /\ FirstEventWins /\ DoneOnce /\ StopBeforeDone

LEMMA SlotTypes ==
  ASSUME TypeOK, NEW s \in Slots
  PROVE  /\ jobs[s] \in Job /\ jobs[s].id \in 0 .. MaxId /\ jobs[s].state \in States
         /\ jobs[s].stop \in BOOLEAN
         /\ s \in Live => jobs[s].id \in Ids
BY PoolAssumption, SMT DEF TypeOK, Job, Live, Ids

\* A step that leaves jobs and logs alone and does not concern the done callback.
LEMMA QuietStep ==
  ASSUME JobsInv, phase # "done", phase' # "done",
         UNCHANGED <<jobs, next_id, issued, winner, stop_log, done_log>>
  PROVE  JobsInv'
BY DEF JobsInv, NextIdIsFresh, LogsFollowWinner, UniqueIds, FirstEventWins, DoneOnce,
       StopBeforeDone, Live

\* A step that gives open jobs their terminal event, whoever causes it.
LEMMA SettlingStep ==
  ASSUME TypeOK, JobsInv, phase # "done", phase' # "done",
         NEW o \in Outcomes, NEW S \in SUBSET Live,
         \A s \in S : Open(jobs[s]),
         jobs' = [s \in Slots |-> IF s \in S THEN [jobs[s] EXCEPT !.state = o] ELSE jobs[s]],
         winner' = Won({jobs[s].id : s \in S}, o),
         UNCHANGED <<next_id, issued, stop_log, done_log>>
  PROVE  JobsInv'
<1> USE DEF JobsInv
<1>1. \A s \in Slots : /\ jobs'[s].id = jobs[s].id /\ jobs'[s].stop = jobs[s].stop
                       /\ jobs'[s].state = IF s \in S THEN o ELSE jobs[s].state
  BY SlotTypes DEF Job
<1>2. Live' = Live
  BY <1>1 DEF Live
<1>3. \A s \in Live : s \in Slots /\ jobs[s].id \in Ids /\ jobs'[s].id = jobs[s].id
  BY <1>1, SlotTypes DEF Live
<1>4. \A s \in S : winner[jobs[s].id] = "none"
  BY DEF FirstEventWins, Open
<1>5. \A i \in Ids : winner'[i] = IF i \in {jobs[s].id : s \in S} /\ winner[i] = "none"
                                  THEN o ELSE winner[i]
  BY DEF Won
<1>6. o # "none" /\ o # "pending"
  BY DEF Outcomes
<1>7. \A i \in Ids : winner[i] # "none" => winner'[i] = winner[i]
  BY <1>5
<1>8. \A s \in Live : winner'[jobs[s].id] = IF s \in S THEN o ELSE winner[jobs[s].id]
  BY <1>3, <1>4, <1>5 DEF UniqueIds
<1>9. \A i \in Ids : done_log[i] # <<>> => winner[i] # "none"
  BY DEF LogsFollowWinner
<1>10. NextIdIsFresh'
  <2>1. \A i \in Ids \ issued : winner'[i] = winner[i]
    BY <1>3, <1>5 DEF UniqueIds
  <2> QED BY <2>1 DEF NextIdIsFresh
<1>11. LogsFollowWinner'
  BY <1>2, <1>3, <1>7, <1>9 DEF LogsFollowWinner
<1>12. UniqueIds'
  BY <1>2, <1>3 DEF UniqueIds
<1>13. FirstEventWins'
  <2>1. \A i \in Ids : done_log[i] \in {<<>>, <<winner'[i]>>}
    BY <1>7, <1>9 DEF FirstEventWins
  <2>2. \A s \in Live : winner'[jobs'[s].id] =
                          IF jobs'[s].state = "pending" THEN "none" ELSE jobs'[s].state
    BY <1>1, <1>3, <1>6, <1>8 DEF FirstEventWins
  <2> QED BY <1>2, <2>1, <2>2 DEF FirstEventWins
<1>14. DoneOnce'
  BY <1>2, <1>3 DEF DoneOnce
<1>15. StopBeforeDone'
  <2>1. \A i \in Ids : stop_log[i] # <<>> => winner[i] # "none"
    BY DEF StopBeforeDone, StopOutcomes
  <2> QED BY <1>7, <2>1 DEF StopBeforeDone
<1> QED
  BY <1>10, <1>11, <1>12, <1>13, <1>14, <1>15

\* A new job takes a free slot and an identifier nobody has seen.
LEMMA SubmitStep ==
  ASSUME TypeOK, JobsInv, PollHoldsSlot, NEW t \in Timeouts, NEW kind \in Kinds,
         Submit(t, kind)
  PROVE  JobsInv'
<1> USE DEF JobsInv
<1>1. PICK s \in Slots :
        /\ s \notin Live
        /\ jobs' = [jobs EXCEPT ![s] =
             [id |-> next_id, started |-> now, timeout |-> t,
              state |-> "pending", step |-> kind.step, stop |-> kind.stop]]
  BY DEF Submit, FirstFree
<1>2. next_id \in Ids /\ next_id \notin issued
  BY PoolAssumption, SMT DEF Submit, TypeOK, Ids, NextIdIsFresh
<1>3. phase = "idle" /\ phase' = "idle" /\ issued' = issued \cup {next_id}
  BY DEF Submit, Enterable, PollHoldsSlot, local
<1>4. UNCHANGED <<winner, stop_log, done_log>>
  BY DEF Submit
<1>5. /\ jobs'[s].id = next_id /\ jobs'[s].state = "pending"
      /\ \A u \in Slots \ {s} : jobs'[u] = jobs[u]
  BY <1>1 DEF TypeOK
<1>6. Live' = Live \cup {s}
  BY <1>1, <1>2, <1>5, SMT DEF Live, Ids
<1>7. \A u \in Live : u \in Slots /\ u # s /\ jobs'[u] = jobs[u] /\ jobs[u].id \in issued
                      /\ jobs[u].id # next_id
  BY <1>1, <1>2, <1>5 DEF Live, UniqueIds
<1>8. winner[next_id] = "none" /\ stop_log[next_id] = <<>> /\ done_log[next_id] = <<>>
  BY <1>2 DEF NextIdIsFresh
<1>9. NextIdIsFresh'
  <2>1. next_id' = IF next_id = MaxId THEN 0 ELSE next_id + 1
    BY <1>2, Wrapping DEF Submit, NextId, Ids
  <2>2. ASSUME NEW i \in Ids PROVE (i \in issued' <=> (next_id' = 0 \/ i < next_id'))
    BY <1>2, <1>3, <2>1, PoolAssumption, SMT DEF NextIdIsFresh, Ids
  <2> QED BY <1>3, <1>4, <2>2 DEF NextIdIsFresh
<1>10. LogsFollowWinner'
  BY <1>3, <1>4, <1>5, <1>6, <1>7, <1>8 DEF LogsFollowWinner
<1>11. UniqueIds'
  BY <1>3, <1>5, <1>6, <1>7 DEF UniqueIds
<1>12. FirstEventWins'
  BY <1>4, <1>5, <1>6, <1>7, <1>8 DEF FirstEventWins
<1>13. DoneOnce'
  BY <1>4, <1>5, <1>6, <1>7, <1>8 DEF DoneOnce
<1>14. StopBeforeDone'
  BY <1>3, <1>4 DEF StopBeforeDone
<1> QED
  BY <1>9, <1>10, <1>11, <1>12, <1>13, <1>14

\* The stop callback runs for the job the poll holds, which had none before.
LEMMA StopStep ==
  ASSUME TypeOK, JobsInv, PollHoldsSlot, StopReturns
  PROVE  JobsInv'
<1> USE DEF JobsInv
<1> DEFINE i == jobs[slot].id
           st == jobs[slot].state
<1>1. /\ phase = "stop" /\ phase' = "done"
      /\ UNCHANGED <<jobs, next_id, slot, issued, winner, done_log>>
  BY DEF StopReturns, Stops, pool
<1>2. slot \in Live /\ slot \in Slots /\ i \in Ids /\ st # "pending"
  BY SlotTypes, <1>1 DEF PollHoldsSlot, Callbacks, Live, Open
<1>3. winner[i] = st /\ stop_log[i] = <<>> /\ i \in issued
  BY <1>1, <1>2 DEF FirstEventWins, LogsFollowWinner, UniqueIds
<1>4. stop_log' = IF st \in StopOutcomes /\ jobs[slot].stop
                  THEN [stop_log EXCEPT ![i] = Append(@, st)] ELSE stop_log
  BY DEF StopReturns, Stops
<1>5. Append(<<>>, st) = <<st>>
  OBVIOUS
<1>6. /\ stop_log'[i] = IF st \in StopOutcomes /\ jobs[slot].stop THEN <<st>> ELSE <<>>
      /\ \A k \in Ids \ {i} : stop_log'[k] = stop_log[k]
  BY <1>2, <1>3, <1>4, <1>5 DEF TypeOK
<1>7. Live' = Live /\ \A s \in Live : jobs[s].id = i => s = slot
  BY <1>1, <1>2 DEF Live, UniqueIds
<1>8. NextIdIsFresh'
  BY <1>1, <1>3, <1>6 DEF NextIdIsFresh
<1>9. LogsFollowWinner'
  <2>1. ASSUME NEW s \in Live, stop_log'[jobs[s].id] # <<>> PROVE s = slot
    <3>1. jobs[s].id \in Ids
      BY SlotTypes DEF Live
    <3> QED BY <1>1, <1>6, <1>7, <2>1, <3>1 DEF LogsFollowWinner
  <2> QED BY <1>1, <1>7, <2>1 DEF LogsFollowWinner
<1>10. UniqueIds' /\ FirstEventWins' /\ DoneOnce'
  BY <1>1, <1>7 DEF UniqueIds, FirstEventWins, DoneOnce
<1>11. StopBeforeDone'
  <2>1. ASSUME NEW k \in Ids, stop_log'[k] # <<>>
        PROVE  stop_log'[k] = <<winner[k]>> /\ winner[k] \in StopOutcomes
    BY <1>3, <1>6, <2>1 DEF StopBeforeDone
  <2> QED BY <1>1, <1>6, <2>1 DEF StopBeforeDone
<1> QED
  BY <1>8, <1>9, <1>10, <1>11

\* The done callback gets the job's first terminal event, and the slot is freed.
LEMMA DoneStep ==
  ASSUME TypeOK, JobsInv, PollHoldsSlot, DoneReturns
  PROVE  JobsInv'
<1> USE DEF JobsInv
<1> DEFINE i == jobs[slot].id
           st == jobs[slot].state
<1>1. /\ phase = "done" /\ phase' = "scan"
      /\ UNCHANGED <<next_id, slot, issued, winner, stop_log>>
      /\ jobs' = [jobs EXCEPT ![slot] = NoJob]
      /\ done_log' = [done_log EXCEPT ![i] = Append(@, st)]
  BY DEF DoneReturns
<1>2. slot \in Live /\ slot \in Slots /\ i \in Ids /\ st # "pending" /\ st \in States
  BY SlotTypes, <1>1 DEF PollHoldsSlot, Callbacks, Live, Open
<1>3. winner[i] = st /\ done_log[i] = <<>> /\ i \in issued /\ st # "none"
  BY <1>1, <1>2 DEF FirstEventWins, DoneOnce, UniqueIds, States, Outcomes
<1>4. /\ done_log'[i] = <<st>>
      /\ \A k \in Ids \ {i} : done_log'[k] = done_log[k]
  <2>1. Append(<<>>, st) = <<st>>
    OBVIOUS
  <2> QED BY <1>1, <1>2, <1>3, <2>1 DEF TypeOK
<1>5. /\ Live' = Live \ {slot}
      /\ \A s \in Live \ {slot} : s \in Slots /\ jobs'[s] = jobs[s] /\ jobs[s].id # i
  BY <1>1, <1>2 DEF TypeOK, Live, NoJob, UniqueIds
<1>6. \A s \in Live \ {slot} : jobs[s].id \in Ids
  BY SlotTypes DEF Live
<1>7. NextIdIsFresh'
  BY <1>1, <1>3, <1>4 DEF NextIdIsFresh
<1>8. LogsFollowWinner'
  <2>1. ASSUME NEW k \in Ids, done_log'[k] # <<>> PROVE winner[k] # "none"
    BY <1>3, <1>4, <2>1 DEF LogsFollowWinner
  <2>2. \A s \in Live \ {slot} : stop_log[jobs[s].id] = <<>>
    BY <1>5 DEF LogsFollowWinner
  <2> QED BY <1>1, <1>5, <2>1, <2>2 DEF LogsFollowWinner
<1>9. UniqueIds'
  BY <1>1, <1>5 DEF UniqueIds
<1>10. FirstEventWins'
  <2>1. \A k \in Ids : done_log'[k] \in {<<>>, <<winner[k]>>}
    BY <1>3, <1>4 DEF FirstEventWins
  <2> QED BY <1>1, <1>5, <2>1 DEF FirstEventWins
<1>11. DoneOnce'
  <2>1. Len(<<st>>) <= 1
    OBVIOUS
  <2>2. ASSUME NEW k \in Ids
        PROVE  Len(done_log'[k]) <= 1 /\ (done_log'[k] # <<>> =>
                 \A s \in Live \ {slot} : jobs[s].id # k)
    BY <1>4, <1>5, <2>1 DEF DoneOnce
  <2> QED BY <1>5, <2>2 DEF DoneOnce
<1>12. StopBeforeDone'
  BY <1>1 DEF StopBeforeDone
<1> QED
  BY <1>7, <1>8, <1>9, <1>10, <1>11, <1>12

-----------------------------------------------------------------------------
\* A poll takes a slot, keeps it through the callbacks and frees it last; nobody
\* else can, because every entry point refuses while it runs.
LEMMA PollHoldsSlotNext == TypeOK /\ PollHoldsSlot /\ [Next]_vars => PollHoldsSlot'
<1> SUFFICES ASSUME TypeOK, PollHoldsSlot, [Next]_vars PROVE PollHoldsSlot'
  OBVIOUS
<1> USE DEF PollHoldsSlot, Callbacks
<1>1. ASSUME Enterable, UNCHANGED <<running, phase>> PROVE PollHoldsSlot'
  BY <1>1 DEF Enterable
<1>2. ASSUME Callers PROVE PollHoldsSlot'
  BY <1>1, <1>2 DEF Callers, Submit, Complete, CancelAll, local
<1>3. ASSUME NEW b \in Budgets, PollBegin(b) PROVE PollHoldsSlot'
  BY <1>3 DEF PollBegin
<1>4. ASSUME PollSkip PROVE PollHoldsSlot'
  BY <1>4 DEF PollSkip, Advance, Scanning
<1>5. ASSUME VisitTimeout PROVE PollHoldsSlot'
  <2>1. /\ phase = "scan" /\ running' = running /\ phase' = "stop" /\ slot' = cursor
        /\ cursor \in Live /\ jobs' = [jobs EXCEPT ![cursor].state = "timeout"]
    BY <1>5 DEF VisitTimeout, Visit, Advance, Scanning
  <2>2. jobs'[cursor].id = jobs[cursor].id /\ jobs'[cursor].state = "timeout"
    BY <2>1, SlotTypes DEF TypeOK, Job, Live
  <2> QED BY <2>1, <2>2 DEF Live, Open
<1>6. ASSUME VisitPending \/ VisitSettled PROVE PollHoldsSlot'
  BY <1>6 DEF VisitPending, VisitSettled, Visit, Advance, Scanning, Live, Open
<1>7. ASSUME NEW r \in States, StepReturns(r) PROVE PollHoldsSlot'
  <2>1. /\ phase = "step" /\ running' = running /\ slot' = slot /\ slot \in Live
        /\ jobs' = [jobs EXCEPT ![slot].state = StepState(r)]
        /\ phase' = IF StepState(r) = "pending" THEN "scan" ELSE "stop"
    BY <1>7 DEF StepReturns
  <2>2. jobs'[slot].id = jobs[slot].id /\ jobs'[slot].state = StepState(r)
    BY <2>1, SlotTypes DEF TypeOK, Job, Live
  <2> QED BY <2>1, <2>2 DEF Live, Open
<1>8. ASSUME StopReturns PROVE PollHoldsSlot'
  BY <1>8 DEF StopReturns, pool, Live, Open
<1>9. ASSUME DoneReturns \/ PollEnd \/ Tick \/ UNCHANGED vars PROVE PollHoldsSlot'
  BY <1>9 DEF DoneReturns, PollEnd, Tick, vars, pool, local, Live, Open
<1> QED
  BY <1>2, <1>3, <1>4, <1>5, <1>6, <1>7, <1>8, <1>9 DEF Next, Poll

LEMMA JobsInvNext == TypeOK /\ PollHoldsSlot /\ JobsInv /\ [Next]_vars => JobsInv'
<1> SUFFICES ASSUME TypeOK, PollHoldsSlot, JobsInv, [Next]_vars PROVE JobsInv'
  OBVIOUS
<1>1. ASSUME NEW t \in Timeouts, NEW kind \in Kinds, Submit(t, kind) PROVE JobsInv'
  BY <1>1, SubmitStep
<1>2. ASSUME NEW i \in Ids, NEW o \in {"done", "failed", "cancelled"}, Complete(i, o)
      PROVE  JobsInv'
  <2>1. PICK s \in Slots : /\ jobs[s].id = i /\ Open(jobs[s])
                           /\ jobs' = [jobs EXCEPT ![s].state = o]
    BY <1>2 DEF Complete
  <2>2. s \in Live /\ o \in Outcomes /\ {jobs[u].id : u \in {s}} = {i}
    BY <2>1, SMT DEF Live, Ids, Outcomes
  <2>3. jobs' = [u \in Slots |-> IF u \in {s} THEN [jobs[u] EXCEPT !.state = o] ELSE jobs[u]]
    BY <2>1 DEF TypeOK
  <2>4. phase = "idle" /\ phase' = "idle"
    BY <1>2 DEF Complete, Enterable, PollHoldsSlot, local
  <2> QED BY <1>2, <2>1, <2>2, <2>3, <2>4, SettlingStep DEF Complete
<1>3. ASSUME CancelAll PROVE JobsInv'
  <2> DEFINE open == {s \in Live : Open(jobs[s])}
  <2>1. /\ jobs' = [s \in Slots |-> IF s \in open
                      THEN [jobs[s] EXCEPT !.state = "cancelled"] ELSE jobs[s]]
        /\ winner' = Won({jobs[s].id : s \in open}, "cancelled")
        /\ UNCHANGED <<next_id, issued, stop_log, done_log>>
    BY <1>3 DEF CancelAll
  <2>2. phase = "idle" /\ phase' = "idle" /\ "cancelled" \in Outcomes
    BY <1>3 DEF CancelAll, Enterable, PollHoldsSlot, local, Outcomes
  <2> QED BY <2>1, <2>2, SettlingStep
<1>4. ASSUME VisitTimeout PROVE JobsInv'
  <2>1. /\ phase = "scan" /\ phase' = "stop" /\ cursor \in Live /\ Open(jobs[cursor])
        /\ jobs' = [jobs EXCEPT ![cursor].state = "timeout"]
        /\ winner' = Won({jobs[cursor].id}, "timeout")
        /\ UNCHANGED <<next_id, issued, stop_log, done_log>>
    BY <1>4 DEF VisitTimeout, Visit, Advance, Scanning
  <2>2. "timeout" \in Outcomes /\ {jobs[u].id : u \in {cursor}} = {jobs[cursor].id}
    BY DEF Outcomes
  <2>3. jobs' = [u \in Slots |-> IF u \in {cursor}
                   THEN [jobs[u] EXCEPT !.state = "timeout"] ELSE jobs[u]]
    BY <2>1 DEF TypeOK
  <2> QED BY <2>1, <2>2, <2>3, SettlingStep
<1>5. ASSUME NEW r \in States, StepReturns(r) PROVE JobsInv'
  <2> DEFINE st == StepState(r)
  <2>1. /\ phase = "step" /\ slot \in Live /\ slot \in Slots /\ Open(jobs[slot])
        /\ jobs' = [jobs EXCEPT ![slot].state = st]
        /\ winner' = IF st = "pending" THEN winner ELSE Won({jobs[slot].id}, st)
        /\ phase' # "done"
        /\ UNCHANGED <<next_id, issued, stop_log, done_log>>
    BY <1>5 DEF StepReturns, PollHoldsSlot, Callbacks, Live
  <2>2. jobs[slot] \in Job /\ jobs[slot].state = "pending"
    BY <2>1, SlotTypes DEF Open
  <2>3. CASE st = "pending"
    <3>1. [jobs[slot] EXCEPT !.state = "pending"] = jobs[slot]
      BY <2>2 DEF Job
    <3>2. jobs' = jobs
      BY <2>1, <2>3, <3>1 DEF TypeOK
    <3> QED BY <2>1, <2>3, <3>2, QuietStep
  <2>4. CASE st # "pending"
    <3>1. st \in Outcomes /\ {jobs[u].id : u \in {slot}} = {jobs[slot].id}
      BY <2>4 DEF StepState, Outcomes
    <3>2. jobs' = [u \in Slots |-> IF u \in {slot}
                     THEN [jobs[u] EXCEPT !.state = st] ELSE jobs[u]]
      BY <2>1 DEF TypeOK
    <3>3. winner' = Won({jobs[u].id : u \in {slot}}, st)
      BY <2>1, <2>4, <3>1
    <3>4. phase # "done"
      BY <2>1
    <3> HIDE DEF st
    <3> QED BY <2>1, <3>1, <3>2, <3>3, <3>4, SettlingStep
  <2> QED BY <2>3, <2>4
<1>6. ASSUME StopReturns PROVE JobsInv'
  BY <1>6, StopStep
<1>7. ASSUME DoneReturns PROVE JobsInv'
  BY <1>7, DoneStep
<1>8. ASSUME (\E b \in Budgets : PollBegin(b)) \/ PollSkip \/ VisitPending \/ VisitSettled
             \/ PollEnd \/ Tick
      PROVE  JobsInv'
  BY <1>8, QuietStep DEF PollBegin, PollSkip, VisitPending, VisitSettled, Visit, Advance,
     Scanning, PollEnd, Tick, pool, local, log
<1>9. CASE UNCHANGED vars
  BY <1>9 DEF vars, pool, local, log, JobsInv, NextIdIsFresh, LogsFollowWinner, UniqueIds,
     FirstEventWins, DoneOnce, StopBeforeDone, Live
<1> QED
  BY <1>1, <1>2, <1>3, <1>4, <1>5, <1>6, <1>7, <1>8, <1>9 DEF Next, Callers, Poll

-----------------------------------------------------------------------------
\* The inductive invariant holds of every pool, however its owner, its workers and
\* its clock behave.
THEOREM Invariance == Spec => []IInv
<1>1. IInv /\ [Next]_vars => IInv'
  BY TypeNext, PollHoldsSlotNext, JobsInvNext DEF IInv, JobsInv
<1> QED
  BY InitIInv, <1>1, PTL DEF Spec

\* Every variable of the pool, of a poll in progress and of the logs keeps its type:
\* cursor and slot stay inside the array, ids and times inside their ranges.
THEOREM TypeCorrect == Spec => []TypeOK
BY Invariance, PTL DEF IInv

\* Two jobs of one pool never carry the same identifier.
THEOREM IdsAreUnique == Spec => []UniqueIds
BY Invariance, PTL DEF IInv

\* The terminal event that came first is what the owner is told.
THEOREM FirstTerminalEventWins == Spec => []FirstEventWins
BY Invariance, PTL DEF IInv

\* The owner is told of the end of a job at most once.
THEOREM DeliveredOnce == Spec => []DoneOnce
BY Invariance, PTL DEF IInv

\* The stop callback runs at most once, before done, and for no job that ended by
\* itself.
THEOREM StoppedBeforeDone == Spec => []StopBeforeDone
BY Invariance, PTL DEF IInv

\* A callback cannot change the pool behind the poll that called it.
THEOREM PollExcludesCallbacks == Spec => NoReentry
<1>1. ASSUME IInv, [Next]_vars, phase \in Callbacks, phase' = phase
      PROVE  UNCHANGED pool
  <2>1. running /\ phase # "idle" /\ phase # "scan"
    BY <1>1 DEF IInv, PollHoldsSlot, Callbacks
  <2>2. ~Callers
    BY <2>1 DEF Callers, Submit, Complete, CancelAll, Enterable
  <2>3. ~(\E b \in Budgets : PollBegin(b)) /\ ~Tick
    BY <2>1 DEF PollBegin, Tick
  <2>4. ~PollSkip /\ ~VisitTimeout /\ ~VisitPending /\ ~VisitSettled /\ ~PollEnd
    BY <2>1 DEF PollSkip, VisitTimeout, VisitPending, VisitSettled, Visit, Advance,
       Scanning, PollEnd
  <2>5. ~(\E r \in States : StepReturns(r)) /\ ~StopReturns /\ ~DoneReturns
    BY <1>1 DEF StepReturns, StopReturns, DoneReturns
  <2>6. UNCHANGED vars
    BY <1>1, <2>2, <2>3, <2>4, <2>5 DEF Next, Poll
  <2> QED BY <2>6 DEF vars
<1>2. IInv /\ [Next]_vars => [(phase \in Callbacks /\ phase' = phase) => UNCHANGED pool]_vars
  BY <1>1
<1> QED
  BY Invariance, <1>2, PTL DEF Spec, NoReentry
-----------------------------------------------------------------------------
\* What the logs say of an identifier: the cases of Status, one by one.
LEMMA StatusIs ==
  ASSUME NEW i \in Ids
  PROVE  /\ i \notin issued => Status(i) = "fresh"
         /\ i \in issued /\ done_log[i] # <<>> => Status(i) = "delivered"
         /\ i \in issued /\ done_log[i] = <<>> /\ stop_log[i] # <<>> => Status(i) = "stopped"
         /\ i \in issued /\ done_log[i] = <<>> /\ stop_log[i] = <<>> /\ winner[i] # "none"
              => Status(i) = "settled"
         /\ i \in issued /\ done_log[i] = <<>> /\ stop_log[i] = <<>> /\ winner[i] = "none"
              => Status(i) = "pending"
BY DEF Status

\* A step that gives open jobs their terminal event settles exactly their identifiers.
LEMMA SettlingLifts ==
  ASSUME TypeOK, JobsInv, phase # "done",
         NEW o \in Outcomes, NEW S \in SUBSET Live, S # {},
         \A s \in S : Open(jobs[s]),
         winner' = Won({jobs[s].id : s \in S}, o),
         UNCHANGED <<issued, stop_log, done_log>>
  PROVE  Abstract!Settle({jobs[s].id : s \in S}, o)
<1> DEFINE I == {jobs[s].id : s \in S}
<1>1. \A i \in I : /\ i \in Ids /\ i \in issued /\ winner[i] = "none"
                   /\ done_log[i] = <<>> /\ stop_log[i] = <<>>
  <2> SUFFICES ASSUME NEW s \in S
               PROVE  /\ jobs[s].id \in Ids /\ jobs[s].id \in issued
                      /\ winner[jobs[s].id] = "none" /\ done_log[jobs[s].id] = <<>>
                      /\ stop_log[jobs[s].id] = <<>>
    OBVIOUS
  <2>1. s \in Live /\ s \in Slots /\ jobs[s].id \in Ids /\ jobs[s].state = "pending"
    BY SlotTypes DEF Live, Open
  <2>2. jobs[s].id \in issued /\ winner[jobs[s].id] = "none"
    BY <2>1 DEF JobsInv, UniqueIds, FirstEventWins
  <2>3. done_log[jobs[s].id] = <<>>
    BY <2>1 DEF JobsInv, DoneOnce
  <2>4. stop_log[jobs[s].id] = <<>>
    BY <2>1 DEF JobsInv, LogsFollowWinner
  <2> QED BY <2>1, <2>2, <2>3, <2>4
<1>2. I # {}
  OBVIOUS
<1>3. winner' = [i \in Ids |-> IF i \in I THEN o ELSE winner[i]]
  BY <1>1 DEF Won
<1> HIDE DEF I
<1>4. o # "none"
  BY DEF Outcomes
<1>5. ASSUME NEW i \in I PROVE Status(i) = "pending" /\ Status(i)' = "settled"
  <2>1. Status(i) = "pending"
    BY <1>1, StatusIs
  <2>2. winner'[i] = o
    BY <1>1, <1>3
  <2> QED BY <1>1, <1>4, <2>1, <2>2 DEF Status
<1>6. ASSUME NEW i \in Ids, i \notin I PROVE Status(i)' = Status(i)
  <2>1. winner'[i] = winner[i]
    BY <1>3, <1>6
  <2> QED BY <2>1 DEF Status
<1>7. Abstract!Settle(I, o)
  BY <1>1, <1>2, <1>3, <1>5, <1>6 DEF Abstract!Settle
<1> QED BY <1>7 DEF I

\* The same as a step of JobLifecycle: for a set of jobs, and for one.
LEMMA SettlingShows ==
  ASSUME TypeOK, JobsInv, phase # "done",
         NEW o \in Outcomes, NEW S \in SUBSET Live, S # {},
         \A s \in S : Open(jobs[s]),
         winner' = Won({jobs[s].id : s \in S}, o),
         UNCHANGED <<issued, stop_log, done_log>>
  PROVE  Abstract!Next
<1>1. Abstract!Settle({jobs[s].id : s \in S}, o)
  BY SettlingLifts
<1>2. {jobs[s].id : s \in S} \in SUBSET Ids
  BY SlotTypes DEF Live
<1> QED BY <1>1, <1>2 DEF Abstract!Next, Abstract!Outcomes, Outcomes

LEMMA SettlesOne ==
  ASSUME TypeOK, JobsInv, phase # "done",
         NEW o \in Outcomes, NEW s \in Live, Open(jobs[s]),
         winner' = Won({jobs[s].id}, o),
         UNCHANGED <<issued, stop_log, done_log>>
  PROVE  Abstract!Next
<1>1. PICK S : S = {s}
  OBVIOUS
<1>2. S \in SUBSET Live /\ S # {} /\ \A u \in S : Open(jobs[u])
  BY <1>1
<1>3. {jobs[u].id : u \in S} = {jobs[s].id}
  BY <1>1
<1> QED BY <1>2, <1>3, SettlingShows

\* A step that hands out nothing, settles nothing and tells nobody is a stutter.
LEMMA QuietLifts ==
  ASSUME UNCHANGED <<issued, winner, stop_log, done_log>>
  PROVE  UNCHANGED Abstract!vars
BY DEF Status, Abstract!vars

\* A submitted job starts.
LEMMA SubmitLifts ==
  ASSUME TypeOK, JobsInv, NEW t \in Timeouts, NEW kind \in Kinds, Submit(t, kind)
  PROVE  Abstract!Start(next_id)
<1>1. next_id \in Ids /\ next_id \notin issued
  BY PoolAssumption, SMT DEF Submit, TypeOK, Ids, JobsInv, NextIdIsFresh
<1>2. issued' = issued \cup {next_id} /\ UNCHANGED <<winner, stop_log, done_log>>
  BY DEF Submit
<1>3. winner[next_id] = "none" /\ stop_log[next_id] = <<>> /\ done_log[next_id] = <<>>
  BY <1>1 DEF JobsInv, NextIdIsFresh
<1>4. PICK i \in Ids : i = next_id
  BY <1>1
<1>5. Status(i) = "fresh" /\ Status(i)' = "pending"
  BY <1>1, <1>2, <1>3, <1>4 DEF Status
<1>6. \A k \in Ids \ {i} : Status(k)' = Status(k)
  BY <1>2, <1>4 DEF Status
<1>7. Abstract!Start(i)
  BY <1>2, <1>5, <1>6 DEF Abstract!Start
<1> QED BY <1>4, <1>7

\* The stop callback stops a settled job, or the job has none and nothing shows.
LEMMA StopLifts ==
  ASSUME TypeOK, JobsInv, PollHoldsSlot, StopReturns
  PROVE  Abstract!Stop(jobs[slot].id) \/ UNCHANGED Abstract!vars
<1> DEFINE st == jobs[slot].state
<1>0. PICK i : i = jobs[slot].id
  OBVIOUS
<1>1. /\ phase = "stop" /\ UNCHANGED <<issued, winner, done_log>>
      /\ stop_log' = IF Stops(jobs[slot])
                     THEN [stop_log EXCEPT ![i] = Append(@, st)] ELSE stop_log
  BY <1>0 DEF StopReturns
<1>2. slot \in Live /\ i \in Ids /\ st # "pending"
  BY <1>0, SlotTypes, <1>1 DEF PollHoldsSlot, Callbacks, Live, Open
<1>3. winner[i] = st /\ stop_log[i] = <<>> /\ done_log[i] = <<>> /\ i \in issued
  BY <1>0, <1>1, <1>2 DEF JobsInv, FirstEventWins, LogsFollowWinner, UniqueIds, DoneOnce
<1>4. CASE ~Stops(jobs[slot])
  BY <1>1, <1>4, QuietLifts
<1>5. CASE Stops(jobs[slot])
  <2>1. st \in StopOutcomes /\ st # "none"
    BY <1>5 DEF Stops, StopOutcomes
  <2>2. stop_log'[i] # <<>> /\ \A k \in Ids \ {i} : stop_log'[k] = stop_log[k]
    <3>1. Append(<<>>, st) # <<>>
      OBVIOUS
    <3> QED BY <1>1, <1>2, <1>3, <1>5, <3>1 DEF TypeOK
  <2>3. Status(i) = "settled" /\ Status(i)' = "stopped"
    BY <1>1, <1>2, <1>3, <2>1, <2>2 DEF Status
  <2>4. \A k \in Ids \ {i} : Status(k)' = Status(k)
    BY <1>1, <2>2 DEF Status
  <2>5. winner[i] \in {"cancelled", "timeout"}
    BY <1>3, <2>1 DEF StopOutcomes
  <2>6. Abstract!Stop(i)
    BY <1>1, <1>2, <2>3, <2>4, <2>5 DEF Abstract!Stop, Abstract!StopOutcomes
  <2> QED BY <1>0, <2>6
<1> QED BY <1>4, <1>5

\* The done callback delivers a job that settled.
LEMMA DoneLifts ==
  ASSUME TypeOK, JobsInv, PollHoldsSlot, DoneReturns
  PROVE  Abstract!Deliver(jobs[slot].id)
<1> DEFINE st == jobs[slot].state
<1>0. PICK i : i = jobs[slot].id
  OBVIOUS
<1>1. /\ phase = "done" /\ UNCHANGED <<issued, winner, stop_log>>
      /\ done_log' = [done_log EXCEPT ![i] = Append(@, st)]
  BY <1>0 DEF DoneReturns
<1>2. slot \in Live /\ i \in Ids /\ st # "pending" /\ st # "none"
  BY <1>0, SlotTypes, <1>1 DEF PollHoldsSlot, Callbacks, Live, Open, States, Outcomes
<1>3. winner[i] = st /\ done_log[i] = <<>> /\ i \in issued
  BY <1>0, <1>1, <1>2 DEF JobsInv, FirstEventWins, UniqueIds, DoneOnce
<1>4. done_log'[i] # <<>> /\ \A k \in Ids \ {i} : done_log'[k] = done_log[k]
  <2>1. Append(<<>>, st) # <<>>
    OBVIOUS
  <2> QED BY <1>1, <1>2, <1>3, <2>1 DEF TypeOK
<1>5. Status(i) \in {"settled", "stopped"} /\ Status(i)' = "delivered"
  BY <1>1, <1>2, <1>3, <1>4 DEF Status
<1>6. \A k \in Ids \ {i} : Status(k)' = Status(k)
  BY <1>1, <1>4 DEF Status
<1>7. Abstract!Deliver(i)
  BY <1>1, <1>2, <1>5, <1>6 DEF Abstract!Deliver
<1> QED BY <1>0, <1>7

\* Every step of the pool is a step of the life of one or several jobs, or shows nothing.
LEMMA StepLifts == IInv /\ [Next]_vars => [Abstract!Next]_(Abstract!vars)
<1> SUFFICES ASSUME TypeOK, JobsInv, PollHoldsSlot, [Next]_vars
             PROVE  Abstract!Next \/ UNCHANGED Abstract!vars
  BY DEF IInv, JobsInv
<1>1. ASSUME NEW t \in Timeouts, NEW kind \in Kinds, Submit(t, kind) PROVE Abstract!Next
  <2>1. next_id \in Ids
    BY <1>1, PoolAssumption, SMT DEF Submit, TypeOK, Ids
  <2> QED BY <1>1, <2>1, SubmitLifts DEF Abstract!Next
<1>2. ASSUME NEW i \in Ids, NEW o \in {"done", "failed", "cancelled"}, Complete(i, o)
      PROVE  Abstract!Next
  <2>1. PICK s \in Slots : jobs[s].id = i /\ Open(jobs[s])
    BY <1>2 DEF Complete
  <2>2. s \in Live /\ o \in Outcomes
    BY <2>1, SMT DEF Live, Ids, Outcomes
  <2>3. phase # "done" /\ winner' = Won({i}, o) /\ UNCHANGED <<issued, stop_log, done_log>>
    BY <1>2 DEF Complete, Enterable, PollHoldsSlot
  <2> QED BY SettlesOne, <2>1, <2>2, <2>3
<1>3. ASSUME CancelAll PROVE Abstract!Next
  <2> DEFINE open == {s \in Live : Open(jobs[s])}
  <2>1. /\ open # {} /\ winner' = Won({jobs[s].id : s \in open}, "cancelled")
        /\ UNCHANGED <<issued, stop_log, done_log>>
    BY <1>3 DEF CancelAll
  <2>2. phase # "done" /\ "cancelled" \in Outcomes
    BY <1>3 DEF CancelAll, Enterable, PollHoldsSlot, Outcomes
  <2>3. open \in SUBSET Live /\ \A s \in open : Open(jobs[s])
    OBVIOUS
  <2> HIDE DEF open
  <2> QED BY SettlingShows, <2>1, <2>2, <2>3
<1>4. ASSUME VisitTimeout PROVE Abstract!Next
  <2>1. /\ phase = "scan" /\ cursor \in Live /\ Open(jobs[cursor])
        /\ winner' = Won({jobs[cursor].id}, "timeout")
        /\ UNCHANGED <<issued, stop_log, done_log>>
    BY <1>4 DEF VisitTimeout, Visit, Advance, Scanning
  <2>2. "timeout" \in Outcomes /\ phase # "done"
    BY <2>1 DEF Outcomes
  <2> QED BY SettlesOne, <2>1, <2>2
<1>5. ASSUME NEW r \in States, StepReturns(r) PROVE Abstract!Next \/ UNCHANGED Abstract!vars
  <2> DEFINE st == StepState(r)
  <2>1. /\ phase = "step" /\ slot \in Live /\ Open(jobs[slot])
        /\ winner' = IF st = "pending" THEN winner ELSE Won({jobs[slot].id}, st)
        /\ UNCHANGED <<issued, stop_log, done_log>>
    BY <1>5 DEF StepReturns, PollHoldsSlot, Callbacks
  <2>2. CASE st = "pending"
    BY <2>1, <2>2, QuietLifts
  <2>3. CASE st # "pending"
    <3>1. st \in Outcomes /\ phase # "done"
      BY <2>1, <2>3 DEF StepState, Outcomes
    <3> HIDE DEF st
    <3> QED BY SettlesOne, <2>1, <2>3, <3>1
  <2> QED BY <2>2, <2>3
<1>6. ASSUME StopReturns PROVE Abstract!Next \/ UNCHANGED Abstract!vars
  <2>1. jobs[slot].id \in Ids
    BY <1>6, SlotTypes DEF StopReturns, PollHoldsSlot, Callbacks, Live
  <2> QED BY <1>6, <2>1, StopLifts DEF Abstract!Next
<1>7. ASSUME DoneReturns PROVE Abstract!Next
  <2>1. jobs[slot].id \in Ids
    BY <1>7, SlotTypes DEF DoneReturns, PollHoldsSlot, Callbacks, Live
  <2> QED BY <1>7, <2>1, DoneLifts DEF Abstract!Next
<1>8. ASSUME (\E b \in Budgets : PollBegin(b)) \/ PollSkip \/ VisitPending \/ VisitSettled
             \/ PollEnd \/ Tick \/ UNCHANGED vars
      PROVE  UNCHANGED Abstract!vars
  BY <1>8, QuietLifts DEF PollBegin, PollSkip, VisitPending, VisitSettled, Visit, PollEnd,
     Tick, log, vars
<1> QED
  BY <1>1, <1>2, <1>3, <1>4, <1>5, <1>6, <1>7, <1>8 DEF Next, Callers, Poll

\* The pool implements JobLifecycle for every identifier at once: a job settles once
\* and for good, is stopped only after a cancellation or a timeout, and is delivered
\* last, whatever the callbacks, the workers, the clock and the other jobs do.
THEOREM PoolImplementsLifecycle == Spec => Lifecycle
<1>1. Init => Abstract!Init
  BY DEF Init, Abstract!Init, Status
<1> QED
  BY <1>1, Invariance, StepLifts, PTL DEF Spec, Lifecycle, Abstract!Spec
=============================================================================
