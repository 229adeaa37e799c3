--------------------------- MODULE JobQueueProofs ---------------------------
(***************************************************************************)
(* Proofs about JobQueue, for any number of jobs, workers and attempts and *)
(* any amount of trouble. Each part of the invariant is kept by every      *)
(* action together with the parts stated before it.                        *)
(***************************************************************************)
EXTENDS JobQueue, TLAPS

Statuses == {"none", "pending", "processing", "completed", "failed", "cancelled"}

Labels == {"idle", "load", "deps", "claim", "run", "finish", "recur", "settle", "throw",
           "bury", "buryRow", "buryEntry"}

TypeOK ==
    /\ status \in [Jobs -> Statuses] /\ depends_on \in [Jobs -> SUBSET (Jobs \cup Strangers)]
    /\ recurring \in SUBSET Jobs /\ expired \in SUBSET Jobs
    /\ dlq \in SUBSET Jobs /\ retried \in SUBSET Jobs /\ cancelling \in SUBSET Jobs
    /\ bstate \in [Jobs -> {"absent", "waiting", "active", "settled"}]
    /\ attempts \in [Jobs -> Nat] /\ stalls \in [Jobs -> Nat]
    /\ pc \in [Workers -> Labels] /\ wjob \in [Workers -> Jobs \cup {NoJob}]
    /\ wlock \in [Workers -> BOOLEAN]
    /\ sphase \in {"enqueue", "recover"} /\ sset \in SUBSET Jobs
    /\ sdoomed \in Jobs \cup {NoJob}
    /\ ran \in SUBSET Jobs /\ overran \in SUBSET Jobs /\ calledOff \in SUBSET Jobs
    /\ buried \in SUBSET Jobs /\ forked \in SUBSET Jobs /\ spawned \in SUBSET Jobs
    /\ crashes \in Nat /\ faults \in Nat /\ lockLosses \in Nat
    /\ \A w \in Workers : pc[w] # "idle" => wjob[w] \in Jobs

\* Bull, the workers, the sweep and cancelJob only know rows that exist (so that
\* no row is inserted, with dependencies of its own, under what they do), and a
\* lease is looked at only while the row is PROCESSING.
RowsExist ==
    /\ \A j \in Jobs : bstate[j] # "absent" => Exists(j)
    /\ \A w \in Workers : pc[w] # "idle" => Exists(wjob[w])
    /\ \A j \in sset \cup cancelling : Exists(j)
    /\ sdoomed # NoJob => Exists(sdoomed)
    /\ \A j \in expired : status[j] = "processing"

\* COMPLETED is written behind the handler, and who has passed the check of the
\* dependencies may rely on it: no row ever leaves "its handler returned".
DepsInv ==
    /\ \A j \in Jobs : status[j] = "completed" => j \in ran
    /\ \A w \in Workers : pc[w] = "finish" => wjob[w] \in ran
    /\ \A w \in Workers : pc[w] \in {"claim", "run"} =>
                            depends_on[wjob[w]] \cap Jobs \subseteq ran
    /\ \A j \in Jobs : ~Exists(j) => depends_on[j] = {}
    /\ \A j \in Jobs : \A d \in depends_on[j] \cap Jobs : Exists(d)

\* The sweep may set this row back to PENDING, now or after its next query.
Stale(j) == j \in expired \/ (sphase = "recover" /\ j \in sset)

Working(w, j) == wjob[w] = j /\ pc[w] \in {"run", "finish"}
Following(w, j) == wjob[w] = j /\ pc[w] = "recur"

\* From the end of a lease to the sweep's reset nobody else sets the row back:
\* the reset by id, however late, finds it as the sweep read it or settled.
StaleInv == \A j \in Jobs : Stale(j) => status[j] # "pending"

\* Unless a lease ran out under a run, the row of a job that is being worked on
\* cannot be claimed and will not be set back, so there is one such run.
WorkInv ==
    \A j \in Jobs \ overran :
        /\ \A w \in Workers : Working(w, j) => ~Stale(j) /\ status[j] # "pending"
        /\ \A v, w \in Workers : Working(v, j) /\ Working(w, j) => v = w

\* A row cancelled while PENDING and in no handler is never claimable again.
CalledOffInv ==
    \A j \in calledOff :
        /\ status[j] \notin {"none", "pending", "processing"} /\ ~Stale(j)
        /\ \A w \in Workers : wjob[w] = j => pc[w] # "run"

\* Once a run schedules the next of its series, its row is settled for good: no
\* run of it begins, and none has scheduled before.
SeriesInv ==
    /\ \A j \in Jobs \ overran :
        /\ (j \in spawned \/ \E w \in Workers : Following(w, j)) =>
              /\ status[j] \notin {"none", "pending", "processing"} /\ ~Stale(j)
              /\ \A w \in Workers : ~Working(w, j)
        /\ \A v, w \in Workers : Following(v, j) /\ Following(w, j) => v = w
        /\ j \in spawned => \A w \in Workers : ~Following(w, j)
    /\ forked \subseteq overran

\* While no statement throws and no process dies, the row alone is left to be
\* marked only when its entry was written, and the sweep fails dependents only.
FailInv ==
    \/ faults > 0 \/ crashes > 0
    \/ /\ \A w \in Workers : pc[w] = "buryRow" => wjob[w] \in buried
       /\ sdoomed # NoJob => ~(depends_on[sdoomed] \subseteq Strangers)
       /\ FailedIsVisible

IInv ==
    /\ TypeOK /\ RowsExist /\ DepsInv /\ StaleInv
    /\ WorkInv /\ CalledOffInv /\ SeriesInv /\ FailInv

-----------------------------------------------------------------------------

\* Every action keeps the types.
LEMMA TypeStep ==
  ASSUME TypeOK, [Next]_vars
  PROVE  TypeOK'
<1> USE DEF rowVars, apiVars, bullVars, runVars, sweepVars, pastVars, budgetVars,
           RunLocal, SweepLocal, ApiLocal
<1>1. ASSUME NEW w \in Workers, LoadJob(w)
      PROVE  TypeOK'
  BY <1>1 DEF LoadJob, Goto, Settle, Idle, TypeOK, Labels, Statuses
<1>2. ASSUME NEW w \in Workers, CheckDeps(w)
      PROVE  TypeOK'
  BY <1>2 DEF CheckDeps, Goto, Settle, Idle, TypeOK, Labels, Statuses
<1>3. ASSUME NEW w \in Workers, ClaimJob(w)
      PROVE  TypeOK'
  BY <1>3 DEF ClaimJob, SetStatus, Goto, Settle, Idle, TypeOK, Labels, Statuses
<1>4. ASSUME NEW w \in Workers, HandlerReturns(w)
      PROVE  TypeOK'
  BY <1>4 DEF HandlerReturns, Goto, TypeOK, Labels, Statuses
<1>5. ASSUME NEW w \in Workers, HandlerThrows(w)
      PROVE  TypeOK'
  BY <1>5 DEF HandlerThrows, Goto, TypeOK, Labels, Statuses
<1>6. ASSUME NEW w \in Workers, CompleteJob(w)
      PROVE  TypeOK'
  BY <1>6 DEF CompleteJob, SetStatus, Goto, TypeOK, Labels, Statuses
<1>7. ASSUME NEW w \in Workers, ScheduleNextRecurrence(w)
      PROVE  TypeOK'
  BY <1>7 DEF ScheduleNextRecurrence, Insert, SetStatus, Goto, TypeOK, Labels, Statuses
<1>8. ASSUME NEW w \in Workers, SettleRun(w)
      PROVE  TypeOK'
  BY <1>8 DEF SettleRun, Settle, Idle, TypeOK, Labels, Statuses
<1>9. ASSUME NEW w \in Workers, MoveToFailed(w)
      PROVE  TypeOK'
  <2>0. attempts[wjob[w]] + 1 \in Nat /\ wjob[w] \in Jobs
    BY <1>9 DEF MoveToFailed, TypeOK
  <2>1. attempts' \in [Jobs -> Nat]
    BY <1>9, <2>0 DEF MoveToFailed, TypeOK
  <2>6. pc' \in [Workers -> Labels] /\ wlock' \in [Workers -> BOOLEAN]
    BY <1>9 DEF MoveToFailed, Idle, TypeOK, Labels
  <2>2. bstate' \in [Jobs -> {"absent", "waiting", "active", "settled"}]
    BY <1>9, <2>0 DEF MoveToFailed, TypeOK
  <2>3. /\ wjob' \in [Workers -> Jobs \cup {NoJob}]
        /\ \A v \in Workers : pc'[v] # "idle" => wjob'[v] \in Jobs
    BY <1>9 DEF MoveToFailed, Idle, TypeOK
  <2>4. UNCHANGED <<rowVars, apiVars, stalls, sweepVars, pastVars, budgetVars>>
    BY <1>9 DEF MoveToFailed
  <2>5. QED
    BY <2>1, <2>2, <2>3, <2>4, <2>6 DEF TypeOK
<1>10. ASSUME NEW w \in Workers, MarkFailed(w)
      PROVE  TypeOK'
  BY <1>10 DEF MarkFailed, SetStatus, OtherHalf, Goto, Idle, TypeOK, Labels, Statuses
<1>11. ASSUME NEW w \in Workers, MoveToDlq(w)
      PROVE  TypeOK'
  BY <1>11 DEF MoveToDlq, OtherHalf, Goto, Idle, TypeOK, Labels, Statuses
<1>12. CASE SweepFindStalled
  BY <1>12 DEF SweepFindStalled, TypeOK, Labels, Statuses
<1>13. CASE SweepFindEligible
  BY <1>13 DEF SweepFindEligible, TypeOK, Labels, Statuses
<1>14. ASSUME NEW j \in Jobs, RecoverStalled(j)
      PROVE  TypeOK'
  BY <1>14 DEF RecoverStalled, SetStatus, TypeOK, Labels, Statuses
<1>15. ASSUME NEW j \in Jobs, SweepJudge(j)
      PROVE  TypeOK'
  BY <1>15 DEF SweepJudge, TypeOK, Labels, Statuses
<1>16. ASSUME NEW j \in Jobs, SweepCascade(j)
      PROVE  TypeOK'
  BY <1>16 DEF SweepCascade, SetStatus, TypeOK, Labels, Statuses
<1>17. ASSUME NEW j \in Jobs, SweepEligible(j)
      PROVE  TypeOK'
  BY <1>17 DEF SweepEligible, Add, TypeOK, Labels, Statuses
<1>18. ASSUME NEW j \in Jobs, CreateJob(j)
      PROVE  TypeOK'
  BY <1>18 DEF CreateJob, Insert, Add, SetStatus, TypeOK, Labels, Statuses
<1>19. ASSUME NEW j \in Jobs, DeleteEntry(j)
      PROVE  TypeOK'
  BY <1>19 DEF DeleteEntry, TypeOK, Labels, Statuses
<1>20. ASSUME NEW j \in Jobs, CancelLoad(j)
      PROVE  TypeOK'
  BY <1>20 DEF CancelLoad, TypeOK, Labels, Statuses
<1>21. ASSUME NEW j \in Jobs, CancelWrite(j)
      PROVE  TypeOK'
  BY <1>21 DEF CancelWrite, SetStatus, TypeOK, Labels, Statuses
<1>22. ASSUME NEW j \in Jobs, NEW k \in Jobs, RetryDlqJob(j, k)
      PROVE  TypeOK'
  BY <1>22 DEF RetryDlqJob, Insert, Add, SetStatus, TypeOK, Labels, Statuses
<1>23. ASSUME NEW j \in Jobs, NEW k \in Jobs, RetryDlqJobThrows(j, k)
      PROVE  TypeOK'
  BY <1>23 DEF RetryDlqJobThrows, Insert, SetStatus, TypeOK, Labels, Statuses
<1>24. ASSUME NEW w \in Workers, NEW j \in Jobs, TakeJob(w, j)
      PROVE  TypeOK'
  BY <1>24 DEF TakeJob, TypeOK, Labels, Statuses
<1>25. ASSUME NEW j \in Jobs, StalledCheck(j)
      PROVE  TypeOK'
  BY <1>25 DEF StalledCheck, TypeOK, Labels, Statuses
<1>26. ASSUME NEW j \in Jobs, RetentionExpires(j)
      PROVE  TypeOK'
  BY <1>26 DEF RetentionExpires, TypeOK, Labels, Statuses
<1>27. ASSUME NEW w \in Workers, RunThrows(w)
      PROVE  TypeOK'
  BY <1>27 DEF RunThrows, Fault, Goto, TypeOK, Labels, Statuses
<1>28. ASSUME NEW w \in Workers, BuryThrows(w)
      PROVE  TypeOK'
  <2>1. faults' \in Nat /\ UNCHANGED <<rowVars, apiVars, bullVars, sweepVars, pastVars, crashes, lockLosses>>
    BY <1>28 DEF BuryThrows, Fault, TypeOK
  <2>2. /\ pc' \in [Workers -> Labels] /\ wjob' \in [Workers -> Jobs \cup {NoJob}]
        /\ wlock' \in [Workers -> BOOLEAN]
        /\ \A v \in Workers : pc'[v] # "idle" => wjob'[v] \in Jobs
    BY <1>28 DEF BuryThrows, OtherHalf, Goto, Idle, TypeOK, Labels
  <2>3. QED
    BY <2>1, <2>2 DEF TypeOK
<1>29. ASSUME NEW w \in Workers, WorkerCrash(w)
      PROVE  TypeOK'
  BY <1>29 DEF WorkerCrash, Crash, Idle, TypeOK, Labels, Statuses
<1>30. ASSUME NEW w \in Workers, LockLost(w)
      PROVE  TypeOK'
  BY <1>30 DEF LockLost, TypeOK, Labels, Statuses
<1>31. ASSUME NEW j \in Jobs, SweepThrows(j)
      PROVE  TypeOK'
  BY <1>31 DEF SweepThrows, Fault, TypeOK, Labels, Statuses
<1>32. CASE SweepDies
  BY <1>32 DEF SweepDies, Crash, TypeOK, Labels, Statuses
<1>33. ASSUME NEW j \in Jobs, LeaseExpires(j)
      PROVE  TypeOK'
  BY <1>33 DEF LeaseExpires, TypeOK, Labels, Statuses
<1>34. CASE UNCHANGED vars
  BY <1>34 DEF vars, TypeOK, Labels, Statuses
<1>35. QED
  BY <1>1, <1>2, <1>3, <1>4, <1>5, <1>6, <1>7, <1>8, <1>9, <1>10, <1>11, <1>12, <1>13,
     <1>14, <1>15, <1>16, <1>17, <1>18, <1>19, <1>20, <1>21, <1>22, <1>23, <1>24, <1>25, <1>26,
     <1>27, <1>28, <1>29, <1>30, <1>31, <1>32, <1>33, <1>34 DEF Next, RunStep, SweepStep,
     ApiStep, BullStep, FaultStep

\* No actor comes to know a row that is not there, and rows stay.
LEMMA RowsStep ==
  ASSUME TypeOK, RowsExist, [Next]_vars
  PROVE  RowsExist'
<1> USE DEF rowVars, apiVars, bullVars, runVars, sweepVars, pastVars, budgetVars,
           RunLocal, SweepLocal, ApiLocal
<1>1. ASSUME NEW w \in Workers, LoadJob(w)
      PROVE  RowsExist'
  BY <1>1 DEF LoadJob, Goto, Settle, Idle, TypeOK, RowsExist, Exists
<1>2. ASSUME NEW w \in Workers, CheckDeps(w)
      PROVE  RowsExist'
  BY <1>2 DEF CheckDeps, Goto, Settle, Idle, TypeOK, RowsExist, Exists
<1>3. ASSUME NEW w \in Workers, ClaimJob(w)
      PROVE  RowsExist'
  BY <1>3 DEF ClaimJob, SetStatus, Goto, Settle, Idle, TypeOK, RowsExist, Exists
<1>4. ASSUME NEW w \in Workers, HandlerReturns(w)
      PROVE  RowsExist'
  BY <1>4 DEF HandlerReturns, Goto, TypeOK, RowsExist, Exists
<1>5. ASSUME NEW w \in Workers, HandlerThrows(w)
      PROVE  RowsExist'
  BY <1>5 DEF HandlerThrows, Goto, TypeOK, RowsExist, Exists
<1>6. ASSUME NEW w \in Workers, CompleteJob(w)
      PROVE  RowsExist'
  BY <1>6 DEF CompleteJob, SetStatus, Goto, TypeOK, RowsExist, Exists
<1>7. ASSUME NEW w \in Workers, ScheduleNextRecurrence(w)
      PROVE  RowsExist'
  BY <1>7 DEF ScheduleNextRecurrence, Insert, SetStatus, Goto, TypeOK, RowsExist, Exists
<1>8. ASSUME NEW w \in Workers, SettleRun(w)
      PROVE  RowsExist'
  BY <1>8 DEF SettleRun, Settle, Idle, TypeOK, RowsExist, Exists
<1>9. ASSUME NEW w \in Workers, MoveToFailed(w)
      PROVE  RowsExist'
  BY <1>9 DEF MoveToFailed, Idle, TypeOK, RowsExist, Exists
<1>10. ASSUME NEW w \in Workers, MarkFailed(w)
      PROVE  RowsExist'
  BY <1>10 DEF MarkFailed, SetStatus, OtherHalf, Goto, Idle, TypeOK, RowsExist, Exists
<1>11. ASSUME NEW w \in Workers, MoveToDlq(w)
      PROVE  RowsExist'
  BY <1>11 DEF MoveToDlq, OtherHalf, Goto, Idle, TypeOK, RowsExist, Exists
<1>12. CASE SweepFindStalled
  BY <1>12 DEF SweepFindStalled, TypeOK, RowsExist, Exists
<1>13. CASE SweepFindEligible
  BY <1>13 DEF SweepFindEligible, TypeOK, RowsExist, Exists
<1>14. ASSUME NEW j \in Jobs, RecoverStalled(j)
      PROVE  RowsExist'
  BY <1>14 DEF RecoverStalled, SetStatus, TypeOK, RowsExist, Exists
<1>15. ASSUME NEW j \in Jobs, SweepJudge(j)
      PROVE  RowsExist'
  BY <1>15 DEF SweepJudge, TypeOK, RowsExist, Exists
<1>16. ASSUME NEW j \in Jobs, SweepCascade(j)
      PROVE  RowsExist'
  BY <1>16 DEF SweepCascade, SetStatus, TypeOK, RowsExist, Exists
<1>17. ASSUME NEW j \in Jobs, SweepEligible(j)
      PROVE  RowsExist'
  BY <1>17 DEF SweepEligible, Add, TypeOK, RowsExist, Exists
<1>18. ASSUME NEW j \in Jobs, CreateJob(j)
      PROVE  RowsExist'
  BY <1>18 DEF CreateJob, Insert, Add, SetStatus, TypeOK, RowsExist, Exists
<1>19. ASSUME NEW j \in Jobs, DeleteEntry(j)
      PROVE  RowsExist'
  BY <1>19 DEF DeleteEntry, TypeOK, RowsExist, Exists
<1>20. ASSUME NEW j \in Jobs, CancelLoad(j)
      PROVE  RowsExist'
  BY <1>20 DEF CancelLoad, TypeOK, RowsExist, Exists
<1>21. ASSUME NEW j \in Jobs, CancelWrite(j)
      PROVE  RowsExist'
  BY <1>21 DEF CancelWrite, SetStatus, TypeOK, RowsExist, Exists
<1>22. ASSUME NEW j \in Jobs, NEW k \in Jobs, RetryDlqJob(j, k)
      PROVE  RowsExist'
  BY <1>22 DEF RetryDlqJob, Insert, Add, SetStatus, TypeOK, RowsExist, Exists
<1>23. ASSUME NEW j \in Jobs, NEW k \in Jobs, RetryDlqJobThrows(j, k)
      PROVE  RowsExist'
  BY <1>23 DEF RetryDlqJobThrows, Insert, SetStatus, TypeOK, RowsExist, Exists
<1>24. ASSUME NEW w \in Workers, NEW j \in Jobs, TakeJob(w, j)
      PROVE  RowsExist'
  BY <1>24 DEF TakeJob, TypeOK, RowsExist, Exists
<1>25. ASSUME NEW j \in Jobs, StalledCheck(j)
      PROVE  RowsExist'
  BY <1>25 DEF StalledCheck, TypeOK, RowsExist, Exists
<1>26. ASSUME NEW j \in Jobs, RetentionExpires(j)
      PROVE  RowsExist'
  BY <1>26 DEF RetentionExpires, TypeOK, RowsExist, Exists
<1>27. ASSUME NEW w \in Workers, RunThrows(w)
      PROVE  RowsExist'
  BY <1>27 DEF RunThrows, Fault, Goto, TypeOK, RowsExist, Exists
<1>28. ASSUME NEW w \in Workers, BuryThrows(w)
      PROVE  RowsExist'
  BY <1>28 DEF BuryThrows, Fault, OtherHalf, Goto, Idle, TypeOK, RowsExist, Exists
<1>29. ASSUME NEW w \in Workers, WorkerCrash(w)
      PROVE  RowsExist'
  BY <1>29 DEF WorkerCrash, Crash, Idle, TypeOK, RowsExist, Exists
<1>30. ASSUME NEW w \in Workers, LockLost(w)
      PROVE  RowsExist'
  BY <1>30 DEF LockLost, TypeOK, RowsExist, Exists
<1>31. ASSUME NEW j \in Jobs, SweepThrows(j)
      PROVE  RowsExist'
  BY <1>31 DEF SweepThrows, Fault, TypeOK, RowsExist, Exists
<1>32. CASE SweepDies
  BY <1>32 DEF SweepDies, Crash, TypeOK, RowsExist, Exists
<1>33. ASSUME NEW j \in Jobs, LeaseExpires(j)
      PROVE  RowsExist'
  BY <1>33 DEF LeaseExpires, TypeOK, RowsExist, Exists
<1>34. CASE UNCHANGED vars
  BY <1>34 DEF vars, TypeOK, RowsExist, Exists
<1>35. QED
  BY <1>1, <1>2, <1>3, <1>4, <1>5, <1>6, <1>7, <1>8, <1>9, <1>10, <1>11, <1>12, <1>13,
     <1>14, <1>15, <1>16, <1>17, <1>18, <1>19, <1>20, <1>21, <1>22, <1>23, <1>24, <1>25, <1>26,
     <1>27, <1>28, <1>29, <1>30, <1>31, <1>32, <1>33, <1>34 DEF Next, RunStep, SweepStep,
     ApiStep, BullStep, FaultStep

\* What a worker found completed stays done, whatever is recovered or cancelled.
LEMMA DepsStep ==
  ASSUME TypeOK, RowsExist, DepsInv, [Next]_vars
  PROVE  DepsInv'
<1> USE DEF rowVars, apiVars, bullVars, runVars, sweepVars, pastVars, budgetVars,
           RunLocal, SweepLocal, ApiLocal
<1>1. ASSUME NEW w \in Workers, LoadJob(w)
      PROVE  DepsInv'
  BY <1>1 DEF LoadJob, Goto, Settle, Idle, TypeOK, DepsInv, RowsExist, Exists
<1>2. ASSUME NEW w \in Workers, CheckDeps(w)
      PROVE  DepsInv'
  BY <1>2 DEF CheckDeps, Goto, Settle, Idle, TypeOK, DepsInv, RowsExist, Exists, Unmet,
     Found
<1>3. ASSUME NEW w \in Workers, ClaimJob(w)
      PROVE  DepsInv'
  BY <1>3 DEF ClaimJob, SetStatus, Goto, Settle, Idle, TypeOK, DepsInv, RowsExist, Exists
<1>4. ASSUME NEW w \in Workers, HandlerReturns(w)
      PROVE  DepsInv'
  BY <1>4 DEF HandlerReturns, Goto, TypeOK, DepsInv, RowsExist, Exists
<1>5. ASSUME NEW w \in Workers, HandlerThrows(w)
      PROVE  DepsInv'
  BY <1>5 DEF HandlerThrows, Goto, TypeOK, DepsInv, RowsExist, Exists
<1>6. ASSUME NEW w \in Workers, CompleteJob(w)
      PROVE  DepsInv'
  BY <1>6 DEF CompleteJob, SetStatus, Goto, TypeOK, DepsInv, RowsExist, Exists
<1>7. ASSUME NEW w \in Workers, ScheduleNextRecurrence(w)
      PROVE  DepsInv'
  BY <1>7 DEF ScheduleNextRecurrence, Insert, SetStatus, Goto, TypeOK, DepsInv, RowsExist,
     Exists
<1>8. ASSUME NEW w \in Workers, SettleRun(w)
      PROVE  DepsInv'
  BY <1>8 DEF SettleRun, Settle, Idle, TypeOK, DepsInv, RowsExist, Exists
<1>9. ASSUME NEW w \in Workers, MoveToFailed(w)
      PROVE  DepsInv'
  BY <1>9 DEF MoveToFailed, Idle, TypeOK, DepsInv, RowsExist, Exists
<1>10. ASSUME NEW w \in Workers, MarkFailed(w)
      PROVE  DepsInv'
  BY <1>10 DEF MarkFailed, SetStatus, OtherHalf, Goto, Idle, TypeOK, DepsInv, RowsExist,
     Exists
<1>11. ASSUME NEW w \in Workers, MoveToDlq(w)
      PROVE  DepsInv'
  BY <1>11 DEF MoveToDlq, OtherHalf, Goto, Idle, TypeOK, DepsInv, RowsExist, Exists
<1>12. CASE SweepFindStalled
  BY <1>12 DEF SweepFindStalled, TypeOK, DepsInv, RowsExist, Exists
<1>13. CASE SweepFindEligible
  BY <1>13 DEF SweepFindEligible, TypeOK, DepsInv, RowsExist, Exists
<1>14. ASSUME NEW j \in Jobs, RecoverStalled(j)
      PROVE  DepsInv'
  BY <1>14 DEF RecoverStalled, SetStatus, TypeOK, DepsInv, RowsExist, Exists
<1>15. ASSUME NEW j \in Jobs, SweepJudge(j)
      PROVE  DepsInv'
  BY <1>15 DEF SweepJudge, TypeOK, DepsInv, RowsExist, Exists
<1>16. ASSUME NEW j \in Jobs, SweepCascade(j)
      PROVE  DepsInv'
  BY <1>16 DEF SweepCascade, SetStatus, TypeOK, DepsInv, RowsExist, Exists
<1>17. ASSUME NEW j \in Jobs, SweepEligible(j)
      PROVE  DepsInv'
  BY <1>17 DEF SweepEligible, Add, TypeOK, DepsInv, RowsExist, Exists
<1>18. ASSUME NEW j \in Jobs, CreateJob(j)
      PROVE  DepsInv'
  <2>1. PICK deps \in SUBSET ({d \in Jobs : Exists(d)} \cup Strangers) :
           /\ status[j] = "none"
           /\ status' = [status EXCEPT ![j] = "pending"]
           /\ depends_on' = [depends_on EXCEPT ![j] = deps]
    BY <1>18 DEF CreateJob, Insert, SetStatus
  <2>2. UNCHANGED <<pc, wjob, ran>>
    BY <1>18 DEF CreateJob
  <2>3. \A d \in deps \cap Jobs : Exists(d)
    BY JobQueueAssumption DEF JobQueueAssumption
  <2>4. \A i \in Jobs : Exists(i) => Exists(i)'
    BY <2>1 DEF Exists, TypeOK
  <2>5. \A i \in Jobs : \A d \in depends_on'[i] \cap Jobs : Exists(d)'
    BY <2>1, <2>3, <2>4 DEF TypeOK, DepsInv
  <2>6. \A i \in Jobs : ~Exists(i)' => depends_on'[i] = {}
    BY <2>1 DEF TypeOK, DepsInv, Exists
  <2>7. \A w \in Workers : pc[w] # "idle" => wjob[w] # j /\ wjob[w] \in Jobs
    BY <2>1 DEF RowsExist, Exists, TypeOK
  <2>8. QED
    BY <2>1, <2>2, <2>5, <2>6, <2>7 DEF TypeOK, DepsInv
<1>19. ASSUME NEW j \in Jobs, DeleteEntry(j)
      PROVE  DepsInv'
  BY <1>19 DEF DeleteEntry, TypeOK, DepsInv, RowsExist, Exists
<1>20. ASSUME NEW j \in Jobs, CancelLoad(j)
      PROVE  DepsInv'
  BY <1>20 DEF CancelLoad, TypeOK, DepsInv, RowsExist, Exists
<1>21. ASSUME NEW j \in Jobs, CancelWrite(j)
      PROVE  DepsInv'
  BY <1>21 DEF CancelWrite, SetStatus, TypeOK, DepsInv, RowsExist, Exists
<1>22. ASSUME NEW j \in Jobs, NEW k \in Jobs, RetryDlqJob(j, k)
      PROVE  DepsInv'
  BY <1>22 DEF RetryDlqJob, Insert, Add, SetStatus, TypeOK, DepsInv, RowsExist, Exists
<1>23. ASSUME NEW j \in Jobs, NEW k \in Jobs, RetryDlqJobThrows(j, k)
      PROVE  DepsInv'
  BY <1>23 DEF RetryDlqJobThrows, Insert, SetStatus, TypeOK, DepsInv, RowsExist, Exists
<1>24. ASSUME NEW w \in Workers, NEW j \in Jobs, TakeJob(w, j)
      PROVE  DepsInv'
  BY <1>24 DEF TakeJob, TypeOK, DepsInv, RowsExist, Exists
<1>25. ASSUME NEW j \in Jobs, StalledCheck(j)
      PROVE  DepsInv'
  BY <1>25 DEF StalledCheck, TypeOK, DepsInv, RowsExist, Exists
<1>26. ASSUME NEW j \in Jobs, RetentionExpires(j)
      PROVE  DepsInv'
  BY <1>26 DEF RetentionExpires, TypeOK, DepsInv, RowsExist, Exists
<1>27. ASSUME NEW w \in Workers, RunThrows(w)
      PROVE  DepsInv'
  BY <1>27 DEF RunThrows, Fault, Goto, TypeOK, DepsInv, RowsExist, Exists
<1>28. ASSUME NEW w \in Workers, BuryThrows(w)
      PROVE  DepsInv'
  BY <1>28 DEF BuryThrows, Fault, OtherHalf, Goto, Idle, TypeOK, DepsInv, RowsExist, Exists
<1>29. ASSUME NEW w \in Workers, WorkerCrash(w)
      PROVE  DepsInv'
  BY <1>29 DEF WorkerCrash, Crash, Idle, TypeOK, DepsInv, RowsExist, Exists
<1>30. ASSUME NEW w \in Workers, LockLost(w)
      PROVE  DepsInv'
  BY <1>30 DEF LockLost, TypeOK, DepsInv, RowsExist, Exists
<1>31. ASSUME NEW j \in Jobs, SweepThrows(j)
      PROVE  DepsInv'
  BY <1>31 DEF SweepThrows, Fault, TypeOK, DepsInv, RowsExist, Exists
<1>32. CASE SweepDies
  BY <1>32 DEF SweepDies, Crash, TypeOK, DepsInv, RowsExist, Exists
<1>33. ASSUME NEW j \in Jobs, LeaseExpires(j)
      PROVE  DepsInv'
  BY <1>33 DEF LeaseExpires, TypeOK, DepsInv, RowsExist, Exists
<1>34. CASE UNCHANGED vars
  BY <1>34 DEF vars, TypeOK, DepsInv, RowsExist, Exists
<1>35. QED
  BY <1>1, <1>2, <1>3, <1>4, <1>5, <1>6, <1>7, <1>8, <1>9, <1>10, <1>11, <1>12, <1>13,
     <1>14, <1>15, <1>16, <1>17, <1>18, <1>19, <1>20, <1>21, <1>22, <1>23, <1>24, <1>25, <1>26,
     <1>27, <1>28, <1>29, <1>30, <1>31, <1>32, <1>33, <1>34 DEF Next, RunStep, SweepStep,
     ApiStep, BullStep, FaultStep

\* Only the sweep's own reset makes a row PENDING again, and it takes the row off
\* its list in the same step.
LEMMA StaleStep ==
  ASSUME TypeOK, RowsExist, StaleInv, [Next]_vars
  PROVE  StaleInv'
<1> USE DEF rowVars, apiVars, bullVars, runVars, sweepVars, pastVars, budgetVars,
           RunLocal, SweepLocal, ApiLocal
<1>1. ASSUME NEW w \in Workers, LoadJob(w)
      PROVE  StaleInv'
  BY <1>1 DEF LoadJob, Goto, Settle, Idle, TypeOK, RowsExist, Exists, StaleInv, Stale
<1>2. ASSUME NEW w \in Workers, CheckDeps(w)
      PROVE  StaleInv'
  BY <1>2 DEF CheckDeps, Goto, Settle, Idle, TypeOK, RowsExist, Exists, StaleInv, Stale
<1>3. ASSUME NEW w \in Workers, ClaimJob(w)
      PROVE  StaleInv'
  BY <1>3 DEF ClaimJob, SetStatus, Goto, Settle, Idle, TypeOK, RowsExist, Exists, StaleInv,
     Stale
<1>4. ASSUME NEW w \in Workers, HandlerReturns(w)
      PROVE  StaleInv'
  BY <1>4 DEF HandlerReturns, Goto, TypeOK, RowsExist, Exists, StaleInv, Stale
<1>5. ASSUME NEW w \in Workers, HandlerThrows(w)
      PROVE  StaleInv'
  BY <1>5 DEF HandlerThrows, Goto, TypeOK, RowsExist, Exists, StaleInv, Stale
<1>6. ASSUME NEW w \in Workers, CompleteJob(w)
      PROVE  StaleInv'
  BY <1>6 DEF CompleteJob, SetStatus, Goto, TypeOK, RowsExist, Exists, StaleInv, Stale
<1>7. ASSUME NEW w \in Workers, ScheduleNextRecurrence(w)
      PROVE  StaleInv'
  BY <1>7 DEF ScheduleNextRecurrence, Insert, SetStatus, Goto, TypeOK, RowsExist, Exists,
     StaleInv, Stale
<1>8. ASSUME NEW w \in Workers, SettleRun(w)
      PROVE  StaleInv'
  BY <1>8 DEF SettleRun, Settle, Idle, TypeOK, RowsExist, Exists, StaleInv, Stale
<1>9. ASSUME NEW w \in Workers, MoveToFailed(w)
      PROVE  StaleInv'
  BY <1>9 DEF MoveToFailed, Idle, TypeOK, RowsExist, Exists, StaleInv, Stale
<1>10. ASSUME NEW w \in Workers, MarkFailed(w)
      PROVE  StaleInv'
  BY <1>10 DEF MarkFailed, SetStatus, OtherHalf, Goto, Idle, TypeOK, RowsExist, Exists,
     StaleInv, Stale
<1>11. ASSUME NEW w \in Workers, MoveToDlq(w)
      PROVE  StaleInv'
  BY <1>11 DEF MoveToDlq, OtherHalf, Goto, Idle, TypeOK, RowsExist, Exists, StaleInv, Stale
<1>12. CASE SweepFindStalled
  BY <1>12 DEF SweepFindStalled, TypeOK, RowsExist, Exists, StaleInv, Stale
<1>13. CASE SweepFindEligible
  BY <1>13 DEF SweepFindEligible, TypeOK, RowsExist, Exists, StaleInv, Stale
<1>14. ASSUME NEW j \in Jobs, RecoverStalled(j)
      PROVE  StaleInv'
  BY <1>14 DEF RecoverStalled, SetStatus, TypeOK, RowsExist, Exists, StaleInv, Stale
<1>15. ASSUME NEW j \in Jobs, SweepJudge(j)
      PROVE  StaleInv'
  BY <1>15 DEF SweepJudge, TypeOK, RowsExist, Exists, StaleInv, Stale
<1>16. ASSUME NEW j \in Jobs, SweepCascade(j)
      PROVE  StaleInv'
  BY <1>16 DEF SweepCascade, SetStatus, TypeOK, RowsExist, Exists, StaleInv, Stale
<1>17. ASSUME NEW j \in Jobs, SweepEligible(j)
      PROVE  StaleInv'
  BY <1>17 DEF SweepEligible, Add, TypeOK, RowsExist, Exists, StaleInv, Stale
<1>18. ASSUME NEW j \in Jobs, CreateJob(j)
      PROVE  StaleInv'
  BY <1>18 DEF CreateJob, Insert, Add, SetStatus, TypeOK, RowsExist, Exists, StaleInv, Stale
<1>19. ASSUME NEW j \in Jobs, DeleteEntry(j)
      PROVE  StaleInv'
  BY <1>19 DEF DeleteEntry, TypeOK, RowsExist, Exists, StaleInv, Stale
<1>20. ASSUME NEW j \in Jobs, CancelLoad(j)
      PROVE  StaleInv'
  BY <1>20 DEF CancelLoad, TypeOK, RowsExist, Exists, StaleInv, Stale
<1>21. ASSUME NEW j \in Jobs, CancelWrite(j)
      PROVE  StaleInv'
  BY <1>21 DEF CancelWrite, SetStatus, TypeOK, RowsExist, Exists, StaleInv, Stale
<1>22. ASSUME NEW j \in Jobs, NEW k \in Jobs, RetryDlqJob(j, k)
      PROVE  StaleInv'
  BY <1>22 DEF RetryDlqJob, Insert, Add, SetStatus, TypeOK, RowsExist, Exists, StaleInv,
     Stale
<1>23. ASSUME NEW j \in Jobs, NEW k \in Jobs, RetryDlqJobThrows(j, k)
      PROVE  StaleInv'
  BY <1>23 DEF RetryDlqJobThrows, Insert, SetStatus, TypeOK, RowsExist, Exists, StaleInv,
     Stale
<1>24. ASSUME NEW w \in Workers, NEW j \in Jobs, TakeJob(w, j)
      PROVE  StaleInv'
  BY <1>24 DEF TakeJob, TypeOK, RowsExist, Exists, StaleInv, Stale
<1>25. ASSUME NEW j \in Jobs, StalledCheck(j)
      PROVE  StaleInv'
  BY <1>25 DEF StalledCheck, TypeOK, RowsExist, Exists, StaleInv, Stale
<1>26. ASSUME NEW j \in Jobs, RetentionExpires(j)
      PROVE  StaleInv'
  BY <1>26 DEF RetentionExpires, TypeOK, RowsExist, Exists, StaleInv, Stale
<1>27. ASSUME NEW w \in Workers, RunThrows(w)
      PROVE  StaleInv'
  BY <1>27 DEF RunThrows, Fault, Goto, TypeOK, RowsExist, Exists, StaleInv, Stale
<1>28. ASSUME NEW w \in Workers, BuryThrows(w)
      PROVE  StaleInv'
  BY <1>28 DEF BuryThrows, Fault, OtherHalf, Goto, Idle, TypeOK, RowsExist, Exists,
     StaleInv, Stale
<1>29. ASSUME NEW w \in Workers, WorkerCrash(w)
      PROVE  StaleInv'
  BY <1>29 DEF WorkerCrash, Crash, Idle, TypeOK, RowsExist, Exists, StaleInv, Stale
<1>30. ASSUME NEW w \in Workers, LockLost(w)
      PROVE  StaleInv'
  BY <1>30 DEF LockLost, TypeOK, RowsExist, Exists, StaleInv, Stale
<1>31. ASSUME NEW j \in Jobs, SweepThrows(j)
      PROVE  StaleInv'
  BY <1>31 DEF SweepThrows, Fault, TypeOK, RowsExist, Exists, StaleInv, Stale
<1>32. CASE SweepDies
  BY <1>32 DEF SweepDies, Crash, TypeOK, RowsExist, Exists, StaleInv, Stale
<1>33. ASSUME NEW j \in Jobs, LeaseExpires(j)
      PROVE  StaleInv'
  BY <1>33 DEF LeaseExpires, TypeOK, RowsExist, Exists, StaleInv, Stale
<1>34. CASE UNCHANGED vars
  BY <1>34 DEF vars, TypeOK, RowsExist, Exists, StaleInv, Stale
<1>35. QED
  BY <1>1, <1>2, <1>3, <1>4, <1>5, <1>6, <1>7, <1>8, <1>9, <1>10, <1>11, <1>12, <1>13,
     <1>14, <1>15, <1>16, <1>17, <1>18, <1>19, <1>20, <1>21, <1>22, <1>23, <1>24, <1>25, <1>26,
     <1>27, <1>28, <1>29, <1>30, <1>31, <1>32, <1>33, <1>34 DEF Next, RunStep, SweepStep,
     ApiStep, BullStep, FaultStep

\* A claim needs a PENDING row, and a live run's row becomes PENDING only after
\* its lease ran out.
LEMMA WorkStep ==
  ASSUME TypeOK, RowsExist, StaleInv, WorkInv, [Next]_vars
  PROVE  WorkInv'
<1> USE DEF rowVars, apiVars, bullVars, runVars, sweepVars, pastVars, budgetVars,
           RunLocal, SweepLocal, ApiLocal
<1>1. ASSUME NEW w \in Workers, LoadJob(w)
      PROVE  WorkInv'
  BY <1>1 DEF LoadJob, Goto, Settle, Idle, TypeOK, RowsExist, Exists, StaleInv, WorkInv,
     Stale, Working
<1>2. ASSUME NEW w \in Workers, CheckDeps(w)
      PROVE  WorkInv'
  BY <1>2 DEF CheckDeps, Goto, Settle, Idle, TypeOK, RowsExist, Exists, StaleInv, WorkInv,
     Stale, Working
<1>3. ASSUME NEW w \in Workers, ClaimJob(w)
      PROVE  WorkInv'
  BY <1>3 DEF ClaimJob, SetStatus, Goto, Settle, Idle, TypeOK, RowsExist, Exists, StaleInv,
     WorkInv, Stale, Working
<1>4. ASSUME NEW w \in Workers, HandlerReturns(w)
      PROVE  WorkInv'
  BY <1>4 DEF HandlerReturns, Goto, TypeOK, RowsExist, Exists, StaleInv, WorkInv, Stale,
     Working
<1>5. ASSUME NEW w \in Workers, HandlerThrows(w)
      PROVE  WorkInv'
  BY <1>5 DEF HandlerThrows, Goto, TypeOK, RowsExist, Exists, StaleInv, WorkInv, Stale,
     Working
<1>6. ASSUME NEW w \in Workers, CompleteJob(w)
      PROVE  WorkInv'
  BY <1>6 DEF CompleteJob, SetStatus, Goto, TypeOK, RowsExist, Exists, StaleInv, WorkInv,
     Stale, Working
<1>7. ASSUME NEW w \in Workers, ScheduleNextRecurrence(w)
      PROVE  WorkInv'
  BY <1>7 DEF ScheduleNextRecurrence, Insert, SetStatus, Goto, TypeOK, RowsExist, Exists,
     StaleInv, WorkInv, Stale, Working
<1>8. ASSUME NEW w \in Workers, SettleRun(w)
      PROVE  WorkInv'
  BY <1>8 DEF SettleRun, Settle, Idle, TypeOK, RowsExist, Exists, StaleInv, WorkInv, Stale,
     Working
<1>9. ASSUME NEW w \in Workers, MoveToFailed(w)
      PROVE  WorkInv'
  BY <1>9 DEF MoveToFailed, Idle, TypeOK, RowsExist, Exists, StaleInv, WorkInv, Stale,
     Working
<1>10. ASSUME NEW w \in Workers, MarkFailed(w)
      PROVE  WorkInv'
  BY <1>10 DEF MarkFailed, SetStatus, OtherHalf, Goto, Idle, TypeOK, RowsExist, Exists,
     StaleInv, WorkInv, Stale, Working
<1>11. ASSUME NEW w \in Workers, MoveToDlq(w)
      PROVE  WorkInv'
  BY <1>11 DEF MoveToDlq, OtherHalf, Goto, Idle, TypeOK, RowsExist, Exists, StaleInv,
     WorkInv, Stale, Working
<1>12. CASE SweepFindStalled
  BY <1>12 DEF SweepFindStalled, TypeOK, RowsExist, Exists, StaleInv, WorkInv, Stale,
     Working
<1>13. CASE SweepFindEligible
  BY <1>13 DEF SweepFindEligible, TypeOK, RowsExist, Exists, StaleInv, WorkInv, Stale,
     Working
<1>14. ASSUME NEW j \in Jobs, RecoverStalled(j)
      PROVE  WorkInv'
  BY <1>14 DEF RecoverStalled, SetStatus, TypeOK, RowsExist, Exists, StaleInv, WorkInv,
     Stale, Working
<1>15. ASSUME NEW j \in Jobs, SweepJudge(j)
      PROVE  WorkInv'
  BY <1>15 DEF SweepJudge, TypeOK, RowsExist, Exists, StaleInv, WorkInv, Stale, Working
<1>16. ASSUME NEW j \in Jobs, SweepCascade(j)
      PROVE  WorkInv'
  BY <1>16 DEF SweepCascade, SetStatus, TypeOK, RowsExist, Exists, StaleInv, WorkInv, Stale,
     Working
<1>17. ASSUME NEW j \in Jobs, SweepEligible(j)
      PROVE  WorkInv'
  BY <1>17 DEF SweepEligible, Add, TypeOK, RowsExist, Exists, StaleInv, WorkInv, Stale,
     Working
<1>18. ASSUME NEW j \in Jobs, CreateJob(j)
      PROVE  WorkInv'
  BY <1>18 DEF CreateJob, Insert, Add, SetStatus, TypeOK, RowsExist, Exists, StaleInv,
     WorkInv, Stale, Working
<1>19. ASSUME NEW j \in Jobs, DeleteEntry(j)
      PROVE  WorkInv'
  BY <1>19 DEF DeleteEntry, TypeOK, RowsExist, Exists, StaleInv, WorkInv, Stale, Working
<1>20. ASSUME NEW j \in Jobs, CancelLoad(j)
      PROVE  WorkInv'
  BY <1>20 DEF CancelLoad, TypeOK, RowsExist, Exists, StaleInv, WorkInv, Stale, Working
<1>21. ASSUME NEW j \in Jobs, CancelWrite(j)
      PROVE  WorkInv'
  BY <1>21 DEF CancelWrite, SetStatus, TypeOK, RowsExist, Exists, StaleInv, WorkInv, Stale,
     Working
<1>22. ASSUME NEW j \in Jobs, NEW k \in Jobs, RetryDlqJob(j, k)
      PROVE  WorkInv'
  BY <1>22 DEF RetryDlqJob, Insert, Add, SetStatus, TypeOK, RowsExist, Exists, StaleInv,
     WorkInv, Stale, Working
<1>23. ASSUME NEW j \in Jobs, NEW k \in Jobs, RetryDlqJobThrows(j, k)
      PROVE  WorkInv'
  BY <1>23 DEF RetryDlqJobThrows, Insert, SetStatus, TypeOK, RowsExist, Exists, StaleInv,
     WorkInv, Stale, Working
<1>24. ASSUME NEW w \in Workers, NEW j \in Jobs, TakeJob(w, j)
      PROVE  WorkInv'
  BY <1>24 DEF TakeJob, TypeOK, RowsExist, Exists, StaleInv, WorkInv, Stale, Working
<1>25. ASSUME NEW j \in Jobs, StalledCheck(j)
      PROVE  WorkInv'
  BY <1>25 DEF StalledCheck, TypeOK, RowsExist, Exists, StaleInv, WorkInv, Stale, Working
<1>26. ASSUME NEW j \in Jobs, RetentionExpires(j)
      PROVE  WorkInv'
  BY <1>26 DEF RetentionExpires, TypeOK, RowsExist, Exists, StaleInv, WorkInv, Stale,
     Working
<1>27. ASSUME NEW w \in Workers, RunThrows(w)
      PROVE  WorkInv'
  BY <1>27 DEF RunThrows, Fault, Goto, TypeOK, RowsExist, Exists, StaleInv, WorkInv, Stale,
     Working
<1>28. ASSUME NEW w \in Workers, BuryThrows(w)
      PROVE  WorkInv'
  BY <1>28 DEF BuryThrows, Fault, OtherHalf, Goto, Idle, TypeOK, RowsExist, Exists,
     StaleInv, WorkInv, Stale, Working
<1>29. ASSUME NEW w \in Workers, WorkerCrash(w)
      PROVE  WorkInv'
  BY <1>29 DEF WorkerCrash, Crash, Idle, TypeOK, RowsExist, Exists, StaleInv, WorkInv,
     Stale, Working
<1>30. ASSUME NEW w \in Workers, LockLost(w)
      PROVE  WorkInv'
  BY <1>30 DEF LockLost, TypeOK, RowsExist, Exists, StaleInv, WorkInv, Stale, Working
<1>31. ASSUME NEW j \in Jobs, SweepThrows(j)
      PROVE  WorkInv'
  BY <1>31 DEF SweepThrows, Fault, TypeOK, RowsExist, Exists, StaleInv, WorkInv, Stale,
     Working
<1>32. CASE SweepDies
  BY <1>32 DEF SweepDies, Crash, TypeOK, RowsExist, Exists, StaleInv, WorkInv, Stale,
     Working
<1>33. ASSUME NEW j \in Jobs, LeaseExpires(j)
      PROVE  WorkInv'
  BY <1>33 DEF LeaseExpires, TypeOK, RowsExist, Exists, StaleInv, WorkInv, Stale, Working,
     Live
<1>34. CASE UNCHANGED vars
  BY <1>34 DEF vars, TypeOK, RowsExist, Exists, StaleInv, WorkInv, Stale, Working
<1>35. QED
  BY <1>1, <1>2, <1>3, <1>4, <1>5, <1>6, <1>7, <1>8, <1>9, <1>10, <1>11, <1>12, <1>13,
     <1>14, <1>15, <1>16, <1>17, <1>18, <1>19, <1>20, <1>21, <1>22, <1>23, <1>24, <1>25, <1>26,
     <1>27, <1>28, <1>29, <1>30, <1>31, <1>32, <1>33, <1>34 DEF Next, RunStep, SweepStep,
     ApiStep, BullStep, FaultStep

\* A worker that loaded the row before it was called off fails at its claim.
LEMMA CalledOffStep ==
  ASSUME TypeOK, RowsExist, StaleInv, CalledOffInv, [Next]_vars
  PROVE  CalledOffInv'
<1> USE DEF rowVars, apiVars, bullVars, runVars, sweepVars, pastVars, budgetVars,
           RunLocal, SweepLocal, ApiLocal
<1>1. ASSUME NEW w \in Workers, LoadJob(w)
      PROVE  CalledOffInv'
  BY <1>1 DEF LoadJob, Goto, Settle, Idle, TypeOK, RowsExist, Exists, StaleInv,
     CalledOffInv, Stale
<1>2. ASSUME NEW w \in Workers, CheckDeps(w)
      PROVE  CalledOffInv'
  BY <1>2 DEF CheckDeps, Goto, Settle, Idle, TypeOK, RowsExist, Exists, StaleInv,
     CalledOffInv, Stale
<1>3. ASSUME NEW w \in Workers, ClaimJob(w)
      PROVE  CalledOffInv'
  BY <1>3 DEF ClaimJob, SetStatus, Goto, Settle, Idle, TypeOK, RowsExist, Exists, StaleInv,
     CalledOffInv, Stale
<1>4. ASSUME NEW w \in Workers, HandlerReturns(w)
      PROVE  CalledOffInv'
  BY <1>4 DEF HandlerReturns, Goto, TypeOK, RowsExist, Exists, StaleInv, CalledOffInv, Stale
<1>5. ASSUME NEW w \in Workers, HandlerThrows(w)
      PROVE  CalledOffInv'
  BY <1>5 DEF HandlerThrows, Goto, TypeOK, RowsExist, Exists, StaleInv, CalledOffInv, Stale
<1>6. ASSUME NEW w \in Workers, CompleteJob(w)
      PROVE  CalledOffInv'
  BY <1>6 DEF CompleteJob, SetStatus, Goto, TypeOK, RowsExist, Exists, StaleInv,
     CalledOffInv, Stale
<1>7. ASSUME NEW w \in Workers, ScheduleNextRecurrence(w)
      PROVE  CalledOffInv'
  BY <1>7 DEF ScheduleNextRecurrence, Insert, SetStatus, Goto, TypeOK, RowsExist, Exists,
     StaleInv, CalledOffInv, Stale
<1>8. ASSUME NEW w \in Workers, SettleRun(w)
      PROVE  CalledOffInv'
  BY <1>8 DEF SettleRun, Settle, Idle, TypeOK, RowsExist, Exists, StaleInv, CalledOffInv,
     Stale
<1>9. ASSUME NEW w \in Workers, MoveToFailed(w)
      PROVE  CalledOffInv'
  BY <1>9 DEF MoveToFailed, Idle, TypeOK, RowsExist, Exists, StaleInv, CalledOffInv, Stale
<1>10. ASSUME NEW w \in Workers, MarkFailed(w)
      PROVE  CalledOffInv'
  BY <1>10 DEF MarkFailed, SetStatus, OtherHalf, Goto, Idle, TypeOK, RowsExist, Exists,
     StaleInv, CalledOffInv, Stale
<1>11. ASSUME NEW w \in Workers, MoveToDlq(w)
      PROVE  CalledOffInv'
  BY <1>11 DEF MoveToDlq, OtherHalf, Goto, Idle, TypeOK, RowsExist, Exists, StaleInv,
     CalledOffInv, Stale
<1>12. CASE SweepFindStalled
  BY <1>12 DEF SweepFindStalled, TypeOK, RowsExist, Exists, StaleInv, CalledOffInv, Stale
<1>13. CASE SweepFindEligible
  BY <1>13 DEF SweepFindEligible, TypeOK, RowsExist, Exists, StaleInv, CalledOffInv, Stale
<1>14. ASSUME NEW j \in Jobs, RecoverStalled(j)
      PROVE  CalledOffInv'
  BY <1>14 DEF RecoverStalled, SetStatus, TypeOK, RowsExist, Exists, StaleInv, CalledOffInv,
     Stale
<1>15. ASSUME NEW j \in Jobs, SweepJudge(j)
      PROVE  CalledOffInv'
  BY <1>15 DEF SweepJudge, TypeOK, RowsExist, Exists, StaleInv, CalledOffInv, Stale
<1>16. ASSUME NEW j \in Jobs, SweepCascade(j)
      PROVE  CalledOffInv'
  BY <1>16 DEF SweepCascade, SetStatus, TypeOK, RowsExist, Exists, StaleInv, CalledOffInv,
     Stale
<1>17. ASSUME NEW j \in Jobs, SweepEligible(j)
      PROVE  CalledOffInv'
  BY <1>17 DEF SweepEligible, Add, TypeOK, RowsExist, Exists, StaleInv, CalledOffInv, Stale
<1>18. ASSUME NEW j \in Jobs, CreateJob(j)
      PROVE  CalledOffInv'
  BY <1>18 DEF CreateJob, Insert, Add, SetStatus, TypeOK, RowsExist, Exists, StaleInv,
     CalledOffInv, Stale
<1>19. ASSUME NEW j \in Jobs, DeleteEntry(j)
      PROVE  CalledOffInv'
  BY <1>19 DEF DeleteEntry, TypeOK, RowsExist, Exists, StaleInv, CalledOffInv, Stale
<1>20. ASSUME NEW j \in Jobs, CancelLoad(j)
      PROVE  CalledOffInv'
  BY <1>20 DEF CancelLoad, TypeOK, RowsExist, Exists, StaleInv, CalledOffInv, Stale
<1>21. ASSUME NEW j \in Jobs, CancelWrite(j)
      PROVE  CalledOffInv'
  BY <1>21 DEF CancelWrite, SetStatus, TypeOK, RowsExist, Exists, StaleInv, CalledOffInv,
     Stale, InHandler, Live
<1>22. ASSUME NEW j \in Jobs, NEW k \in Jobs, RetryDlqJob(j, k)
      PROVE  CalledOffInv'
  BY <1>22 DEF RetryDlqJob, Insert, Add, SetStatus, TypeOK, RowsExist, Exists, StaleInv,
     CalledOffInv, Stale
<1>23. ASSUME NEW j \in Jobs, NEW k \in Jobs, RetryDlqJobThrows(j, k)
      PROVE  CalledOffInv'
  BY <1>23 DEF RetryDlqJobThrows, Insert, SetStatus, TypeOK, RowsExist, Exists, StaleInv,
     CalledOffInv, Stale
<1>24. ASSUME NEW w \in Workers, NEW j \in Jobs, TakeJob(w, j)
      PROVE  CalledOffInv'
  BY <1>24 DEF TakeJob, TypeOK, RowsExist, Exists, StaleInv, CalledOffInv, Stale
<1>25. ASSUME NEW j \in Jobs, StalledCheck(j)
      PROVE  CalledOffInv'
  BY <1>25 DEF StalledCheck, TypeOK, RowsExist, Exists, StaleInv, CalledOffInv, Stale
<1>26. ASSUME NEW j \in Jobs, RetentionExpires(j)
      PROVE  CalledOffInv'
  BY <1>26 DEF RetentionExpires, TypeOK, RowsExist, Exists, StaleInv, CalledOffInv, Stale
<1>27. ASSUME NEW w \in Workers, RunThrows(w)
      PROVE  CalledOffInv'
  BY <1>27 DEF RunThrows, Fault, Goto, TypeOK, RowsExist, Exists, StaleInv, CalledOffInv,
     Stale
<1>28. ASSUME NEW w \in Workers, BuryThrows(w)
      PROVE  CalledOffInv'
  BY <1>28 DEF BuryThrows, Fault, OtherHalf, Goto, Idle, TypeOK, RowsExist, Exists,
     StaleInv, CalledOffInv, Stale
<1>29. ASSUME NEW w \in Workers, WorkerCrash(w)
      PROVE  CalledOffInv'
  BY <1>29 DEF WorkerCrash, Crash, Idle, TypeOK, RowsExist, Exists, StaleInv, CalledOffInv,
     Stale
<1>30. ASSUME NEW w \in Workers, LockLost(w)
      PROVE  CalledOffInv'
  BY <1>30 DEF LockLost, TypeOK, RowsExist, Exists, StaleInv, CalledOffInv, Stale
<1>31. ASSUME NEW j \in Jobs, SweepThrows(j)
      PROVE  CalledOffInv'
  BY <1>31 DEF SweepThrows, Fault, TypeOK, RowsExist, Exists, StaleInv, CalledOffInv, Stale
<1>32. CASE SweepDies
  BY <1>32 DEF SweepDies, Crash, TypeOK, RowsExist, Exists, StaleInv, CalledOffInv, Stale
<1>33. ASSUME NEW j \in Jobs, LeaseExpires(j)
      PROVE  CalledOffInv'
  BY <1>33 DEF LeaseExpires, TypeOK, RowsExist, Exists, StaleInv, CalledOffInv, Stale
<1>34. CASE UNCHANGED vars
  BY <1>34 DEF vars, TypeOK, RowsExist, Exists, StaleInv, CalledOffInv, Stale
<1>35. QED
  BY <1>1, <1>2, <1>3, <1>4, <1>5, <1>6, <1>7, <1>8, <1>9, <1>10, <1>11, <1>12, <1>13,
     <1>14, <1>15, <1>16, <1>17, <1>18, <1>19, <1>20, <1>21, <1>22, <1>23, <1>24, <1>25, <1>26,
     <1>27, <1>28, <1>29, <1>30, <1>31, <1>32, <1>33, <1>34 DEF Next, RunStep, SweepStep,
     ApiStep, BullStep, FaultStep

\* The one run of a job completes its row before it schedules the next.
LEMMA SeriesStep ==
  ASSUME TypeOK, RowsExist, StaleInv, WorkInv, SeriesInv, [Next]_vars
  PROVE  SeriesInv'
<1> USE DEF rowVars, apiVars, bullVars, runVars, sweepVars, pastVars, budgetVars,
           RunLocal, SweepLocal, ApiLocal
<1>1. ASSUME NEW w \in Workers, LoadJob(w)
      PROVE  SeriesInv'
  BY <1>1 DEF LoadJob, Goto, Settle, Idle, TypeOK, RowsExist, Exists, StaleInv, WorkInv,
     SeriesInv, Stale, Working, Following
<1>2. ASSUME NEW w \in Workers, CheckDeps(w)
      PROVE  SeriesInv'
  BY <1>2 DEF CheckDeps, Goto, Settle, Idle, TypeOK, RowsExist, Exists, StaleInv, WorkInv,
     SeriesInv, Stale, Working, Following
<1>3. ASSUME NEW w \in Workers, ClaimJob(w)
      PROVE  SeriesInv'
  BY <1>3 DEF ClaimJob, SetStatus, Goto, Settle, Idle, TypeOK, RowsExist, Exists, StaleInv,
     WorkInv, SeriesInv, Stale, Working, Following
<1>4. ASSUME NEW w \in Workers, HandlerReturns(w)
      PROVE  SeriesInv'
  BY <1>4 DEF HandlerReturns, Goto, TypeOK, RowsExist, Exists, StaleInv, WorkInv, SeriesInv,
     Stale, Working, Following
<1>5. ASSUME NEW w \in Workers, HandlerThrows(w)
      PROVE  SeriesInv'
  BY <1>5 DEF HandlerThrows, Goto, TypeOK, RowsExist, Exists, StaleInv, WorkInv, SeriesInv,
     Stale, Working, Following
<1>6. ASSUME NEW w \in Workers, CompleteJob(w)
      PROVE  SeriesInv'
  BY <1>6 DEF CompleteJob, SetStatus, Goto, TypeOK, RowsExist, Exists, StaleInv, WorkInv,
     SeriesInv, Stale, Working, Following
<1>7. ASSUME NEW w \in Workers, ScheduleNextRecurrence(w)
      PROVE  SeriesInv'
  BY <1>7 DEF ScheduleNextRecurrence, Insert, SetStatus, Goto, TypeOK, RowsExist, Exists,
     StaleInv, WorkInv, SeriesInv, Stale, Working, Following
<1>8. ASSUME NEW w \in Workers, SettleRun(w)
      PROVE  SeriesInv'
  BY <1>8 DEF SettleRun, Settle, Idle, TypeOK, RowsExist, Exists, StaleInv, WorkInv,
     SeriesInv, Stale, Working, Following
<1>9. ASSUME NEW w \in Workers, MoveToFailed(w)
      PROVE  SeriesInv'
  BY <1>9 DEF MoveToFailed, Idle, TypeOK, RowsExist, Exists, StaleInv, WorkInv, SeriesInv,
     Stale, Working, Following
<1>10. ASSUME NEW w \in Workers, MarkFailed(w)
      PROVE  SeriesInv'
  BY <1>10 DEF MarkFailed, SetStatus, OtherHalf, Goto, Idle, TypeOK, RowsExist, Exists,
     StaleInv, WorkInv, SeriesInv, Stale, Working, Following
<1>11. ASSUME NEW w \in Workers, MoveToDlq(w)
      PROVE  SeriesInv'
  BY <1>11 DEF MoveToDlq, OtherHalf, Goto, Idle, TypeOK, RowsExist, Exists, StaleInv,
     WorkInv, SeriesInv, Stale, Working, Following
<1>12. CASE SweepFindStalled
  BY <1>12 DEF SweepFindStalled, TypeOK, RowsExist, Exists, StaleInv, WorkInv, SeriesInv,
     Stale, Working, Following
<1>13. CASE SweepFindEligible
  BY <1>13 DEF SweepFindEligible, TypeOK, RowsExist, Exists, StaleInv, WorkInv, SeriesInv,
     Stale, Working, Following
<1>14. ASSUME NEW j \in Jobs, RecoverStalled(j)
      PROVE  SeriesInv'
  BY <1>14 DEF RecoverStalled, SetStatus, TypeOK, RowsExist, Exists, StaleInv, WorkInv,
     SeriesInv, Stale, Working, Following
<1>15. ASSUME NEW j \in Jobs, SweepJudge(j)
      PROVE  SeriesInv'
  BY <1>15 DEF SweepJudge, TypeOK, RowsExist, Exists, StaleInv, WorkInv, SeriesInv, Stale,
     Working, Following
<1>16. ASSUME NEW j \in Jobs, SweepCascade(j)
      PROVE  SeriesInv'
  BY <1>16 DEF SweepCascade, SetStatus, TypeOK, RowsExist, Exists, StaleInv, WorkInv,
     SeriesInv, Stale, Working, Following
<1>17. ASSUME NEW j \in Jobs, SweepEligible(j)
      PROVE  SeriesInv'
  BY <1>17 DEF SweepEligible, Add, TypeOK, RowsExist, Exists, StaleInv, WorkInv, SeriesInv,
     Stale, Working, Following
<1>18. ASSUME NEW j \in Jobs, CreateJob(j)
      PROVE  SeriesInv'
  BY <1>18 DEF CreateJob, Insert, Add, SetStatus, TypeOK, RowsExist, Exists, StaleInv,
     WorkInv, SeriesInv, Stale, Working, Following
<1>19. ASSUME NEW j \in Jobs, DeleteEntry(j)
      PROVE  SeriesInv'
  BY <1>19 DEF DeleteEntry, TypeOK, RowsExist, Exists, StaleInv, WorkInv, SeriesInv, Stale,
     Working, Following
<1>20. ASSUME NEW j \in Jobs, CancelLoad(j)
      PROVE  SeriesInv'
  BY <1>20 DEF CancelLoad, TypeOK, RowsExist, Exists, StaleInv, WorkInv, SeriesInv, Stale,
     Working, Following
<1>21. ASSUME NEW j \in Jobs, CancelWrite(j)
      PROVE  SeriesInv'
  BY <1>21 DEF CancelWrite, SetStatus, TypeOK, RowsExist, Exists, StaleInv, WorkInv,
     SeriesInv, Stale, Working, Following
<1>22. ASSUME NEW j \in Jobs, NEW k \in Jobs, RetryDlqJob(j, k)
      PROVE  SeriesInv'
  BY <1>22 DEF RetryDlqJob, Insert, Add, SetStatus, TypeOK, RowsExist, Exists, StaleInv,
     WorkInv, SeriesInv, Stale, Working, Following
<1>23. ASSUME NEW j \in Jobs, NEW k \in Jobs, RetryDlqJobThrows(j, k)
      PROVE  SeriesInv'
  BY <1>23 DEF RetryDlqJobThrows, Insert, SetStatus, TypeOK, RowsExist, Exists, StaleInv,
     WorkInv, SeriesInv, Stale, Working, Following
<1>24. ASSUME NEW w \in Workers, NEW j \in Jobs, TakeJob(w, j)
      PROVE  SeriesInv'
  BY <1>24 DEF TakeJob, TypeOK, RowsExist, Exists, StaleInv, WorkInv, SeriesInv, Stale,
     Working, Following
<1>25. ASSUME NEW j \in Jobs, StalledCheck(j)
      PROVE  SeriesInv'
  BY <1>25 DEF StalledCheck, TypeOK, RowsExist, Exists, StaleInv, WorkInv, SeriesInv, Stale,
     Working, Following
<1>26. ASSUME NEW j \in Jobs, RetentionExpires(j)
      PROVE  SeriesInv'
  BY <1>26 DEF RetentionExpires, TypeOK, RowsExist, Exists, StaleInv, WorkInv, SeriesInv,
     Stale, Working, Following
<1>27. ASSUME NEW w \in Workers, RunThrows(w)
      PROVE  SeriesInv'
  BY <1>27 DEF RunThrows, Fault, Goto, TypeOK, RowsExist, Exists, StaleInv, WorkInv,
     SeriesInv, Stale, Working, Following
<1>28. ASSUME NEW w \in Workers, BuryThrows(w)
      PROVE  SeriesInv'
  BY <1>28 DEF BuryThrows, Fault, OtherHalf, Goto, Idle, TypeOK, RowsExist, Exists,
     StaleInv, WorkInv, SeriesInv, Stale, Working, Following
<1>29. ASSUME NEW w \in Workers, WorkerCrash(w)
      PROVE  SeriesInv'
  BY <1>29 DEF WorkerCrash, Crash, Idle, TypeOK, RowsExist, Exists, StaleInv, WorkInv,
     SeriesInv, Stale, Working, Following
<1>30. ASSUME NEW w \in Workers, LockLost(w)
      PROVE  SeriesInv'
  BY <1>30 DEF LockLost, TypeOK, RowsExist, Exists, StaleInv, WorkInv, SeriesInv, Stale,
     Working, Following
<1>31. ASSUME NEW j \in Jobs, SweepThrows(j)
      PROVE  SeriesInv'
  BY <1>31 DEF SweepThrows, Fault, TypeOK, RowsExist, Exists, StaleInv, WorkInv, SeriesInv,
     Stale, Working, Following
<1>32. CASE SweepDies
  BY <1>32 DEF SweepDies, Crash, TypeOK, RowsExist, Exists, StaleInv, WorkInv, SeriesInv,
     Stale, Working, Following
<1>33. ASSUME NEW j \in Jobs, LeaseExpires(j)
      PROVE  SeriesInv'
  BY <1>33 DEF LeaseExpires, TypeOK, RowsExist, Exists, StaleInv, WorkInv, SeriesInv, Stale,
     Working, Following, Live
<1>34. CASE UNCHANGED vars
  BY <1>34 DEF vars, TypeOK, RowsExist, Exists, StaleInv, WorkInv, SeriesInv, Stale,
     Working, Following
<1>35. QED
  BY <1>1, <1>2, <1>3, <1>4, <1>5, <1>6, <1>7, <1>8, <1>9, <1>10, <1>11, <1>12, <1>13,
     <1>14, <1>15, <1>16, <1>17, <1>18, <1>19, <1>20, <1>21, <1>22, <1>23, <1>24, <1>25, <1>26,
     <1>27, <1>28, <1>29, <1>30, <1>31, <1>32, <1>33, <1>34 DEF Next, RunStep, SweepStep,
     ApiStep, BullStep, FaultStep

\* Without trouble both halves of Promise.all are written, in either order.
LEMMA FailStep ==
  ASSUME TypeOK, RowsExist, FailInv, [Next]_vars
  PROVE  FailInv'
<1> USE DEF rowVars, apiVars, bullVars, runVars, sweepVars, pastVars, budgetVars,
           RunLocal, SweepLocal, ApiLocal
<1>1. ASSUME NEW w \in Workers, LoadJob(w)
      PROVE  FailInv'
  BY <1>1 DEF LoadJob, Goto, Settle, Idle, TypeOK, RowsExist, Exists, FailInv,
     FailedIsVisible, Live
<1>2. ASSUME NEW w \in Workers, CheckDeps(w)
      PROVE  FailInv'
  BY <1>2 DEF CheckDeps, Goto, Settle, Idle, TypeOK, RowsExist, Exists, FailInv,
     FailedIsVisible, Live
<1>3. ASSUME NEW w \in Workers, ClaimJob(w)
      PROVE  FailInv'
  BY <1>3 DEF ClaimJob, SetStatus, Goto, Settle, Idle, TypeOK, RowsExist, Exists, FailInv,
     FailedIsVisible, Live
<1>4. ASSUME NEW w \in Workers, HandlerReturns(w)
      PROVE  FailInv'
  BY <1>4 DEF HandlerReturns, Goto, TypeOK, RowsExist, Exists, FailInv, FailedIsVisible,
     Live
<1>5. ASSUME NEW w \in Workers, HandlerThrows(w)
      PROVE  FailInv'
  BY <1>5 DEF HandlerThrows, Goto, TypeOK, RowsExist, Exists, FailInv, FailedIsVisible, Live
<1>6. ASSUME NEW w \in Workers, CompleteJob(w)
      PROVE  FailInv'
  BY <1>6 DEF CompleteJob, SetStatus, Goto, TypeOK, RowsExist, Exists, FailInv,
     FailedIsVisible, Live
<1>7. ASSUME NEW w \in Workers, ScheduleNextRecurrence(w)
      PROVE  FailInv'
  BY <1>7 DEF ScheduleNextRecurrence, Insert, SetStatus, Goto, TypeOK, RowsExist, Exists,
     FailInv, FailedIsVisible, Live
<1>8. ASSUME NEW w \in Workers, SettleRun(w)
      PROVE  FailInv'
  BY <1>8 DEF SettleRun, Settle, Idle, TypeOK, RowsExist, Exists, FailInv, FailedIsVisible,
     Live
<1>9. ASSUME NEW w \in Workers, MoveToFailed(w)
      PROVE  FailInv'
  BY <1>9 DEF MoveToFailed, Idle, TypeOK, RowsExist, Exists, FailInv, FailedIsVisible, Live
<1>10. ASSUME NEW w \in Workers, MarkFailed(w)
      PROVE  FailInv'
  BY <1>10 DEF MarkFailed, SetStatus, OtherHalf, Goto, Idle, TypeOK, RowsExist, Exists,
     FailInv, FailedIsVisible, Live
<1>11. ASSUME NEW w \in Workers, MoveToDlq(w)
      PROVE  FailInv'
  BY <1>11 DEF MoveToDlq, OtherHalf, Goto, Idle, TypeOK, RowsExist, Exists, FailInv,
     FailedIsVisible, Live
<1>12. CASE SweepFindStalled
  BY <1>12 DEF SweepFindStalled, TypeOK, RowsExist, Exists, FailInv, FailedIsVisible, Live
<1>13. CASE SweepFindEligible
  BY <1>13 DEF SweepFindEligible, TypeOK, RowsExist, Exists, FailInv, FailedIsVisible, Live
<1>14. ASSUME NEW j \in Jobs, RecoverStalled(j)
      PROVE  FailInv'
  BY <1>14 DEF RecoverStalled, SetStatus, TypeOK, RowsExist, Exists, FailInv,
     FailedIsVisible, Live
<1>15. ASSUME NEW j \in Jobs, SweepJudge(j)
      PROVE  FailInv'
  BY <1>15, JobQueueAssumption DEF SweepJudge, TypeOK, RowsExist, Exists, FailInv,
     FailedIsVisible, Live, Doomed, Found, JobQueueAssumption
<1>16. ASSUME NEW j \in Jobs, SweepCascade(j)
      PROVE  FailInv'
  BY <1>16, JobQueueAssumption DEF SweepCascade, SetStatus, TypeOK, RowsExist, Exists,
     FailInv, FailedIsVisible, Live, JobQueueAssumption
<1>17. ASSUME NEW j \in Jobs, SweepEligible(j)
      PROVE  FailInv'
  BY <1>17 DEF SweepEligible, Add, TypeOK, RowsExist, Exists, FailInv, FailedIsVisible, Live
<1>18. ASSUME NEW j \in Jobs, CreateJob(j)
      PROVE  FailInv'
  BY <1>18 DEF CreateJob, Insert, Add, SetStatus, TypeOK, RowsExist, Exists, FailInv,
     FailedIsVisible, Live
<1>19. ASSUME NEW j \in Jobs, DeleteEntry(j)
      PROVE  FailInv'
  BY <1>19 DEF DeleteEntry, TypeOK, RowsExist, Exists, FailInv, FailedIsVisible, Live
<1>20. ASSUME NEW j \in Jobs, CancelLoad(j)
      PROVE  FailInv'
  BY <1>20 DEF CancelLoad, TypeOK, RowsExist, Exists, FailInv, FailedIsVisible, Live
<1>21. ASSUME NEW j \in Jobs, CancelWrite(j)
      PROVE  FailInv'
  BY <1>21 DEF CancelWrite, SetStatus, TypeOK, RowsExist, Exists, FailInv, FailedIsVisible,
     Live
<1>22. ASSUME NEW j \in Jobs, NEW k \in Jobs, RetryDlqJob(j, k)
      PROVE  FailInv'
  BY <1>22 DEF RetryDlqJob, Insert, Add, SetStatus, TypeOK, RowsExist, Exists, FailInv,
     FailedIsVisible, Live
<1>23. ASSUME NEW j \in Jobs, NEW k \in Jobs, RetryDlqJobThrows(j, k)
      PROVE  FailInv'
  BY <1>23 DEF RetryDlqJobThrows, Insert, SetStatus, TypeOK, RowsExist, Exists, FailInv,
     FailedIsVisible, Live
<1>24. ASSUME NEW w \in Workers, NEW j \in Jobs, TakeJob(w, j)
      PROVE  FailInv'
  BY <1>24 DEF TakeJob, TypeOK, RowsExist, Exists, FailInv, FailedIsVisible, Live
<1>25. ASSUME NEW j \in Jobs, StalledCheck(j)
      PROVE  FailInv'
  BY <1>25 DEF StalledCheck, TypeOK, RowsExist, Exists, FailInv, FailedIsVisible, Live
<1>26. ASSUME NEW j \in Jobs, RetentionExpires(j)
      PROVE  FailInv'
  BY <1>26 DEF RetentionExpires, TypeOK, RowsExist, Exists, FailInv, FailedIsVisible, Live
<1>27. ASSUME NEW w \in Workers, RunThrows(w)
      PROVE  FailInv'
  BY <1>27 DEF RunThrows, Fault, Goto, TypeOK, RowsExist, Exists, FailInv, FailedIsVisible,
     Live
<1>28. ASSUME NEW w \in Workers, BuryThrows(w)
      PROVE  FailInv'
  BY <1>28 DEF BuryThrows, Fault, OtherHalf, Goto, Idle, TypeOK, RowsExist, Exists, FailInv,
     FailedIsVisible, Live
<1>29. ASSUME NEW w \in Workers, WorkerCrash(w)
      PROVE  FailInv'
  BY <1>29 DEF WorkerCrash, Crash, Idle, TypeOK, RowsExist, Exists, FailInv,
     FailedIsVisible, Live
<1>30. ASSUME NEW w \in Workers, LockLost(w)
      PROVE  FailInv'
  BY <1>30 DEF LockLost, TypeOK, RowsExist, Exists, FailInv, FailedIsVisible, Live
<1>31. ASSUME NEW j \in Jobs, SweepThrows(j)
      PROVE  FailInv'
  BY <1>31 DEF SweepThrows, Fault, TypeOK, RowsExist, Exists, FailInv, FailedIsVisible, Live
<1>32. CASE SweepDies
  BY <1>32 DEF SweepDies, Crash, TypeOK, RowsExist, Exists, FailInv, FailedIsVisible, Live
<1>33. ASSUME NEW j \in Jobs, LeaseExpires(j)
      PROVE  FailInv'
  BY <1>33 DEF LeaseExpires, TypeOK, RowsExist, Exists, FailInv, FailedIsVisible, Live
<1>34. CASE UNCHANGED vars
  BY <1>34 DEF vars, TypeOK, RowsExist, Exists, FailInv, FailedIsVisible, Live
<1>35. QED
  BY <1>1, <1>2, <1>3, <1>4, <1>5, <1>6, <1>7, <1>8, <1>9, <1>10, <1>11, <1>12, <1>13,
     <1>14, <1>15, <1>16, <1>17, <1>18, <1>19, <1>20, <1>21, <1>22, <1>23, <1>24, <1>25, <1>26,
     <1>27, <1>28, <1>29, <1>30, <1>31, <1>32, <1>33, <1>34 DEF Next, RunStep, SweepStep,
     ApiStep, BullStep, FaultStep

\* The empty table and queue meet every part.
LEMMA InitInv == Init => IInv
<1> SUFFICES ASSUME Init PROVE IInv
  OBVIOUS
<1>1. TypeOK
  BY DEF Init, TypeOK, Statuses, Labels
<1>2. RowsExist /\ DepsInv /\ StaleInv
  BY DEF Init, RowsExist, DepsInv, StaleInv, Stale, Exists
<1>3. WorkInv /\ CalledOffInv /\ SeriesInv
  BY DEF Init, WorkInv, CalledOffInv, SeriesInv, Working, Following, Stale
<1>4. FailInv
  BY DEF Init, FailInv, FailedIsVisible
<1>5. QED
  BY <1>1, <1>2, <1>3, <1>4 DEF IInv

\* Every step keeps all parts.
LEMMA NextInv == IInv /\ [Next]_vars => IInv'
  BY TypeStep, RowsStep, DepsStep, StaleStep, WorkStep, CalledOffStep, SeriesStep, FailStep
  DEF IInv

\* In every reachable state all parts hold.
THEOREM InvariantHolds == Spec => []IInv
  BY InitInv, NextInv, PTL DEF Spec

\* Rows, Bull jobs, runs and the sweep keep their types.
THEOREM TypeCorrect == Spec => []TypeOK
<1>1. IInv => TypeOK
  BY DEF IInv
<1>2. QED
  BY <1>1, InvariantHolds, PTL

\* depends_on: a handler starts only after the handler of every dependency that
\* is a job returned. Ids of no job are stored and hold nothing back.
THEOREM DependenciesComeFirst == Spec => []DependenciesFirst
<1>1. IInv => DependenciesFirst
  BY DEF IInv, DepsInv, DependenciesFirst
<1>2. QED
  BY <1>1, InvariantHolds, PTL

\* One worker in the handler of a job, unless the lease ran out under its run;
\* and none ever for a job cancelled before it was claimed.
THEOREM DispatchIsSole == Spec => []SoleDispatch
<1>1. IInv => SoleDispatch
  <2> SUFFICES ASSUME IInv, NEW v \in Workers, NEW w \in Workers, pc[w] = "run"
               PROVE  /\ wjob[w] \notin calledOff
                      /\ pc[v] = "run" /\ wjob[v] = wjob[w] => v = w \/ wjob[v] \in overran
    BY DEF SoleDispatch
  <2>1. wjob[w] \in Jobs
    BY DEF IInv, TypeOK
  <2>2. QED
    BY <2>1 DEF IInv, CalledOffInv, WorkInv, Working
<1>2. QED
  BY <1>1, InvariantHolds, PTL

\* A recurring job schedules its next run once, unless its run outlived its
\* lease.
THEOREM SeriesStaysSingle == Spec => []SeriesNotForked
<1>1. IInv => SeriesNotForked
  BY DEF IInv, SeriesInv, SeriesNotForked
<1>2. QED
  BY <1>1, InvariantHolds, PTL

\* A job that failed on its own account has or had a dead-letter entry, or is
\* about to, unless something threw or died.
THEOREM FailuresAreVisible == Spec => []FailedIsVisible
<1>1. IInv => FailedIsVisible
  BY DEF IInv, FailInv, FailedIsVisible
<1>2. QED
  BY <1>1, InvariantHolds, PTL
=============================================================================
