------------------------------ MODULE JobQueue ------------------------------
(***************************************************************************)
(* The generic job queue: rows of the jobs table with their leases, the    *)
(* Bull jobs that carry them (external), the worker's handleJob and        *)
(* onFailed, the scheduler's sweep, cancellation, recurrence and the       *)
(* dead-letter queue. Every await other actors can write between is a step *)
(* boundary. Priorities only order the sweep and are left out; a row with  *)
(* a future scheduled_at is one that nobody enqueues before a sweep does.  *)
(***************************************************************************)
EXTENDS Naturals

CONSTANTS
    Jobs,           \* rows that may come to exist
    Strangers,      \* ids of no row: depends_on takes any UUID
    Workers,        \* QUEUE_CONCURRENCY slots
    Failing,        \* jobs whose handler always throws
    Cancellable,    \* jobs somebody may cancel
    Recurring,      \* jobs that may be created with a recurring_interval
    NoJob,          \* is not a job
    MaxAttempts,    \* QUEUE_MAX_ATTEMPTS
    MaxStalled,     \* Bull's maxStalledCount
    MaxTrouble      \* bound: crashes, database and Redis errors, lost Bull locks

ASSUME JobQueueAssumption ==
    /\ Failing \subseteq Jobs /\ Cancellable \subseteq Jobs /\ Recurring \subseteq Jobs
    /\ NoJob \notin Jobs /\ Strangers \cap Jobs = {}
    /\ MaxAttempts \in Nat \ {0} /\ MaxStalled \in Nat
    /\ MaxTrouble \in Nat

VARIABLES
    status,         \* jobs.status, "none" before the row exists
    depends_on,     \* jobs.depends_on
    recurring,      \* rows with a recurring_interval
    expired,        \* PROCESSING rows past their lease_expires_at
    dlq,            \* jobs with an entry in the dead-letter table
    retried,        \* entries whose retry exists and that are about to be deleted
    bstate,         \* Bull's job job:<id>; "settled" is completed or failed
    attempts, stalls,
    pc, wjob, wlock,            \* runs: where, on what, holding the Bull lock
    sphase, sset,   \* the sweep: what it does, the rows it read and has left
    sdoomed,        \* the row it is about to fail for its dependencies
    cancelling,     \* rows cancelJob has read and found cancellable
    ran,            \* jobs whose handler returned (history)
    overran,        \* jobs whose lease ran out under a live run (history)
    calledOff,      \* jobs cancelled while PENDING and in no handler (history)
    buried,         \* jobs that ever had a dead-letter entry (history)
    forked,         \* jobs that scheduled more than one next run (history)
    spawned,        \* jobs that scheduled a next run (history)
    crashes, faults, lockLosses

rowVars == <<status, depends_on, recurring, expired>>
apiVars == <<dlq, retried, cancelling>>
bullVars == <<bstate, attempts, stalls>>
runVars == <<pc, wjob, wlock>>
sweepVars == <<sphase, sset, sdoomed>>
pastVars == <<ran, overran, calledOff, buried, forked, spawned>>
budgetVars == <<crashes, faults, lockLosses>>
vars == <<rowVars, apiVars, bullVars, runVars, sweepVars, pastVars, budgetVars>>

Exists(j) == status[j] # "none"

\* An empty table and an empty queue.
Init ==
    /\ status = [j \in Jobs |-> "none"]
    /\ depends_on = [j \in Jobs |-> {}]
    /\ recurring = {} /\ expired = {}
    /\ dlq = {} /\ retried = {} /\ cancelling = {}
    /\ bstate = [j \in Jobs |-> "absent"]
    /\ attempts = [j \in Jobs |-> 0]
    /\ stalls = [j \in Jobs |-> 0]
    /\ pc = [w \in Workers |-> "idle"]
    /\ wjob = [w \in Workers |-> NoJob]
    /\ wlock = [w \in Workers |-> FALSE]
    /\ sphase = "enqueue" /\ sset = {} /\ sdoomed = NoJob
    /\ ran = {} /\ overran = {} /\ calledOff = {} /\ buried = {}
    /\ forked = {} /\ spawned = {}
    /\ crashes = 0 /\ faults = 0 /\ lockLosses = 0

MoreTrouble == crashes + faults + lockLosses < MaxTrouble
Fault == MoreTrouble /\ faults' = faults + 1 /\ UNCHANGED <<crashes, lockLosses>>
Crash == MoreTrouble /\ crashes' = crashes + 1 /\ UNCHANGED <<faults, lockLosses>>

SetStatus(j, s) == status' = [status EXCEPT ![j] = s]

\* findJobsByIds: the rows among depends_on. An id of no row is passed over.
Found(j) == {d \in depends_on[j] \cap Jobs : Exists(d)}

\* Mutant: a dependency that is being worked on is taken for done.
UnmetIfIdle(j) == {d \in Found(j) : status[d] \notin {"completed", "processing"}}

\* Rows found that are not COMPLETED: asked by the worker and the sweep.
Unmet(j) == {d \in Found(j) : status[d] # "completed"}

(* ------------------------------- Bull ---------------------------------- *)

\* JobsService.enqueue: an id that exists in any state is left as it is.
Add(j) ==
    IF bstate[j] = "absent"
        THEN /\ bstate' = [bstate EXCEPT ![j] = "waiting"]
             /\ UNCHANGED <<attempts, stalls>>
        ELSE UNCHANGED bullVars

Live(w, j) == pc[w] # "idle" /\ wjob[w] = j

InHandler(j) == \E w \in Workers : Live(w, j) /\ pc[w] = "run"

TakeJob(w, j) ==
    /\ pc[w] = "idle" /\ bstate[j] = "waiting"
    /\ bstate' = [bstate EXCEPT ![j] = "active"]
    /\ pc' = [pc EXCEPT ![w] = "load"]
    /\ wjob' = [wjob EXCEPT ![w] = j]
    /\ wlock' = [wlock EXCEPT ![w] = TRUE]
    /\ UNCHANGED <<rowVars, apiVars, attempts, stalls, sweepVars, pastVars, budgetVars>>

Goto(w, label) == pc' = [pc EXCEPT ![w] = label] /\ UNCHANGED <<wjob, wlock>>

Idle(w) ==
    /\ pc' = [pc EXCEPT ![w] = "idle"]
    /\ wjob' = [wjob EXCEPT ![w] = NoJob]
    /\ wlock' = [wlock EXCEPT ![w] = FALSE]

\* moveToCompleted; without the lock it changes nothing.
Settle(w) ==
    /\ IF wlock[w]
           THEN bstate' = [bstate EXCEPT ![wjob[w]] = "settled"]
           ELSE UNCHANGED bstate
    /\ Idle(w)
    /\ UNCHANGED <<attempts, stalls>>

StalledCheck(j) ==
    /\ bstate[j] = "active"
    /\ ~\E w \in Workers : Live(w, j) /\ wlock[w]
    /\ IF stalls[j] < MaxStalled
           THEN /\ bstate' = [bstate EXCEPT ![j] = "waiting"]
                /\ stalls' = [stalls EXCEPT ![j] = @ + 1]
           ELSE bstate' = [bstate EXCEPT ![j] = "settled"] /\ UNCHANGED stalls
    /\ UNCHANGED <<rowVars, apiVars, attempts, runVars, sweepVars, pastVars, budgetVars>>

\* Settled jobs are kept for JOB_RETENTION, a day or a week: longer than any run,
\* lease, sweep or call that was under way when they settled.
RetentionExpires(j) ==
    /\ bstate[j] = "settled"
    /\ j \notin sset \cup cancelling \cup retried
    /\ \A w \in Workers : wjob[w] # j
    /\ status[j] = "processing" => j \in expired
    /\ bstate' = [bstate EXCEPT ![j] = "absent"]
    /\ attempts' = [attempts EXCEPT ![j] = 0]
    /\ stalls' = [stalls EXCEPT ![j] = 0]
    /\ UNCHANGED <<rowVars, apiVars, runVars, sweepVars, pastVars, budgetVars>>

LockLost(w) ==
    /\ pc[w] # "idle" /\ wlock[w]
    /\ MoreTrouble /\ lockLosses' = lockLosses + 1
    /\ wlock' = [wlock EXCEPT ![w] = FALSE]
    /\ UNCHANGED <<rowVars, apiVars, bullVars, pc, wjob, sweepVars, pastVars, crashes, faults>>

WorkerCrash(w) ==
    /\ pc[w] # "idle"
    /\ Crash
    /\ Idle(w)
    /\ UNCHANGED <<rowVars, apiVars, bullVars, sweepVars, pastVars>>

(* ------------------- JobWorkerProcessor.handleJob ----------------------- *)

RunLocal == UNCHANGED <<rowVars, apiVars, bullVars, sweepVars, pastVars, budgetVars>>

\* A cancelled or settled row ends the run; so it does for a missing one.
LoadJob(w) ==
    /\ pc[w] = "load"
    /\ IF status[wjob[w]] \in {"pending", "processing"}
           THEN /\ Goto(w, IF depends_on[wjob[w]] = {} THEN "claim" ELSE "deps")
                /\ UNCHANGED bullVars
           ELSE Settle(w)
    /\ UNCHANGED <<rowVars, apiVars, sweepVars, pastVars, budgetVars>>

CheckDeps(w) ==
    /\ pc[w] = "deps"
    /\ IF Unmet(wjob[w]) = {} THEN Goto(w, "claim") /\ UNCHANGED bullVars ELSE Settle(w)
    /\ UNCHANGED <<rowVars, apiVars, sweepVars, pastVars, budgetVars>>

\* Mutant: the status is missing from the WHERE clause.
ClaimJobById(w) ==
    /\ pc[w] = "claim"
    /\ SetStatus(wjob[w], "processing") /\ expired' = expired \ {wjob[w]}
    /\ Goto(w, "run") /\ UNCHANGED bullVars
    /\ UNCHANGED <<depends_on, recurring, apiVars, sweepVars, pastVars, budgetVars>>

\* claimJob: PENDING to PROCESSING with a fresh lease, or the run returns.
ClaimJob(w) ==
    /\ pc[w] = "claim"
    /\ IF status[wjob[w]] = "pending"
           THEN /\ SetStatus(wjob[w], "processing") /\ expired' = expired \ {wjob[w]}
                /\ Goto(w, "run") /\ UNCHANGED bullVars
           ELSE Settle(w) /\ UNCHANGED <<status, expired>>
    /\ UNCHANGED <<depends_on, recurring, apiVars, sweepVars, pastVars, budgetVars>>

HandlerReturns(w) ==
    /\ pc[w] = "run" /\ wjob[w] \notin Failing
    /\ ran' = ran \cup {wjob[w]}
    /\ Goto(w, "finish")
    /\ UNCHANGED <<rowVars, apiVars, bullVars, sweepVars, overran, calledOff, buried,
                   forked, spawned, budgetVars>>

HandlerThrows(w) ==
    /\ pc[w] = "run"
    /\ Goto(w, "throw")
    /\ RunLocal

\* Mutant: the next run is scheduled before this one is recorded.
CompleteJobLast(w) ==
    /\ pc[w] = "finish"
    /\ Goto(w, "recur")
    /\ RunLocal

\* The update to COMPLETED names the id only.
CompleteJob(w) ==
    /\ pc[w] = "finish"
    /\ SetStatus(wjob[w], "completed") /\ expired' = expired \ {wjob[w]}
    /\ Goto(w, IF wjob[w] \in recurring THEN "recur" ELSE "settle")
    /\ UNCHANGED <<depends_on, recurring, apiVars, bullVars, sweepVars, pastVars, budgetVars>>

\* A new PENDING row; nothing enqueues it before the sweep.
Insert(k, deps, recurs) ==
    /\ status[k] = "none"
    /\ SetStatus(k, "pending")
    /\ depends_on' = [depends_on EXCEPT ![k] = deps]
    /\ recurring' = IF recurs THEN recurring \cup {k} ELSE recurring
    /\ UNCHANGED expired

\* scheduleNextRecurrence. Bound: the series ends when the rows do.
ScheduleNextRecurrence(w) ==
    /\ pc[w] = "recur"
    /\ \/ \E k \in Jobs : Insert(k, {}, TRUE)
       \/ (\A k \in Jobs : Exists(k)) /\ UNCHANGED rowVars
    /\ spawned' = spawned \cup {wjob[w]}
    /\ forked' = IF wjob[w] \in spawned THEN forked \cup {wjob[w]} ELSE forked
    /\ Goto(w, "settle")
    /\ UNCHANGED <<apiVars, bullVars, sweepVars, ran, overran, calledOff, buried, budgetVars>>

SettleRun(w) ==
    /\ pc[w] = "settle"
    /\ Settle(w)
    /\ UNCHANGED <<rowVars, apiVars, sweepVars, pastVars, budgetVars>>

\* Any other await of handleJob may throw.
RunThrows(w) ==
    /\ pc[w] \in {"load", "deps", "claim", "finish", "recur"}
    /\ Fault
    /\ Goto(w, "throw")
    /\ UNCHANGED <<rowVars, apiVars, bullVars, sweepVars, pastVars>>

\* Mutant: onFailed writes FAILED although Bull will retry.
MoveToFailedAndMark(w) ==
    /\ pc[w] = "throw" /\ wlock[w]
    /\ LET j == wjob[w]
       IN  /\ attempts' = [attempts EXCEPT ![j] = @ + 1]
           /\ IF attempts[j] + 1 < MaxAttempts
                  THEN bstate' = [bstate EXCEPT ![j] = "waiting"] /\ Goto(w, "buryRow")
                  ELSE bstate' = [bstate EXCEPT ![j] = "settled"] /\ Goto(w, "bury")
    /\ UNCHANGED <<rowVars, apiVars, stalls, sweepVars, pastVars, budgetVars>>

\* moveToFailed: back to the queue after the backoff (not timed here), or
\* settled for good, which onFailed goes on with. The row stays as it is.
\* Without the lock the run just ends.
MoveToFailed(w) ==
    /\ pc[w] = "throw"
    /\ LET j == wjob[w]
           willRetry == attempts[j] + 1 < MaxAttempts
       IN  IF wlock[w]
               THEN /\ attempts' = [attempts EXCEPT ![j] = @ + 1]
                    /\ bstate' = [bstate EXCEPT ![j] = IF willRetry THEN "waiting" ELSE "settled"]
                    /\ IF willRetry
                           THEN Idle(w)
                           ELSE /\ pc' = [pc EXCEPT ![w] = "bury"]
                                /\ wlock' = [wlock EXCEPT ![w] = FALSE]
                                /\ UNCHANGED wjob
               ELSE Idle(w) /\ UNCHANGED <<attempts, bstate>>
    /\ UNCHANGED <<rowVars, apiVars, stalls, sweepVars, pastVars, budgetVars>>

\* Promise.all of the FAILED update and moveToDlq: in either order, and the one
\* that throws does not take back the other.
OtherHalf(w, left) == IF pc[w] = "bury" THEN Goto(w, left) ELSE Idle(w)

MarkFailed(w) ==
    /\ pc[w] \in {"bury", "buryRow"}
    /\ SetStatus(wjob[w], "failed") /\ expired' = expired \ {wjob[w]}
    /\ OtherHalf(w, "buryEntry")
    /\ UNCHANGED <<depends_on, recurring, apiVars, bullVars, sweepVars, pastVars, budgetVars>>

MoveToDlq(w) ==
    /\ pc[w] \in {"bury", "buryEntry"}
    /\ dlq' = dlq \cup {wjob[w]} /\ buried' = buried \cup {wjob[w]}
    /\ OtherHalf(w, "buryRow")
    /\ UNCHANGED <<rowVars, retried, cancelling, bullVars, sweepVars, ran, overran,
                   calledOff, forked, spawned, budgetVars>>

\* Reading the row or one of the two writes throws.
BuryThrows(w) ==
    /\ \/ pc[w] = "bury" /\ Idle(w)
       \/ pc[w] \in {"bury", "buryRow"} /\ OtherHalf(w, "buryEntry")
       \/ pc[w] \in {"bury", "buryEntry"} /\ OtherHalf(w, "buryRow")
    /\ Fault
    /\ UNCHANGED <<rowVars, apiVars, bullVars, sweepVars, pastVars>>

\* LEASE_TTL_SECONDS after the claim.
LeaseExpires(j) ==
    /\ status[j] = "processing" /\ j \notin expired
    /\ expired' = expired \cup {j}
    /\ overran' = IF \E w \in Workers : Live(w, j) /\ pc[w] \in {"run", "finish"}
                      THEN overran \cup {j} ELSE overran
    /\ UNCHANGED <<status, depends_on, recurring, apiVars, bullVars, runVars, sweepVars, ran,
                   calledOff, buried, forked, spawned, budgetVars>>

(* --------------- SchedulerService.runSchedulerSweep --------------------- *)

SweepLocal == UNCHANGED <<apiVars, runVars, pastVars>>

\* Mutant: the lease is compared the wrong way round.
SweepFindLeased ==
    /\ sphase = "enqueue" /\ sset = {}
    /\ sphase' = "recover" /\ sset' = {j \in Jobs : status[j] = "processing"} \ expired
    /\ UNCHANGED <<rowVars, sdoomed, bullVars, budgetVars>> /\ SweepLocal

\* findStalledJobs.
SweepFindStalled ==
    /\ sphase = "enqueue" /\ sset = {}
    /\ sphase' = "recover" /\ sset' = expired
    /\ UNCHANGED <<rowVars, sdoomed, bullVars, budgetVars>> /\ SweepLocal

\* The reset names the id only: it judges by what the sweep read.
RecoverStalled(j) ==
    /\ sphase = "recover" /\ j \in sset
    /\ SetStatus(j, "pending") /\ expired' = expired \ {j}
    /\ sset' = sset \ {j}
    /\ UNCHANGED <<depends_on, recurring, sphase, sdoomed, bullVars, budgetVars>> /\ SweepLocal

\* findEligibleJobs, once the resets are through (or given up).
SweepFindEligible ==
    /\ sphase = "recover" /\ sset = {}
    /\ sphase' = "enqueue" /\ sset' = {j \in Jobs : status[j] = "pending"}
    /\ UNCHANGED <<rowVars, sdoomed, bullVars, budgetVars>> /\ SweepLocal

Doomed(j) == \E d \in Found(j) : status[d] \in {"failed", "cancelled"}

\* A dependency that cannot complete is to fail the job, ...
SweepJudge(j) ==
    /\ sphase = "enqueue" /\ sdoomed = NoJob
    /\ j \in sset /\ Doomed(j)
    /\ sdoomed' = j
    /\ UNCHANGED <<rowVars, sphase, sset, bullVars, budgetVars>> /\ SweepLocal

\* ... which the update then does, by id.
SweepCascade(j) ==
    /\ sdoomed = j
    /\ sdoomed' = NoJob /\ sset' = sset \ {j}
    /\ SetStatus(j, "failed") /\ expired' = expired \ {j}
    /\ UNCHANGED <<depends_on, recurring, sphase, bullVars, budgetVars>> /\ SweepLocal

\* Unmet dependencies skip the job, else it is enqueued. (An add that comes some
\* time after its check reaches nothing else: the worker checks again.)
SweepEligible(j) ==
    /\ sphase = "enqueue" /\ sdoomed = NoJob
    /\ j \in sset /\ ~Doomed(j)
    /\ sset' = sset \ {j}
    /\ \/ Unmet(j) # {} /\ UNCHANGED bullVars
       \/ Unmet(j) = {} /\ Add(j)
    /\ UNCHANGED <<rowVars, sphase, sdoomed, budgetVars>> /\ SweepLocal

\* A statement about a row throws: the other rows are still handled.
SweepThrows(j) ==
    /\ j \in sset /\ sdoomed \in {j, NoJob}
    /\ sset' = sset \ {j} /\ sdoomed' = NoJob
    /\ Fault
    /\ UNCHANGED <<rowVars, bullVars, sphase>> /\ SweepLocal

\* The process of the sweep dies; the next firing starts anew. So does, in
\* effect, a sweep whose query throws.
SweepDies ==
    /\ sset # {}
    /\ sphase' = "enqueue" /\ sset' = {} /\ sdoomed' = NoJob
    /\ Crash
    /\ UNCHANGED <<rowVars, bullVars>> /\ SweepLocal

(* ---------------- JobsService, DlqService: the API ---------------------- *)

ApiLocal == UNCHANGED <<runVars, sweepVars>>

\* createJob stores depends_on as it came: ids of rows, or of none. A job without
\* dependencies or schedule is enqueued after the insert. All that can come between is a sweep that adds the same id, or a
\* cancellation, and both commute with the add.
CreateJob(j) ==
    /\ \E deps \in SUBSET ({d \in Jobs : Exists(d)} \cup Strangers),
          recurs \in {r \in BOOLEAN : r => j \in Recurring} :
           /\ Insert(j, deps, recurs)
           /\ (deps = {} /\ Add(j)) \/ UNCHANGED bullVars
    /\ UNCHANGED <<apiVars, pastVars, budgetVars>> /\ ApiLocal

\* retryDlqJob reads the entry and creates a job with a new id, ...
RetryDlqJob(j, k) ==
    /\ j \in dlq
    /\ Insert(k, {}, FALSE)
    /\ Add(k)
    /\ retried' = retried \cup {j}
    /\ UNCHANGED <<dlq, cancelling, pastVars, budgetVars>> /\ ApiLocal

\* ... which throws when Redis refuses the add: the row and the entry stay.
RetryDlqJobThrows(j, k) ==
    /\ j \in dlq
    /\ Insert(k, {}, FALSE)
    /\ UNCHANGED <<apiVars, bullVars, pastVars, budgetVars>> /\ ApiLocal

\* The entry is deleted after its retry was created.
DeleteEntry(j) ==
    /\ j \in retried
    /\ retried' = retried \ {j} /\ dlq' = dlq \ {j}
    /\ UNCHANGED <<rowVars, cancelling, bullVars, pastVars, budgetVars>> /\ ApiLocal

\* cancelJob reads the row, ...
CancelLoad(j) ==
    /\ j \in Cancellable \ cancelling
    /\ status[j] \in {"pending", "processing", "cancelled"}
    /\ cancelling' = cancelling \cup {j}
    /\ UNCHANGED <<rowVars, dlq, retried, bullVars, pastVars, budgetVars>> /\ ApiLocal

\* ... and writes CANCELLED by id.
CancelWrite(j) ==
    /\ j \in cancelling
    /\ cancelling' = cancelling \ {j}
    /\ SetStatus(j, "cancelled") /\ expired' = expired \ {j}
    /\ calledOff' = IF status[j] = "pending" /\ ~InHandler(j)
                        THEN calledOff \cup {j} ELSE calledOff
    /\ UNCHANGED <<depends_on, recurring, dlq, retried, bullVars, ran, overran,
                   buried, forked, spawned, budgetVars>> /\ ApiLocal

-----------------------------------------------------------------------------

RunStep(w) ==
    \/ LoadJob(w) \/ CheckDeps(w) \/ ClaimJob(w) \/ HandlerReturns(w) \/ HandlerThrows(w)
    \/ CompleteJob(w) \/ ScheduleNextRecurrence(w) \/ SettleRun(w)
    \/ MoveToFailed(w) \/ MarkFailed(w) \/ MoveToDlq(w)

SweepStep ==
    \/ SweepFindStalled \/ SweepFindEligible
    \/ \E j \in Jobs :
        RecoverStalled(j) \/ SweepJudge(j) \/ SweepCascade(j) \/ SweepEligible(j)

ApiStep ==
    \/ \E j \in Jobs : CreateJob(j) \/ DeleteEntry(j) \/ CancelLoad(j) \/ CancelWrite(j)
    \/ \E j, k \in Jobs : RetryDlqJob(j, k) \/ RetryDlqJobThrows(j, k)

BullStep ==
    \/ \E w \in Workers, j \in Jobs : TakeJob(w, j)
    \/ \E j \in Jobs : StalledCheck(j) \/ RetentionExpires(j)

FaultStep ==
    \/ \E w \in Workers : RunThrows(w) \/ BuryThrows(w) \/ WorkerCrash(w) \/ LockLost(w)
    \/ \E j \in Jobs : SweepThrows(j)
    \/ SweepDies

Next ==
    \/ \E w \in Workers : RunStep(w)
    \/ SweepStep \/ ApiStep \/ BullStep \/ FaultStep
    \/ \E j \in Jobs : LeaseExpires(j)

Spec == Init /\ [][Next]_vars

\* Live runs go on, Bull hands jobs out, looks for stalled ones and ages out
\* settled ones, leases end, the sweep's cron keeps firing and an API call that
\* began goes on. A handler that can return does not throw for ever. Nobody has
\* to create, retry or cancel anything, and faults need not happen.
FairSpec ==
    /\ Spec
    /\ \A w \in Workers : WF_vars(RunStep(w)) /\ SF_vars(HandlerReturns(w))
    /\ \A j \in Jobs :
        /\ WF_vars(\E w \in Workers : TakeJob(w, j))
        /\ WF_vars(StalledCheck(j)) /\ SF_vars(RetentionExpires(j))
        /\ WF_vars(LeaseExpires(j))
        /\ WF_vars(CancelWrite(j)) /\ WF_vars(DeleteEntry(j))
    /\ WF_vars(SweepStep)

-----------------------------------------------------------------------------
(* ------------------------------ properties ----------------------------- *)

\* The DAG, for dependencies that are rows: whatever was recovered, cascaded or
\* cancelled, a handler starts only after the handler of every job it depends on
\* returned. An id of no row holds nothing back: findJobsByIds returns the rows
\* there are, and the worker and the sweep judge those.
DependenciesFirst ==
    \A w \in Workers : pc[w] = "run" => depends_on[wjob[w]] \cap Jobs \subseteq ran

\* claimJob: one worker runs a job at a time, through re-deliveries, lost Bull
\* locks and retries; only a lease that ran out under its run lets a second in.
\* And a job cancelled before any worker claimed it never runs, whoever has read
\* it as PENDING by then (sweep, worker, enqueue).
SoleDispatch ==
    \A v, w \in Workers :
        /\ pc[w] = "run" => wjob[w] \notin calledOff
        /\ pc[v] = "run" /\ pc[w] = "run" /\ wjob[v] = wjob[w] => v = w \/ wjob[v] \in overran

\* A job never fails silently: one that no dependency failed is or was a
\* dead letter, or is about to be, unless writing it failed.
FailedIsVisible ==
    \A j \in Jobs :
        status[j] = "failed" /\ depends_on[j] \subseteq Strangers =>
            \/ j \in buried \/ faults > 0 \/ crashes > 0
            \/ \E w \in Workers : Live(w, j) /\ pc[w] = "buryEntry"

\* A recurring series does not fork: a job schedules its next run once, however
\* often it is delivered, unless its run outlived its lease.
SeriesNotForked == forked \subseteq overran

\* A job that its handler can do is completed, failed or cancelled in the end,
\* whatever crashed or was retained under its id.
JobsResolve ==
    \A j \in Jobs \ Failing :
        (status[j] = "pending") ~> (status[j] \in {"completed", "failed", "cancelled"})
=============================================================================
