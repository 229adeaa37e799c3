-------------------------- MODULE RequestPipeline --------------------------
(***************************************************************************)
(* One request of distill-ai and everything that moves it through the      *)
(* seven-node pipeline: the HTTP intake that creates the row and enqueues  *)
(* a Bull job after commit, the Bull pipeline queue (external), the worker *)
(* runs of PipelineGraphEngine, the recovery sweep, and the people who     *)
(* resume, paste into, re-map, send or decline the request meanwhile.      *)
(* Requests share no state, so the module follows one of them.             *)
(*                                                                         *)
(* Every await of the engine that other actors can run between is a step   *)
(* boundary here: a worker's local variables (pc, rnode, rskip, rout) keep *)
(* what it read while the row changes under it.                            *)
(***************************************************************************)
EXTENDS Naturals

CONSTANTS
    Workers,        \* engine run slots (PIPELINE_CONCURRENCY x worker processes)
    KeyedJob,       \* the Bull job with jobId pipeline:<requestId>
    PasteJobs,      \* jobs the paste endpoint adds; Bull gives each its own id
    Decliners,      \* concurrent decline calls
    Registered,     \* nodes the NodeRegistry holds (all seven in the product)
    MaxStalled,     \* Bull's maxStalledCount (default 1)
    MaxCrashes,     \* bound: worker crashes
    MaxFaults,      \* bound: failed enqueues and thrown DB errors
    MaxLockLosses,  \* bound: runs that outlive their Bull lock
    MaxRemaps       \* bound: line-item re-maps

Jobs == {KeyedJob} \cup PasteJobs

ASSUME RequestPipelineAssumption ==
    /\ KeyedJob \notin PasteJobs
    /\ MaxStalled \in Nat /\ MaxCrashes \in Nat /\ MaxFaults \in Nat
    /\ MaxLockLosses \in Nat /\ MaxRemaps \in Nat

(* ------------------------- enums of the source ------------------------- *)

RequestStatus ==
    {"received", "parsing", "needs_review", "priced", "ready", "sent",
     "declined", "needs_clarification", "failed"}

TERMINAL_STATUSES == {"declined", "sent"}

DECLINE_SOURCES ==
    {"needs_review", "needs_clarification", "priced", "ready", "failed"}

\* Statuses quote delivery may move to "sent".
SENDABLE_STATUSES == {"ready", "priced", "needs_review"}

GraphNodes ==
    {"parse", "extract", "classify", "match", "price", "policy", "score"}

CurrentNode == GraphNodes \cup {"done", "failed"}

\* Each node returns a fixed successor in { kind: 'advance', next }.
NextNode ==
    [n \in GraphNodes |->
        CASE n = "parse"    -> "extract"
          [] n = "extract"  -> "classify"
          [] n = "classify" -> "match"
          [] n = "match"    -> "price"
          [] n = "price"    -> "policy"
          [] n = "policy"   -> "score"
          [] n = "score"    -> "done"]

\* What a run can be doing between two awaits of the engine.
RunPc ==
    {"idle", "load", "mark", "loop", "node", "persist", "advance",
     "failcp", "terminal", "finalize", "complete"}

JobState == {"absent", "waiting", "active", "completed", "failed"}

-----------------------------------------------------------------------------

VARIABLES
    \* the requests row, and the rows hanging off it
    status, current_node, routing,
    processing_started_at,  \* "null", or how old the stamp is: "recent" / "stale"
    created_at,             \* "recent" / "stale"
    extraction,             \* extractions row: "none" / "invalid" / "valid"
    hasQuote,               \* does a quotes row exist for the request
    \* the HTTP request that creates the row
    intake,                 \* "open" (in its transaction) / "committed" / "done" / "aborted"
    \* Bull
    jstate, jskip, jstalls,
    \* worker runs
    pc, rjob, rnode, rskip, rlock, rout,
    \* people
    paste,
    decline, original,
    \* bounds used so far
    crashes, faults, lockLosses, remaps

rowVars == <<status, current_node, routing, processing_started_at,
             created_at, extraction, hasQuote>>
bullVars == <<jstate, jskip, jstalls>>
runVars == <<pc, rjob, rnode, rskip, rlock, rout>>
humanVars == <<paste, decline, original>>
budgetVars == <<crashes, faults, lockLosses, remaps>>
vars == <<rowVars, intake, bullVars, runVars, humanVars, budgetVars>>

TypeOK ==
    /\ status \in RequestStatus
    /\ current_node \in CurrentNode
    /\ routing \in {"null", "auto_eligible", "needs_review"}
    /\ processing_started_at \in {"null", "recent", "stale"}
    /\ created_at \in {"recent", "stale"}
    /\ extraction \in {"none", "invalid", "valid"}
    /\ hasQuote \in BOOLEAN
    /\ intake \in {"open", "committed", "done", "aborted"}
    /\ jstate \in [Jobs -> JobState]
    /\ jskip \in [Jobs -> BOOLEAN]
    /\ jstalls \in [Jobs -> 0..MaxStalled]
    /\ pc \in [Workers -> RunPc]
    /\ rjob \in [Workers -> Jobs]
    /\ rnode \in [Workers -> CurrentNode]
    /\ rskip \in [Workers -> BOOLEAN]
    /\ rlock \in [Workers -> BOOLEAN]
    /\ rout \in [Workers -> RequestStatus]
    /\ paste \in [PasteJobs -> {"idle", "checked", "moved", "done"}]
    /\ decline \in [Decliners -> {"idle", "loaded", "won", "done"}]
    /\ original \in [Decliners -> RequestStatus]
    /\ crashes \in 0..MaxCrashes
    /\ faults \in 0..MaxFaults
    /\ lockLosses \in 0..MaxLockLosses
    /\ remaps \in 0..MaxRemaps

\* The intake transaction has inserted the row as PARSING at node PARSE and
\* not committed yet; nothing else knows of the request.
Init ==
    /\ status = "parsing"
    /\ current_node = "parse"
    /\ routing = "null"
    /\ processing_started_at = "null"
    /\ created_at = "recent"
    /\ extraction = "none"
    /\ hasQuote = FALSE
    /\ intake = "open"
    /\ jstate = [j \in Jobs |-> "absent"]
    /\ jskip = [j \in Jobs |-> FALSE]
    /\ jstalls = [j \in Jobs |-> 0]
    /\ pc = [w \in Workers |-> "idle"]
    /\ rjob = [w \in Workers |-> KeyedJob]
    /\ rnode = [w \in Workers |-> "parse"]
    /\ rskip = [w \in Workers |-> FALSE]
    /\ rlock = [w \in Workers |-> FALSE]
    /\ rout = [w \in Workers |-> "parsing"]
    /\ paste = [p \in PasteJobs |-> "idle"]
    /\ decline = [d \in Decliners |-> "idle"]
    /\ original = [d \in Decliners |-> "parsing"]
    /\ crashes = 0
    /\ faults = 0
    /\ lockLosses = 0
    /\ remaps = 0

\* The row can be read by other connections.
Committed == intake \in {"committed", "done"}

Fault ==
    /\ faults < MaxFaults
    /\ faults' = faults + 1

(* --------------------- RequestModelAction (the row) -------------------- *)

\* setStatus: skipped when the current status is terminal.
SetStatus(s) ==
    status' = IF status \in TERMINAL_STATUSES THEN status ELSE s

\* Mutant: the terminal guard is forgotten.
MarkProcessingUnguarded ==
    /\ status' = "parsing"
    /\ processing_started_at' = "recent"

\* markProcessing: PARSING and a fresh stamp, unless terminal.
MarkProcessing ==
    IF status \in TERMINAL_STATUSES
        THEN UNCHANGED <<status, processing_started_at>>
        ELSE /\ status' = "parsing"
             /\ processing_started_at' = "recent"

\* Mutant: only stamped rows are looked for.
StaleParsingStampedOnly ==
    /\ Committed
    /\ status = "parsing"
    /\ processing_started_at = "stale"

\* findStaleParsing: the stamp is older than the window, or there is no stamp
\* and the row is older than the window.
StaleParsing ==
    /\ Committed
    /\ status = "parsing"
    /\ \/ processing_started_at = "stale"
       \/ processing_started_at = "null" /\ created_at = "stale"

(* ------------------------------- Bull ---------------------------------- *)

\* queue.add with a job id: Bull drops the call when a job with that id exists
\* in any state, the retained completed and failed ones included.
Add(j, skip) ==
    IF jstate[j] = "absent"
        THEN /\ jstate' = [jstate EXCEPT ![j] = "waiting"]
             /\ jskip' = [jskip EXCEPT ![j] = skip]
             /\ jstalls' = [jstalls EXCEPT ![j] = 0]
        ELSE UNCHANGED bullVars

Idle(w) ==
    /\ pc' = [pc EXCEPT ![w] = "idle"]
    /\ rjob' = [rjob EXCEPT ![w] = KeyedJob]
    /\ rnode' = [rnode EXCEPT ![w] = "parse"]
    /\ rskip' = [rskip EXCEPT ![w] = FALSE]
    /\ rlock' = [rlock EXCEPT ![w] = FALSE]
    /\ rout' = [rout EXCEPT ![w] = "parsing"]

\* A run settles its job only while it holds the job's lock: moveToCompleted
\* and moveToFailed of a run that lost it change nothing.
SettleJob(w, s) ==
    IF rlock[w] THEN jstate' = [jstate EXCEPT ![rjob[w]] = s]
                ELSE UNCHANGED jstate

TakeJob(w, j) ==
    /\ pc[w] = "idle"
    /\ jstate[j] = "waiting"
    /\ jstate' = [jstate EXCEPT ![j] = "active"]
    /\ pc' = [pc EXCEPT ![w] = "load"]
    /\ rjob' = [rjob EXCEPT ![w] = j]
    /\ rskip' = [rskip EXCEPT ![w] = jskip[j]]
    /\ rlock' = [rlock EXCEPT ![w] = TRUE]
    /\ UNCHANGED <<rowVars, intake, jskip, jstalls, rnode, rout, humanVars,
                   budgetVars>>

HasLockHolder(j) == \E w \in Workers : pc[w] # "idle" /\ rjob[w] = j /\ rlock[w]

\* Mutant: one stall too many is forgiven.
StalledCheckOffByOne(j) ==
    /\ jstate[j] = "active"
    /\ ~HasLockHolder(j)
    /\ IF jstalls[j] <= MaxStalled
           THEN /\ jstate' = [jstate EXCEPT ![j] = "waiting"]
                /\ jstalls' = [jstalls EXCEPT ![j] = @ + 1]
           ELSE /\ jstate' = [jstate EXCEPT ![j] = "failed"]
                /\ UNCHANGED jstalls
    /\ UNCHANGED <<rowVars, intake, jskip, runVars, humanVars, budgetVars>>

\* Mutant: a job is called stalled while its run holds the lock.
StalledCheckIgnoringLock(j) ==
    /\ jstate[j] = "active"
    /\ jstalls[j] < MaxStalled
    /\ jstate' = [jstate EXCEPT ![j] = "waiting"]
    /\ jstalls' = [jstalls EXCEPT ![j] = @ + 1]
    /\ UNCHANGED <<rowVars, intake, jskip, runVars, humanVars, budgetVars>>

\* The stalled check: an active job nobody holds a lock on goes back to the
\* queue, or to failed once it has stalled MaxStalled times already.
StalledCheck(j) ==
    /\ jstate[j] = "active"
    /\ ~HasLockHolder(j)
    /\ IF jstalls[j] < MaxStalled
           THEN /\ jstate' = [jstate EXCEPT ![j] = "waiting"]
                /\ jstalls' = [jstalls EXCEPT ![j] = @ + 1]
           ELSE /\ jstate' = [jstate EXCEPT ![j] = "failed"]
                /\ UNCHANGED jstalls
    /\ UNCHANGED <<rowVars, intake, jskip, runVars, humanVars, budgetVars>>

\* removeOnComplete / removeOnFail: a settled job is kept 24 h / 7 days.
RetentionExpires(j) ==
    /\ jstate[j] \in {"completed", "failed"}
    /\ jstate' = [jstate EXCEPT ![j] = "absent"]
    /\ jskip' = [jskip EXCEPT ![j] = FALSE]
    /\ jstalls' = [jstalls EXCEPT ![j] = 0]
    /\ UNCHANGED <<rowVars, intake, runVars, humanVars, budgetVars>>

\* The worker process dies; its job stays active until the stalled check.
WorkerCrash(w) ==
    /\ pc[w] # "idle"
    /\ crashes < MaxCrashes
    /\ crashes' = crashes + 1
    /\ Idle(w)
    /\ UNCHANGED <<rowVars, intake, bullVars, humanVars, faults, lockLosses, remaps>>

\* The event loop or Redis stalls longer than lockDuration: the run goes on
\* without its lock.
LockLost(w) ==
    /\ pc[w] # "idle" /\ rlock[w]
    /\ lockLosses < MaxLockLosses
    /\ lockLosses' = lockLosses + 1
    /\ rlock' = [rlock EXCEPT ![w] = FALSE]
    /\ UNCHANGED <<rowVars, intake, bullVars, pc, rjob, rnode, rskip, rout,
                   humanVars, crashes, faults, remaps>>

(* ------------------- PipelineGraphEngine.runInternal ------------------- *)

Goto(w, label) == pc' = [pc EXCEPT ![w] = label]

\* Steps of a run that touch neither the row nor any other actor.
RunLocal == UNCHANGED <<rowVars, intake, bullVars, humanVars, budgetVars>>

\* Mutant: every run starts over at parse.
LoadRequestFromParse(w) ==
    /\ pc[w] = "load"
    /\ Committed
    /\ rnode' = [rnode EXCEPT ![w] = "parse"]
    /\ Goto(w, "mark")
    /\ UNCHANGED <<rowVars, intake, bullVars, rjob, rskip, rlock, rout, humanVars,
                   budgetVars>>

\* requests.get: a missing row ends the run; otherwise the node to start from
\* is the one read here.
LoadRequest(w) ==
    /\ pc[w] = "load"
    /\ IF Committed
           THEN /\ rnode' = [rnode EXCEPT ![w] = current_node]
                /\ Goto(w, "mark")
                /\ UNCHANGED <<jstate, rjob, rskip, rlock, rout>>
           ELSE SettleJob(w, "completed") /\ Idle(w)
    /\ UNCHANGED <<rowVars, intake, jskip, jstalls, humanVars, budgetVars>>

\* request.resumed is emitted, then markProcessing.
StartProcessing(w) ==
    /\ pc[w] = "mark"
    /\ MarkProcessing
    /\ Goto(w, "loop")
    /\ UNCHANGED <<current_node, routing, created_at, extraction, hasQuote, intake,
                   bullVars, rjob, rnode, rskip, rlock, rout, humanVars, budgetVars>>

\* Head of the while loop: stop at done / failed, refuse an unregistered node,
\* skip extract when told to, or enter the node. The transition limit
\* (MAX_NODE_TRANSITIONS) cannot trip: every advance moves to a later node.
LoopHead(w) ==
    /\ pc[w] = "loop"
    /\ Goto(w, CASE rnode[w] \in {"done", "failed"}          -> "terminal"
                 [] rnode[w] \in GraphNodes \ Registered     -> "failcp"
                 [] rnode[w] = "extract" /\ rskip[w]
                      /\ rnode[w] \in Registered             -> "advance"
                 [] OTHER                                    -> "node")
    /\ UNCHANGED <<rjob, rnode, rskip, rlock, rout>>
    /\ RunLocal

\* How the engine leaves a node. An interrupted run goes to finalize with the
\* status it decided; clarify, a logical error and an open circuit breaker
\* leave the checkpoint alone.
LeaveNode(w, outcome) ==
    /\ Goto(w, CASE outcome = "advance"              -> "advance"
                 [] outcome \in {"infra", "failed"}  -> "failcp"
                 [] OTHER                            -> "finalize")
    /\ rout' = [rout EXCEPT ![w] =
                   CASE outcome = "clarify"                 -> "needs_clarification"
                     [] outcome \in {"logical", "breaker"}  -> "needs_review"
                     [] OTHER                               -> @]

\* Ways a node may end without advancing: the NodeResult and error contract.
\* Only the parse node asks for clarification.
Interruptions(n) ==
    {"logical", "breaker", "infra", "failed"}
        \cup (IF n = "parse" THEN {"clarify"} ELSE {})

NodeInterrupted(w) ==
    /\ pc[w] \in {"node", "persist"}
    /\ \E o \in Interruptions(rnode[w]) : LeaveNode(w, o)
    /\ UNCHANGED <<rjob, rnode, rskip, rlock>>
    /\ RunLocal

\* parse, classify, match and policy: nothing this module keeps changes.
RunPlainNode(w) ==
    /\ pc[w] = "node"
    /\ rnode[w] \in {"parse", "classify", "match", "policy"}
    /\ LeaveNode(w, "advance")
    /\ UNCHANGED <<rjob, rnode, rskip, rlock>>
    /\ RunLocal

\* Mutant: the LLM is asked again on every visit.
RunExtractAgain(w) ==
    /\ pc[w] = "node"
    /\ rnode[w] = "extract"
    /\ Goto(w, "persist")
    /\ UNCHANGED <<rowVars, intake, bullVars, rjob, rnode, rskip, rlock, rout,
                   paste, decline, original, budgetVars>>

\* extract: a valid extraction is kept and neither the source text nor the LLM
\* is looked at again; otherwise aggregateSourceText reads every pasted text.
RunExtract(w) ==
    /\ pc[w] = "node"
    /\ rnode[w] = "extract"
    /\ IF extraction = "valid"
           THEN Goto(w, "advance")
           ELSE Goto(w, "persist")
    /\ UNCHANGED <<rowVars, intake, bullVars, rjob, rnode, rskip, rlock, rout,
                   paste, decline, original, budgetVars>>

\* The bounded LLM loop ends in persistSuccess or persistFailure; either way
\* the pipeline goes on (fail closed at scoring).
PersistExtraction(w) ==
    /\ pc[w] = "persist"
    /\ extraction' \in {"valid", "invalid"}
    /\ LeaveNode(w, "advance")
    /\ UNCHANGED <<status, current_node, routing, processing_started_at, created_at,
                   hasQuote, intake, bullVars, rjob, rnode, rskip, rlock,
                   humanVars, budgetVars>>

\* price: the quote row is replaced, or deleted when nothing can be priced. An
\* extraction that failed reconciliation may still hold a payload the vertical
\* engines price; without an extraction row there is nothing to price.
RunPrice(w) ==
    /\ pc[w] = "node"
    /\ rnode[w] = "price"
    /\ hasQuote' \in IF extraction = "none" THEN {FALSE} ELSE BOOLEAN
    /\ LeaveNode(w, "advance")
    /\ UNCHANGED <<status, current_node, routing, processing_started_at, created_at,
                   extraction, intake, bullVars, rjob, rnode, rskip, rlock,
                   humanVars, budgetVars>>

\* score: routing and the done checkpoint are one UPDATE; an invalid extraction
\* is never auto-eligible.
RunScore(w) ==
    /\ pc[w] = "node"
    /\ rnode[w] = "score"
    /\ routing' \in IF extraction = "valid"
                        THEN {"auto_eligible", "needs_review"}
                        ELSE {"needs_review"}
    /\ current_node' = "done"
    /\ LeaveNode(w, "advance")
    /\ UNCHANGED <<status, processing_started_at, created_at, extraction, hasQuote,
                   intake, bullVars, rjob, rnode, rskip, rlock, humanVars, budgetVars>>

\* Mutant: the next node is entered before its checkpoint is written.
AdvanceUnsaved(w) ==
    /\ pc[w] = "advance"
    /\ rnode' = [rnode EXCEPT ![w] = NextNode[rnode[w]]]
    /\ Goto(w, "loop")
    /\ UNCHANGED <<rowVars, intake, bullVars, rjob, rskip, rlock, rout, humanVars,
                   budgetVars>>

\* checkpoint(next), after node.exited was written.
Advance(w) ==
    /\ pc[w] = "advance"
    /\ current_node' = NextNode[rnode[w]]
    /\ rnode' = [rnode EXCEPT ![w] = NextNode[rnode[w]]]
    /\ Goto(w, "loop")
    /\ UNCHANGED <<status, routing, processing_started_at, created_at, extraction,
                   hasQuote, intake, bullVars, rjob, rskip, rlock, rout,
                   humanVars, budgetVars>>

\* Mutant: FAILED is published without its checkpoint.
CheckpointFailedUnsaved(w) ==
    /\ pc[w] = "failcp"
    /\ rout' = [rout EXCEPT ![w] = "failed"]
    /\ Goto(w, "finalize")
    /\ UNCHANGED <<rjob, rnode, rskip, rlock>>
    /\ RunLocal

\* checkpoint(FAILED), then finalize with FAILED.
CheckpointFailed(w) ==
    /\ pc[w] = "failcp"
    /\ current_node' = "failed"
    /\ rout' = [rout EXCEPT ![w] = "failed"]
    /\ Goto(w, "finalize")
    /\ UNCHANGED <<status, routing, processing_started_at, created_at, extraction,
                   hasQuote, intake, bullVars, rjob, rnode, rskip, rlock,
                   humanVars, budgetVars>>

\* Mutant: reaching the end of the graph is taken for being auto-eligible.
ComputeTerminalStatusByNode(w) ==
    /\ pc[w] = "terminal"
    /\ rout' = [rout EXCEPT ![w] = IF rnode[w] = "failed" THEN "failed" ELSE "priced"]
    /\ Goto(w, "finalize")
    /\ UNCHANGED <<rjob, rnode, rskip, rlock>>
    /\ RunLocal

\* computeTerminalStatus re-reads routing.
ComputeTerminalStatus(w) ==
    /\ pc[w] = "terminal"
    /\ rout' = [rout EXCEPT ![w] =
                   CASE rnode[w] = "failed"          -> "failed"
                     [] rnode[w] # "failed"
                          /\ routing = "auto_eligible" -> "priced"
                     [] OTHER                        -> "needs_review"]
    /\ Goto(w, "finalize")
    /\ UNCHANGED <<rjob, rnode, rskip, rlock>>
    /\ RunLocal

Finalize(w) ==
    /\ pc[w] = "finalize"
    /\ SetStatus(rout[w])
    /\ Goto(w, "complete")
    /\ UNCHANGED <<current_node, routing, processing_started_at, created_at, extraction,
                   hasQuote, intake, bullVars, rjob, rnode, rskip, rlock, rout,
                   humanVars, budgetVars>>

\* processing.complete and request.finalized are written; the job is done.
CompleteRun(w) ==
    /\ pc[w] = "complete"
    /\ SettleJob(w, "completed")
    /\ Idle(w)
    /\ UNCHANGED <<rowVars, intake, jskip, jstalls, humanVars, budgetVars>>

\* A read, an update or an audit insert outside the node's try block throws:
\* the run ends there and Bull fails the job (attempts: 1).
RunThrows(w) ==
    /\ pc[w] \in RunPc \ {"idle", "node", "persist"}
    /\ Fault
    /\ SettleJob(w, "failed")
    /\ Idle(w)
    /\ UNCHANGED <<rowVars, intake, jskip, jstalls, humanVars, crashes, lockLosses, remaps>>

(* ------------------------------ ingestion ------------------------------ *)

CommitRequest ==
    /\ intake = "open"
    /\ intake' = "committed"
    /\ UNCHANGED <<rowVars, bullVars, runVars, humanVars, budgetVars>>

RollbackRequest ==
    /\ intake = "open"
    /\ intake' = "aborted"
    /\ UNCHANGED <<rowVars, bullVars, runVars, humanVars, budgetVars>>

\* Mutant: the job is added inside the transaction.
EnqueueRequestEarly ==
    /\ intake \in {"open", "committed"}
    /\ intake' = IF intake = "open" THEN "open" ELSE "done"
    /\ Add(KeyedJob, FALSE)
    /\ UNCHANGED <<rowVars, runVars, humanVars, budgetVars>>

\* The after-commit task: enqueueOrRecover.
EnqueueRequest ==
    /\ intake = "committed"
    /\ intake' = "done"
    /\ Add(KeyedJob, FALSE)
    /\ UNCHANGED <<rowVars, runVars, humanVars, budgetVars>>

\* Redis refuses the job: the row is stamped so that the sweep owns it, unless
\* that write fails too or the API process died before it got here.
EnqueueFails ==
    /\ intake = "committed"
    /\ Fault
    /\ intake' = "done"
    /\ MarkProcessing \/ UNCHANGED <<status, processing_started_at>>
    /\ UNCHANGED <<current_node, routing, created_at, extraction, hasQuote, bullVars,
                   runVars, humanVars, crashes, lockLosses, remaps>>

(* --------------------------- recovery sweep ---------------------------- *)

\* SWEEP_STALE_SECONDS pass on the database clock: the row and its stamp, which
\* is never older, are both past the window.
WindowPasses ==
    /\ Committed
    /\ created_at = "recent" \/ processing_started_at = "recent"
    /\ created_at' = "stale"
    /\ processing_started_at' =
           IF processing_started_at = "null" THEN "null" ELSE "stale"
    /\ UNCHANGED <<status, current_node, routing, extraction, hasQuote,
                   intake, bullVars, runVars, humanVars, budgetVars>>

\* RecoverySweep.sweep on its cron or at boot: resumeFromCurrentNode with
\* reason crash_recovery and no skipExtract.
Sweep ==
    /\ StaleParsing
    /\ Add(KeyedJob, FALSE)
    /\ UNCHANGED <<rowVars, intake, runVars, humanVars, budgetVars>>

(* -------------------------------- people ------------------------------- *)

\* POST /requests/:id/resume, from any status.
Resume ==
    /\ Committed
    /\ Add(KeyedJob, extraction = "valid")
    /\ UNCHANGED <<rowVars, intake, runVars, humanVars, budgetVars>>

\* AttachmentsService.paste: 409 while PARSING, ...
PasteCheck(p) ==
    /\ paste[p] = "idle"
    /\ Committed /\ status # "parsing"
    /\ paste' = [paste EXCEPT ![p] = "checked"]
    /\ UNCHANGED <<rowVars, intake, bullVars, runVars, decline, original, budgetVars>>

\* ... the text is stored and the checkpoint moved back to EXTRACT, ...
PasteCheckpoint(p) ==
    /\ paste[p] = "checked"
    /\ current_node' = "extract"
    /\ paste' = [paste EXCEPT ![p] = "moved"]
    /\ UNCHANGED <<status, routing, processing_started_at, created_at, extraction,
                   hasQuote, intake, bullVars, runVars, decline, original, budgetVars>>

\* ... and a job is added that carries no jobId.
PasteEnqueue(p) ==
    /\ paste[p] = "moved"
    /\ Add(p, FALSE)
    /\ paste' = [paste EXCEPT ![p] = "done"]
    /\ UNCHANGED <<rowVars, intake, runVars, decline, original, budgetVars>>

\* The request the controller loads, whose status decline restores on failure.
DeclineLoad(d) ==
    /\ decline[d] = "idle"
    /\ Committed
    /\ decline' = [decline EXCEPT ![d] = "loaded"]
    /\ original' = [original EXCEPT ![d] = status]
    /\ UNCHANGED <<rowVars, intake, bullVars, runVars, paste, budgetVars>>

\* trySetStatus(DECLINED, DECLINE_SOURCES); the loser gets 200 or 409.
DeclineTry(d) ==
    /\ decline[d] = "loaded"
    /\ IF status \in DECLINE_SOURCES
           THEN /\ status' = "declined"
                /\ decline' = [decline EXCEPT ![d] = "won"]
           ELSE /\ decline' = [decline EXCEPT ![d] = "done"]
                /\ UNCHANGED status
    /\ UNCHANGED <<current_node, routing, processing_started_at, created_at, extraction,
                   hasQuote, intake, bullVars, runVars, paste, original, budgetVars>>

DeclineAudited(d) ==
    /\ decline[d] = "won"
    /\ decline' = [decline EXCEPT ![d] = "done"]
    /\ UNCHANGED <<rowVars, intake, bullVars, runVars, paste, original, budgetVars>>

\* The request.declined insert throws: trySetStatus(originalStatus).
DeclineReverted(d) ==
    /\ decline[d] = "won"
    /\ Fault
    /\ status' = original[d]
    /\ decline' = [decline EXCEPT ![d] = "done"]
    /\ UNCHANGED <<current_node, routing, processing_started_at, created_at, extraction,
                   hasQuote, intake, bullVars, runVars, paste, original, crashes,
                   lockLosses, remaps>>

\* LineItemRemapActions.remap: the quote is recomputed (replaced or deleted),
\* and a blocked result writes NEEDS_REVIEW over any status.
Remap ==
    /\ Committed /\ extraction # "none"
    /\ remaps < MaxRemaps
    /\ remaps' = remaps + 1
    /\ hasQuote' \in BOOLEAN
    /\ status' \in {status, "needs_review"}
    /\ UNCHANGED <<current_node, routing, processing_started_at, created_at, extraction,
                   intake, bullVars, runVars, humanVars, crashes, faults, lockLosses>>

\* QuoteDeliveryService: trySetStatus(SENT) after the customer e-mail.
MarkSent ==
    /\ Committed /\ hasQuote
    /\ status \in SENDABLE_STATUSES
    /\ status' = "sent"
    /\ UNCHANGED <<current_node, routing, processing_started_at, created_at, extraction,
                   hasQuote, intake, bullVars, runVars, humanVars, budgetVars>>

-----------------------------------------------------------------------------

\* The steps of the engine in worker w.
EngineStep(w) ==
    \/ LoadRequest(w) \/ StartProcessing(w) \/ LoopHead(w)
    \/ RunPlainNode(w) \/ RunExtract(w) \/ PersistExtraction(w)
    \/ RunPrice(w) \/ RunScore(w) \/ NodeInterrupted(w)
    \/ Advance(w) \/ CheckpointFailed(w) \/ ComputeTerminalStatus(w)
    \/ Finalize(w) \/ CompleteRun(w)

IntakeStep == CommitRequest \/ RollbackRequest \/ EnqueueRequest \/ EnqueueFails

BullStep ==
    \/ \E w \in Workers, j \in Jobs : TakeJob(w, j)
    \/ \E j \in Jobs : StalledCheck(j) \/ RetentionExpires(j)

FaultStep == \E w \in Workers : WorkerCrash(w) \/ LockLost(w) \/ RunThrows(w)

SweepStep == WindowPasses \/ Sweep

PasteStep == \E p \in PasteJobs : PasteCheck(p) \/ PasteCheckpoint(p) \/ PasteEnqueue(p)

DeclineStep ==
    \E d \in Decliners :
        DeclineLoad(d) \/ DeclineTry(d) \/ DeclineAudited(d) \/ DeclineReverted(d)

HumanStep == Resume \/ PasteStep \/ DeclineStep \/ Remap \/ MarkSent

Next ==
    \/ \E w \in Workers : EngineStep(w)
    \/ IntakeStep \/ BullStep \/ FaultStep \/ SweepStep \/ HumanStep

Spec == Init /\ [][Next]_vars

\* Workers take jobs and finish runs, Bull runs its stalled check and ages out
\* settled jobs, time passes and the sweep keeps its cron. The API finishes a
\* call it started. Faults and people's calls are not fair.
Fairness ==
    /\ \A w \in Workers : WF_vars(EngineStep(w))
    /\ \A j \in Jobs :
        /\ WF_vars(\E w \in Workers : TakeJob(w, j))
        /\ WF_vars(StalledCheck(j))
        /\ WF_vars(RetentionExpires(j))
    /\ WF_vars(CommitRequest \/ RollbackRequest)
    /\ WF_vars(EnqueueRequest \/ EnqueueFails)
    /\ WF_vars(WindowPasses) /\ WF_vars(Sweep)
    /\ \A p \in PasteJobs : WF_vars(PasteCheckpoint(p)) /\ WF_vars(PasteEnqueue(p))
    /\ \A d \in Decliners : WF_vars(DeclineAudited(d) \/ DeclineReverted(d))

FairSpec == Spec /\ Fairness

-----------------------------------------------------------------------------
(* ------------------------------ properties ----------------------------- *)

Busy(w) == pc[w] # "idle"

\* Bull's locks work as the engine relies on: two live runs never both hold the
\* lock of one job, through stalls, crashes and re-deliveries.
LockHoldersUnique ==
    \A v, w \in Workers :
        Busy(v) /\ Busy(w) /\ rlock[v] /\ rlock[w] /\ rjob[v] = rjob[w] => v = w

\* Enqueueing after commit (ingestion.service.ts): whoever reads the request for
\* a run finds the row, so no run is dropped as pipeline_request_not_found.
RunFindsRow == \A w \in Workers : pc[w] = "load" => Committed

\* One run at a time: what the stable jobId gives a request that only intake,
\* sweep and resume enqueue.
SoleRun == \A v, w \in Workers : Busy(v) /\ Busy(w) => v = w

\* A node that runs sees the checkpoint set to itself (graph-resume.spec.ts), so
\* a crash inside a node resumes at that node.
NodeAtItsCheckpoint ==
    \A w \in Workers : pc[w] \in {"node", "persist"} => current_node = rnode[w]

\* The status people act on agrees with how far the pipeline got: PRICED only
\* after scoring said auto-eligible, FAILED only with the failed checkpoint,
\* clarification only before anything was extracted.
VerdictMatchesCheckpoint ==
    /\ status = "priced" => current_node = "done" /\ routing = "auto_eligible"
    /\ status = "failed" => current_node = "failed"
    /\ status = "needs_clarification" => current_node = "parse" /\ extraction = "none"

\* quote-approval.constants.ts: a NEEDS_CLARIFICATION request never has a quote.
ClarifyingHasNoQuote == status = "needs_clarification" => ~hasQuote

\* The checkpoint only moves forward in the graph: a stale write of an earlier
\* node never undoes progress.
Rank ==
    [n \in CurrentNode |->
        CASE n = "parse"    -> 0
          [] n = "extract"  -> 1
          [] n = "classify" -> 2
          [] n = "match"    -> 3
          [] n = "price"    -> 4
          [] n = "policy"   -> 5
          [] n = "score"    -> 6
          [] n = "done"     -> 7
          [] n = "failed"   -> 8]

CheckpointForward == [][Rank[current_node'] >= Rank[current_node]]_vars

\* A valid extraction is never replaced (extract.node.ts skips the LLM on
\* resume), so resuming cannot turn a good extraction into a failed one.
ValidExtractionKept == [][extraction = "valid" => extraction' = "valid"]_vars

\* The engine, the queue and the sweep never take a request out of DECLINED or
\* SENT (requests.model-action.ts): only a re-map or a decline that could not
\* be audited does.
OnlyPeopleReopen ==
    [][(status \in TERMINAL_STATUSES /\ status' # status)
           => (Remap \/ \E d \in Decliners : DeclineReverted(d))]_vars

\* A committed request does not stay PARSING for ever, whatever crashed: some
\* run, re-delivery or sweep brings it to a status people can act on.
ParsingResolved == (Committed /\ status = "parsing") ~> (status # "parsing")

\* queue.add(KeyedJob) called now leaves the job waiting or running.
AddTakesEffect == jstate[KeyedJob] \notin {"completed", "failed"}

\* The pipeline as its users see it: one sequential pass over the graph. A row
\* that is not committed does not exist for them.
Graph == INSTANCE ResumableGraph WITH
            Nodes <- GraphNodes,
            Edge <- NextNode,
            status <- IF Committed THEN status ELSE "none",
            node <- current_node,
            quote <- hasQuote

\* Redelivered jobs, crashed runs, sweeps and resumes are invisible at the row:
\* what they do to it is what one uninterrupted engine could have done, and a
\* pass that began is concluded.
ImplementsResumableGraph == Graph!Spec

\* recovery.sweep.ts: a request left mid-flight is re-enqueued, so that a worker
\* crash never strands it. Whenever the sweep selects it, its add has effect.
SweepReenqueues == StaleParsing => AddTakesEffect
=============================================================================
