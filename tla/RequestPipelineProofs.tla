----------------------- MODULE RequestPipelineProofs -----------------------
(***************************************************************************)
(* Proofs about RequestPipeline, for every set of workers, paste jobs and  *)
(* decline calls and every value of the bounds.                            *)
(***************************************************************************)
EXTENDS RequestPipeline, TLAPS

(* --------------------------- type correctness -------------------------- *)

\* A run that works on a node, moves past it or fails at it is at a node of the
\* graph, so the successor it writes is a checkpoint.
RunAtGraphNode ==
    \A w \in Workers :
        pc[w] \in {"node", "persist", "advance", "failcp"} => rnode[w] \in GraphNodes

TypeInv == TypeOK /\ RunAtGraphNode

\* NextNode maps every node of the graph to a checkpoint value.
LEMMA NextNodeTyped == \A n \in GraphNodes : NextNode[n] \in CurrentNode
  BY DEF NextNode, GraphNodes, CurrentNode

\* A fresh request, before intake commits, is typed.
LEMMA TypeInvInit == Init => TypeInv
<1> SUFFICES ASSUME Init PROVE TypeInv
  OBVIOUS
<1> USE RequestPipelineAssumption
    DEF Init, RequestStatus, CurrentNode, GraphNodes, RunPc, JobState, Jobs,
        RequestPipelineAssumption
<1>1. RunAtGraphNode
  BY DEF RunAtGraphNode
<1>2. /\ jstate \in [Jobs -> JobState]
      /\ jskip \in [Jobs -> BOOLEAN]
      /\ jstalls \in [Jobs -> 0..MaxStalled]
  OBVIOUS
<1>3. /\ pc \in [Workers -> RunPc]
      /\ rjob \in [Workers -> Jobs]
      /\ rnode \in [Workers -> CurrentNode]
      /\ rout \in [Workers -> RequestStatus]
  OBVIOUS
<1>4. rskip \in [Workers -> BOOLEAN] /\ rlock \in [Workers -> BOOLEAN]
  OBVIOUS
<1>5. /\ paste \in [PasteJobs -> {"idle", "checked", "moved", "done"}]
      /\ decline \in [Decliners -> {"idle", "loaded", "won", "done"}]
      /\ original \in [Decliners -> RequestStatus]
  OBVIOUS
<1>6. hasQuote \in BOOLEAN
  OBVIOUS
<1>7. QED
  BY <1>1, <1>2, <1>3, <1>4, <1>5, <1>6 DEF TypeInv, TypeOK

\* Adding a job, or dropping the call, keeps the queue's variables typed.
LEMMA AddTyped ==
  ASSUME TypeOK, NEW j \in Jobs, NEW skip \in BOOLEAN, Add(j, skip)
  PROVE  /\ jstate' \in [Jobs -> JobState]
         /\ jskip' \in [Jobs -> BOOLEAN]
         /\ jstalls' \in [Jobs -> 0..MaxStalled]
<1>1. CASE jstate[j] = "absent"
  <2>1. jstate' \in [Jobs -> JobState]
    BY <1>1 DEF Add, JobState, TypeOK
  <2>2. jskip' \in [Jobs -> BOOLEAN]
    BY <1>1 DEF Add, TypeOK
  <2>3. jstalls' \in [Jobs -> 0..MaxStalled]
    BY <1>1, RequestPipelineAssumption DEF Add, RequestPipelineAssumption, TypeOK
  <2>4. QED
    BY <2>1, <2>2, <2>3
<1>2. CASE jstate[j] # "absent"
  BY <1>2 DEF Add, bullVars, TypeOK
<1>3. QED
  BY <1>1, <1>2

\* No step of the engine, the queue, the sweep or a person breaks a type.
LEMMA TypeInvStep == TypeInv /\ [Next]_vars => TypeInv'
<1> SUFFICES ASSUME TypeInv, [Next]_vars PROVE TypeInv'
  OBVIOUS
<1> USE RequestPipelineAssumption
    DEF TypeInv, TypeOK, RunAtGraphNode, RequestStatus, CurrentNode, GraphNodes, RunPc,
        JobState, Jobs, RequestPipelineAssumption, vars, rowVars, bullVars, runVars,
        humanVars, budgetVars
<1>1. ASSUME NEW w \in Workers, EngineStep(w)
      PROVE  TypeInv'
  <2>1. CASE LoadRequest(w)
    <3>1. CASE Committed
      BY <2>1, <3>1 DEF LoadRequest, Goto
    <3>2. CASE ~Committed
      <4>1. SettleJob(w, "completed") /\ Idle(w)
        BY <2>1, <3>2 DEF LoadRequest
      <4>2. jstate' \in [Jobs -> JobState]
        BY <4>1 DEF SettleJob
      <4>3. /\ pc' \in [Workers -> RunPc]
            /\ rjob' \in [Workers -> Jobs]
            /\ rnode' \in [Workers -> CurrentNode]
            /\ rskip' \in [Workers -> BOOLEAN]
            /\ rlock' \in [Workers -> BOOLEAN]
            /\ rout' \in [Workers -> RequestStatus]
        BY <4>1 DEF Idle
      <4>4. RunAtGraphNode'
        BY <4>1 DEF Idle
      <4>5. QED
        BY <2>1, <4>2, <4>3, <4>4 DEF LoadRequest
    <3>3. QED
      BY <3>1, <3>2
  <2>2. CASE StartProcessing(w)
    BY <2>2 DEF StartProcessing, MarkProcessing, Goto
  <2>3. CASE LoopHead(w)
    BY <2>3 DEF LoopHead, Goto, RunLocal
  <2>4. CASE RunPlainNode(w)
    BY <2>4 DEF RunPlainNode, LeaveNode, Goto, RunLocal
  <2>5. CASE RunExtract(w)
    BY <2>5 DEF RunExtract, Goto
  <2>6. CASE PersistExtraction(w)
    BY <2>6 DEF PersistExtraction, LeaveNode, Goto
  <2>7. CASE RunPrice(w)
    <3>1. hasQuote' \in BOOLEAN
      BY <2>7 DEF RunPrice
    <3>2. QED
      BY <2>7, <3>1 DEF RunPrice, LeaveNode, Goto
  <2>8. CASE RunScore(w)
    BY <2>8 DEF RunScore, LeaveNode, Goto
  <2>9. CASE NodeInterrupted(w)
    BY <2>9 DEF NodeInterrupted, Interruptions, LeaveNode, Goto, RunLocal
  <2>10. CASE Advance(w)
    BY <2>10, NextNodeTyped DEF Advance, Goto
  <2>11. CASE CheckpointFailed(w)
    BY <2>11 DEF CheckpointFailed, Goto
  <2>12. CASE ComputeTerminalStatus(w)
    BY <2>12 DEF ComputeTerminalStatus, Goto, RunLocal
  <2>13. CASE Finalize(w)
    BY <2>13 DEF Finalize, SetStatus, Goto
  <2>14. CASE CompleteRun(w)
    BY <2>14 DEF CompleteRun, SettleJob, Idle
  <2>15. QED
    BY <1>1, <2>1, <2>2, <2>3, <2>4, <2>5, <2>6, <2>7, <2>8, <2>9, <2>10, <2>11, <2>12,
       <2>13, <2>14 DEF EngineStep
<1>2. CASE IntakeStep
  <2>1. CASE CommitRequest
    BY <2>1 DEF CommitRequest
  <2>2. CASE RollbackRequest
    BY <2>2 DEF RollbackRequest
  <2>3. CASE EnqueueRequest
    <3>1. Add(KeyedJob, FALSE)
      BY <2>3 DEF EnqueueRequest
    <3>2. /\ jstate' \in [Jobs -> JobState]
          /\ jskip' \in [Jobs -> BOOLEAN]
          /\ jstalls' \in [Jobs -> 0..MaxStalled]
      BY <3>1, AddTyped
    <3>3. QED
      BY <2>3, <3>2 DEF EnqueueRequest
  <2>4. CASE EnqueueFails
    BY <2>4 DEF EnqueueFails, Fault, MarkProcessing
  <2>5. QED
    BY <1>2, <2>1, <2>2, <2>3, <2>4 DEF IntakeStep
<1>3. CASE BullStep
  <2>1. ASSUME NEW w \in Workers, NEW j \in Jobs, TakeJob(w, j)
        PROVE  TypeInv'
    BY <2>1 DEF TakeJob
  <2>2. ASSUME NEW j \in Jobs, StalledCheck(j)
        PROVE  TypeInv'
    BY <2>2 DEF StalledCheck, HasLockHolder
  <2>3. ASSUME NEW j \in Jobs, RetentionExpires(j)
        PROVE  TypeInv'
    BY <2>3 DEF RetentionExpires
  <2>4. QED
    BY <1>3, <2>1, <2>2, <2>3 DEF BullStep
<1>4. CASE FaultStep
  <2>1. ASSUME NEW w \in Workers, WorkerCrash(w)
        PROVE  TypeInv'
    BY <2>1 DEF WorkerCrash, Idle
  <2>2. ASSUME NEW w \in Workers, LockLost(w)
        PROVE  TypeInv'
    BY <2>2 DEF LockLost
  <2>3. ASSUME NEW w \in Workers, RunThrows(w)
        PROVE  TypeInv'
    BY <2>3 DEF RunThrows, Fault, SettleJob, Idle
  <2>4. QED
    BY <1>4, <2>1, <2>2, <2>3 DEF FaultStep
<1>5. CASE SweepStep
  <2>1. CASE WindowPasses
    BY <2>1 DEF WindowPasses, Committed
  <2>2. CASE Sweep
    <3>1. Add(KeyedJob, FALSE)
      BY <2>2 DEF Sweep
    <3>2. /\ jstate' \in [Jobs -> JobState]
          /\ jskip' \in [Jobs -> BOOLEAN]
          /\ jstalls' \in [Jobs -> 0..MaxStalled]
      BY <3>1, AddTyped
    <3>3. QED
      BY <2>2, <3>2 DEF Sweep
  <2>3. QED
    BY <1>5, <2>1, <2>2 DEF SweepStep
<1>6. CASE HumanStep
  <2>1. CASE Resume
    <3>1. Add(KeyedJob, extraction = "valid")
      BY <2>1 DEF Resume
    <3>2. /\ jstate' \in [Jobs -> JobState]
          /\ jskip' \in [Jobs -> BOOLEAN]
          /\ jstalls' \in [Jobs -> 0..MaxStalled]
      BY <3>1, AddTyped
    <3>3. QED
      BY <2>1, <3>2 DEF Resume
  <2>2. ASSUME NEW p \in PasteJobs, PasteCheck(p)
        PROVE  TypeInv'
    BY <2>2 DEF PasteCheck, Committed
  <2>3. ASSUME NEW p \in PasteJobs, PasteCheckpoint(p)
        PROVE  TypeInv'
    BY <2>3 DEF PasteCheckpoint
  <2>4. ASSUME NEW p \in PasteJobs, PasteEnqueue(p)
        PROVE  TypeInv'
    <3>1. Add(p, FALSE)
      BY <2>4 DEF PasteEnqueue
    <3>2. /\ jstate' \in [Jobs -> JobState]
          /\ jskip' \in [Jobs -> BOOLEAN]
          /\ jstalls' \in [Jobs -> 0..MaxStalled]
      BY <3>1, AddTyped
    <3>3. paste' \in [PasteJobs -> {"idle", "checked", "moved", "done"}]
      BY <2>4 DEF PasteEnqueue
    <3>4. QED
      BY <2>4, <3>2, <3>3 DEF PasteEnqueue
  <2>5. ASSUME NEW d \in Decliners, DeclineLoad(d)
        PROVE  TypeInv'
    BY <2>5 DEF DeclineLoad, Committed
  <2>6. ASSUME NEW d \in Decliners, DeclineTry(d)
        PROVE  TypeInv'
    BY <2>6 DEF DeclineTry
  <2>7. ASSUME NEW d \in Decliners, DeclineAudited(d)
        PROVE  TypeInv'
    BY <2>7 DEF DeclineAudited
  <2>8. ASSUME NEW d \in Decliners, DeclineReverted(d)
        PROVE  TypeInv'
    BY <2>8 DEF DeclineReverted, Fault
  <2>9. CASE Remap
    BY <2>9 DEF Remap, Committed
  <2>10. CASE MarkSent
    BY <2>10 DEF MarkSent, Committed
  <2>11. QED
    BY <1>6, <2>1, <2>2, <2>3, <2>4, <2>5, <2>6, <2>7, <2>8, <2>9, <2>10
    DEF HumanStep, PasteStep, DeclineStep
<1>7. CASE UNCHANGED vars
  BY <1>7
<1>8. QED
  BY <1>1, <1>2, <1>3, <1>4, <1>5, <1>6, <1>7 DEF Next

\* Every variable keeps its type, whatever crashes, is lost or races.
THEOREM TypeCorrect == Spec => []TypeOK
<1>1. TypeInv => TypeOK
  BY DEF TypeInv
<1>2. QED
  BY <1>1, TypeInvInit, TypeInvStep, PTL DEF Spec

(* -------------------------------- locks -------------------------------- *)

\* A run that holds the lock of a job runs, the job is active, and nobody else
\* holds that lock. The stalled check and retention touch only jobs without a
\* holder, and a run settles only a job it holds: that keeps the three together.
LocksInv ==
    /\ \A w \in Workers : rlock[w] => Busy(w) /\ jstate[rjob[w]] = "active"
    /\ \A v, w \in Workers : rlock[v] /\ rlock[w] /\ rjob[v] = rjob[w] => v = w

\* No step breaks the lock discipline.
LEMMA LocksInvStep == TypeInv /\ LocksInv /\ [Next]_vars => LocksInv'
<1> SUFFICES ASSUME TypeInv, LocksInv, [Next]_vars PROVE LocksInv'
  OBVIOUS
<1> USE DEF TypeInv, TypeOK, LocksInv, Busy, Jobs, vars, rowVars, bullVars, runVars,
        humanVars, budgetVars
<1>1. ASSUME NEW w \in Workers, EngineStep(w)
      PROVE  LocksInv'
  <2>1. CASE LoadRequest(w)
    <3>1. CASE Committed
      BY <2>1, <3>1 DEF LoadRequest, Goto
    <3>2. CASE ~Committed
      BY <2>1, <3>2 DEF LoadRequest, SettleJob, Idle
    <3>3. QED
      BY <3>1, <3>2
  <2>2. CASE StartProcessing(w)
    BY <2>2 DEF StartProcessing, MarkProcessing, Goto
  <2>3. CASE LoopHead(w)
    BY <2>3 DEF LoopHead, Goto, RunLocal
  <2>4. CASE RunPlainNode(w)
    BY <2>4 DEF RunPlainNode, LeaveNode, Goto, RunLocal
  <2>5. CASE RunExtract(w)
    BY <2>5 DEF RunExtract, Goto
  <2>6. CASE PersistExtraction(w)
    BY <2>6 DEF PersistExtraction, LeaveNode, Goto
  <2>7. CASE RunPrice(w)
    BY <2>7 DEF RunPrice, LeaveNode, Goto
  <2>8. CASE RunScore(w)
    BY <2>8 DEF RunScore, LeaveNode, Goto
  <2>9. CASE NodeInterrupted(w)
    BY <2>9 DEF NodeInterrupted, Interruptions, LeaveNode, Goto, RunLocal
  <2>10. CASE Advance(w)
    BY <2>10 DEF Advance, NextNode, Goto
  <2>11. CASE CheckpointFailed(w)
    BY <2>11 DEF CheckpointFailed, Goto
  <2>12. CASE ComputeTerminalStatus(w)
    BY <2>12 DEF ComputeTerminalStatus, Goto, RunLocal
  <2>13. CASE Finalize(w)
    BY <2>13 DEF Finalize, SetStatus, Goto
  <2>14. CASE CompleteRun(w)
    BY <2>14 DEF CompleteRun, SettleJob, Idle
  <2>15. QED
    BY <1>1, <2>1, <2>2, <2>3, <2>4, <2>5, <2>6, <2>7, <2>8, <2>9, <2>10, <2>11, <2>12,
       <2>13, <2>14 DEF EngineStep
<1>2. CASE IntakeStep
  <2>1. CASE CommitRequest
    BY <2>1 DEF CommitRequest
  <2>2. CASE RollbackRequest
    BY <2>2 DEF RollbackRequest
  <2>3. CASE EnqueueRequest
    BY <2>3 DEF EnqueueRequest, Add
  <2>4. CASE EnqueueFails
    BY <2>4 DEF EnqueueFails, Fault, MarkProcessing
  <2>5. QED
    BY <1>2, <2>1, <2>2, <2>3, <2>4 DEF IntakeStep
<1>3. CASE BullStep
  <2>1. ASSUME NEW w \in Workers, NEW j \in Jobs, TakeJob(w, j)
        PROVE  LocksInv'
    BY <2>1 DEF TakeJob
  <2>2. ASSUME NEW j \in Jobs, StalledCheck(j)
        PROVE  LocksInv'
    BY <2>2 DEF StalledCheck, HasLockHolder
  <2>3. ASSUME NEW j \in Jobs, RetentionExpires(j)
        PROVE  LocksInv'
    BY <2>3 DEF RetentionExpires
  <2>4. QED
    BY <1>3, <2>1, <2>2, <2>3 DEF BullStep
<1>4. CASE FaultStep
  <2>1. ASSUME NEW w \in Workers, WorkerCrash(w)
        PROVE  LocksInv'
    BY <2>1 DEF WorkerCrash, Idle
  <2>2. ASSUME NEW w \in Workers, LockLost(w)
        PROVE  LocksInv'
    BY <2>2 DEF LockLost
  <2>3. ASSUME NEW w \in Workers, RunThrows(w)
        PROVE  LocksInv'
    BY <2>3 DEF RunThrows, Fault, SettleJob, Idle
  <2>4. QED
    BY <1>4, <2>1, <2>2, <2>3 DEF FaultStep
<1>5. CASE SweepStep
  <2>1. CASE WindowPasses
    BY <2>1 DEF WindowPasses, Committed
  <2>2. CASE Sweep
    BY <2>2 DEF Sweep, StaleParsing, Committed, Add
  <2>3. QED
    BY <1>5, <2>1, <2>2 DEF SweepStep
<1>6. CASE HumanStep
  <2>1. CASE Resume
    BY <2>1 DEF Resume, Committed, Add
  <2>2. ASSUME NEW p \in PasteJobs, PasteCheck(p)
        PROVE  LocksInv'
    BY <2>2 DEF PasteCheck, Committed
  <2>3. ASSUME NEW p \in PasteJobs, PasteCheckpoint(p)
        PROVE  LocksInv'
    BY <2>3 DEF PasteCheckpoint
  <2>4. ASSUME NEW p \in PasteJobs, PasteEnqueue(p)
        PROVE  LocksInv'
    BY <2>4 DEF PasteEnqueue, Add
  <2>5. ASSUME NEW d \in Decliners, DeclineLoad(d)
        PROVE  LocksInv'
    BY <2>5 DEF DeclineLoad, Committed
  <2>6. ASSUME NEW d \in Decliners, DeclineTry(d)
        PROVE  LocksInv'
    BY <2>6 DEF DeclineTry
  <2>7. ASSUME NEW d \in Decliners, DeclineAudited(d)
        PROVE  LocksInv'
    BY <2>7 DEF DeclineAudited
  <2>8. ASSUME NEW d \in Decliners, DeclineReverted(d)
        PROVE  LocksInv'
    BY <2>8 DEF DeclineReverted, Fault
  <2>9. CASE Remap
    BY <2>9 DEF Remap, Committed
  <2>10. CASE MarkSent
    BY <2>10 DEF MarkSent, Committed
  <2>11. QED
    BY <1>6, <2>1, <2>2, <2>3, <2>4, <2>5, <2>6, <2>7, <2>8, <2>9, <2>10
    DEF HumanStep, PasteStep, DeclineStep
<1>7. CASE UNCHANGED vars
  BY <1>7
<1>8. QED
  BY <1>1, <1>2, <1>3, <1>4, <1>5, <1>6, <1>7 DEF Next

\* Two live runs never both hold the lock of one job.
THEOREM LocksUnique == Spec => []LockHoldersUnique
<1>1. Init => LocksInv
  BY DEF Init, LocksInv
<1>2. LocksInv => LockHoldersUnique
  BY DEF LocksInv, LockHoldersUnique
<1>3. QED
  BY <1>1, <1>2, TypeInvInit, TypeInvStep, LocksInvStep, PTL DEF Spec

(* -------------------------------- intake ------------------------------- *)

\* Until the intake transaction commits nothing knows of the request.
IntakeInv ==
    ~Committed =>
        /\ \A j \in Jobs : jstate[j] = "absent"
        /\ \A w \in Workers : pc[w] = "idle"
        /\ \A p \in PasteJobs : paste[p] = "idle"
        /\ \A d \in Decliners : decline[d] = "idle"
        /\ status = "parsing"

\* No step hands out an uncommitted request.
LEMMA IntakeInvStep == TypeInv /\ IntakeInv /\ [Next]_vars => IntakeInv'
<1> SUFFICES ASSUME TypeInv, IntakeInv, [Next]_vars PROVE IntakeInv'
  OBVIOUS
<1> USE DEF TypeInv, TypeOK, IntakeInv, Committed, Jobs, vars, rowVars, bullVars,
        runVars, humanVars, budgetVars
<1>1. ASSUME NEW w \in Workers, EngineStep(w)
      PROVE  IntakeInv'
  <2>1. CASE LoadRequest(w)
    BY <2>1 DEF LoadRequest, Committed, Goto, SettleJob, Idle
  <2>2. CASE StartProcessing(w)
    BY <2>2 DEF StartProcessing, MarkProcessing, Goto
  <2>3. CASE LoopHead(w)
    BY <2>3 DEF LoopHead, Goto, RunLocal
  <2>4. CASE RunPlainNode(w)
    BY <2>4 DEF RunPlainNode, LeaveNode, Goto, RunLocal
  <2>5. CASE RunExtract(w)
    BY <2>5 DEF RunExtract, Goto
  <2>6. CASE PersistExtraction(w)
    BY <2>6 DEF PersistExtraction, LeaveNode, Goto
  <2>7. CASE RunPrice(w)
    BY <2>7 DEF RunPrice, LeaveNode, Goto
  <2>8. CASE RunScore(w)
    BY <2>8 DEF RunScore, LeaveNode, Goto
  <2>9. CASE NodeInterrupted(w)
    BY <2>9 DEF NodeInterrupted, Interruptions, LeaveNode, Goto, RunLocal
  <2>10. CASE Advance(w)
    BY <2>10 DEF Advance, NextNode, Goto
  <2>11. CASE CheckpointFailed(w)
    BY <2>11 DEF CheckpointFailed, Goto
  <2>12. CASE ComputeTerminalStatus(w)
    BY <2>12 DEF ComputeTerminalStatus, Goto, RunLocal
  <2>13. CASE Finalize(w)
    BY <2>13 DEF Finalize, SetStatus, Goto
  <2>14. CASE CompleteRun(w)
    BY <2>14 DEF CompleteRun, SettleJob, Idle
  <2>15. QED
    BY <1>1, <2>1, <2>2, <2>3, <2>4, <2>5, <2>6, <2>7, <2>8, <2>9, <2>10, <2>11, <2>12,
       <2>13, <2>14 DEF EngineStep
<1>2. CASE IntakeStep
  <2>1. CASE CommitRequest
    BY <2>1 DEF CommitRequest
  <2>2. CASE RollbackRequest
    BY <2>2 DEF RollbackRequest
  <2>3. CASE EnqueueRequest
    BY <2>3 DEF EnqueueRequest, Add
  <2>4. CASE EnqueueFails
    BY <2>4 DEF EnqueueFails, Fault, MarkProcessing
  <2>5. QED
    BY <1>2, <2>1, <2>2, <2>3, <2>4 DEF IntakeStep
<1>3. CASE BullStep
  <2>1. ASSUME NEW w \in Workers, NEW j \in Jobs, TakeJob(w, j)
        PROVE  IntakeInv'
    BY <2>1 DEF TakeJob
  <2>2. ASSUME NEW j \in Jobs, StalledCheck(j)
        PROVE  IntakeInv'
    BY <2>2 DEF StalledCheck, HasLockHolder
  <2>3. ASSUME NEW j \in Jobs, RetentionExpires(j)
        PROVE  IntakeInv'
    BY <2>3 DEF RetentionExpires
  <2>4. QED
    BY <1>3, <2>1, <2>2, <2>3 DEF BullStep
<1>4. CASE FaultStep
  <2>1. ASSUME NEW w \in Workers, WorkerCrash(w)
        PROVE  IntakeInv'
    BY <2>1 DEF WorkerCrash, Idle
  <2>2. ASSUME NEW w \in Workers, LockLost(w)
        PROVE  IntakeInv'
    BY <2>2 DEF LockLost
  <2>3. ASSUME NEW w \in Workers, RunThrows(w)
        PROVE  IntakeInv'
    BY <2>3 DEF RunThrows, Fault, SettleJob, Idle
  <2>4. QED
    BY <1>4, <2>1, <2>2, <2>3 DEF FaultStep
<1>5. CASE SweepStep
  <2>1. CASE WindowPasses
    BY <2>1 DEF WindowPasses, Committed
  <2>2. CASE Sweep
    BY <2>2 DEF Sweep, StaleParsing, Committed, Add
  <2>3. QED
    BY <1>5, <2>1, <2>2 DEF SweepStep
<1>6. CASE HumanStep
  <2>1. CASE Resume
    BY <2>1 DEF Resume, Committed, Add
  <2>2. ASSUME NEW p \in PasteJobs, PasteCheck(p)
        PROVE  IntakeInv'
    BY <2>2 DEF PasteCheck, Committed
  <2>3. ASSUME NEW p \in PasteJobs, PasteCheckpoint(p)
        PROVE  IntakeInv'
    BY <2>3 DEF PasteCheckpoint
  <2>4. ASSUME NEW p \in PasteJobs, PasteEnqueue(p)
        PROVE  IntakeInv'
    BY <2>4 DEF PasteEnqueue, Add
  <2>5. ASSUME NEW d \in Decliners, DeclineLoad(d)
        PROVE  IntakeInv'
    BY <2>5 DEF DeclineLoad, Committed
  <2>6. ASSUME NEW d \in Decliners, DeclineTry(d)
        PROVE  IntakeInv'
    BY <2>6 DEF DeclineTry
  <2>7. ASSUME NEW d \in Decliners, DeclineAudited(d)
        PROVE  IntakeInv'
    BY <2>7 DEF DeclineAudited
  <2>8. ASSUME NEW d \in Decliners, DeclineReverted(d)
        PROVE  IntakeInv'
    BY <2>8 DEF DeclineReverted, Fault
  <2>9. CASE Remap
    BY <2>9 DEF Remap, Committed
  <2>10. CASE MarkSent
    BY <2>10 DEF MarkSent, Committed
  <2>11. QED
    BY <1>6, <2>1, <2>2, <2>3, <2>4, <2>5, <2>6, <2>7, <2>8, <2>9, <2>10
    DEF HumanStep, PasteStep, DeclineStep
<1>7. CASE UNCHANGED vars
  BY <1>7
<1>8. QED
  BY <1>1, <1>2, <1>3, <1>4, <1>5, <1>6, <1>7 DEF Next

\* A run never loads a request whose row is not there.
THEOREM RunsFindTheirRow == Spec => []RunFindsRow
<1>1. Init => IntakeInv
  BY DEF Init, IntakeInv
<1>2. IntakeInv => RunFindsRow
  BY DEF IntakeInv, RunFindsRow
<1>3. QED
  BY <1>1, <1>2, TypeInvInit, TypeInvStep, IntakeInvStep, PTL DEF Spec

(* --------------------------- closed requests --------------------------- *)

\* Every write of status by the engine, the queue, intake and the sweep spares
\* DECLINED and SENT.
LEMMA ClosedStep ==
  ASSUME [Next]_vars, status \in TERMINAL_STATUSES
  PROVE  status' = status \/ Remap \/ \E d \in Decliners : DeclineReverted(d)
<1> DEFINE Kept == status' = status \/ Remap \/ \E d \in Decliners : DeclineReverted(d)
<1> SUFFICES Kept
  OBVIOUS
<1> USE DEF TERMINAL_STATUSES, DECLINE_SOURCES, SENDABLE_STATUSES, vars, rowVars,
        bullVars, runVars, humanVars, budgetVars
<1>1. ASSUME NEW w \in Workers, EngineStep(w)
      PROVE  Kept
  <2>1. CASE LoadRequest(w)
    BY <2>1 DEF LoadRequest, Committed, Goto, SettleJob, Idle
  <2>2. CASE StartProcessing(w)
    BY <2>2 DEF StartProcessing, MarkProcessing, Goto
  <2>3. CASE LoopHead(w)
    BY <2>3 DEF LoopHead, Goto, RunLocal
  <2>4. CASE RunPlainNode(w)
    BY <2>4 DEF RunPlainNode, LeaveNode, Goto, RunLocal
  <2>5. CASE RunExtract(w)
    BY <2>5 DEF RunExtract, Goto
  <2>6. CASE PersistExtraction(w)
    BY <2>6 DEF PersistExtraction, LeaveNode, Goto
  <2>7. CASE RunPrice(w)
    BY <2>7 DEF RunPrice, LeaveNode, Goto
  <2>8. CASE RunScore(w)
    BY <2>8 DEF RunScore, LeaveNode, Goto
  <2>9. CASE NodeInterrupted(w)
    BY <2>9 DEF NodeInterrupted, Interruptions, LeaveNode, Goto, RunLocal
  <2>10. CASE Advance(w)
    BY <2>10 DEF Advance, NextNode, Goto
  <2>11. CASE CheckpointFailed(w)
    BY <2>11 DEF CheckpointFailed, Goto
  <2>12. CASE ComputeTerminalStatus(w)
    BY <2>12 DEF ComputeTerminalStatus, Goto, RunLocal
  <2>13. CASE Finalize(w)
    BY <2>13 DEF Finalize, SetStatus, Goto
  <2>14. CASE CompleteRun(w)
    BY <2>14 DEF CompleteRun, SettleJob, Idle
  <2>15. QED
    BY <1>1, <2>1, <2>2, <2>3, <2>4, <2>5, <2>6, <2>7, <2>8, <2>9, <2>10, <2>11, <2>12,
       <2>13, <2>14 DEF EngineStep
<1>2. CASE IntakeStep
  <2>1. CASE CommitRequest
    BY <2>1 DEF CommitRequest
  <2>2. CASE RollbackRequest
    BY <2>2 DEF RollbackRequest
  <2>3. CASE EnqueueRequest
    BY <2>3 DEF EnqueueRequest, Add
  <2>4. CASE EnqueueFails
    BY <2>4 DEF EnqueueFails, Fault, MarkProcessing
  <2>5. QED
    BY <1>2, <2>1, <2>2, <2>3, <2>4 DEF IntakeStep
<1>3. CASE BullStep
  <2>1. ASSUME NEW w \in Workers, NEW j \in Jobs, TakeJob(w, j)
        PROVE  Kept
    BY <2>1 DEF TakeJob
  <2>2. ASSUME NEW j \in Jobs, StalledCheck(j)
        PROVE  Kept
    BY <2>2 DEF StalledCheck, HasLockHolder
  <2>3. ASSUME NEW j \in Jobs, RetentionExpires(j)
        PROVE  Kept
    BY <2>3 DEF RetentionExpires
  <2>4. QED
    BY <1>3, <2>1, <2>2, <2>3 DEF BullStep
<1>4. CASE FaultStep
  <2>1. ASSUME NEW w \in Workers, WorkerCrash(w)
        PROVE  Kept
    BY <2>1 DEF WorkerCrash, Idle
  <2>2. ASSUME NEW w \in Workers, LockLost(w)
        PROVE  Kept
    BY <2>2 DEF LockLost
  <2>3. ASSUME NEW w \in Workers, RunThrows(w)
        PROVE  Kept
    BY <2>3 DEF RunThrows, Fault, SettleJob, Idle
  <2>4. QED
    BY <1>4, <2>1, <2>2, <2>3 DEF FaultStep
<1>5. CASE SweepStep
  <2>1. CASE WindowPasses
    BY <2>1 DEF WindowPasses, Committed
  <2>2. CASE Sweep
    BY <2>2 DEF Sweep, StaleParsing, Committed, Add
  <2>3. QED
    BY <1>5, <2>1, <2>2 DEF SweepStep
<1>6. CASE HumanStep
  <2>1. CASE Resume
    BY <2>1 DEF Resume, Committed, Add
  <2>2. ASSUME NEW p \in PasteJobs, PasteCheck(p)
        PROVE  Kept
    BY <2>2 DEF PasteCheck, Committed
  <2>3. ASSUME NEW p \in PasteJobs, PasteCheckpoint(p)
        PROVE  Kept
    BY <2>3 DEF PasteCheckpoint
  <2>4. ASSUME NEW p \in PasteJobs, PasteEnqueue(p)
        PROVE  Kept
    BY <2>4 DEF PasteEnqueue, Add
  <2>5. ASSUME NEW d \in Decliners, DeclineLoad(d)
        PROVE  Kept
    BY <2>5 DEF DeclineLoad, Committed
  <2>6. ASSUME NEW d \in Decliners, DeclineTry(d)
        PROVE  Kept
    BY <2>6 DEF DeclineTry
  <2>7. ASSUME NEW d \in Decliners, DeclineAudited(d)
        PROVE  Kept
    BY <2>7 DEF DeclineAudited
  <2>8. ASSUME NEW d \in Decliners, DeclineReverted(d)
        PROVE  Kept
    BY <2>8
  <2>9. CASE Remap
    BY <2>9
  <2>10. CASE MarkSent
    BY <2>10 DEF MarkSent, Committed
  <2>11. QED
    BY <1>6, <2>1, <2>2, <2>3, <2>4, <2>5, <2>6, <2>7, <2>8, <2>9, <2>10
    DEF HumanStep, PasteStep, DeclineStep
<1>7. CASE UNCHANGED vars
  BY <1>7
<1>8. QED
  BY <1>1, <1>2, <1>3, <1>4, <1>5, <1>6, <1>7 DEF Next

\* Only a re-map or a decline that could not be audited takes a request out of
\* DECLINED or SENT.
THEOREM ClosedStaysClosed == Spec => OnlyPeopleReopen
<1>1. [Next]_vars => ((status \in TERMINAL_STATUSES /\ status' # status)
                         => (Remap \/ \E d \in Decliners : DeclineReverted(d)))
  BY ClosedStep
<1>2. QED
  BY <1>1, PTL DEF Spec, OnlyPeopleReopen

(* ----------------------- recovery with stable ids ---------------------- *)

\* The setting of the recovery argument: every enqueue uses the stable job id,
\* nobody declines, and no run outlives its lock. Crashes, failed enqueues,
\* thrown errors, sweeps, resumes, re-maps and sends are unrestricted.
KeyedOnly == PasteJobs = {} /\ Decliners = {} /\ MaxLockLosses = 0

\* A live run holds its lock.
RunsLocked == \A w \in Workers : Busy(w) => rlock[w]

\* A run's node is the checkpoint, except that score has already written done.
RunAtCheckpoint ==
    \A w \in Workers :
        /\ pc[w] \in {"mark", "loop", "node", "persist", "failcp", "terminal"}
             => current_node = rnode[w]
        /\ pc[w] = "advance" =>
             current_node = (IF rnode[w] = "score" THEN "done" ELSE rnode[w])
        /\ pc[w] = "terminal" => rnode[w] \in {"done", "failed"}
        /\ pc[w] = "persist" => rnode[w] = "extract" /\ extraction # "valid"

\* The outcomes the checkpoint allows.
OutcomeFits(s) ==
    /\ s = "priced" => current_node = "done" /\ routing = "auto_eligible"
    /\ s = "failed" => current_node = "failed"
    /\ s = "needs_clarification" => current_node = "parse" /\ extraction = "none"

\* A run shows no earlier outcome while it works, and decides one that the
\* sequential pass could publish there.
RunsOutcome ==
    \A w \in Workers :
        /\ pc[w] \in {"loop", "node", "persist", "advance", "failcp", "terminal",
                      "finalize"}
             => status \notin {"priced", "failed", "needs_clarification"}
        /\ pc[w] = "finalize" => rout[w] \in Graph!Outcomes

\* What the row holds fits how far the request got.
RowFits ==
    /\ OutcomeFits(status)
    /\ extraction # "none" => current_node # "parse"
    /\ hasQuote => extraction # "none"

RecoveryInv == RunsLocked /\ RunAtCheckpoint /\ RunsOutcome /\ RowFits

\* No node is followed by parse or failed.
LEMMA NextNodeValues ==
  /\ \A n \in GraphNodes : NextNode[n] \notin {"parse", "failed"}
  /\ NextNode["score"] = "done"
  BY DEF NextNode, GraphNodes

\* With the stable id alone and no lock lost, at most one run is live.
LEMMA LockedRunsAlone ==
  ASSUME KeyedOnly, TypeInv, LocksInv, RunsLocked
  PROVE  SoleRun
  BY DEF KeyedOnly, TypeInv, TypeOK, LocksInv, RunsLocked, SoleRun, Jobs

\* No step of a recovering pipeline breaks the recovery invariant.
LEMMA RecoveryInvStep ==
  ASSUME KeyedOnly
  PROVE  TypeInv /\ LocksInv /\ RecoveryInv /\ [Next]_vars => RecoveryInv'
<1> SUFFICES ASSUME TypeInv, LocksInv, RecoveryInv, [Next]_vars PROVE RecoveryInv'
  OBVIOUS
<1>0. SoleRun
  BY KeyedOnly, LockedRunsAlone DEF RecoveryInv
<1> USE KeyedOnly, <1>0
    DEF KeyedOnly, TypeInv, TypeOK, RunAtGraphNode, LocksInv, RecoveryInv, RunsLocked,
        RunAtCheckpoint, RunsOutcome, OutcomeFits, RowFits, Graph!Outcomes, SoleRun,
        Busy, Jobs,
        CurrentNode, GraphNodes, vars, rowVars, bullVars, runVars,
        humanVars, budgetVars
<1>1. ASSUME NEW w \in Workers, EngineStep(w)
      PROVE  RecoveryInv'
  <2>1. CASE LoadRequest(w)
    <3>1. CASE Committed
      <4>1. RunsLocked' /\ RunAtCheckpoint'
        BY <2>1, <3>1 DEF LoadRequest, Goto
      <4>2. RunsOutcome' /\ RowFits'
        BY <2>1, <3>1 DEF LoadRequest, Goto
      <4>3. QED
        BY <4>1, <4>2
    <3>2. CASE ~Committed
      <4>1. RunsLocked' /\ RunAtCheckpoint'
        BY <2>1, <3>2 DEF LoadRequest, Idle
      <4>2. RunsOutcome' /\ RowFits'
        BY <2>1, <3>2 DEF LoadRequest, Idle
      <4>3. QED
        BY <4>1, <4>2
    <3>3. QED
      BY <3>1, <3>2
  <2>2. CASE StartProcessing(w)
    <3>1. CASE status \in TERMINAL_STATUSES
      BY <2>2, <3>1 DEF StartProcessing, MarkProcessing, Goto, TERMINAL_STATUSES
    <3>2. CASE status \notin TERMINAL_STATUSES
      BY <2>2, <3>2 DEF StartProcessing, MarkProcessing, Goto
    <3>3. QED
      BY <3>1, <3>2
  <2>3. CASE LoopHead(w)
    BY <2>3 DEF LoopHead, Goto, RunLocal
  <2>4. CASE RunPlainNode(w)
    BY <2>4 DEF RunPlainNode, LeaveNode, Goto, RunLocal
  <2>5. CASE RunExtract(w)
    BY <2>5 DEF RunExtract, Goto
  <2>6. CASE PersistExtraction(w)
    BY <2>6 DEF PersistExtraction, LeaveNode, Goto
  <2>7. CASE RunPrice(w)
    <3>1. hasQuote' => extraction # "none"
      BY <2>7 DEF RunPrice
    <3>2. QED
      BY <2>7, <3>1 DEF RunPrice, LeaveNode, Goto
  <2>8. CASE RunScore(w)
    BY <2>8 DEF RunScore, LeaveNode, Goto
  <2>9. CASE NodeInterrupted(w)
    BY <2>9 DEF NodeInterrupted, Interruptions, LeaveNode, Goto, RunLocal
  <2>10. CASE Advance(w)
    BY <2>10, NextNodeValues DEF Advance, Goto
  <2>11. CASE CheckpointFailed(w)
    BY <2>11 DEF CheckpointFailed, Goto
  <2>12. CASE ComputeTerminalStatus(w)
    BY <2>12 DEF ComputeTerminalStatus, Goto, RunLocal
  <2>13. CASE Finalize(w)
    BY <2>13 DEF Finalize, SetStatus, Goto
  <2>14. CASE CompleteRun(w)
    BY <2>14 DEF CompleteRun, SettleJob, Idle
  <2>15. QED
    BY <1>1, <2>1, <2>2, <2>3, <2>4, <2>5, <2>6, <2>7, <2>8, <2>9, <2>10, <2>11, <2>12,
       <2>13, <2>14 DEF EngineStep
<1>2. CASE IntakeStep
  <2>1. CASE CommitRequest
    BY <2>1 DEF CommitRequest
  <2>2. CASE RollbackRequest
    BY <2>2 DEF RollbackRequest
  <2>3. CASE EnqueueRequest
    BY <2>3 DEF EnqueueRequest, Add
  <2>4. CASE EnqueueFails
    BY <2>4 DEF EnqueueFails, Fault, MarkProcessing
  <2>5. QED
    BY <1>2, <2>1, <2>2, <2>3, <2>4 DEF IntakeStep
<1>3. CASE BullStep
  <2>1. ASSUME NEW w \in Workers, NEW j \in Jobs, TakeJob(w, j)
        PROVE  RecoveryInv'
    BY <2>1 DEF TakeJob
  <2>2. ASSUME NEW j \in Jobs, StalledCheck(j)
        PROVE  RecoveryInv'
    BY <2>2 DEF StalledCheck, HasLockHolder
  <2>3. ASSUME NEW j \in Jobs, RetentionExpires(j)
        PROVE  RecoveryInv'
    BY <2>3 DEF RetentionExpires
  <2>4. QED
    BY <1>3, <2>1, <2>2, <2>3 DEF BullStep
<1>4. CASE FaultStep
  <2>1. ASSUME NEW w \in Workers, WorkerCrash(w)
        PROVE  RecoveryInv'
    BY <2>1 DEF WorkerCrash, Idle
  <2>2. ASSUME NEW w \in Workers, LockLost(w)
        PROVE  RecoveryInv'
    BY <2>2 DEF LockLost
  <2>3. ASSUME NEW w \in Workers, RunThrows(w)
        PROVE  RecoveryInv'
    BY <2>3 DEF RunThrows, Fault, SettleJob, Idle
  <2>4. QED
    BY <1>4, <2>1, <2>2, <2>3 DEF FaultStep
<1>5. CASE SweepStep
  <2>1. CASE WindowPasses
    BY <2>1 DEF WindowPasses, Committed
  <2>2. CASE Sweep
    BY <2>2 DEF Sweep, StaleParsing, Committed, Add
  <2>3. QED
    BY <1>5, <2>1, <2>2 DEF SweepStep
<1>6. CASE HumanStep
  <2>1. CASE Resume
    BY <2>1 DEF Resume, Committed, Add
  <2>2. ASSUME NEW p \in PasteJobs, PasteCheck(p)
        PROVE  RecoveryInv'
    BY <2>2 DEF PasteCheck, Committed
  <2>3. ASSUME NEW p \in PasteJobs, PasteCheckpoint(p)
        PROVE  RecoveryInv'
    BY <2>3 DEF PasteCheckpoint
  <2>4. ASSUME NEW p \in PasteJobs, PasteEnqueue(p)
        PROVE  RecoveryInv'
    BY <2>4 DEF PasteEnqueue, Add
  <2>5. ASSUME NEW d \in Decliners, DeclineLoad(d)
        PROVE  RecoveryInv'
    BY <2>5 DEF DeclineLoad, Committed
  <2>6. ASSUME NEW d \in Decliners, DeclineTry(d)
        PROVE  RecoveryInv'
    BY <2>6 DEF DeclineTry
  <2>7. ASSUME NEW d \in Decliners, DeclineAudited(d)
        PROVE  RecoveryInv'
    BY <2>7 DEF DeclineAudited
  <2>8. ASSUME NEW d \in Decliners, DeclineReverted(d)
        PROVE  RecoveryInv'
    BY <2>8 DEF DeclineReverted, Fault
  <2>9. CASE Remap
    BY <2>9 DEF Remap, Committed
  <2>10. CASE MarkSent
    BY <2>10 DEF MarkSent, Committed
  <2>11. QED
    BY <1>6, <2>1, <2>2, <2>3, <2>4, <2>5, <2>6, <2>7, <2>8, <2>9, <2>10
    DEF HumanStep, PasteStep, DeclineStep
<1>7. CASE UNCHANGED vars
  BY <1>7
<1>8. QED
  BY <1>1, <1>2, <1>3, <1>4, <1>5, <1>6, <1>7 DEF Next

\* The invariant that carries the recovery theorems.
LEMMA RecoveryInvariant ==
  ASSUME KeyedOnly
  PROVE  Spec => [](TypeInv /\ LocksInv /\ RecoveryInv)
<1>1. Init => LocksInv /\ RecoveryInv
  BY DEF Init, LocksInv, RecoveryInv, RunsLocked, RunAtCheckpoint, RunsOutcome, RowFits,
         OutcomeFits, Busy
<1>2. TypeInv /\ LocksInv /\ RecoveryInv /\ [Next]_vars => (TypeInv /\ LocksInv /\ RecoveryInv)'
  BY KeyedOnly, TypeInvStep, LocksInvStep, RecoveryInvStep
<1>3. QED
  BY <1>1, <1>2, TypeInvInit, PTL DEF Spec

\* At most one run of the request is live.
THEOREM RecoverySoleRun ==
  ASSUME KeyedOnly
  PROVE  Spec => []SoleRun
<1>1. TypeInv /\ LocksInv /\ RecoveryInv => SoleRun
  BY KeyedOnly, LockedRunsAlone DEF RecoveryInv
<1>2. QED
  BY <1>1, RecoveryInvariant, KeyedOnly, PTL

\* A node runs only while the checkpoint names it.
THEOREM RecoveryAtCheckpoint ==
  ASSUME KeyedOnly
  PROVE  Spec => []NodeAtItsCheckpoint
<1>1. RecoveryInv => NodeAtItsCheckpoint
  BY DEF RecoveryInv, RunAtCheckpoint, NodeAtItsCheckpoint
<1>2. QED
  BY <1>1, RecoveryInvariant, KeyedOnly, PTL

\* The published status agrees with the checkpoint, the routing and the
\* extraction, and a request that waits for clarification has no quote.
THEOREM RecoveryVerdicts ==
  ASSUME KeyedOnly
  PROVE  Spec => [](VerdictMatchesCheckpoint /\ ClarifyingHasNoQuote)
<1>1. RecoveryInv => VerdictMatchesCheckpoint /\ ClarifyingHasNoQuote
  BY DEF RecoveryInv, RowFits, OutcomeFits, VerdictMatchesCheckpoint,
     ClarifyingHasNoQuote
<1>2. QED
  BY <1>1, RecoveryInvariant, KeyedOnly, PTL

\* The checkpoint's rank in the graph.
LEMMA RankValues ==
  /\ \A n \in GraphNodes : Rank[NextNode[n]] >= Rank[n]
  /\ \A n \in CurrentNode : Rank[n] >= Rank[n] /\ Rank["failed"] >= Rank[n]
  /\ Rank["done"] >= Rank["score"]
<1>1. \A n \in CurrentNode : Rank[n] \in 0..8
  BY DEF Rank, CurrentNode, GraphNodes
<1>2. Rank["failed"] = 8 /\ Rank["done"] = 7 /\ Rank["score"] = 6
  BY DEF Rank, CurrentNode, GraphNodes
<1>3. \A n \in GraphNodes : Rank[NextNode[n]] >= Rank[n]
  BY DEF Rank, NextNode, CurrentNode, GraphNodes
<1>4. QED
  BY <1>1, <1>2, <1>3

\* One step of a recovering pipeline never moves the checkpoint back and never
\* gives a valid extraction up.
LEMMA RecoveryProgressStep ==
  ASSUME KeyedOnly, TypeInv, RecoveryInv, [Next]_vars
  PROVE  /\ Rank[current_node'] >= Rank[current_node]
         /\ extraction = "valid" => extraction' = "valid"
<1> DEFINE Kept == /\ Rank[current_node'] >= Rank[current_node]
                   /\ extraction = "valid" => extraction' = "valid"
<1> SUFFICES Kept
  OBVIOUS
<1> USE KeyedOnly
    DEF KeyedOnly, TypeInv, TypeOK, RunAtGraphNode, RecoveryInv, RunAtCheckpoint,
        CurrentNode, GraphNodes, vars, rowVars, bullVars, runVars,
        humanVars, budgetVars
<1>1. ASSUME NEW w \in Workers, EngineStep(w)
      PROVE  Kept
  <2>1. CASE LoadRequest(w)
    <3>1. UNCHANGED <<current_node, extraction>>
      BY <2>1 DEF LoadRequest
    <3>2. QED
      BY <3>1, RankValues
  <2>2. CASE StartProcessing(w)
    BY <2>2, RankValues DEF StartProcessing, MarkProcessing, Goto
  <2>3. CASE LoopHead(w)
    BY <2>3, RankValues DEF LoopHead, Goto, RunLocal
  <2>4. CASE RunPlainNode(w)
    BY <2>4, RankValues DEF RunPlainNode, LeaveNode, Goto, RunLocal
  <2>5. CASE RunExtract(w)
    BY <2>5, RankValues DEF RunExtract, Goto
  <2>6. CASE PersistExtraction(w)
    BY <2>6, RankValues DEF PersistExtraction, LeaveNode, Goto
  <2>7. CASE RunPrice(w)
    BY <2>7, RankValues DEF RunPrice, LeaveNode, Goto
  <2>8. CASE RunScore(w)
    BY <2>8, RankValues DEF RunScore, LeaveNode, Goto
  <2>9. CASE NodeInterrupted(w)
    BY <2>9, RankValues DEF NodeInterrupted, Interruptions, LeaveNode, Goto, RunLocal
  <2>10. CASE Advance(w)
    <3>1. rnode[w] \in GraphNodes /\ pc[w] = "advance"
      BY <2>10 DEF Advance
    <3>2. current_node' = NextNode[rnode[w]] /\ UNCHANGED extraction
      BY <2>10 DEF Advance
    <3>3. current_node = (IF rnode[w] = "score" THEN "done" ELSE rnode[w])
      BY <3>1
    <3>4. QED
      BY <3>1, <3>2, <3>3, RankValues, NextNodeValues
  <2>11. CASE CheckpointFailed(w)
    BY <2>11, RankValues DEF CheckpointFailed, Goto
  <2>12. CASE ComputeTerminalStatus(w)
    BY <2>12, RankValues DEF ComputeTerminalStatus, Goto, RunLocal
  <2>13. CASE Finalize(w)
    BY <2>13, RankValues DEF Finalize, SetStatus, Goto
  <2>14. CASE CompleteRun(w)
    BY <2>14, RankValues DEF CompleteRun, SettleJob, Idle
  <2>15. QED
    BY <1>1, <2>1, <2>2, <2>3, <2>4, <2>5, <2>6, <2>7, <2>8, <2>9, <2>10, <2>11, <2>12,
       <2>13, <2>14 DEF EngineStep
<1>2. CASE IntakeStep
  <2>1. CASE CommitRequest
    BY <2>1, RankValues DEF CommitRequest
  <2>2. CASE RollbackRequest
    BY <2>2, RankValues DEF RollbackRequest
  <2>3. CASE EnqueueRequest
    BY <2>3, RankValues DEF EnqueueRequest, Add
  <2>4. CASE EnqueueFails
    BY <2>4, RankValues DEF EnqueueFails, Fault, MarkProcessing
  <2>5. QED
    BY <1>2, <2>1, <2>2, <2>3, <2>4 DEF IntakeStep
<1>3. CASE BullStep
  <2>1. ASSUME NEW w \in Workers, NEW j \in Jobs, TakeJob(w, j)
        PROVE  Kept
    BY <2>1, RankValues DEF TakeJob
  <2>2. ASSUME NEW j \in Jobs, StalledCheck(j)
        PROVE  Kept
    BY <2>2, RankValues DEF StalledCheck, HasLockHolder
  <2>3. ASSUME NEW j \in Jobs, RetentionExpires(j)
        PROVE  Kept
    BY <2>3, RankValues DEF RetentionExpires
  <2>4. QED
    BY <1>3, <2>1, <2>2, <2>3 DEF BullStep
<1>4. CASE FaultStep
  <2>1. ASSUME NEW w \in Workers, WorkerCrash(w)
        PROVE  Kept
    BY <2>1, RankValues DEF WorkerCrash, Idle
  <2>2. ASSUME NEW w \in Workers, LockLost(w)
        PROVE  Kept
    BY <2>2, RankValues DEF LockLost
  <2>3. ASSUME NEW w \in Workers, RunThrows(w)
        PROVE  Kept
    BY <2>3, RankValues DEF RunThrows, Fault, SettleJob, Idle
  <2>4. QED
    BY <1>4, <2>1, <2>2, <2>3 DEF FaultStep
<1>5. CASE SweepStep
  <2>1. CASE WindowPasses
    BY <2>1, RankValues DEF WindowPasses, Committed
  <2>2. CASE Sweep
    BY <2>2, RankValues DEF Sweep, StaleParsing, Committed, Add
  <2>3. QED
    BY <1>5, <2>1, <2>2 DEF SweepStep
<1>6. CASE HumanStep
  <2>1. CASE Resume
    BY <2>1, RankValues DEF Resume, Committed, Add
  <2>2. ASSUME NEW p \in PasteJobs, PasteCheck(p)
        PROVE  Kept
    BY <2>2, RankValues DEF PasteCheck, Committed
  <2>3. ASSUME NEW p \in PasteJobs, PasteCheckpoint(p)
        PROVE  Kept
    BY <2>3, RankValues DEF PasteCheckpoint
  <2>4. ASSUME NEW p \in PasteJobs, PasteEnqueue(p)
        PROVE  Kept
    BY <2>4, RankValues DEF PasteEnqueue, Add
  <2>5. ASSUME NEW d \in Decliners, DeclineLoad(d)
        PROVE  Kept
    BY <2>5, RankValues DEF DeclineLoad, Committed
  <2>6. ASSUME NEW d \in Decliners, DeclineTry(d)
        PROVE  Kept
    BY <2>6, RankValues DEF DeclineTry
  <2>7. ASSUME NEW d \in Decliners, DeclineAudited(d)
        PROVE  Kept
    BY <2>7, RankValues DEF DeclineAudited
  <2>8. ASSUME NEW d \in Decliners, DeclineReverted(d)
        PROVE  Kept
    BY <2>8, RankValues DEF DeclineReverted, Fault
  <2>9. CASE Remap
    BY <2>9, RankValues DEF Remap, Committed
  <2>10. CASE MarkSent
    BY <2>10, RankValues DEF MarkSent, Committed
  <2>11. QED
    BY <1>6, <2>1, <2>2, <2>3, <2>4, <2>5, <2>6, <2>7, <2>8, <2>9, <2>10
    DEF HumanStep, PasteStep, DeclineStep
<1>7. CASE UNCHANGED vars
  BY <1>7, RankValues
<1>8. QED
  BY <1>1, <1>2, <1>3, <1>4, <1>5, <1>6, <1>7 DEF Next

\* The checkpoint only moves forward.
THEOREM RecoveryForward ==
  ASSUME KeyedOnly
  PROVE  Spec => CheckpointForward
<1>1. TypeInv /\ RecoveryInv /\ [Next]_vars => Rank[current_node'] >= Rank[current_node]
  BY KeyedOnly, RecoveryProgressStep
<1>2. QED
  BY <1>1, RecoveryInvariant, KeyedOnly, PTL DEF Spec, CheckpointForward

\* A valid extraction is kept.
THEOREM RecoveryKeepsExtraction ==
  ASSUME KeyedOnly
  PROVE  Spec => ValidExtractionKept
<1>1. TypeInv /\ RecoveryInv /\ [Next]_vars => (extraction = "valid" => extraction' = "valid")
  BY KeyedOnly, RecoveryProgressStep
<1>2. QED
  BY <1>1, RecoveryInvariant, KeyedOnly, PTL DEF Spec, ValidExtractionKept

(* --------------------- the pipeline as its users see it ---------------- *)

\* Every step of a recovering pipeline is a step of the sequential pass or
\* leaves the row as it is.
LEMMA GraphStep ==
  ASSUME KeyedOnly, TypeInv, LocksInv, RecoveryInv, IntakeInv, [Next]_vars
  PROVE  [Graph!Next]_(Graph!vars)
<1> DEFINE Mapped == Graph!Next \/ UNCHANGED Graph!vars
<1> SUFFICES Mapped
  OBVIOUS
<1> USE KeyedOnly
    DEF KeyedOnly, TypeInv, TypeOK, RunAtGraphNode, RecoveryInv, RunAtCheckpoint,
        RunsOutcome,
        OutcomeFits, RowFits, IntakeInv, CurrentNode, GraphNodes, TERMINAL_STATUSES,
        SENDABLE_STATUSES, Graph!vars, vars, rowVars, bullVars, runVars,
        humanVars, budgetVars
<1>1. ASSUME NEW w \in Workers, EngineStep(w)
      PROVE  Mapped
  <2>1. CASE LoadRequest(w)
    BY <2>1 DEF LoadRequest, Committed, Goto, SettleJob, Idle
  <2>2. CASE StartProcessing(w)
    <3>1. Committed /\ Committed'
      BY <2>2 DEF StartProcessing, Committed
    <3>2. CASE status \in TERMINAL_STATUSES
      BY <2>2, <3>1, <3>2 DEF StartProcessing, MarkProcessing, Goto
    <3>3. CASE status \notin TERMINAL_STATUSES
      <4>1. Graph!Begin
        BY <2>2, <3>1, <3>3 DEF StartProcessing, MarkProcessing, Goto, Graph!Begin,
           Graph!Exists, Graph!Closed, RequestStatus
      <4>2. QED
        BY <4>1 DEF Graph!Next
    <3>4. QED
      BY <3>2, <3>3
  <2>3. CASE LoopHead(w)
    BY <2>3 DEF LoopHead, Goto, RunLocal, Committed
  <2>4. CASE RunPlainNode(w)
    BY <2>4 DEF RunPlainNode, LeaveNode, Goto, RunLocal, Committed
  <2>5. CASE RunExtract(w)
    BY <2>5 DEF RunExtract, Goto, Committed
  <2>6. CASE PersistExtraction(w)
    <3>1. Graph!Extract \/ UNCHANGED Graph!vars
      BY <2>6 DEF PersistExtraction, LeaveNode, Goto, Committed, Graph!Extract,
         Graph!Exists, Graph!Closed
    <3>2. QED
      BY <3>1 DEF Graph!Next
  <2>7. CASE RunPrice(w)
    <3>1. Graph!Price \/ UNCHANGED Graph!vars
      BY <2>7 DEF RunPrice, LeaveNode, Goto, Committed, Graph!Price, Graph!Exists,
         Graph!Closed
    <3>2. QED
      BY <3>1 DEF Graph!Next
  <2>8. CASE RunScore(w)
    <3>1. Graph!Score \/ UNCHANGED Graph!vars
      BY <2>8 DEF RunScore, LeaveNode, Goto, Committed, Graph!Score, Graph!Exists,
         Graph!Closed
    <3>2. QED
      BY <3>1 DEF Graph!Next
  <2>9. CASE NodeInterrupted(w)
    BY <2>9 DEF NodeInterrupted, Interruptions, LeaveNode, Goto, RunLocal, Committed
  <2>10. CASE Advance(w)
    <3>1. Graph!MoveOn \/ UNCHANGED Graph!vars
      BY <2>10, NextNodeValues DEF Advance, Goto, Committed, Graph!MoveOn,
         Graph!Exists, Graph!Closed
    <3>2. QED
      BY <3>1 DEF Graph!Next
  <2>11. CASE CheckpointFailed(w)
    <3>1. Graph!MoveOn \/ Graph!GiveUp
      BY <2>11 DEF CheckpointFailed, Goto, Committed, Graph!MoveOn, Graph!GiveUp,
         Graph!Exists, Graph!Closed
    <3>2. QED
      BY <3>1 DEF Graph!Next
  <2>12. CASE ComputeTerminalStatus(w)
    BY <2>12 DEF ComputeTerminalStatus, Goto, RunLocal, Committed
  <2>13. CASE Finalize(w)
    <3>1. Committed /\ Committed'
      BY <2>13 DEF Finalize, Committed
    <3>2. CASE status \in TERMINAL_STATUSES
      BY <2>13, <3>1, <3>2 DEF Finalize, SetStatus, Goto
    <3>3. CASE status \notin TERMINAL_STATUSES
      <4>1. Graph!Publish
        BY <2>13, <3>1, <3>3 DEF Finalize, SetStatus, Goto, Graph!Publish,
           Graph!Exists, Graph!Closed, RequestStatus
      <4>2. QED
        BY <4>1 DEF Graph!Next
    <3>4. QED
      BY <3>2, <3>3
  <2>14. CASE CompleteRun(w)
    BY <2>14 DEF CompleteRun, SettleJob, Idle, Committed
  <2>15. QED
    BY <1>1, <2>1, <2>2, <2>3, <2>4, <2>5, <2>6, <2>7, <2>8, <2>9, <2>10, <2>11, <2>12,
       <2>13, <2>14 DEF EngineStep
<1>2. CASE IntakeStep
  <2>1. CASE CommitRequest
    <3>1. ~Committed /\ Committed'
      BY <2>1 DEF CommitRequest, Committed
    <3>2. Graph!Create
      BY <2>1, <3>1 DEF CommitRequest, Graph!Create, Graph!Exists
    <3>3. QED
      BY <3>2 DEF Graph!Next
  <2>2. CASE RollbackRequest
    BY <2>2 DEF RollbackRequest, Committed
  <2>3. CASE EnqueueRequest
    BY <2>3 DEF EnqueueRequest, Add, Committed
  <2>4. CASE EnqueueFails
    <3>1. Committed /\ Committed'
      BY <2>4 DEF EnqueueFails, Committed
    <3>2. CASE UNCHANGED status
      BY <2>4, <3>1, <3>2 DEF EnqueueFails
    <3>3. CASE MarkProcessing /\ ~UNCHANGED status
      <4>1. Graph!Begin
        BY <2>4, <3>1, <3>3 DEF EnqueueFails, Fault, MarkProcessing, Graph!Begin,
           Graph!Exists, Graph!Closed, RequestStatus
      <4>2. QED
        BY <4>1 DEF Graph!Next
    <3>4. QED
      BY <2>4, <3>2, <3>3 DEF EnqueueFails
  <2>5. QED
    BY <1>2, <2>1, <2>2, <2>3, <2>4 DEF IntakeStep
<1>3. CASE BullStep
  <2>1. ASSUME NEW w \in Workers, NEW j \in Jobs, TakeJob(w, j)
        PROVE  Mapped
    BY <2>1 DEF TakeJob, Committed
  <2>2. ASSUME NEW j \in Jobs, StalledCheck(j)
        PROVE  Mapped
    BY <2>2 DEF StalledCheck, HasLockHolder, Committed
  <2>3. ASSUME NEW j \in Jobs, RetentionExpires(j)
        PROVE  Mapped
    BY <2>3 DEF RetentionExpires, Committed
  <2>4. QED
    BY <1>3, <2>1, <2>2, <2>3 DEF BullStep
<1>4. CASE FaultStep
  <2>1. ASSUME NEW w \in Workers, WorkerCrash(w)
        PROVE  Mapped
    BY <2>1 DEF WorkerCrash, Idle, Committed
  <2>2. ASSUME NEW w \in Workers, LockLost(w)
        PROVE  Mapped
    BY <2>2 DEF LockLost, Committed
  <2>3. ASSUME NEW w \in Workers, RunThrows(w)
        PROVE  Mapped
    BY <2>3 DEF RunThrows, Fault, SettleJob, Idle, Committed
  <2>4. QED
    BY <1>4, <2>1, <2>2, <2>3 DEF FaultStep
<1>5. CASE SweepStep
  <2>1. CASE WindowPasses
    BY <2>1 DEF WindowPasses, Committed
  <2>2. CASE Sweep
    BY <2>2 DEF Sweep, StaleParsing, Committed, Add
  <2>3. QED
    BY <1>5, <2>1, <2>2 DEF SweepStep
<1>6. CASE HumanStep
  <2>1. CASE Resume
    BY <2>1 DEF Resume, Committed, Add
  <2>2. ASSUME NEW p \in PasteJobs, PasteCheck(p)
        PROVE  Mapped
    BY <2>2 DEF PasteCheck, Committed
  <2>3. ASSUME NEW p \in PasteJobs, PasteCheckpoint(p)
        PROVE  Mapped
    BY <2>3 DEF PasteCheckpoint, Committed
  <2>4. ASSUME NEW p \in PasteJobs, PasteEnqueue(p)
        PROVE  Mapped
    BY <2>4 DEF PasteEnqueue, Add, Committed
  <2>5. ASSUME NEW d \in Decliners, DeclineLoad(d)
        PROVE  Mapped
    BY <2>5 DEF DeclineLoad, Committed
  <2>6. ASSUME NEW d \in Decliners, DeclineTry(d)
        PROVE  Mapped
    BY <2>6 DEF DeclineTry, Committed
  <2>7. ASSUME NEW d \in Decliners, DeclineAudited(d)
        PROVE  Mapped
    BY <2>7 DEF DeclineAudited, Committed
  <2>8. ASSUME NEW d \in Decliners, DeclineReverted(d)
        PROVE  Mapped
    BY <2>8 DEF DeclineReverted, Fault, Committed
  <2>9. CASE Remap
    <3>1. Committed /\ Committed'
      BY <2>9 DEF Remap, Committed
    <3>2. Graph!Remap
      BY <2>9, <3>1 DEF Remap, Graph!Remap, Graph!Exists, RequestStatus
    <3>3. QED
      BY <3>2 DEF Graph!Next
  <2>10. CASE MarkSent
    <3>1. Graph!Send \/ UNCHANGED Graph!vars
      BY <2>10 DEF MarkSent, Committed, Committed, Graph!Send, Graph!Exists,
         Graph!Closed
    <3>2. QED
      BY <3>1 DEF Graph!Next
  <2>11. QED
    BY <1>6, <2>1, <2>2, <2>3, <2>4, <2>5, <2>6, <2>7, <2>8, <2>9, <2>10
    DEF HumanStep, PasteStep, DeclineStep
<1>7. CASE UNCHANGED vars
  BY <1>7 DEF Committed
<1>8. QED
  BY <1>1, <1>2, <1>3, <1>4, <1>5, <1>6, <1>7 DEF Next

\* The row behaves like one sequential pass over the graph. (That a pass is
\* concluded needs fairness and is model-checked.)
THEOREM RecoveryImplementsGraph ==
  ASSUME KeyedOnly
  PROVE  Spec => Graph!Safety
<1>1. Init => Graph!Init
  BY DEF Init, Committed, Graph!Init
<1>2. Init => IntakeInv
  BY DEF Init, IntakeInv
<1>3. TypeInv /\ LocksInv /\ RecoveryInv /\ IntakeInv /\ [Next]_vars => [Graph!Next]_(Graph!vars)
  BY KeyedOnly, GraphStep
<1>4. Spec => []IntakeInv
  BY <1>2, TypeInvInit, TypeInvStep, IntakeInvStep, PTL DEF Spec
<1>5. QED
  BY <1>1, <1>3, <1>4, RecoveryInvariant, KeyedOnly, PTL DEF Spec, Graph!Safety
=============================================================================
