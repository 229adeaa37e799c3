----------------------------- MODULE EventStream -----------------------------
(* What a person watching a request sees: the engine emits one event per step *)
(* to the audit trail and to Redis, the API's subscriber hands it to the open *)
(* EventSource, and useSSEEvents folds events and the snapshot of the request *)
(* into the trace. Events are pushed once: a tab that is not subscribed, or a *)
(* publish that Redis refuses, loses them for good.                           *)
EXTENDS Naturals, Sequences, FiniteSets

CONSTANTS
    TraceNodes,         \* NODE_ORDER, the pipeline's nodes in their order
    OwnExits,           \* nodes that also emit a node.exited of their own, without a status
    MaxTraceRuns,       \* bound: runs of the pipeline over the request
    MaxLostEvents,      \* bound: events Redis refuses before a node that does not succeed
    MaxOnWire           \* bound: events the tab may lag behind

ASSUME EventStreamAssumption == TraceNodes \in Seq(STRING)

VARIABLES
    run,                \* the engine's side: checkpoint, status, what it still has to emit
    wire,               \* events published and not yet received by the tab
    tab                 \* the page: trace, connection, final output, last snapshot

traceVars == <<run, wire, tab>>

StageNames == {TraceNodes[i] : i \in 1..Len(TraceNodes)}
LastNode == Len(TraceNodes)

\* Statuses the page takes for "the pipeline ran to completion".
SettledStatuses == {"needs_review", "priced"}

\* EVENT_PAYLOAD_SCHEMAS, as far as the page tells the events apart. A
\* node.exited comes in three shapes, and only the engine's own has a status.
EventSchemas ==
    [name : {"node.entered", "stage.error", "tool.invoked"}, node : StageNames, status : {"none"}]
    \cup [name : {"request.resumed"}, node : StageNames \cup {"done"}, status : {"none"}]
    \cup [name : {"node.exited"}, node : StageNames, status : {"none", "success", "failed"}]
    \cup [name : {"processing.complete"}, node : {"none"}, status : {"success", "failed"}]

Event(name, node, status) == [name |-> name, node |-> node, status |-> status]

NoSnapshot == [node |-> 0, status |-> "none"]
AllPending == [n \in StageNames |-> "pending"]

Closed ==
    [shown |-> AllPending, conn |-> "closed", final |-> "none",
     snapshot |-> NoSnapshot, resumed |-> FALSE, settled |-> FALSE]

TraceInit ==
    /\ run = [at |-> "idle", node |-> 1, status |-> "received", past |-> {}, result |-> "success",
              runs |-> 0, ended |-> 0, lost |-> 0]
    /\ wire = <<>>
    /\ tab = Closed

-----------------------------------------------------------------------------
(* ------------------------- engine and event bus ------------------------ *)

\* EventsService.emit: an event its schema does not know is logged and dropped;
\* any other is appended to the audit trail and handed to the stream.
\* stage.error has a schema and an insert of its own, whose failure is logged.
Known(event) == IF event \in EventSchemas THEN <<event>> ELSE <<>>

\* SseService publishes on the Redis channel without waiting; only a tab that
\* is subscribed at that moment receives it. A refused publish is emitted on the
\* emitter of the publishing process, which is the worker and not the API.
Publish(events, refused) ==
    wire' = IF tab.conn = "connected" /\ ~refused THEN wire \o events ELSE wire

\* One step of the engine and the events it emits.
Emit(change, events) ==
    \E refused \in BOOLEAN :
        /\ Len(wire) < MaxOnWire
        /\ refused => run.lost < MaxLostEvents
        /\ run' = [change EXCEPT !.lost = IF refused THEN @ + 1 ELSE @]
        /\ Publish(events, refused)
        /\ UNCHANGED tab

\* run(): a run that does not begin at parse announces where it goes on; then
\* markProcessing.
BeginTrace ==
    /\ run.at = "idle" /\ run.runs < MaxTraceRuns
    /\ Emit([run EXCEPT !.at = "between", !.status = "parsing", !.result = "success", !.runs = @ + 1],
            IF run.node = 1 THEN <<>>
            ELSE Known(Event("request.resumed",
                             IF run.node > LastNode THEN "done" ELSE TraceNodes[run.node], "none")))

EnterNode ==
    /\ run.at = "between" /\ run.node <= LastNode
    /\ Emit([run EXCEPT !.at = "inside"], Known(Event("node.entered", TraceNodes[run.node], "none")))

\* The registry announces each tool call.
InvokeTool ==
    /\ run.at = "inside"
    /\ Emit([run EXCEPT !.at = "worked"], Known(Event("tool.invoked", TraceNodes[run.node], "none")))

\* extract, classify, match and score emit an exit of their own and return.
NodeReturns ==
    /\ run.at \in {"inside", "worked"}
    /\ Emit([run EXCEPT !.at = "returned"],
            IF TraceNodes[run.node] \in OwnExits
            THEN Known(Event("node.exited", TraceNodes[run.node], "none")) ELSE <<>>)

\* emitNodeExited, then the checkpoint: two steps, with a crash possible between.
ExitNode ==
    /\ run.at = "returned"
    /\ Emit([run EXCEPT !.at = "exited", !.past = @ \cup {TraceNodes[run.node]}],
            Known(Event("node.exited", TraceNodes[run.node], "success")))

CheckpointNode ==
    /\ run.at = "exited"
    /\ run' = [run EXCEPT !.at = "between", !.node = @ + 1]
    /\ UNCHANGED <<wire, tab>>

\* A node throws, an open circuit, a clarification, a failure: the run ends and
\* says so. Only an infrastructure failure moves the checkpoint (to FAILED).
Endings == {"breaker", "threw", "clarify", "failed"}

EventsOf(ending, node) ==
    CASE ending = "breaker" -> Known(Event("stage.error", node, "none"))
                               \o Known(Event("node.exited", node, "none"))
      [] ending = "threw"   -> Known(Event("stage.error", node, "none"))
                               \o Known(Event("node.exited", node, "failed"))
      [] OTHER              -> Known(Event("node.exited", node, "failed"))

StatusOf(ending) ==
    CASE ending \in {"breaker", "threw"} -> "needs_review"
      [] ending = "clarify"              -> "needs_clarification"
      [] OTHER                           -> "failed"

NodeFails(ending) ==
    /\ run.at \in {"inside", "worked"} /\ run.lost < MaxLostEvents
    /\ Emit([run EXCEPT !.at = "finalizing", !.status = StatusOf(ending), !.result = "failed"],
            EventsOf(ending, TraceNodes[run.node]))

\* finalize(): setStatus, then processing.complete.
SetFinalStatus(status) ==
    /\ run.at = "between" /\ run.node > LastNode
    /\ run' = [run EXCEPT !.at = "finalizing", !.status = status]
    /\ UNCHANGED <<wire, tab>>

Complete ==
    /\ run.at = "finalizing"
    /\ Emit([run EXCEPT !.at = "over", !.ended = @ + 1],
            Known(Event("processing.complete", "none", run.result)))

\* The worker dies, or an audit insert throws: the sweep or Bull runs the
\* request again from its checkpoint.
RunDies ==
    /\ run.at \notin {"idle", "over"} /\ run.runs < MaxTraceRuns
    /\ run' = [run EXCEPT !.at = "idle"]
    /\ UNCHANGED <<wire, tab>>

\* Somebody resumes the request where it stopped, or pastes a text, which sets
\* the checkpoint to extract: the text stands in for what parse would have read.
RunAgain(node) ==
    /\ run.at = "over" /\ run.runs < MaxTraceRuns
    /\ node \in {2, run.node} /\ node <= LastNode
    /\ run' = [run EXCEPT !.at = "idle", !.node = node,
                          !.past = @ \cup {TraceNodes[i] : i \in 1..(node - 1)}]
    /\ UNCHANGED <<wire, tab>>

-----------------------------------------------------------------------------
(* ------------------------------- the page ------------------------------ *)

Tab(change) == tab' = change /\ UNCHANGED run

\* connect(): a new EventSource, an empty trace and no final output. The
\* snapshot's effect does not run again unless the snapshot changes.
Open ==
    /\ tab.conn \in {"closed", "error"}
    /\ wire' = <<>>
    /\ Tab([tab EXCEPT !.conn = "connecting", !.shown = AllPending, !.final = "none",
                        !.resumed = FALSE, !.settled = FALSE])

Opened ==
    /\ tab.conn = "connecting"
    /\ UNCHANGED wire
    /\ Tab([tab EXCEPT !.conn = "connected"])

\* What each listener does to the trace: an exit without a status counts as
\* failed, a tool call leaves the node's state alone.
Shown(shown, e) ==
    IF e.node \notin StageNames THEN shown
    ELSE [shown EXCEPT ![e.node] =
            CASE e.name = "node.entered" -> "in-progress"
              [] e.name = "node.exited"  -> IF e.status = "success" THEN "success" ELSE "failed"
              [] e.name = "stage.error"  -> "failed"
              [] OTHER                   -> @]

Receive ==
    /\ tab.conn = "connected" /\ wire # <<>>
    /\ LET e == Head(wire) IN
       IF e.name = "processing.complete"
       THEN /\ wire' = <<>>
            /\ Tab([tab EXCEPT !.final = e.status, !.conn = "disconnected"])
       ELSE /\ wire' = Tail(wire)
            /\ Tab([tab EXCEPT !.shown = Shown(@, e), !.resumed = @ \/ e.name = "request.resumed"])

\* onerror closes the EventSource for good, and so do sixty seconds without an
\* event; leaving the page closes it too.
ConnectionLost ==
    /\ tab.conn \in {"connecting", "connected"}
    /\ wire' = <<>>
    /\ Tab([tab EXCEPT !.conn = "error"])

LeavePage ==
    /\ tab.conn # "closed"
    /\ wire' = <<>>
    /\ Tab(Closed)

\* Mutant: the node the checkpoint names is counted as done.
CompletedNodesAndNext(snapshot) ==
    IF snapshot.status \in SettledStatuses THEN StageNames
    ELSE {TraceNodes[i] : i \in 1..(IF snapshot.node > LastNode THEN LastNode ELSE snapshot.node)}

\* completedNodeCount: all of them for a settled request, else those before the
\* checkpoint; done and failed are not nodes and count none.
CompletedNodes(snapshot) ==
    IF snapshot.status \in SettledStatuses THEN StageNames
    ELSE IF snapshot.node \in 1..LastNode THEN {TraceNodes[i] : i \in 1..(snapshot.node - 1)}
    ELSE {}

\* useRequest answers. A snapshot that differs from the one before fills the
\* nodes still pending, and a settled one stands in for the final output.
Snapshot ==
    LET now == [node |-> IF run.status = "failed" THEN 0 ELSE run.node, status |-> run.status] IN
    /\ tab.conn # "closed" /\ now # tab.snapshot
    /\ UNCHANGED wire
    /\ Tab([tab EXCEPT
             !.snapshot = now,
             !.shown = [n \in StageNames |->
                          IF n \in CompletedNodes(now) /\ @[n] = "pending" THEN "success" ELSE @[n]],
             !.settled = @ \/ now.status \in SettledStatuses,
             !.final = IF now.status \in SettledStatuses /\ @ = "none" THEN now.status ELSE @])

\* The bar counts what has succeeded or failed.
Progress == Cardinality({n \in StageNames : tab.shown[n] \in {"success", "failed"}})

\* What the page draws: the resumed banner, Reconnect while there is an error.
Page ==
    {"trace"} \cup (IF tab.resumed THEN {"resumed"} ELSE {})
              \cup (IF tab.conn = "error" THEN {"reconnect"} ELSE {})
              \cup (IF tab.final # "none" THEN {"output"} ELSE {})

TraceNext ==
    \/ BeginTrace \/ EnterNode \/ InvokeTool \/ NodeReturns \/ ExitNode \/ CheckpointNode
    \/ \E ending \in Endings : NodeFails(ending)
    \/ \E status \in SettledStatuses : SetFinalStatus(status)
    \/ Complete \/ RunDies
    \/ \E node \in 1..LastNode : RunAgain(node)
    \/ Open \/ Opened \/ Receive \/ ConnectionLost \/ LeavePage \/ Snapshot

-----------------------------------------------------------------------------
(* ------------------------------ properties ----------------------------- *)

\* However events are lost, cut off by a reconnect or overtaken by a snapshot,
\* the page marks a node done only when that node has exited with success in
\* some run (or a pasted text replaced it), unless a snapshot has said meanwhile that the request is settled
\* (what it filled in stays, also when the request is run again); it shows an
\* output, and a full bar without a failed node, only for a request that a run
\* has settled, completed or taken through every node.
TraceTellsTruth ==
    /\ \A n \in StageNames :
          tab.shown[n] = "success" => n \in run.past \/ tab.settled
    /\ "output" \in Page => run.ended > 0 \/ tab.settled
    /\ Progress = LastNode /\ (\A n \in StageNames : tab.shown[n] # "failed") =>
          run.past = StageNames \/ tab.settled
=============================================================================
