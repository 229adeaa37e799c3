---------------------------- MODULE ToolRegistry ----------------------------
(* The registry every tool call goes through: what one call of a registered   *)
(* tool returns, logs and announces, by the step at which it fails. An event  *)
(* of a call made for an organization is first written to the audit trail,    *)
(* and that write may throw where everything else is caught.                  *)
EXTENDS Naturals, Sequences

\* TOOL_NODE_MAP: the tools whose failure is a stage's failure.
ToolNode(tool) == CASE tool = "extract_request" -> "extract"
                    [] tool = "search_catalog" -> "match"
                    [] OTHER -> "none"

\* The statuses a call may end with, by the step that fails.
ToolStatusOf(fault) == CASE fault = "none" -> "ok"
                         [] fault \in {"unknown", "execution"} -> "error"
                         [] OTHER -> "validation_error"

StageReason(fault) == CASE fault = "unknown" -> "TOOL_NOT_FOUND"
                        [] fault = "input" -> "TOOL_INPUT_INVALID"
                        [] fault = "execution" -> "TOOL_EXECUTION_FAILED"
                        [] OTHER -> "TOOL_OUTPUT_INVALID"

\* emitToolEvent and emitStageError: a tool of no stage has no stage error.
ToolEventsOf(tool, fault) ==
    IF fault = "none" THEN <<"running", "success">>
    ELSE <<"running", "failed">>
         \o (IF ToolNode(tool) = "none" THEN <<>> ELSE <<StageReason(fault)>>)

\* invoke: what is awaited in order. An audit row that cannot be written throws
\* out of the call - the tool having run or not - unless the event is a stage
\* error, whose failure is swallowed like that of the call's own log.
Invoke(tool, fault, unaudited, org) ==
    LET events == ToolEventsOf(tool, fault)
        thrown == IF org = "none" THEN {} ELSE unaudited \intersect {1, 2}
    IN  IF 1 \in thrown THEN [status |-> "thrown", ran |-> FALSE, events |-> <<>>]
        ELSE IF 2 \in thrown
        THEN [status |-> "thrown", ran |-> fault \notin {"unknown", "input"}, events |-> <<"running">>]
        ELSE [status |-> ToolStatusOf(fault), ran |-> fault \notin {"unknown", "input"},
              events |-> events]
=============================================================================
