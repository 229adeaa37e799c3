--------------------------- MODULE ResumableGraph ---------------------------
(***************************************************************************)
(* What the pipeline promises of one request, with no worker, queue, crash *)
(* or sweep in sight: a single sequential pass over the graph. Each node   *)
(* does its work at most once per visit, the checkpoint moves on one edge  *)
(* at a time, an outcome is published only where the graph can produce it, *)
(* and a pass that began ends in an outcome. RequestPipeline implements    *)
(* this as long as every enqueue uses the stable job id.                   *)
(***************************************************************************)

CONSTANTS Nodes,      \* the graph's nodes
          Edge        \* the checkpoint after each node

VARIABLES status, node, routing, extraction, quote

vars == <<status, node, routing, extraction, quote>>

\* People closed it: the pipeline may not change the status any more.
Closed == {"declined", "sent"}

Exists == status # "none"

Init ==
    /\ status = "none"
    /\ node = "parse"
    /\ routing = "null"
    /\ extraction = "none"
    /\ quote = FALSE

\* Intake committed.
Create ==
    /\ ~Exists
    /\ status' = "parsing"
    /\ UNCHANGED <<node, routing, extraction, quote>>

\* A pass starts or restarts, from wherever the checkpoint is.
Begin ==
    /\ Exists /\ status \notin Closed
    /\ status' = "parsing"
    /\ UNCHANGED <<node, routing, extraction, quote>>

Extract ==
    /\ node = "extract"
    /\ extraction # "valid"
    /\ extraction' \in {"valid", "invalid"}
    /\ UNCHANGED <<status, node, routing, quote>>

Price ==
    /\ node = "price"
    /\ quote' \in BOOLEAN
    /\ quote' => extraction # "none"
    /\ UNCHANGED <<status, node, routing, extraction>>

\* The decision and the last checkpoint are one step.
Score ==
    /\ node = "score"
    /\ node' = "done"
    /\ routing' \in {"auto_eligible", "needs_review"}
    /\ routing' = "auto_eligible" => extraction = "valid"
    /\ UNCHANGED <<status, extraction, quote>>

MoveOn ==
    /\ node \in Nodes \ {"score"}
    /\ node' \in {Edge[node], "failed"}
    /\ UNCHANGED <<status, routing, extraction, quote>>

GiveUp ==
    /\ node = "score"
    /\ node' = "failed"
    /\ UNCHANGED <<status, routing, extraction, quote>>

\* The outcomes a pass that stopped at the checkpoint may publish.
Outcomes ==
    CASE node = "failed" -> {"failed"}
      [] node = "done"   -> {IF routing = "auto_eligible" THEN "priced" ELSE "needs_review"}
      [] node = "parse"  -> {"needs_review", "needs_clarification"}
      [] OTHER           -> {"needs_review"}

Publish ==
    /\ Exists /\ status \notin Closed
    /\ status' \in Outcomes
    /\ UNCHANGED <<node, routing, extraction, quote>>

\* The pass that is shown as running ends.
Conclude == status = "parsing" /\ Publish

\* An estimator re-maps a line of an extracted request: the quote is recomputed
\* and a blocked quote sends the request to review.
Remap ==
    /\ Exists /\ extraction # "none"
    /\ quote' \in BOOLEAN
    /\ status' \in {status, "needs_review"}
    /\ UNCHANGED <<node, routing, extraction>>

Send ==
    /\ quote
    /\ status \in {"ready", "priced", "needs_review"}
    /\ status' = "sent"
    /\ UNCHANGED <<node, routing, extraction, quote>>

Next ==
    \/ Create \/ Begin \/ Extract \/ Price \/ Score \/ MoveOn \/ GiveUp \/ Publish
    \/ Remap \/ Send

\* What may happen, and that a pass shown as running is concluded.
Safety == Init /\ [][Next]_vars

Spec == Safety /\ WF_vars(Conclude)
=============================================================================
