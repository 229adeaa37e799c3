------------------------------- MODULE Copilot -------------------------------
(* The advisory explanation of why a request needs review: computed from the  *)
(* request and its lines' flags when somebody asks, kept in Redis for a time, *)
(* and forgotten by a re-map - while runs change what it rests on without a   *)
(* word, and Redis may lose a write, a deletion or everything.                *)
EXTENDS ToolRegistry

CONSTANTS
    Askers,             \* review screens
    FullTtl, ShortTtl,  \* 15 minutes and 60 seconds, in ticks
    MaxChanges,         \* bound: re-maps and runs
    MaxAsks             \* bound: requests for an explanation

VARIABLES
    review,             \* the request: its routing, versions of reasons and flags
    cached,             \* what Redis holds
    asks,               \* the calls under way and what the screens show
    forgets,            \* re-maps committed whose deletion is still to come
    changes, askCalls

copilotVars == <<review, cached, asks, forgets, changes, askCalls>>

Nothing == [held |-> FALSE, of |-> <<0, 0>>, degraded |-> FALSE, left |-> 0]
NoAsk == [at |-> "idle", row |-> [routing |-> "none", reasons |-> 0], flags |-> 0,
          degraded |-> FALSE, error |-> FALSE, shown |-> "nothing"]

CopilotInit ==
    /\ review = [routing |-> "needs_review", reasons |-> 0, flags |-> 0]
    /\ cached = Nothing
    /\ asks = [a \in Askers |-> NoAsk]
    /\ forgets = 0 /\ changes = 0 /\ askCalls = 0

\* What an explanation of the request as it stands would rest on.
Basis == <<review.reasons, review.flags>>

-----------------------------------------------------------------------------
(* ----------------------------- an explanation -------------------------- *)

\* GET /requests/:id/copilot-explanation: the row is read; only a request that
\* needs review has an explanation.
AskWhy(a) ==
    /\ asks[a].at = "idle" /\ askCalls < MaxAsks
    /\ askCalls' = askCalls + 1
    /\ asks' = [asks EXCEPT ![a].at = IF review.routing = "needs_review" THEN "lookup" ELSE "idle",
                            ![a].row = [routing |-> review.routing, reasons |-> review.reasons],
                            ![a].shown = IF review.routing = "needs_review" THEN @ ELSE "empty",
                            ![a].error = FALSE]
    /\ UNCHANGED <<review, cached, forgets, changes>>

\* readCache: an error of Redis reads as a miss.
Lookup(a) ==
    /\ asks[a].at = "lookup"
    /\ \/ cached.held /\ asks' = [asks EXCEPT ![a].at = "idle", ![a].shown = "text",
                                              ![a].degraded = cached.degraded]
       \/ asks' = [asks EXCEPT ![a].at = "flags"]
    /\ UNCHANGED <<review, cached, forgets, changes, askCalls>>

ReadFlags(a) ==
    /\ asks[a].at = "flags"
    /\ asks' = [asks EXCEPT ![a].at = "explain", ![a].flags = review.flags]
    /\ UNCHANGED <<review, cached, forgets, changes, askCalls>>

\* The tool, called for no organization: without a language model it falls back
\* to a template. Its input is refused where a stored reason has a code the
\* schema does not know.
Explain(a) ==
    /\ asks[a].at = "explain"
    /\ \E fault \in {"none", "input"}, degraded \in BOOLEAN :
          LET call == Invoke("explain_routing", fault, {}, "none")
          IN  asks' = [asks EXCEPT ![a].at = IF call.status = "ok" THEN "store" ELSE "idle",
                                   ![a].error = call.status # "ok",
                                   ![a].degraded = degraded]
    /\ UNCHANGED <<review, cached, forgets, changes, askCalls>>

\* Mutant: kept until somebody deletes it.
TtlForever(degraded) == 0

\* A template's text is kept for less time.
Ttl(degraded) == IF degraded THEN ShortTtl ELSE FullTtl

\* redis.set: a failure is swallowed, and the answer goes out either way.
Store(a) ==
    /\ asks[a].at = "store"
    /\ \/ cached' = [held |-> TRUE, of |-> <<asks[a].row.reasons, asks[a].flags>>,
                     degraded |-> asks[a].degraded, left |-> Ttl(asks[a].degraded)]
       \/ UNCHANGED cached
    /\ asks' = [asks EXCEPT ![a].at = "idle", ![a].shown = "text"]
    /\ UNCHANGED <<review, forgets, changes, askCalls>>

\* What the block on the screen shows of its query: nothing at all on an error.
BlockShows(a) ==
    IF asks[a].error \/ asks[a].shown = "empty" THEN "nothing"
    ELSE IF asks[a].shown = "nothing" /\ asks[a].at # "idle" THEN "loading"
    ELSE asks[a].shown

-----------------------------------------------------------------------------
(* --------------------------- what it rests on -------------------------- *)

\* A run scores the request again; nobody forgets the explanation.
Rescore ==
    /\ changes < MaxChanges /\ changes' = changes + 1
    /\ \E routing \in {"needs_review", "auto_eligible"} :
          review' = [routing |-> routing, reasons |-> review.reasons + 1, flags |-> review.flags + 1]
    /\ UNCHANGED <<cached, asks, forgets, askCalls>>

\* A re-map commits new flags, and only then deletes the explanation: a failure
\* to do so is logged, and the deletion is not retried.
CommitRemap ==
    /\ changes < MaxChanges /\ changes' = changes + 1
    /\ review' = [review EXCEPT !.flags = @ + 1]
    /\ forgets' = forgets + 1
    /\ UNCHANGED <<cached, asks, askCalls>>

Forget ==
    /\ forgets > 0 /\ forgets' = forgets - 1
    /\ cached' = Nothing \/ UNCHANGED cached
    /\ UNCHANGED <<review, asks, changes, askCalls>>

\* Time passes in Redis; a key without an expiry stays.
Expire ==
    /\ cached.held /\ cached.left > 0
    /\ cached' = IF cached.left = 1 THEN Nothing ELSE [cached EXCEPT !.left = @ - 1]
    /\ UNCHANGED <<review, asks, forgets, changes, askCalls>>

CopilotNext ==
    \/ \E a \in Askers : AskWhy(a) \/ Lookup(a) \/ ReadFlags(a) \/ Explain(a) \/ Store(a)
    \/ Rescore \/ CommitRemap \/ Forget \/ Expire

\* Redis's clock runs, and the server goes on with a question it has taken: the
\* model behind Explain has a time limit (LlmTools).
CopilotFairness ==
    /\ WF_copilotVars(Expire)
    /\ \A a \in Askers : WF_copilotVars(Lookup(a) \/ ReadFlags(a) \/ Explain(a) \/ Store(a))

-----------------------------------------------------------------------------
(* ----------------------------- properties ------------------------------ *)

\* An explanation of flags or reasons that are no longer the request's does not
\* stay: a computation may have read them before a re-map and stored them after
\* its deletion, a deletion may have failed, a run deletes nothing - what ends
\* it in every case is the expiry (copilot.constants.ts:1-13).
StaleExplanationExpires ==
    (cached.held /\ cached.of # Basis) ~> (~cached.held \/ cached.of = Basis)

\* A page does not load for ever, whatever fails behind it: the block shows a
\* text or nothing (CopilotExplanationBlock, CopilotService.explain).
BlockSettles == \A a \in Askers : (BlockShows(a) = "loading") ~> (BlockShows(a) # "loading")
=============================================================================
