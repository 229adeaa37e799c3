# distill-ai in TLA+

distill-ai turns an inbound request for quotation (e-mail, PDF, web form) into a priced quote: an API stores the
request and enqueues a job, a worker drives it through a seven-node graph (parse, extract, classify, match, price,
policy, score), people review, approve and send the quote. This directory models the parts of it where several actors
touch the same rows, keys, jobs and pages: the pipeline with its queue and recovery sweep, the quote from draft to the
customer's inbox, the circuit breaker, the generic job queue with its leases, retries and dead letters, the lines of a
request under runs and re-maps, the HTTP transaction, catalogue embeddings, the LLM tools, and the pages of the web
client with the answers, polls and events that overtake them. The calculations (prices, fusion, scoring, the layout of
the PDF) are operators, checked over bounded inputs.

Paths below are relative to `src/src/` unless they say otherwise. The pieces of `PROJECT.json` (`map`, `hazards`,
`runs`) tie every definition and every property to lines of the source.

## 1. The system

| Component | State | Operations | Talks to |
|---|---|---|---|
| Ingestion (`modules/ingestion`) | none of its own; inserts `requests`, `attachments` | create a request in the HTTP transaction; after commit enqueue its pipeline job | Bull, events |
| Pipeline engine (`modules/pipeline`, `queue/processors/pipeline.processor.ts`) | the row: `status`, `current_node`, `routing`, `processing_started_at` | load, mark processing, run node, checkpoint, finalize | every node, Bull, events |
| Recovery sweep (`modules/pipeline/recovery.sweep.ts`) | none | select stale PARSING rows, re-enqueue each under its stable job id | Bull |
| Bull queues (external; `queue/*.ts`) | job state, lock, stalled counter, attempts | add, take, renew lock, complete, fail, stalled check, retention | Redis |
| People's calls (`modules/requests`) | the row, pasted text | decline (with compensating write), resume, paste, re-map a line | engine through Bull, pricing |
| Nodes (`modules/{parse,classify,extraction,catalog,pricing,policy,scoring}`) | `extractions`, line items, `quotes` | one `run` each | LLM client, catalogue |
| Quotes (`modules/quotes`) | `quotes.status`, `email_delivery_started_at`, PDF objects | approve and render, deliver, mark sent; pricing replaces the row | object store, e-mail provider, requests |
| LLM client and breaker (`modules/llm`) | three Redis keys | admit a call, record success, record failure | Redis, the LLM |
| Jobs, worker, scheduler, DLQ (`modules/{jobs,scheduler,dlq}`, `queue/processors/job-worker.processor.ts`) | `jobs` rows (status, lease, attempts), `dlq_entries` | create, cancel, claim, run, retry, cascade, recover, dead-letter | Bull |
| RLS context (`modules/auth/middleware`, `common/http`) | one database connection per HTTP call | begin, set tenant, commit or roll back by status, after-commit tasks | pool |
| Line items (`modules/{catalog,pricing,policy,scoring}`, `requests/actions/line-item-remap.actions.ts`) | lines with prices, confidences and flags, the quote made of them | match, price, judge, score; re-map and recompute | quotes, catalogue |
| Catalogue, embeddings (`modules/catalog`) | SKUs, vectors, pending marks | edit, import, embed, recover pending | Bull, embedding service |
| Clarification (`modules/clarification`) | one row per request | draft, regenerate, edit, send | LLM, events |
| Copilot, tools (`modules/{copilot,tools}`) | a cached explanation in Redis | explain, answer a question in a bounded loop of tool calls | LLM, Redis |
| Events, SSE (`modules/events`, `sse`) | audit rows, a Redis channel | emit, publish, subscribe | every component, the trace page |
| Organizations (`modules/organizations`, `modules/auth`) | organizations, branding | resolve the header, onboard, edit branding | the client's picker |
| Web client (`client/src`) | query cache, dialogs, drafts, the trace | see the pages in section 2 | the API, the event stream |
| Analytics (`modules/analytics`) | none of its own | counts over requests, quotes and audit rows in a window | the analytics page |
| Benchmark, health, object store, bootstrap, migrations | see `PROJECT.json` | | |

What makes each of them correct:

* **Pipeline**: a request has one run at a time, resumes where it stopped, never goes back, publishes a status that
  agrees with how far it got, is never re-opened by a machine after a person closed it, and never stays PARSING.
* **Quotes**: one approver renders, nothing is sendable without its PDF, the customer gets a quote once at most, and
  nobody says SENT about something that was not mailed.
* **Breaker**: it opens on as many transient failures as configured and on nothing else, it lets one probe through,
  and it closes again when the LLM is well.
* **Jobs**: one worker runs a claimed job, a failure is never silent, a dependant runs after the jobs it depends on,
  as far as these are rows, and a job cancelled before it was claimed does not run.
* **Lines**: the quote is made of the lines that are there, a price set by hand lasts, auto-eligible means lines matched
  well and prices inside the limits, on a whole quote where a cap on the deal value is set, and the reasons given are
  those that hold.
* **Calls and services**: a call commits what it answered and gives its connection back, a pending product is
  embedded, a stale explanation ends, every question to the LLM ends.
* **Pages**: an answer is taken for what was asked, what a page has learned is not taken back by an older query, a
  letter that was sent is not changed, a pricing rule is stored as its schema wants it, the trace shows as done only
  what was done.

Hard behaviours: runs that outlive their lock, workers that die between an effect and its record, two enqueues of one
request, job ids that Bull retains, reads judged after an await, compensating writes, lost provider answers, keys
that expire under their owner, multi-command Redis updates. They are listed line by line under `hazards`.

## 2. Modules

| Module | Models | Kind |
|---|---|---|
| `RequestPipeline` | intake, Bull's pipeline queue, engine runs, sweep and people, for one request | detailed |
| `ResumableGraph` | what the pipeline promises: one sequential pass over the graph | abstract |
| `QuoteLifecycle` | approving, rendering, delivering and re-pricing the quote of one request | detailed |
| `QuotePromise` | what approval and delivery promise | abstract |
| `CircuitBreaker` | the three Redis keys and the calls that use them, command by command | detailed |
| `JobQueue` | a few dependent jobs: rows, Bull jobs, worker, scheduler sweep, cancellation, dead letters | detailed |
| `HttpTransaction` | a call from its connection to the connection it gives back: RLS transaction, listeners, deferred tasks, uploads | detailed |
| `CatalogEmbedding` | one product under editors, import, embedding job and recovery, with row locks | detailed |
| `Copilot`, `AskCopilot` | the cached explanation of a routing; the question panel and the agent's loop | detailed |
| `ToolRegistry` | what one tool call returns, logs and announces, by the step that fails | operators |
| `LlmTools` | the stages and tools that ask the LLM: attempts, retries, defaults, time limit, fixtures | detailed |
| `LinePricing` | line items and quote of a request: a run's nodes, re-maps as transactions, price edits | detailed |
| `Values`, `QuoteDecisions`, `PricingEngines`, `CatalogMatching`, `ExtractionChecks`, `PdfLayout`, `Analytics` | discounts, limits, scores and reasons; both vertical engines; fusion, matching and import rows; reconciliation; pages of the PDF; the figures of the analytics page | operators |
| `Calculations` | one question to one of these operators, and what the answers must satisfy | harness |
| `EventStream` | engine events, publishing, the subscription and the trace drawn from them | detailed |
| `Clarifications` | the letter, its calls (of the page and of other callers of the API) and the page it is edited on | detailed |
| `RemapScreen`, `Inbox`, `Dialogs`, `QuoteScreen` | the review screen's drawer and total, the inbox with its modal and poll, decline and paste, the quote's page and the register | detailed |
| `AdminPanels`, `Organizations`, `RuleFiles` | product and rule forms, the PATCH behind them and the PATCHes other callers of the API send, the organization of a call, the rule files and their caches | detailed |
| `WebClient` | the pages above as one client, one of them followed in each behaviour | composition |
| `*Proofs` | theorems about `RequestPipeline`, `QuoteLifecycle`, `CircuitBreaker`, `HttpTransaction` and `JobQueue`; `DecisionProofs` about `LinePricing` and the scores of `Calculations`; `ScreenProofs` about `Clarifications`, `AdminPanels` and `EventStream`; `PageProofs` about the other pages and `WebClient` | proofs |
| `MC*` | instances of the above for TLC: registries, cases, symmetry, choice of a part | model checking |

`RequestPipeline` composes everything that touches one request's row, because its hazards are in how these meet;
requests share no rows, so one request is enough. `QuoteLifecycle` takes the pipeline as `RunStarts`, `RunPrices` and
`RunFinalizes`, and `RequestPipeline` takes quoting as `hasQuote`, `MarkSent` and `Remap`: each is the other's
environment. `LinePricing` is the same request seen from its lines: it opens up what `RunPrices` and `Remap` are there.

`MCDecisions`, `MCServices` and `WebClient` (which `MCScreens` instantiates) compose modules that share no state. Each behaviour picks one `part` and the
others stand still, so that the state space is the sum of the parts and not their product; a property of one part is
about that part's behaviours and holds of the others because nothing happens in them. Where a property is a
conjunction of one promise per part (`NothingHangs`, `AnswersFitWhatWasAsked`, `ScreensMoveForward`), each promise is
stated in the module it is about.

### RequestPipeline

State follows the row (`status`, `current_node`, `routing`, `processing_started_at`, `created_at`), the two child
rows as far as they decide anything (`extraction`, `hasQuote`), Bull (`jstate`, `jskip`, `jstalls`), and the local
variables of each engine run (`pc`, `rjob`, `rnode`, `rskip`, `rlock`, `rout`): what the run read and acts on later. Every
await between which another actor may write is a boundary between actions. `LoadRequest`, `StartProcessing`,
`LoopHead`, `Run*`, `Advance`, `CheckpointFailed`, `ComputeTerminalStatus`, `Finalize`, `CompleteRun` are the engine's
`runInternal` in order; `NodeInterrupted` is the set of ways a node may not advance (logical error, open breaker,
infrastructure error, failed, clarify); `RunThrows` is a database error outside the node's own try block, which
fails the job (pipeline jobs have one attempt). `WorkerCrash` drops the run and leaves the job active until Bull's
`StalledCheck`. `Add` is `queue.add` with a job id: no effect while a job of that id exists in any state.

Data that decides nothing is left out: texts, prices, line items, the LLM's answer (a choice), events. A node that
changes none of the state above is `RunPlainNode`.

### QuoteLifecycle

State is the `quotes` row (`quote`, `qstatus`, `delivery_started`), the PDFs in the object store, where each approving
and each sending call is and what it holds (`apc`, `aq`, `spc`, `sq`, `sstart`), the clock in hours, and the provider's memory of
idempotency keys. Conditional updates are `Matches(id, status)`: the WHERE clause. `ready_once` and `mails` are history.

### CircuitBreaker

`cb:llm:state` with its time of saving reduced to `cooled`, `cb:llm:failures` with how it will expire, `cb:llm:probe`.
One action per Redis command, so that two callers interleave inside `getState`, `recordSuccess` and `recordFailure`.
`executeWithRetry` is one step that ends in an answer or an error.

### JobQueue

State is the `jobs` rows (`status`, `depends_on`, `recurring`, `expired` for a lease that has run out), the dead-letter
table (`dlq`), Bull's job of each row (`bstate`, `attempts`, `stalls`), each worker slot's run (`pc`, `wjob`, `wlock`), what the
sweep has read (`sphase`, `sset`, `sdoomed`), and what `cancelJob` has read (`cancelling`). `LoadJob`, `CheckDeps`, `ClaimJob`,
`HandlerReturns`/`HandlerThrows`, `CompleteJob`, `ScheduleNextRecurrence`, `SettleRun` are `handleJob` in order; `MoveToFailed`
is Bull's reaction to a throw, and `MarkFailed` and `MoveToDlq` are `onFailed`'s `Promise.all`, in either order.
A new row depends on any ids, rows or not (`Strangers`); the worker and the sweep judge those of them that are rows
(`Found`), as `findJobsByIds` does.
`SweepFindStalled`, `RecoverStalled`, `SweepFindEligible`, `SweepJudge`, `SweepCascade`, `SweepEligible` are
`runSchedulerSweep`: it writes by id on what it read before. Only the claim is conditional. Priorities and the
starvation boost order the sweep and are left out; a row with a future `scheduled_at` is one that nobody enqueues
before a sweep does. A job that stalled too often is settled without a dead letter, because `onFailed` sees fewer
attempts than the maximum then. `ran`, `overran`, `calledOff`, `buried`, `spawned`, `forked` are history.

### LinePricing and the calculations

A run reads, decides and writes in statements of their own (`MatchLine`, `PriceRead`, `PriceWrite`, `PolicyRead`,
`PolicyWrite`, `ScoreWrite`); a re-map is a transaction (`RemapStart`, `RemapUpdate`, `RemapRead`, `RemapCommit`) that sees
its own rows over the committed ones, as READ COMMITTED does, and waits for rows somebody else has written. What the
statements compute is in `QuoteDecisions`. `crossed` is history: the last write of the quote was computed from a product
or a quantity that somebody had changed and committed by then. A quote is a function from its lines; money is in minor units, confidences in
hundredths. `PricingEngines` keeps every branch of the two engines that pushes a line or a missing rule; schemas become
"parses or is `Malformed`". `PdfLayout` keeps the heights the renderer checks and those it draws, in thousandths of a
point; a text is the number of lines pdfkit wraps it into. `Analytics` has one operator per query; a request
has at most one quote (the unique index on `quotes.request_id`), times are days, percentages tenths of a percent, and
floating point is exact.

### HttpTransaction, CatalogEmbedding, Copilot, LlmTools

`HttpTransaction` has one record per call: where it is, which connections it holds, whether `finish` and `close` have
fired, and what of it is committed, stored and deferred. A re-map takes a second connection for its own transaction
and, inside it, a third to read the pricing rules, which `QuoteRecomputeService` does not pass its manager to. Set-up, handler, listeners and tasks are actions of their own,
and the client may leave between any two. `CatalogEmbedding` has the committed row, the lock on it, and each actor's
uncommitted copy; `save()` writes the columns that differ from what it read. `Copilot` has what the request says now
and what the cached text was made from. `LlmTools` follows one task through its attempts; what the provider says is one
of: valid, unsure, invalid, an error that may be retried or not, or nothing.

### The pages

Each page module has the page's own state, the queries and calls under way with what they were asked, and the row
behind them. A call is `sent`, executed by the server in some order, and heard in some order; polls and invalidations
read when the server answers and land later. The client's cache is modelled where the page writes it itself:
optimistic rows (`Inbox`), totals with their sequence numbers (`RemapScreen`), details and lists (`QuoteScreen`).

Where the API takes more than its page sends, the model has that too: `Clarifications` has the draft that is put past
the page (`PutDraft`), blank or not, and drafts of the model that are white space only; `AdminPanels` has a PATCH with
any of a rule's fields (`PatchRule`). A rule is its vertical, type, config and switch; a config is a name, and `Takes`
says which ones the schema of a vertical and a type takes.

## 3. Runs

| Run | Instance | Question and answer |
|---|---|---|
| `PipelineRecovery` | 2 engine slots, 7 nodes, 2 crashes, 1 fault, 1 re-map, no paste | With enqueues by the stable id only, does a request survive crashes, re-deliveries, failed enqueues, sweeps and resumes? Yes: one run at a time, at its checkpoint, forward only, verdicts that fit, PARSING left, and a refinement of `ResumableGraph`, its fairness included. |
| `PipelinePeople` | 2 slots, a paste job, a decline, 1 fault, 1 lost lock | Do lock ownership and "closed stays closed" survive when runs overlap? Yes. |
| `SweepStrands` | 1 slot, 2 crashes | Is a stale request always re-enqueued by the sweep, as its comment says? No: finding. |
| `QuoteDelivery` | 1 approver, 2 senders, 2 quotes, 4 hours, 1 death | Is a quote mailed once at most, and SENT only when mailed? Yes, while a call lasts less than the gap between the 23 h retry window and the 24 h key window. |
| `QuoteApproval` | 2 approvers, 1 sender, 2 quotes, 1 death | One claimant, PDF before READY, the promise of `QuotePromise`, and no quote left APPROVED by a call that ended? Yes. |
| `Breaker` | 2 callers that keep coming, threshold 2, 1 death, 1 failing INCR | Does it trip on enough failures only, and recover? Yes. |
| `JobDependencies` | 2 rows and an id of no row, 1 worker, 1 attempt, 1 trouble | Does a handler ever start before the jobs it depends on ran, through recovery, cascades, retries and recurrences? No, of the ids that are rows. |
| `JobDelivery` | 1 row, 2 workers, 2 attempts, a cancellation, 1 trouble | One handler at a time within a lease, no silent failure, no run of a job called off, no forked series, and an end to every job that can succeed? Yes. |
| `Decisions` | 2 lines, 2 products, 2 estimators: 2 runs, 2 re-maps, 1 price edit, one after the other; or 2 re-maps and 1 run, overlapping; and each calculation over its cases | Do lines and quote agree? Yes, unless the last write of the quote was computed from lines that had changed since (`crossed`). One after the other, do manual prices last, is auto-eligible earned? Yes. Are routing, engines, fusion, PDF and reports whole? Yes. |
| `RemapDiverges` | 2 estimators, 2 lines | Can line and quote diverge when two people re-map? The comment says no; they can: finding. |
| `Services` | one of: 2 calls on a pool of 3 or 5; 1 editor, import and worker; 2 screens and a cache; 2 LLM tasks | Do calls commit what they answered, does everything waited for end, are pending products embedded, do stale explanations end? Yes. |
| `Screens` | one of ten pages, each with 2 to 4 calls and the people beside it | Does a late answer, poll or event make a page show or change what it should not? No, but for the cases section 5 lists. |

### Bounds and why they are enough

* Two engine slots: a third run adds a third copy of the same interleaving; the proofs lift it to any number.
* Two crashes with `MaxStalled = 1` (Bull's default): the first crash is re-delivered, the second fails the job for
  good, which is the case that strands a request until retention ends.
* One fault: a failed enqueue, a throwing read, update or audit insert. Two independent faults in one request's life
  only combine outcomes that each already reaches.
* One re-map, one paste, one decline: each is one call, and every later one starts from a state the first can leave.
* `ParseOnly` (runs about locks and people) registers one node, so that the state space goes into interleavings; the
  unregistered-node exit of the engine is fired by the same run.
* Two quotes: one that is replaced under its holders and its successor. Four hours with a retry window of 2 and a key
  window of 3 stand for 23 h and 24 h: inside both, between them, outside both.
* `JobQueue`: two workers and one row are every race for one claim; two rows are every kind of edge between rows (a
  dependency, a DLQ retry, a next recurrence) and the series ends when the rows do. `MaxTrouble = 1` is one crash, error or
  lost lock in total: each alone re-delivers the job, and the expiring leases and unconditional writes, which need no
  trouble, give the second delivery everything to race with. One id of no row is every such id: nothing asks which it is.
* `Decisions` has two budgets. Where re-maps and runs overlap, one rule set, no price edits and re-maps that
  enter no price of their own are enough (`Small`): who writes the quote last, from what it read, is in who reads and writes when. Two writers
  are every pair that can cross; the run is one of them or comes before. The estimators are interchangeable (`SYMMETRY`).
* `Decisions`: two lines are a quote and what is missing from it; the rule sets are none, one with a floor and one with
  both limits; thresholds are met exactly, missed by one and exceeded. The questions put to the calculations are the
  complete rule sets of both verticals with each rule in turn left out, malformed, inactive or repeated, every pair of
  rankings of up to three products, lines with each flag and without price, and rows whose heights sum to just below, at
  and above the end of a page, and requests made and quoted on, just before and just after the edges of two weeks.
* `Services`: with two calls a pool of three has one connection to spare when both wait for one more, and none when
  one of them is a re-map; a pool of five has one to spare for two re-maps, each of which needs three; retries and TTLs
  keep their order (2 and 1 ticks for 15 minutes and 60 seconds).
* `Screens`: two calls are enough to be answered out of order, a third comes between; two people make a conflict.
  The administration has one admin and callers past the page, with two calls in all: two PATCHes cross or they do not.
  `VIEW PartView` tells states apart by `part` and that part's variables: the other parts' are the same in all of a
  part's states, so no two different states are taken for one (the run finds as many states with it as without).
* Threshold 2: below, at and beyond it. `strikes` and `failures` saturate at it.

Symmetry is used only where no liveness is checked (`PipelinePeople`, `QuoteDelivery`, `Decisions`). `CHECK_DEADLOCK FALSE` is set
for `RequestPipeline` (a request that is settled, with its jobs aged out, has nothing to do) and for the runs of parts
(a question answered, or calls and edits used up, end the behaviour).

### Fairness and why the code justifies it

* Engine steps of a live run are weakly fair: Node's event loop continues an awaited promise. `WorkerCrash`, `LockLost`
  and `RunThrows` are not fair, and bounded.
* `TakeJob`, `StalledCheck`, `RetentionExpires`: Bull's own timers, on in every worker.
* `Sweep` and `WindowPasses`: `RecoverySweep` is a cron and also runs at boot; time passes.
* The API finishes a transaction and its after-commit task once it began, or it fails (`EnqueueFails` also stands for
  an API that died there).
* People's calls (resume, paste, decline, re-map, send, approve) have no fairness: nobody has to act.
* `QuoteLifecycle`: a call that began goes on; `CallDies` is not fair, and `ClaimResolved` says so (`crashes > 0`).
* `CircuitBreaker`: requests keep coming, cooldown and probe TTL elapse. The hour after which the state key itself
  expires is not relied on. `RecoversWhenHealthy` assumes the LLM stays well: `<>[](llm = "up")`.
* `JobQueue`: live runs, Bull's hand-out and stalled check, leases, the sweep and begun API calls are weakly fair. Two
  strong fairness assumptions: a handler that can return does not throw at every attempt (`Failing` names those that
  do), and a settled Bull job ages out even if it is re-opened now and then (`RetentionExpires` is disabled while a
  run, a sweep or a call of that job is under way, as a retention of a day outlasts all of them).
* `HttpTransaction`: a call's own steps are strongly fair: Node runs every callback that is due, and pg grants a freed
  connection to its waiters in turn, so a call that could have one again and again gets it. Clients do not have to
  leave and faults do not have to happen.
* `CatalogEmbedding`: the transactions in progress and the queue go on, and the repeating recovery job comes round.
* `Copilot`: Redis's clock runs, a question taken by the server is carried on. Nobody has to ask, re-map or run.
* `LlmTools`: the program goes on, and its timers fire; the provider owes nothing.
* `LinePricing` and the pages have safety and action properties only, and no fairness.

## 4. Proofs

Eight modules prove what the runs show on small instances for every value of the constants. Each follows one
pattern: the property is strengthened to an inductive invariant, TLC checks that invariant on a small instance, and
one lemma per action shows that the action keeps it. The specifications proved about are `Init /\ [][Next]_vars`; no
fairness is used.

| Module | Theorems that state a run's property | Assumed |
| --- | --- | --- |
| `RequestPipelineProofs` | `TypeOK`, `LockHoldersUnique`, `RunFindsRow`, `OnlyPeopleReopen`; under `KeyedOnly` also `SoleRun`, `NodeAtItsCheckpoint`, `VerdictMatchesCheckpoint`, `CheckpointForward`, `ValidExtractionKept`, and the steps of `ResumableGraph` | `RequestPipelineAssumption` |
| `QuoteLifecycleProofs` | `MailedOncePerQuote`, `SentMeansMailed`, `OneClaimant`, `SendableHasPdf`, `KeepsQuotePromise` | `QuoteLifecycleAssumption` |
| `CircuitBreakerProofs` | `TripsAfterThreshold` | `CircuitBreakerAssumption` |
| `HttpTransactionProofs` | `CommitFollowsAnswer` | nothing |
| `JobQueueProofs` | `DependenciesFirst`, `SoleDispatch`, `SeriesNotForked`, `FailedIsVisible` | `JobQueueAssumption` |
| `DecisionProofs` | `QuoteMatchesLines`; `ManualPriceKept`, `AutoEligibleIsSound`; `RoutingIsExplained` | `LinePricingAssumption`, and for the first `NullIsNoFunction`, for `AutoEligibleIsSound` see below; `CalculationsAssumption` |
| `ScreenProofs` | `SentIsFinal`, `RuleStaysValid`, `TraceTellsTruth` | `PatchAssumption` for the rule, `EventStreamAssumption` for the trace |
| `PageProofs` | `AnswersFitWhatWasAsked`, `ScreensMoveForward`, and those of `ScreenProofs` in the client as a whole | `OrgAssumption`, `InboxAssumption`, `PatchAssumption`, `EventStreamAssumption` |

### RequestPipeline

`RequestPipelineProofs` proves its theorems for any sets of workers, jobs and people, any registry and any bounds,
from `RequestPipelineAssumption` (the keyed job is not a paste job; bounds are naturals). The four bounds are
constants of any size: the theorems therefore cover any finite number of crashes and faults.

1. `TypeCorrect`. `TypeOK` is not inductive: `Advance` writes `NextNode[rnode[w]]`, a value only when the run is at
   a node of the graph. `TypeInv` adds `RunAtGraphNode`.
2. `LocksUnique`. "Two live runs never hold one job's lock" needs to know that a job somebody holds is active:
   `LocksInv` says that a lock holder is a live run whose job is active, and that no two hold one job's lock: a job
   leaves `active` only by its holder or by a stalled check that found none.
3. `RunsFindTheirRow`. `IntakeInv`: no job and no run exists before the row is committed, and nobody pastes or
   declines before that.
4. `ClosedStaysClosed`. The action property follows from the guards of `SetStatus`, `MarkProcessing` and the
   conditional updates, action by action.
5. `RecoverySoleRun`, `RecoveryAtCheckpoint`, `RecoveryVerdicts`, `RecoveryForward`, `RecoveryKeepsExtraction` and
   `RecoveryImplementsGraph` assume `KeyedOnly`: no paste jobs, no decliners, no lost locks (crashes, faults and
   re-maps unbounded). These are the cases that break them, see the next section.
   `RecoveryInv` is the inductive invariant: every live run holds the lock of the one job (`RunsLocked`), which makes
   it the only run; its node is the row's checkpoint (`RunAtCheckpoint`); the status it is about to publish fits
   the checkpoint (`RunsOutcome`); the row is one the graph can produce (`RowFits`). With it, each action
   maps to one step of `ResumableGraph` or to a stutter, under the row's mapping in `Graph`.

### QuoteLifecycle

`Inv` ties the e-mails to the row that claims them.

1. `IdsInv`: quotes are numbered in the order they are made, and only a quote that was READY is ever sent.
2. `PdfInv`: a quote becomes READY only behind its stored PDF, although a re-pricing may replace the row while the
   PDF is rendered. `OneClaimant` is inductive with the types.
3. `MailedOnce` needs time. `FlightInv` bounds how long ago a sending call took its start time (`MaxFlight`);
   `AcceptedInv` says that the provider counts each quote once and that the live row shows `delivery_started` no later
   than the provider accepted; `DeliverInv` says that whoever is about to call the provider started before the
   provider forgets the key (`SafeRetryWindow`). A second call for one quote therefore meets a provider that still
   knows the key. The proof needs a window longer than nothing: `QuoteLifecycleAssumption` asks for
   `SafeRetryWindow > 0`, which the constant of 23 hours in the code meets.
4. `SentIsMailed`: a call that goes on to mark or settle has its e-mail (`MarkInv`), and mails are never taken back.
5. `LifecycleKeepsPromise`: with `Inv`, each action maps to a step of `QuotePromise` or to a stutter.

### CircuitBreaker

`CountInv` says that, until something expires or fails, `failures` plus the callers that have failed and not yet
counted (`Uncounted`) never exceed the strikes. A caller that counts moves from one term to the other, which is a
step of a cardinality and the reason why the callers are assumed finite; a success that resets the counter lowers
the sum. A caller can only be about to trip when the counter it read has reached the threshold.

### HttpTransaction

`HttpInv` is a statement about one call, since calls meet only at the pool. Four parts: how many connections a call
holds in which state (`ConnsInv`: its own, and in a re-map up to two more, `Borrowed`), that nothing is queued and nothing answered while the handler works, unless the
client has left (`QuietInv`), which of the
four queues of statements an answer can have left behind (`AnsweredInv`), and what a commit implies (`CommitInv`).
The order of the queue carries the argument: the ROLLBACK of the close listener stands behind the COMMIT it lost to.

### JobQueue

`IInv` has seven parts beside the types, each kept with the parts before it. `DepsInv`: a completed row's handler has
returned, and a run between its dependency check and its handler has seen all those complete that are rows. `StaleInv` and
`WorkInv`: a row that the sweep may set back is not PENDING, and unless its lease ran out under the run (`overran`)
the row of a job that is being worked on can neither be claimed nor be set back; so there is one run. `CalledOffInv`
and `SeriesInv`: a cancelled row, and one whose successor is scheduled, never becomes claimable again. `FailInv`: a
row is marked FAILED behind its dead letter, as long as no statement fails and no process dies.

### LinePricing and the scores

`QuoteAndLinesAgree` is proved for any overlap of re-maps, a run and price edits. `OInv` says what a re-map holds
(`GoodTx`: it sees its own row as it wrote it) and, as long as no write of the quote was computed from lines that have
changed since (`crossed`), that only a line that can be priced carries a price and that outside matching the quote says
what the lines say (`ApartInv`). A writer that missed nothing computes from the lines as they are, and then its quote
agrees with its lines whoever else is under way. Two re-maps that overlap can miss each other's line, and a run's price
node (`modules/pricing/price.node.ts:67` to `:112`) a re-map's, or the other way round: both set `crossed`.

The other two theorems are about behaviours without overlap (`~Overlap`, which never changes), and `AloneInv` says that
in those `IInv` holds. `IInv` says that whoever writes works from what the lines still hold: the run
prices the lines it read (`RunInv`), a re-map sees the lines with its own row over them (`TxInv`), and there is one writer
(`OneWriter`). Beside that, only a line that can be priced carries a price (`UnitInv`), which is why a match, which gives
a product to a line that had none, leaves no stale price; and outside of match and price the quote agrees with the
lines (`QuoteInv`). `RecomputedLines` and `UpdatedKeepsPrice` say what recompute and buildUpdate do to any lines; rounding
and discounts stay opaque in them, so the theorems hold of every price formula.

`AutoEligibleMeansSound` needs what a run has decided to reach the score unchanged (`ScoreInv`). The policy works from
what the lines and the price list still hold; behind the price node the lines that can be priced are on a quote, and
each is flagged if they were priced without rules (`PricedInv`); behind the policy node every breach of the rules is a
flag of its line (`FlaggedInv`). Lines, prices and rules stand still during a run because, without overlap, the
catalogue is edited only between runs; the property says nothing of lines outside EUR. The score is a minimum over a
sequence made of the set of lines: `MinOfNats` and `EveryLineListed` say that it is not above any line's confidence and
that no line is left out; hence a score at the threshold has no line below it and no flag that calls for a person
(`AutoMeansClear`). With a cap, a penalty for passing it that is below the threshold also applies where the total is not
known; so all lines have prices then, and the quote has them all. Two more assumptions: a missing value is no function (`NullIsNoFunction`), and an unmatched line
counts for less than the threshold, as by default (0 and 0.95, `config/scoring.config.ts`). The environment may set
both to one value; an unmatched line would then be auto-eligible.

`RoutingsAreExplained` is about one question to the score: reasons, flags and routing are decided apart from one
another and compared for any lines and any table whose two penalties are below the threshold, the flags by cases and
the score by the lemma on minima.

### The pages

1. `SentLettersAreFinal`: a row that is sent is there, and what a call has read was there (`LetterInv`); the
   conditional updates then refuse every write behind the send, and `markSent` is reached only by a call that read the
   row unsent and not blank (`RowStep`). It does not say that the row is still what was read, see section 5.
2. `OnlyCrossingSpoilsRule`: a call that has been checked carries a patch that was valid over some row with the fields it
   remembers (`Checked`, in `PatchInv`). Written over a row whose other fields of the schema are those, it leaves a valid
   row; written over one where they have changed, it is a crossing, and `RuleStaysValid` promises nothing until a patch
   of these fields is written that crosses none. The switch touches no field of the schema and changes neither.
3. `TraceIsTrue`: the events on the wire are among `TrueEvents`, those that say nothing that is not so given the
   nodes that have exited and the runs that have ended. Both only grow, so an event stays true however late it
   arrives, and losing or cutting off events keeps a sequence of true ones. A snapshot fills in nodes before the
   checkpoint, which have exited (`RunSound`). That a full bar leaves no node over is a count of names (`FullBar`).

`PageProofs` has an inductive invariant per page, each checked by TLC first:

4. `RemapInv`: the estimate of the re-map sent last stands while that one is out; once all are answered a refetch that
   saw the last is on its way, or has come.
5. `DialogInv`: a decline dialog heeds only a submission of its own session, one sent after it was opened.
6. `OrgInv`: the choice of a seeded organization is in the header at once, a call made under it carries it, and such
   a call was served as that organization. A list that was read has every seeded organization.
7. `RuleInv`. What a call may answer with depends on the order of times: what was read under a stamp is not newer than
   the file, and the file itself if the stamp is as new (`NoNewer`). From that, what the cache or another call holds
   under a time no older than the one a call has looked at, that call has seen (`LoadInv`, `Seen`). `Seen` relates two
   calls, because either of them may be the one that fills the cache the other answers from.
8. `AskInv`: every call of the agent's loop is open or heard (`CallsHeard`), so that at the end no step of the trace is
   without its output; and while a question is out the box cannot change, so the answer is of what stands in it.
9. `InboxInv` and `WatchInv` for `ScreensNeverGoBack`: a row the page added is one a query under way will bring or
   knows of; what a query has read is no older than what it shows, and no newer than the row.

`PagesStep` puts them together: a step of the client is a step of each page or leaves that page as it is. Hence the
invariants of all pages hold in `ScreensSpec`, and the theorems of `ScreenProofs` too (`PagesHoldTogether`).

### What the proofs changed

- `HttpTransaction.Leave` named a state that no call is in and left out `written`: a client may also leave between the
  last statement and the end of the handler. `CallsStaySound` could not be stated with it; the action now covers both.
- `AdminPanels.Merge`, `LinePricing.RemapUpdate` and `EventStream.Known` are written pointwise or per event, with the
  same states: the provers have no theory of `@@`, `:>` and `SelectSeq`.
- `PolicyFlagsOf` was `UNION {...} \ {...}`, which TLC and the prover read differently, as the union less some flags and
  as the union of the sets less one. It has parentheses now; TLC's reading, which was meant, is the code's.
- `QuoteScreen` let two approvals of one page share a claim. A claim is of one call (`Holder`), as
  `tryClaimForApproval` gives it to one caller; `DealInv` could not be kept without that.
- `AskCopilot.Trace` is a function of message positions and a call takes the last answer that follows it, as the map
  of `toAskResult` does; it looked for answers anywhere. The open calls of a turn are a set.
- `OrgAssumption` says that no seeded organization is `Null`, `CalculationsAssumption` that a line to score has a natural
  confidence or none, under a threshold from 0 to 100 and natural penalties; `LinePricingAssumption` also has finitely many lines and natural scores and thresholds.
- `LinePricingAssumption` and `EventStreamAssumption` state what the runs' constants satisfied silently: extraction
  writes lines that are neither matched nor priced, a re-map's quantity is `@IsInt() @Min(0)`, and the nodes are a
  sequence of names.

### Only model-checked

- Liveness, which the prover has no means for: `ParsingResolved`, `ClaimResolved`, `RecoversWhenHealthy`, the `WF` half
  of `ImplementsResumableGraph`, `JobsResolve`, `NothingHangs`, `PendingIsEmbedded`, `StaleExplanationExpires`.
- `EngineQuotesAreWhole`, `FusionRespectsBothLists`, `FiguresHold`: what sums, folds and sorts over sequences compute,
  which is induction over data.
- `SweepReenqueues` and `RemapsNeverDiverge` are false, as their runs show.

## 5. Where code and words disagree

With a run that shows it (`findings`): `SweepStrands` and `RemapDiverges`.

Met while modelling, part of the models as behaviours and not counted as findings. In the pipeline and the queues:

* A paste adds its job without a jobId (`modules/requests/services/attachments.service.ts:99`), although "one job per
  request run" is promised (`common/constants/queue.constants.ts:11-12`): it may run beside a keyed job.
* A paste is answered "Content accepted; extraction re-queued" (`constants/system-messages.ts:66`), but extraction advances
  at once where a valid one exists (`modules/extraction/extract.node.ts:54-57`), so the text is not read. An extraction
  that fails keeps the lines and the sender of an earlier one (`:128`).
* "In HALF_OPEN, permits exactly one probe call" (`modules/llm/circuit-breaker.service.ts:47-48`), but a failure recorded in
  HALF_OPEN deletes the probe key whoever records it (`:83`), also a call admitted before the trip; a second probe may
  then run. Nobody but the breaker's own client calls it: `createChatCompletion` has no caller, so the breaker guards
  nothing today (`docs/architecture.md:100`; `docs/ARCHITECTURE_V2.md:105` admits it).
* `QUEUE_MAX_ATTEMPTS` is "max job retry attempts before DLQ" (`src/README.md:188`), but a failed attempt leaves the row
  PROCESSING, so Bull's retry finds nothing to claim and completes (`queue/processors/job-worker.processor.ts:84-89`): a job
  whose handler always throws is reset by the sweep for ever and gets no dead letter, unless its lease runs out between
  two attempts.
* `POST /requests/:id/resume` answers 202 while Bull drops the add when a job of the id is retained
  (`modules/requests/docs/requests-swagger.doc.ts:213` against `modules/requests/actions/node-recovery.actions.ts:31`).
* A decline that could not be audited restores the status it read before; if a run finished in between, an older
  verdict returns (`modules/requests/actions/request.actions.ts:114`), so a NEEDS_CLARIFICATION request may have a quote
  although `modules/requests/constants/quote-approval.constants.ts:10-12` excludes it. For this reason the verdict
  properties are checked without decliners.
* `getState` saves HALF_OPEN over a breaker another caller re-opened meanwhile (`modules/llm/circuit-breaker.service.ts:35-41`);
  INCR may re-create the counter without its window (`:92-93`); a call that read CLOSED or OPEN as its state at admission and
  then took the probe key does not take itself for the probe, and leaves the key to its TTL on a 4xx
  (`modules/llm/llm-client.service.ts:65-84`).
* `cancelJob`'s comment says that the worker discards its result on seeing CANCELLED (`modules/jobs/jobs.service.ts:89`); the
  worker's last update to COMPLETED names the id only (`queue/processors/job-worker.processor.ts:95-103`).
* `onStalled`'s comment says that the recovery sweep makes the row claimable for the re-queued job (`:244-245`); the
  re-delivery usually comes first (a stall is noticed in a minute, a lease is longer or checked by a cron), finds the
  row PROCESSING and completes as a no-op, and the row waits for lease, sweep and retention.
* An id in `depends_on` that is no job's counts as met (`modules/jobs/dto/create-job.dto.ts:39-43`,
  `modules/jobs/jobs.service.ts:32`, `queue/processors/job-worker.processor.ts:69-70`, `modules/scheduler/scheduler.service.ts:65`, `:89`), against
  `modules/jobs/entities/job.entity.ts:48`: a job whose only dependency is the id of no row runs, and `DependenciesFirst` speaks
  of the ids that are rows.
* A job given back for unmet dependencies completes in Bull, and the sweep that is to re-enqueue it (`:77`) adds the id Bull
  retains for a day, which is dropped.
* The sweep resets rows it read earlier, by id: one that completed or was cancelled meanwhile is PENDING again
  (`modules/scheduler/scheduler.service.ts:161`), and a completed job runs a second time. `SoleDispatch` and `SeriesNotForked`
  therefore except jobs whose lease ran out under a live run (`overran`).
* An API that dies between claiming a quote and publishing it leaves the quote APPROVED; approving again answers "in
  progress" and nothing sweeps quotes (`modules/quotes/actions/quote-approval.actions.ts:72`).
* Delivery looks at the quote's status only, so a request declined after its quote became READY can still be mailed,
  and a re-priced request gets a new quote with a new key, so the customer may get a second mail about the request.

In the decisions about a quote:

* With `SCORE_AUTO_SEND_CAP_MINOR` unset (`modules/scoring/scorer.service.ts:102-104`) nobody asks whether each line has a price: a
  matched line of no quantity is left off the quote, or there is no quote at all, and the request may still be
  AUTO_ELIGIBLE. `AutoEligibleIsSound` promises a whole quote only where the cap is set and the factor for passing it
  (`SCORE_DEAL_VALUE_EXCEEDED_PENALTY`) is below the threshold.
* A re-map that overlaps a run between the price node's read of the lines and its write (`modules/pricing/price.node.ts:67`,
  `:112`) leaves quote and lines apart, as two re-maps that overlap do. `QuoteMatchesLines` exempts both (`crossed`).
* A line in another currency deletes the quote and flags no line, so scoring may publish PRICED without a quote
  (`modules/pricing/price.node.ts:86-92`); `AutoEligibleIsSound` is therefore checked with products in EUR.
* A run's price node writes over prices set by hand and leaves their mark (`ManualPriceKept` is about re-maps and says
  so); a re-map is never judged by the policy again.
* A close tie looks at the second candidate only (`modules/catalog/match.node.ts:130`); AVAC rooms beyond
  `indoor_units_requested` are left out (`modules/pricing/avac-pricing.engine.ts:111-124`); with an empty
  `base_price_minor` column a euro cell is read as cents (`modules/catalog/catalog-import.service.ts:220-224`).
* `pricing.service.ts` applies quantity breaks after the margin check (`modules/pricing/pricing.service.ts:157`, `:192`), so the
  effective margin may be below the floor; two edits of a rule file in one millisecond count as one, and a reload that
  moves the path during a read leaves the old content under the new path (`:92-104`, `:131-134`). What is proved and
  checked of the rule files' cache assumes modification times that only rise, and exempts moves of the path.
* `PdfLayout`: a row or an address block taller than a page, and a tax description that wraps in its column, are outside
  the cases.

In the services:

* A call holds its connection while it waits for a second one. A re-map holds two, its call's and its own
  transaction's (`modules/requests/actions/line-item-remap.actions.ts:79`), while it waits for a third to read the pricing
  rules, which are not read through its transaction (`modules/pricing/quote-recompute.service.ts:95`,
  `modules/pricing/pricing-rule.model-action.ts:41-45`). Five re-maps at once therefore hang a pool of ten, the default, and so do
  ten other calls; `ConnectionsReturn` exempts the pools that calls waiting for one more can fill. A client that leaves before the listeners are registered costs its connection.
* "A skipped embedding job is harmless" (`modules/catalog/catalog.service.ts:173`) is not so for an import whose enqueue met a
  running job's id: the product waits for the recovery job (`catalog-import.service.ts:106-117`).
* The draft and explain tools call the provider in DEMO mode when a key is configured (`modules/llm/llm-client.service.ts:51`).
* A success event that cannot be written fails a tool call that has run (`modules/tools/registry.ts:223`). A publish that
  Redis refuses is emitted in the publishing process only (`sse/sse.service.ts:64-65`).

In the pages (`client/src/`):

* A settled status fills the whole trace although later nodes may not have run (`hooks/useSSEEvents.ts:72-74`); a node's own
  exit has no status and shows as failed until the generic one.
* On the clarification page, text typed while sending and then "Ficar" leave `sending` set for good
  (`pages/ClarificationView.tsx:168`, `:224-232`); text typed during a save is replaced. Sending mails nothing.
* A candidate the drawer no longer shows can be confirmed (`components/review/RemapDrawer.tsx:123`); a superseded re-map
  that the server applies late leaves a stale total.
* A send reads the letter, refuses it if it is blank, and marks the row on `sent_at` alone
  (`modules/clarification/clarification.service.ts:155`, `modules/clarification/actions/clarification.actions.ts:78-82` in `src/src`). The API takes blank drafts
  and edits (`modules/clarification/tools/draft-clarification.tool.ts:15-18` does not trim, `modules/clarification/dto/clarification.dto.ts:15-25`), so what is
  marked as sent may be blank, or a text nobody has seen, although "no AI-drafted message reaches a customer without
  explicit reviewer approval" (`modules/clarification/docs/clarification-swagger.doc.ts:165`). `SentIsFinal` is about what the
  send has read.
* A decline whose dialog was closed is still recorded, and a second one is answered with its own reason
  (`modules/requests/actions/request.actions.ts:70-92` in `src/src`). A late answer to a paste, or a late success of a decline that was
  given up (`api/requests.ts:234-238`), closes the dialog that was opened since; `LateAnswerSpares` is about refusals.
* A late save closes whichever form is open; a stored rule that is not valid cannot be switched off; saving a form as it
  was opened re-activates a rule that was switched off meanwhile.
* A PATCH of a rule is checked against the row as it was read and sets only the fields it carries
  (`modules/pricing/pricing-rules-admin.service.ts:53-66` in `src/src`), so two that cross, one of the type and one of the config, store a config the schema does not take, although a test
  says that it is rejected "before persistence" (`modules/pricing/tests/pricing-rules-admin.service.spec.ts:63`). `RuleStaysValid`
  exempts such a crossing (`patchesCrossed`) and nothing else. A
  PATCH with `vertical: null` passes the validation of the body and is checked with the row's vertical, but null is
  stored; the engines then no longer read the rule. Null for type or config passes it too, and the columns refuse it.
* Right after onboarding the calls of a render may carry the organization before (`context/OrgContext.tsx:44-52`); the
  branding form keeps the values of the organization it was mounted for (`components/admin/BrandingPanel.tsx:119`), and
  branding and logo saved at once lose one (`modules/organizations/organizations.controller.ts:152-185` in `src/src`).
* Approve, send and download act on the server's quote of that moment, not on the one shown (`pages/QuoteOutput.tsx:88`);
  "approved" by somebody else promises the PDF "on the next read", and the page does not poll.
* The analytics page says "Last 30 days" (`pages/Analytics.tsx:171`) and asks for no window, which the server takes as the
  last seven; it says "No quotes processed in this period yet" (`:93`) of a week in which quotes were made for requests
  that came in before, since it asks the funnel whether there was anything (`:86-87`).

## 6. Not modelled

Prompts and what the model says (a choice of outcomes); reading PDF, CSV and XLSX files; token verification, users and
CRUD of settings; the scheduler's heap and timing wheel, which only choose among orders and moments `JobQueue` allows
all of; the emitters of `StreamService`, which nobody calls; benchmark and health; layout and dashboard of the web client; bootstrap, migrations and seed data. `PROJECT.json` lists each with its reason. Details that no property looks at: the other events that set a node in progress, and the settled
statuses one by one (`EventStream.Shown`; `hooks/useSSEEvents.ts:75`, `:197`); a quote deleted without another in its place
(`QuoteScreen.Reprice`); the limits per organization in the rule files (`RuleFiles.PriceVerdict`;
`modules/pricing/pricing.service.ts:154-155`). An allowance, a surcharge or an adder whose config does not parse is
skipped without a word (`modules/pricing/avac-pricing.engine.ts:172`, `:192`, `:205`); `PricingEngines` does so too, and
`EngineQuotesAreWhole` does not object. Limits of the models themselves: one request
and one breaker; Bull and the e-mail provider are modelled from how the code configures and uses them; Postgres
statements are atomic and serial; Redis loses no keys except by TTL; an engine run that lost its lock keeps going (as
Bull's does) but a lock is never renewed after being lost.

## 7. Plan

Done in this order: `RequestPipeline` with `ResumableGraph`, its runs and proofs; `QuoteLifecycle` with `QuotePromise`;
`CircuitBreaker`; `JobQueue`; the calculations and `LinePricing`; the services; the pages; the proofs of section 4.
Next, proofs:

1. `CatalogEmbedding` and `Copilot`: the safety facts their liveness properties rest on.
2. `CatalogMatching`: that a candidate keeps its place under `FusionRespectsBothLists`, if the sort is given as a
   permutation that is in order instead of by `SortSeq`.
