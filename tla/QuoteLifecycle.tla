--------------------------- MODULE QuoteLifecycle ---------------------------
(***************************************************************************)
(* The quote of one request from its draft to the customer's inbox: the    *)
(* calls that approve it and render its PDF, the calls that e-mail it      *)
(* through the provider, and the pricing that replaces it meanwhile. Every *)
(* await of those handlers is a step boundary; a call's pc, aq, sq and     *)
(* sstart are what it read and still acts on.                              *)
(*                                                                         *)
(* The clock counts whole hours; a call that is e-mailing ends within      *)
(* MaxFlight of taking its start time.                                     *)
(***************************************************************************)
EXTENDS Naturals

CONSTANTS
    Approvers,          \* concurrent POST /requests/:id/quote
    Senders,            \* concurrent POST /requests/:id/quote/send
    SafeRetryWindow,    \* SAFE_RETRY_WINDOW_MS (23 h)
    ProviderWindow,     \* how long the provider remembers an idempotency key (24 h)
    MaxFlight,          \* bound on one sending call
    MaxQuotes,          \* bound: quotes priced
    MaxTime,            \* bound: the clock
    MaxCrashes          \* bound: calls that die half way

ASSUME QuoteLifecycleAssumption ==
    /\ SafeRetryWindow \in Nat \ {0} /\ ProviderWindow \in Nat /\ MaxFlight \in Nat
    /\ SafeRetryWindow + MaxFlight <= ProviderWindow
    /\ MaxQuotes \in Nat /\ MaxTime \in Nat \ {0} /\ MaxCrashes \in Nat

Ids == 1..MaxQuotes
null == 0               \* no quote, no time: ids and times start at 1

\* The statuses of the request these handlers tell apart; "failed" also stands
\* for NEEDS_CLARIFICATION, and nothing in src/ ever stores RECEIVED or READY.
TERMINAL_STATUSES == {"declined", "sent"}
DECLINE_SOURCES == {"needs_review", "priced", "failed"}
QUOTE_APPROVABLE_STATUSES == {"priced", "needs_review"}
REQUEST_SENDABLE_STATUSES == {"priced", "needs_review"}

VARIABLES
    status,             \* requests.status
    running,            \* is a pipeline run between markProcessing and finalize
    quote, qstatus,     \* the live quotes row (unique per request) and its status
    delivery_started,   \* its email_delivery_started_at
    made,               \* quote ids given so far
    pdfs,               \* quotes whose PDF is in the object store
    ready_once,         \* quotes that were READY at some time (history)
    apc, aq,            \* approving calls: where they are, the quote they loaded
    spc, sq, sstart,    \* sending calls, and the start time they took
    now,                \* wall clock
    accepted,           \* provider: when it last accepted a quote's key
    mails,              \* e-mails the customer received, per quote
    crashes

rowVars == <<status, running, quote, qstatus, delivery_started, made>>
approveVars == <<apc, aq>>
sendVars == <<spc, sq, sstart>>
mailVars == <<accepted, mails>>
vars == <<rowVars, pdfs, ready_once, approveVars, sendVars, now, mailVars, crashes>>

\* A request whose first run is about to price it.
Init ==
    /\ status = "parsing"
    /\ running = TRUE
    /\ quote = null
    /\ qstatus = "draft"
    /\ delivery_started = null
    /\ made = 0
    /\ pdfs = {}
    /\ ready_once = {}
    /\ apc = [a \in Approvers |-> "idle"]
    /\ aq = [a \in Approvers |-> null]
    /\ spc = [s \in Senders |-> "idle"]
    /\ sq = [s \in Senders |-> null]
    /\ sstart = [s \in Senders |-> null]
    /\ now = 1
    /\ accepted = [q \in Ids |-> null]
    /\ mails = [q \in Ids |-> 0]
    /\ crashes = 0

(* -------------------------- QuoteModelAction --------------------------- *)

\* replaceForRequest: the old row goes, a DRAFT with a new id takes its place.
ReplaceForRequest ==
    /\ made < MaxQuotes
    /\ made' = made + 1
    /\ quote' = made + 1
    /\ qstatus' = "draft"
    /\ delivery_started' = null

\* deleteForRequest.
DeleteForRequest ==
    /\ quote' = null
    /\ qstatus' = "draft"
    /\ delivery_started' = null
    /\ UNCHANGED made

\* The WHERE clause of the conditional updates: this id, in this status.
Matches(q, s) == q # null /\ quote = q /\ qstatus = s

(* ----------------- QuoteApprovalActions.approveAndGenerate -------------- *)

AGoto(a, label) == apc' = [apc EXCEPT ![a] = label]

ADone(a) == AGoto(a, "idle") /\ aq' = [aq EXCEPT ![a] = null]

OutsideApproval == UNCHANGED <<pdfs, ready_once, sendVars, now, mailVars, crashes>>

\* The controller loads the request; its status is judged on that copy.
ApproveLoad(a) ==
    /\ apc[a] = "idle"
    /\ status \in QUOTE_APPROVABLE_STATUSES
    /\ AGoto(a, "read")
    /\ UNCHANGED <<rowVars, aq>>
    /\ OutsideApproval

\* getForRequest: only a DRAFT is approved; READY and APPROVED are returned as
\* they are, no quote and SENT are 409.
ApproveRead(a) ==
    /\ apc[a] = "read"
    /\ IF quote # null /\ qstatus = "draft"
           THEN AGoto(a, "claim") /\ aq' = [aq EXCEPT ![a] = quote]
           ELSE ADone(a)
    /\ UNCHANGED rowVars
    /\ OutsideApproval

\* Mutant: the status is missing from the WHERE clause.
TryClaimForApprovalByIdOnly(a) ==
    /\ apc[a] = "claim"
    /\ IF quote = aq[a]
           THEN qstatus' = "approved" /\ AGoto(a, "render") /\ UNCHANGED aq
           ELSE ADone(a) /\ UNCHANGED qstatus
    /\ UNCHANGED <<status, running, quote, delivery_started, made>>
    /\ OutsideApproval

\* DRAFT to APPROVED by one UPDATE; a loser re-reads the row and returns.
TryClaimForApproval(a) ==
    /\ apc[a] = "claim"
    /\ IF Matches(aq[a], "draft")
           THEN qstatus' = "approved" /\ AGoto(a, "render") /\ UNCHANGED aq
           ELSE ADone(a) /\ UNCHANGED qstatus
    /\ UNCHANGED <<status, running, quote, delivery_started, made>>
    /\ OutsideApproval

\* Mutant: the tool's error status is not looked at.
RenderFailsUnnoticed(a) ==
    /\ apc[a] = "render"
    /\ AGoto(a, "publish")
    /\ UNCHANGED <<rowVars, aq>>
    /\ OutsideApproval

\* quote.approved could not be written, or render_quote_pdf did not end OK; it
\* cannot for a quote that is gone.
RenderFails(a) ==
    /\ apc[a] = "render"
    /\ AGoto(a, "revert")
    /\ UNCHANGED <<rowVars, aq>>
    /\ OutsideApproval

\* render_quote_pdf: the PDF is stored under a key made of the quote's id.
RenderQuotePdf(a) ==
    /\ apc[a] = "render"
    /\ quote = aq[a]
    /\ pdfs' = pdfs \cup {aq[a]}
    /\ AGoto(a, "publish")
    /\ UNCHANGED <<rowVars, ready_once, aq, sendVars, now, mailVars, crashes>>

\* Mutant: the claim is not taken back.
RevertToDraftForgotten(a) ==
    /\ apc[a] = "revert"
    /\ ADone(a)
    /\ UNCHANGED rowVars
    /\ OutsideApproval

\* The compensating update, and the error is rethrown.
RevertToDraft(a) ==
    /\ apc[a] = "revert"
    /\ qstatus' = IF Matches(aq[a], "approved") THEN "draft" ELSE qstatus
    /\ ADone(a)
    /\ UNCHANGED <<status, running, quote, delivery_started, made>>
    /\ OutsideApproval

\* APPROVED to READY. The e-mail draft and the events that follow change
\* nothing kept here.
MarkReady(a) ==
    /\ apc[a] = "publish"
    /\ IF Matches(aq[a], "approved")
           THEN /\ qstatus' = "ready"
                /\ ready_once' = ready_once \cup {quote}
           ELSE UNCHANGED <<qstatus, ready_once>>
    /\ ADone(a)
    /\ UNCHANGED <<status, running, quote, delivery_started, made, pdfs, sendVars, now,
                   mailVars, crashes>>

(* ----------------------- QuoteDeliveryService.send ---------------------- *)

SGoto(s, label) == spc' = [spc EXCEPT ![s] = label]

SDone(s) ==
    /\ SGoto(s, "idle")
    /\ sq' = [sq EXCEPT ![s] = null]
    /\ sstart' = [sstart EXCEPT ![s] = null]

OutsideSending == UNCHANGED <<pdfs, ready_once, approveVars, now, crashes>>

\* getForRequest: SENT only repairs the request, READY is sent, anything else
\* is 409. The request's own status is not looked at.
SendRead(s) ==
    /\ spc[s] = "idle"
    /\ quote # null /\ qstatus \in {"ready", "sent"}
    /\ SGoto(s, IF qstatus = "sent" THEN "settle" ELSE "fetch")
    /\ sq' = [sq EXCEPT ![s] = quote]
    /\ UNCHANGED <<rowVars, sstart, mailVars>>
    /\ OutsideSending

\* The attachment is read, then the clock; a store that fails ends the call.
SendStart(s) ==
    /\ spc[s] = "fetch"
    /\ \/ /\ sq[s] \in pdfs
          /\ sstart' = [sstart EXCEPT ![s] = now]
          /\ SGoto(s, "claim")
          /\ UNCHANGED sq
       \/ SDone(s)
    /\ UNCHANGED <<rowVars, mailVars>>
    /\ OutsideSending

\* tryStartDelivery: READY and not started before.
TryStartDelivery(s) ==
    /\ spc[s] = "claim"
    /\ IF Matches(sq[s], "ready") /\ delivery_started = null
           THEN delivery_started' = sstart[s] /\ SGoto(s, "deliver")
           ELSE SGoto(s, "recheck") /\ UNCHANGED delivery_started
    /\ UNCHANGED <<status, running, quote, qstatus, made, sq, sstart, mailVars>>
    /\ OutsideSending

\* Mutant: one unit too late is still called safe.
RecheckDeliveryTooLate(s) ==
    /\ spc[s] = "recheck"
    /\ \/ /\ Matches(sq[s], "sent")
          /\ SGoto(s, "settle") /\ UNCHANGED <<sq, sstart>>
       \/ /\ Matches(sq[s], "ready")
          /\ sstart[s] <= delivery_started + SafeRetryWindow
          /\ SGoto(s, "deliver") /\ UNCHANGED <<sq, sstart>>
       \/ /\ ~Matches(sq[s], "sent")
          /\ ~(Matches(sq[s], "ready") /\ sstart[s] <= delivery_started + SafeRetryWindow)
          /\ SDone(s)
    /\ UNCHANGED <<rowVars, mailVars>>
    /\ OutsideSending

\* Somebody started before: re-read the row. A SENT one is repaired, a READY
\* one is tried again while the provider still knows the key, else 409.
SafelyRetryable(s) ==
    /\ Matches(sq[s], "ready")
    /\ delivery_started # null
    /\ sstart[s] < delivery_started + SafeRetryWindow

RecheckDelivery(s) ==
    /\ spc[s] = "recheck"
    /\ \/ /\ Matches(sq[s], "sent")
          /\ SGoto(s, "settle") /\ UNCHANGED <<sq, sstart>>
       \/ /\ SafelyRetryable(s)
          /\ SGoto(s, "deliver") /\ UNCHANGED <<sq, sstart>>
       \/ /\ ~Matches(sq[s], "sent") /\ ~SafelyRetryable(s)
          /\ SDone(s)
    /\ UNCHANGED <<rowVars, mailVars>>
    /\ OutsideSending

\* The provider takes a message whose key (quote/send/<quote id>) it does not
\* remember, and answers a known key with the message it already sent.
Accept(q) ==
    IF accepted[q] # null /\ now < accepted[q] + ProviderWindow
        THEN UNCHANGED mailVars
        ELSE /\ accepted' = [accepted EXCEPT ![q] = now]
             /\ mails' = [mails EXCEPT ![q] = @ + 1]

ProviderAnswers(s) ==
    /\ spc[s] = "deliver"
    /\ Accept(sq[s])
    /\ SGoto(s, "mark")
    /\ UNCHANGED <<rowVars, sq, sstart>>
    /\ OutsideSending

\* The message went out, its answer did not come back: send throws.
ProviderAnswerLost(s) ==
    /\ spc[s] = "deliver"
    /\ Accept(sq[s])
    /\ SDone(s)
    /\ UNCHANGED rowVars
    /\ OutsideSending

\* Mutant: an answer without an id is taken for a delivery.
ProviderRefusesUnnoticed(s) ==
    /\ spc[s] = "deliver"
    /\ SGoto(s, "mark")
    /\ UNCHANGED <<rowVars, sq, sstart, mailVars>>
    /\ OutsideSending

\* Not reached, or not accepted: send throws, the quote stays READY and started.
ProviderRefuses(s) ==
    /\ spc[s] = "deliver"
    /\ SDone(s)
    /\ UNCHANGED <<rowVars, mailVars>>
    /\ OutsideSending

\* Mutant: the update names the request instead of the quote that was sent.
MarkSentByRequest(s) ==
    /\ spc[s] = "mark"
    /\ IF quote # null /\ qstatus = "ready"
           THEN qstatus' = "sent" /\ SGoto(s, "settle")
           ELSE SGoto(s, "verify") /\ UNCHANGED qstatus
    /\ UNCHANGED <<status, running, quote, delivery_started, made, sq, sstart, mailVars>>
    /\ OutsideSending

\* markSent: READY to SENT, this id.
MarkSent(s) ==
    /\ spc[s] = "mark"
    /\ IF Matches(sq[s], "ready")
           THEN qstatus' = "sent" /\ SGoto(s, "settle")
           ELSE SGoto(s, "verify") /\ UNCHANGED qstatus
    /\ UNCHANGED <<status, running, quote, delivery_started, made, sq, sstart, mailVars>>
    /\ OutsideSending

\* markSent changed no row: SENT by somebody else, or 409.
VerifySent(s) ==
    /\ spc[s] = "verify"
    /\ IF Matches(sq[s], "sent")
           THEN SGoto(s, "settle") /\ UNCHANGED <<sq, sstart>>
           ELSE SDone(s)
    /\ UNCHANGED <<rowVars, mailVars>>
    /\ OutsideSending

\* trySetStatus(SENT, REQUEST_SENDABLE_STATUSES).
SettleRequest(s) ==
    /\ spc[s] = "settle"
    /\ status' = IF status \in REQUEST_SENDABLE_STATUSES THEN "sent" ELSE status
    /\ SDone(s)
    /\ UNCHANGED <<running, quote, qstatus, delivery_started, made, mailVars>>
    /\ OutsideSending

(* -------------------- the rest of the request's life -------------------- *)

OutsidePipeline ==
    UNCHANGED <<pdfs, ready_once, approveVars, sendVars, now, mailVars, crashes>>

\* A run starts (resume, paste, sweep), whatever the status; terminal ones keep
\* theirs.
RunStarts ==
    /\ ~running
    /\ running' = TRUE
    /\ status' = IF status \in TERMINAL_STATUSES THEN status ELSE "parsing"
    /\ UNCHANGED <<quote, qstatus, delivery_started, made>>
    /\ OutsidePipeline

\* Its price node replaces or drops the quote.
RunPrices ==
    /\ running
    /\ ReplaceForRequest \/ DeleteForRequest
    /\ UNCHANGED <<status, running>>
    /\ OutsidePipeline

RunFinalizes ==
    /\ running
    /\ running' = FALSE
    /\ status' \in IF status \in TERMINAL_STATUSES
                       THEN {status}
                       ELSE {"priced", "needs_review", "failed"}
    /\ UNCHANGED <<quote, qstatus, delivery_started, made>>
    /\ OutsidePipeline

\* LineItemRemapActions.remap, from any status: one transaction recomputes the
\* quote, and a blocked result sets NEEDS_REVIEW.
Remap ==
    /\ \/ ReplaceForRequest /\ status' \in {status, "needs_review"}
       \/ DeleteForRequest /\ UNCHANGED status
    /\ UNCHANGED running
    /\ OutsidePipeline

DeclineRequest ==
    /\ status \in DECLINE_SOURCES
    /\ status' = "declined"
    /\ UNCHANGED <<running, quote, qstatus, delivery_started, made>>
    /\ OutsidePipeline

\* An hour passes; no sending call lasts longer than MaxFlight.
Tick ==
    /\ now < MaxTime
    /\ \A s \in Senders : sstart[s] # null => now < sstart[s] + MaxFlight
    /\ now' = now + 1
    /\ UNCHANGED <<rowVars, pdfs, ready_once, approveVars, sendVars, mailVars, crashes>>

\* A call ends where it is: the API process dies or the database throws.
CallDies ==
    /\ crashes < MaxCrashes
    /\ crashes' = crashes + 1
    /\ \/ \E a \in Approvers : apc[a] # "idle" /\ ADone(a) /\ UNCHANGED sendVars
       \/ \E s \in Senders : spc[s] # "idle" /\ SDone(s) /\ UNCHANGED approveVars
    /\ UNCHANGED <<rowVars, pdfs, ready_once, now, mailVars>>

-----------------------------------------------------------------------------

ApproveStep(a) ==
    \/ ApproveRead(a) \/ TryClaimForApproval(a) \/ RenderQuotePdf(a)
    \/ RenderFails(a) \/ RevertToDraft(a) \/ MarkReady(a)

SendStep(s) ==
    \/ SendStart(s) \/ TryStartDelivery(s) \/ RecheckDelivery(s) \/ ProviderAnswers(s)
    \/ ProviderAnswerLost(s) \/ ProviderRefuses(s) \/ MarkSent(s) \/ VerifySent(s)
    \/ SettleRequest(s)

PipelineStep == RunStarts \/ RunPrices \/ RunFinalizes

Next ==
    \/ \E a \in Approvers : ApproveLoad(a) \/ ApproveStep(a)
    \/ \E s \in Senders : SendRead(s) \/ SendStep(s)
    \/ PipelineStep \/ Remap \/ DeclineRequest \/ Tick \/ CallDies

Spec == Init /\ [][Next]_vars

\* A call that began goes on until it returns; whether people call, and what
\* the pipeline does, is up to them.
FairSpec ==
    /\ Spec
    /\ \A a \in Approvers : WF_vars(ApproveStep(a))
    /\ \A s \in Senders : WF_vars(SendStep(s))

-----------------------------------------------------------------------------
(* ------------------------------ properties ----------------------------- *)

\* quote-delivery.service.ts: an uncertain attempt never becomes a duplicate
\* e-mail, through lost answers, retries and concurrent senders.
MailedOncePerQuote == \A q \in Ids : mails[q] <= 1

\* quote-approval.actions.ts: one tool_calls row per approval. Two approving
\* calls never hold the claim on one quote, and the live quote somebody holds
\* is APPROVED, so no other call can move it.
Claiming(a) == apc[a] \in {"render", "revert", "publish"}

OneClaimant ==
    \A a, b \in Approvers :
        Claiming(a) => /\ Claiming(b) /\ aq[a] = aq[b] => a = b
                       /\ aq[a] = quote => qstatus = "approved"

\* A quote that people can download or send has its PDF in the object store,
\* also while an older sender still holds a replaced quote.
SendableHasPdf ==
    /\ qstatus \in {"ready", "sent"} => quote \in pdfs
    /\ \A s \in Senders : sq[s] \in ready_once \cup {null}
    /\ ready_once \subseteq pdfs

\* SENT is never claimed without an e-mail: neither by the quote row, about
\* itself, nor by the request, about one of its quotes.
SentMeansMailed ==
    /\ qstatus = "sent" => mails[quote] > 0
    /\ status = "sent" => \E q \in Ids : mails[q] > 0

\* A quote is never left APPROVED by a call that ran to its end: it becomes
\* READY, goes back to DRAFT, or is replaced. Only a call that died leaves it.
ClaimResolved == (qstatus = "approved") ~> (qstatus # "approved" \/ crashes > 0)

Promise == INSTANCE QuotePromise WITH
              stage <- qstatus,
              published <- ready_once,
              mailed <- mails

\* Claims, retries, stale senders and re-pricing keep the promise.
KeepsQuotePromise == Promise!Spec
=============================================================================
