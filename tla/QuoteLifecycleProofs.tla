------------------------ MODULE QuoteLifecycleProofs ------------------------
(***************************************************************************)
(* Proofs about QuoteLifecycle, for every set of approving and sending     *)
(* calls, every length of the two windows and every value of the bounds.   *)
(***************************************************************************)
EXTENDS QuoteLifecycle, TLAPS

(* --------------------------- type correctness -------------------------- *)

\* What the columns and the calls' program counters may hold.
RequestStatus ==
    {"parsing", "priced", "needs_review", "failed", "declined", "sent"}
QuoteIds == Ids \cup {null}
QuoteStatus == {"draft", "approved", "ready", "sent"}
ApprovePc == {"idle", "read", "claim", "render", "revert", "publish"}
SendPc == {"idle", "fetch", "claim", "recheck", "deliver", "mark", "verify", "settle"}

RowsTyped ==
    /\ status \in RequestStatus
    /\ running \in BOOLEAN
    /\ quote \in QuoteIds
    /\ qstatus \in QuoteStatus
    /\ delivery_started \in Nat
    /\ made \in QuoteIds

CallsTyped ==
    /\ apc \in [Approvers -> ApprovePc]
    /\ aq \in [Approvers -> QuoteIds]
    /\ spc \in [Senders -> SendPc]
    /\ sq \in [Senders -> QuoteIds]
    /\ sstart \in [Senders -> Nat]

WorldTyped ==
    /\ pdfs \subseteq Ids
    /\ ready_once \subseteq Ids
    /\ now \in Nat \ {0}
    /\ accepted \in [Ids -> Nat]
    /\ mails \in [Ids -> Nat]
    /\ crashes \in Nat

TypeOK == RowsTyped /\ CallsTyped /\ WorldTyped

(* -------------------------- ids that were given ------------------------ *)

\* Nobody holds an id that was not given yet, so a new quote is nobody's; a
\* call under way holds one, and a sender holds one that was READY.
IdsInv ==
    /\ quote <= made
    /\ quote = null => qstatus = "draft" /\ delivery_started = null
    /\ qstatus \in {"ready", "sent"} => quote \in ready_once
    /\ \A q \in ready_once : q <= made
    /\ \A a \in Approvers :
          /\ aq[a] <= made
          /\ apc[a] \notin {"idle", "read"} => aq[a] # null
    /\ \A s \in Senders :
          /\ sq[s] \in ready_once \cup {null}
          /\ spc[s] # "idle" => sq[s] # null

(* ------------------------------- approval ------------------------------ *)

\* The PDF is stored before the call may publish.
PdfInv ==
    /\ ready_once \subseteq pdfs
    /\ \A a \in Approvers : apc[a] = "publish" => aq[a] \in pdfs

(* ------------------------------- delivery ------------------------------ *)

\* A sending call took its start time before it does anything about delivery,
\* and has not been under way for longer than MaxFlight.
FlightInv ==
    \A s \in Senders :
        /\ spc[s] \in {"claim", "recheck", "deliver"} => sstart[s] # null
        /\ sstart[s] # null => sstart[s] <= now /\ now <= sstart[s] + MaxFlight

\* What the provider has accepted: only quotes that were READY, once each, and
\* the live one not before its row says that delivery has started.
AcceptedInv ==
    /\ delivery_started <= now
    /\ \A q \in Ids :
          /\ accepted[q] <= now
          /\ accepted[q] # null => q \in ready_once
          /\ mails[q] = IF accepted[q] = null THEN 0 ELSE 1
    /\ quote # null /\ accepted[quote] # null =>
          delivery_started # null /\ delivery_started <= accepted[quote]

\* Whoever is about to call the provider works on a quote whose row, if it is
\* the live one, says so, and started so early that the provider still knows
\* the key of an e-mail it has accepted.
DeliverInv ==
    \A s \in Senders : spc[s] = "deliver" =>
        /\ sq[s] = quote => delivery_started # null
        /\ accepted[sq[s]] # null => sstart[s] < accepted[sq[s]] + SafeRetryWindow

\* A call that takes its quote for mailed is right.
MarkInv ==
    \A s \in Senders : spc[s] \in {"mark", "settle"} => mails[sq[s]] > 0

\* The inductive invariant.
Inv ==
    /\ TypeOK /\ IdsInv /\ OneClaimant /\ PdfInv
    /\ FlightInv /\ AcceptedInv /\ DeliverInv /\ MarkInv /\ SentMeansMailed

\* The first state is typed.
LEMMA TypeInit == Init => TypeOK
  BY QuoteLifecycleAssumption
  DEF QuoteLifecycleAssumption, Init, TypeOK, RowsTyped, CallsTyped, WorldTyped, QuoteIds,
      Ids, null, RequestStatus, QuoteStatus, ApprovePc, SendPc

\* A call that ends leaves its locals typed.
LEMMA ADoneTyped ==
  ASSUME CallsTyped, NEW a \in Approvers, ADone(a)
  PROVE  apc' \in [Approvers -> ApprovePc] /\ aq' \in [Approvers -> QuoteIds]
  BY DEF CallsTyped, ADone, AGoto, ApprovePc, QuoteIds

\* A sending call likewise.
LEMMA SDoneTyped ==
  ASSUME CallsTyped, NEW s \in Senders, SDone(s)
  PROVE  /\ spc' \in [Senders -> SendPc]
         /\ sq' \in [Senders -> QuoteIds]
         /\ sstart' \in [Senders -> Nat]
  BY DEF CallsTyped, SDone, SGoto, SendPc, QuoteIds, null

\* Who ends a call does nothing to the others'.
LEMMA ADoneValues ==
  ASSUME CallsTyped, NEW a \in Approvers, ADone(a), NEW b \in Approvers
  PROVE  /\ apc'[b] = IF b = a THEN "idle" ELSE apc[b]
         /\ aq'[b] = IF b = a THEN null ELSE aq[b]
  BY DEF CallsTyped, ADone, AGoto

\* A call that goes on leaves the others where they are.
LEMMA AGotoValues ==
  ASSUME CallsTyped, NEW a \in Approvers, NEW label, AGoto(a, label), NEW b \in Approvers
  PROVE  apc'[b] = IF b = a THEN label ELSE apc[b]
  BY DEF CallsTyped, AGoto

\* A sending call likewise.
LEMMA SGotoValues ==
  ASSUME CallsTyped, NEW s \in Senders, NEW label, SGoto(s, label), NEW t \in Senders
  PROVE  spc'[t] = IF t = s THEN label ELSE spc[t]
  BY DEF CallsTyped, SGoto

\* Who ends a sending call does nothing to the others'.
LEMMA SDoneValues ==
  ASSUME CallsTyped, NEW s \in Senders, SDone(s), NEW t \in Senders
  PROVE  /\ spc'[t] = IF t = s THEN "idle" ELSE spc[t]
         /\ sq'[t] = IF t = s THEN null ELSE sq[t]
         /\ sstart'[t] = IF t = s THEN null ELSE sstart[t]
  BY DEF CallsTyped, SDone, SGoto

\* A call of the provider keeps its records typed.
LEMMA AcceptTyped ==
  ASSUME WorldTyped, NEW q, Accept(q)
  PROVE  accepted' \in [Ids -> Nat] /\ mails' \in [Ids -> Nat]
<1>1. CASE accepted[q] # null /\ now < accepted[q] + ProviderWindow
  BY <1>1 DEF Accept, WorldTyped, mailVars
<1>2. CASE ~(accepted[q] # null /\ now < accepted[q] + ProviderWindow)
  <2>1. accepted' = [accepted EXCEPT ![q] = now] /\ mails' = [mails EXCEPT ![q] = @ + 1]
    BY <1>2 DEF Accept
  <2>2. accepted' \in [Ids -> Nat]
    BY <2>1 DEF WorldTyped
  <2>3. CASE q \in Ids
    BY <2>1, <2>3 DEF WorldTyped
  <2>4. CASE q \notin Ids
    BY <2>1, <2>4 DEF WorldTyped
  <2>5. QED
    BY <2>2, <2>3, <2>4
<1>3. QED
  BY <1>1, <1>2

\* So does pricing, whether it replaces the quote or drops it.
LEMMA PriceTyped ==
  ASSUME RowsTyped, ReplaceForRequest \/ DeleteForRequest
  PROVE  /\ quote' \in QuoteIds /\ made' \in QuoteIds
         /\ qstatus' \in QuoteStatus /\ delivery_started' \in Nat
  BY QuoteLifecycleAssumption
  DEF QuoteLifecycleAssumption, RowsTyped, ReplaceForRequest, DeleteForRequest, QuoteIds, Ids,
      QuoteStatus, null

\* Ids and times are numbers.
LEMMA TypeNumbers ==
  ASSUME TypeOK
  PROVE  /\ CallsTyped
         /\ quote \in Nat /\ made \in Nat /\ delivery_started \in Nat /\ now \in Nat
         /\ \A a \in Approvers : aq[a] \in Nat
         /\ \A s \in Senders : sq[s] \in Nat /\ sstart[s] \in Nat
         /\ \A q \in Ids : accepted[q] \in Nat /\ mails[q] \in Nat
         /\ ready_once \subseteq Nat
  BY QuoteLifecycleAssumption
  DEF QuoteLifecycleAssumption, TypeOK, RowsTyped, CallsTyped, WorldTyped, QuoteIds, Ids, null

\* No step of a call, the pipeline or the clock breaks a type.
LEMMA TypeStep == TypeOK /\ IdsInv /\ [Next]_vars => TypeOK'
<1> SUFFICES ASSUME TypeOK, IdsInv, [Next]_vars PROVE TypeOK'
  OBVIOUS
<1> USE DEF TypeOK, RowsTyped, CallsTyped, WorldTyped, rowVars, approveVars, sendVars,
        mailVars, OutsideApproval, OutsideSending, OutsidePipeline
<1>1. ASSUME NEW a \in Approvers, ApproveLoad(a)
      PROVE  TypeOK'
  <2>1. apc' \in [Approvers -> ApprovePc]
    BY <1>1 DEF ApproveLoad, ApprovePc, AGoto
  <2>2. QED
    BY <1>1, <2>1 DEF ApproveLoad
<1>2. ASSUME NEW a \in Approvers, ApproveRead(a)
      PROVE  TypeOK'
  <2>1. apc' \in [Approvers -> ApprovePc] /\ aq' \in [Approvers -> QuoteIds]
    BY <1>2, ADoneTyped DEF ApproveRead, ApprovePc, AGoto
  <2>2. QED
    BY <1>2, <2>1 DEF ApproveRead
<1>3. ASSUME NEW a \in Approvers, TryClaimForApproval(a)
      PROVE  TypeOK'
  <2>1. RowsTyped'
    BY <1>3 DEF TryClaimForApproval, RowsTyped, QuoteStatus
  <2>2. apc' \in [Approvers -> ApprovePc] /\ aq' \in [Approvers -> QuoteIds]
    BY <1>3, ADoneTyped DEF TryClaimForApproval, ApprovePc, AGoto
  <2>3. QED
    BY <1>3, <2>1, <2>2 DEF TryClaimForApproval
<1>4. ASSUME NEW a \in Approvers, RenderQuotePdf(a)
      PROVE  TypeOK'
  <2>1. apc' \in [Approvers -> ApprovePc]
    BY <1>4 DEF RenderQuotePdf, ApprovePc, AGoto
  <2>2. pdfs' \subseteq Ids
    BY <1>4 DEF RenderQuotePdf, IdsInv, QuoteIds
  <2>3. QED
    BY <1>4, <2>1, <2>2 DEF RenderQuotePdf
<1>5. ASSUME NEW a \in Approvers, RenderFails(a)
      PROVE  TypeOK'
  <2>1. apc' \in [Approvers -> ApprovePc]
    BY <1>5 DEF RenderFails, ApprovePc, AGoto
  <2>2. QED
    BY <1>5, <2>1 DEF RenderFails
<1>6. ASSUME NEW a \in Approvers, RevertToDraft(a)
      PROVE  TypeOK'
  <2>1. RowsTyped'
    BY <1>6 DEF RevertToDraft, RowsTyped, QuoteStatus
  <2>2. apc' \in [Approvers -> ApprovePc] /\ aq' \in [Approvers -> QuoteIds]
    BY <1>6, ADoneTyped DEF RevertToDraft, ApprovePc, AGoto
  <2>3. QED
    BY <1>6, <2>1, <2>2 DEF RevertToDraft
<1>7. ASSUME NEW a \in Approvers, MarkReady(a)
      PROVE  TypeOK'
  <2>1. RowsTyped'
    BY <1>7 DEF MarkReady, RowsTyped, QuoteStatus
  <2>2. ready_once' \subseteq Ids
    BY <1>7 DEF MarkReady, Matches, QuoteIds
  <2>3. apc' \in [Approvers -> ApprovePc] /\ aq' \in [Approvers -> QuoteIds]
    BY <1>7, ADoneTyped DEF MarkReady, ApprovePc, AGoto
  <2>4. QED
    BY <1>7, <2>1, <2>2, <2>3 DEF MarkReady
<1>8. ASSUME NEW s \in Senders, SendRead(s)
      PROVE  TypeOK'
  <2>1. spc' \in [Senders -> SendPc]
    BY <1>8 DEF SendRead, SendPc, SGoto
  <2>2. sq' \in [Senders -> QuoteIds]
    BY <1>8 DEF SendRead
  <2>3. QED
    BY <1>8, <2>1, <2>2 DEF SendRead
<1>9. ASSUME NEW s \in Senders, SendStart(s)
      PROVE  TypeOK'
  <2>1. /\ spc' \in [Senders -> SendPc]
        /\ sq' \in [Senders -> QuoteIds]
        /\ sstart' \in [Senders -> Nat]
    BY <1>9, SDoneTyped DEF SendStart, SendPc, SGoto
  <2>2. QED
    BY <1>9, <2>1 DEF SendStart
<1>10. ASSUME NEW s \in Senders, TryStartDelivery(s)
      PROVE  TypeOK'
  <2>1. RowsTyped'
    BY <1>10 DEF TryStartDelivery, RowsTyped, QuoteStatus
  <2>2. spc' \in [Senders -> SendPc]
    BY <1>10 DEF TryStartDelivery, SendPc, SGoto
  <2>3. QED
    BY <1>10, <2>1, <2>2 DEF TryStartDelivery
<1>11. ASSUME NEW s \in Senders, RecheckDelivery(s)
      PROVE  TypeOK'
  <2>1. /\ spc' \in [Senders -> SendPc]
        /\ sq' \in [Senders -> QuoteIds]
        /\ sstart' \in [Senders -> Nat]
    BY <1>11, SDoneTyped DEF RecheckDelivery, SendPc, SGoto
  <2>2. QED
    BY <1>11, <2>1 DEF RecheckDelivery
<1>12. ASSUME NEW s \in Senders, ProviderAnswers(s)
      PROVE  TypeOK'
  <2>1. accepted' \in [Ids -> Nat] /\ mails' \in [Ids -> Nat]
    BY <1>12, AcceptTyped DEF ProviderAnswers
  <2>2. spc' \in [Senders -> SendPc]
    BY <1>12 DEF ProviderAnswers, SendPc, SGoto
  <2>3. QED
    BY <1>12, <2>1, <2>2 DEF ProviderAnswers
<1>13. ASSUME NEW s \in Senders, ProviderAnswerLost(s)
      PROVE  TypeOK'
  <2>1. accepted' \in [Ids -> Nat] /\ mails' \in [Ids -> Nat]
    BY <1>13, AcceptTyped DEF ProviderAnswerLost
  <2>2. /\ spc' \in [Senders -> SendPc]
        /\ sq' \in [Senders -> QuoteIds]
        /\ sstart' \in [Senders -> Nat]
    BY <1>13, SDoneTyped DEF ProviderAnswerLost, SendPc, SGoto
  <2>3. QED
    BY <1>13, <2>1, <2>2 DEF ProviderAnswerLost
<1>14. ASSUME NEW s \in Senders, ProviderRefuses(s)
      PROVE  TypeOK'
  <2>1. /\ spc' \in [Senders -> SendPc]
        /\ sq' \in [Senders -> QuoteIds]
        /\ sstart' \in [Senders -> Nat]
    BY <1>14, SDoneTyped DEF ProviderRefuses, SendPc, SGoto
  <2>2. QED
    BY <1>14, <2>1 DEF ProviderRefuses
<1>15. ASSUME NEW s \in Senders, MarkSent(s)
      PROVE  TypeOK'
  <2>1. RowsTyped'
    BY <1>15 DEF MarkSent, RowsTyped, QuoteStatus
  <2>2. spc' \in [Senders -> SendPc]
    BY <1>15 DEF MarkSent, SendPc, SGoto
  <2>3. QED
    BY <1>15, <2>1, <2>2 DEF MarkSent
<1>16. ASSUME NEW s \in Senders, VerifySent(s)
      PROVE  TypeOK'
  <2>1. /\ spc' \in [Senders -> SendPc]
        /\ sq' \in [Senders -> QuoteIds]
        /\ sstart' \in [Senders -> Nat]
    BY <1>16, SDoneTyped DEF VerifySent, SendPc, SGoto
  <2>2. QED
    BY <1>16, <2>1 DEF VerifySent
<1>17. ASSUME NEW s \in Senders, SettleRequest(s)
      PROVE  TypeOK'
  <2>1. RowsTyped'
    BY <1>17 DEF SettleRequest, RowsTyped, RequestStatus
  <2>2. /\ spc' \in [Senders -> SendPc]
        /\ sq' \in [Senders -> QuoteIds]
        /\ sstart' \in [Senders -> Nat]
    BY <1>17, SDoneTyped DEF SettleRequest, SendPc, SGoto
  <2>3. QED
    BY <1>17, <2>1, <2>2 DEF SettleRequest
<1>18. CASE RunStarts
  <2>1. RowsTyped'
    BY <1>18 DEF RunStarts, RowsTyped, RequestStatus
  <2>2. QED
    BY <1>18, <2>1 DEF RunStarts
<1>19. CASE RunPrices
  <2>1. RowsTyped'
    BY <1>19, PriceTyped DEF RunPrices, RowsTyped, RequestStatus, QuoteStatus
  <2>2. QED
    BY <1>19, <2>1 DEF RunPrices
<1>20. CASE RunFinalizes
  <2>1. RowsTyped'
    BY <1>20 DEF RunFinalizes, RowsTyped, RequestStatus
  <2>2. QED
    BY <1>20, <2>1 DEF RunFinalizes
<1>21. CASE Remap
  <2>1. RowsTyped'
    BY <1>21, PriceTyped DEF Remap, RowsTyped, RequestStatus, QuoteStatus
  <2>2. QED
    BY <1>21, <2>1 DEF Remap
<1>22. CASE DeclineRequest
  <2>1. RowsTyped'
    BY <1>22 DEF DeclineRequest, RowsTyped, RequestStatus
  <2>2. QED
    BY <1>22, <2>1 DEF DeclineRequest
<1>23. CASE Tick
  BY <1>23 DEF Tick
<1>24. CASE CallDies
  <2>1. apc' \in [Approvers -> ApprovePc] /\ aq' \in [Approvers -> QuoteIds]
    BY <1>24, ADoneTyped DEF CallDies, sendVars, approveVars
  <2>2. /\ spc' \in [Senders -> SendPc]
        /\ sq' \in [Senders -> QuoteIds]
        /\ sstart' \in [Senders -> Nat]
    BY <1>24, SDoneTyped DEF CallDies, sendVars, approveVars
  <2>3. QED
    BY <1>24, <2>1, <2>2 DEF CallDies
<1>25. CASE UNCHANGED vars
  BY <1>25 DEF vars
<1>26. QED
  BY <1>1, <1>2, <1>3, <1>4, <1>5, <1>6, <1>7, <1>8, <1>9, <1>10, <1>11, <1>12, <1>13,
     <1>14, <1>15, <1>16, <1>17, <1>18, <1>19, <1>20, <1>21, <1>22, <1>23, <1>24, <1>25
  DEF Next, ApproveStep, SendStep, PipelineStep

(* ----------------------- ids, one step at a time ----------------------- *)

\* A new quote gets an id that nobody holds; nobody gives up an id but by
\* ending the call.
LEMMA IdsStep == TypeOK /\ IdsInv /\ [Next]_vars => IdsInv'
<1> SUFFICES ASSUME TypeOK, IdsInv, [Next]_vars PROVE IdsInv'
  OBVIOUS
<1>0. /\ CallsTyped
      /\ quote \in Nat /\ made \in Nat
      /\ \A a \in Approvers : aq[a] \in Nat
      /\ \A s \in Senders : sq[s] \in Nat
      /\ ready_once \subseteq Nat
  BY TypeNumbers
<1>f. /\ aq \in [Approvers -> QuoteIds]
      /\ sq \in [Senders -> QuoteIds]
  BY <1>0 DEF CallsTyped
<1> USE DEF IdsInv, null, rowVars, approveVars, sendVars, mailVars, OutsideApproval,
        OutsideSending, OutsidePipeline, Matches, ReplaceForRequest, DeleteForRequest
<1>1. ASSUME NEW a \in Approvers, ApproveLoad(a)
      PROVE  IdsInv'
  BY <1>1, <1>0, AGotoValues DEF ApproveLoad
<1>2. ASSUME NEW a \in Approvers, ApproveRead(a)
      PROVE  IdsInv'
  BY <1>2, <1>0, AGotoValues, ADoneValues, <1>f DEF ApproveRead
<1>3. ASSUME NEW a \in Approvers, TryClaimForApproval(a)
      PROVE  IdsInv'
  BY <1>3, <1>0, AGotoValues, ADoneValues DEF TryClaimForApproval
<1>4. ASSUME NEW a \in Approvers, RenderQuotePdf(a)
      PROVE  IdsInv'
  BY <1>4, <1>0, AGotoValues DEF RenderQuotePdf
<1>5. ASSUME NEW a \in Approvers, RenderFails(a)
      PROVE  IdsInv'
  BY <1>5, <1>0, AGotoValues DEF RenderFails
<1>6. ASSUME NEW a \in Approvers, RevertToDraft(a)
      PROVE  IdsInv'
  BY <1>6, <1>0, ADoneValues DEF RevertToDraft
<1>7. ASSUME NEW a \in Approvers, MarkReady(a)
      PROVE  IdsInv'
  <2>1. /\ ADone(a) /\ apc[a] = "publish"
        /\ UNCHANGED <<quote, delivery_started, made, pdfs, spc, sq>>
    BY <1>7 DEF MarkReady
  <2>2. CASE UNCHANGED <<qstatus, ready_once>>
    BY <2>1, <2>2, <1>0, ADoneValues
  <2>3. CASE /\ qstatus' = "ready" /\ ready_once' = ready_once \cup {quote}
             /\ quote # null /\ aq[a] = quote
    BY <2>1, <2>3, <1>0, ADoneValues
  <2>4. QED
    BY <1>7, <2>2, <2>3 DEF MarkReady
<1>8. ASSUME NEW s \in Senders, SendRead(s)
      PROVE  IdsInv'
  BY <1>8, <1>0, SGotoValues, <1>f DEF SendRead
<1>9. ASSUME NEW s \in Senders, SendStart(s)
      PROVE  IdsInv'
  BY <1>9, <1>0, SGotoValues, SDoneValues DEF SendStart
<1>10. ASSUME NEW s \in Senders, TryStartDelivery(s)
      PROVE  IdsInv'
  BY <1>10, <1>0, SGotoValues DEF TryStartDelivery
<1>11. ASSUME NEW s \in Senders, RecheckDelivery(s)
      PROVE  IdsInv'
  BY <1>11, <1>0, SGotoValues, SDoneValues DEF RecheckDelivery, SafelyRetryable
<1>12. ASSUME NEW s \in Senders, ProviderAnswers(s)
      PROVE  IdsInv'
  BY <1>12, <1>0, SGotoValues DEF ProviderAnswers
<1>13. ASSUME NEW s \in Senders, ProviderAnswerLost(s)
      PROVE  IdsInv'
  BY <1>13, <1>0, SGotoValues, SDoneValues DEF ProviderAnswerLost
<1>14. ASSUME NEW s \in Senders, ProviderRefuses(s)
      PROVE  IdsInv'
  BY <1>14, <1>0, SDoneValues DEF ProviderRefuses
<1>15. ASSUME NEW s \in Senders, MarkSent(s)
      PROVE  IdsInv'
  BY <1>15, <1>0, SGotoValues DEF MarkSent
<1>16. ASSUME NEW s \in Senders, VerifySent(s)
      PROVE  IdsInv'
  BY <1>16, <1>0, SGotoValues, SDoneValues DEF VerifySent
<1>17. ASSUME NEW s \in Senders, SettleRequest(s)
      PROVE  IdsInv'
  BY <1>17, <1>0, SDoneValues DEF SettleRequest
<1>18. CASE RunStarts
  BY <1>18, <1>0 DEF RunStarts
<1>19. CASE RunPrices
  BY <1>19, <1>0 DEF RunPrices
<1>20. CASE RunFinalizes
  BY <1>20, <1>0 DEF RunFinalizes
<1>21. CASE Remap
  BY <1>21, <1>0 DEF Remap
<1>22. CASE DeclineRequest
  BY <1>22, <1>0 DEF DeclineRequest
<1>23. CASE Tick
  BY <1>23, <1>0 DEF Tick
<1>24. CASE CallDies
  <2>1. ASSUME NEW a \in Approvers, ADone(a), UNCHANGED sendVars
        PROVE  IdsInv'
    BY <1>24, <2>1, <1>0, ADoneValues DEF CallDies
  <2>2. ASSUME NEW s \in Senders, SDone(s), UNCHANGED approveVars
        PROVE  IdsInv'
    BY <1>24, <2>2, <1>0, SDoneValues DEF CallDies
  <2>3. QED
    BY <1>24, <2>1, <2>2 DEF CallDies
<1>25. CASE UNCHANGED vars
  BY <1>25 DEF vars
<1>26. QED
  BY <1>1, <1>2, <1>3, <1>4, <1>5, <1>6, <1>7, <1>8, <1>9, <1>10, <1>11, <1>12, <1>13,
     <1>14, <1>15, <1>16, <1>17, <1>18, <1>19, <1>20, <1>21, <1>22, <1>23, <1>24, <1>25
  DEF Next, ApproveStep, SendStep, PipelineStep

(* -------------------------- approval, one step at a time --------------- *)

\* Only a DRAFT is claimed, so whoever holds the live quote holds it alone.
LEMMA ClaimStep ==
  TypeOK /\ IdsInv /\ OneClaimant /\ [Next]_vars => OneClaimant'
<1> SUFFICES ASSUME TypeOK, IdsInv, OneClaimant, [Next]_vars PROVE OneClaimant'
  OBVIOUS
<1>0. /\ CallsTyped
      /\ quote \in Nat /\ made \in Nat
      /\ \A a \in Approvers :
            /\ aq[a] \in Nat /\ aq[a] <= made
            /\ apc[a] \notin {"idle", "read"} => aq[a] # null
      /\ quote <= made
      /\ quote = null => qstatus = "draft"
  BY TypeNumbers DEF IdsInv
<1> USE DEF OneClaimant, Claiming, null, rowVars, approveVars, sendVars, mailVars,
        OutsideApproval, OutsideSending, OutsidePipeline, Matches, ReplaceForRequest,
        DeleteForRequest
<1>1. ASSUME NEW a \in Approvers, ApproveLoad(a)
      PROVE  OneClaimant'
  BY <1>1, <1>0, AGotoValues DEF ApproveLoad
<1>2. ASSUME NEW a \in Approvers, ApproveRead(a)
      PROVE  OneClaimant'
  <2>1. CASE AGoto(a, "claim") /\ aq' = [aq EXCEPT ![a] = quote]
    BY <1>2, <2>1, <1>0, AGotoValues, ADoneValues DEF ApproveRead
  <2>2. CASE ADone(a)
    BY <1>2, <2>2, <1>0, AGotoValues, ADoneValues DEF ApproveRead
  <2>3. QED
    BY <1>2, <2>1, <2>2 DEF ApproveRead
<1>3. ASSUME NEW a \in Approvers, TryClaimForApproval(a)
      PROVE  OneClaimant'
  BY <1>3, <1>0, AGotoValues, ADoneValues DEF TryClaimForApproval
<1>4. ASSUME NEW a \in Approvers, RenderQuotePdf(a)
      PROVE  OneClaimant'
  BY <1>4, <1>0, AGotoValues DEF RenderQuotePdf
<1>5. ASSUME NEW a \in Approvers, RenderFails(a)
      PROVE  OneClaimant'
  BY <1>5, <1>0, AGotoValues DEF RenderFails
<1>6. ASSUME NEW a \in Approvers, RevertToDraft(a)
      PROVE  OneClaimant'
  BY <1>6, <1>0, ADoneValues DEF RevertToDraft
<1>7. ASSUME NEW a \in Approvers, MarkReady(a)
      PROVE  OneClaimant'
  <2>1. /\ ADone(a) /\ apc[a] = "publish"
        /\ UNCHANGED <<quote, delivery_started, made, pdfs, spc, sq>>
    BY <1>7 DEF MarkReady
  <2>2. CASE UNCHANGED <<qstatus, ready_once>>
    BY <2>1, <2>2, <1>0, ADoneValues
  <2>3. CASE /\ qstatus' = "ready" /\ ready_once' = ready_once \cup {quote}
             /\ quote # null /\ aq[a] = quote
    BY <2>1, <2>3, <1>0, ADoneValues
  <2>4. QED
    BY <1>7, <2>2, <2>3 DEF MarkReady
<1>8. ASSUME NEW s \in Senders, SendRead(s)
      PROVE  OneClaimant'
  BY <1>8, <1>0, SGotoValues DEF SendRead
<1>9. ASSUME NEW s \in Senders, SendStart(s)
      PROVE  OneClaimant'
  BY <1>9, <1>0, SGotoValues, SDoneValues DEF SendStart
<1>10. ASSUME NEW s \in Senders, TryStartDelivery(s)
      PROVE  OneClaimant'
  BY <1>10, <1>0, SGotoValues DEF TryStartDelivery
<1>11. ASSUME NEW s \in Senders, RecheckDelivery(s)
      PROVE  OneClaimant'
  BY <1>11, <1>0, SGotoValues, SDoneValues DEF RecheckDelivery, SafelyRetryable
<1>12. ASSUME NEW s \in Senders, ProviderAnswers(s)
      PROVE  OneClaimant'
  BY <1>12, <1>0, SGotoValues DEF ProviderAnswers
<1>13. ASSUME NEW s \in Senders, ProviderAnswerLost(s)
      PROVE  OneClaimant'
  BY <1>13, <1>0, SGotoValues, SDoneValues DEF ProviderAnswerLost
<1>14. ASSUME NEW s \in Senders, ProviderRefuses(s)
      PROVE  OneClaimant'
  BY <1>14, <1>0, SDoneValues DEF ProviderRefuses
<1>15. ASSUME NEW s \in Senders, MarkSent(s)
      PROVE  OneClaimant'
  BY <1>15, <1>0, SGotoValues DEF MarkSent
<1>16. ASSUME NEW s \in Senders, VerifySent(s)
      PROVE  OneClaimant'
  BY <1>16, <1>0, SGotoValues, SDoneValues DEF VerifySent
<1>17. ASSUME NEW s \in Senders, SettleRequest(s)
      PROVE  OneClaimant'
  BY <1>17, <1>0, SDoneValues DEF SettleRequest
<1>18. CASE RunStarts
  BY <1>18, <1>0 DEF RunStarts
<1>19. CASE RunPrices
  BY <1>19, <1>0 DEF RunPrices
<1>20. CASE RunFinalizes
  BY <1>20, <1>0 DEF RunFinalizes
<1>21. CASE Remap
  BY <1>21, <1>0 DEF Remap
<1>22. CASE DeclineRequest
  BY <1>22, <1>0 DEF DeclineRequest
<1>23. CASE Tick
  BY <1>23, <1>0 DEF Tick
<1>24. CASE CallDies
  <2>1. ASSUME NEW a \in Approvers, ADone(a), UNCHANGED sendVars
        PROVE  OneClaimant'
    BY <1>24, <2>1, <1>0, ADoneValues DEF CallDies
  <2>2. ASSUME NEW s \in Senders, SDone(s), UNCHANGED approveVars
        PROVE  OneClaimant'
    BY <1>24, <2>2, <1>0, SDoneValues DEF CallDies
  <2>3. QED
    BY <1>24, <2>1, <2>2 DEF CallDies
<1>25. CASE UNCHANGED vars
  BY <1>25 DEF vars
<1>26. QED
  BY <1>1, <1>2, <1>3, <1>4, <1>5, <1>6, <1>7, <1>8, <1>9, <1>10, <1>11, <1>12, <1>13,
     <1>14, <1>15, <1>16, <1>17, <1>18, <1>19, <1>20, <1>21, <1>22, <1>23, <1>24, <1>25
  DEF Next, ApproveStep, SendStep, PipelineStep

\* The PDF is stored before MarkReady, and never taken out of the store.
LEMMA PdfStep ==
  TypeOK /\ IdsInv /\ PdfInv /\ [Next]_vars => PdfInv'
<1> SUFFICES ASSUME TypeOK, PdfInv, [Next]_vars PROVE PdfInv'
  OBVIOUS
<1>0. CallsTyped
  BY TypeNumbers
<1> USE DEF PdfInv, rowVars, approveVars, sendVars, mailVars, OutsideApproval,
        OutsideSending, OutsidePipeline, Matches, ReplaceForRequest, DeleteForRequest
<1>1. ASSUME NEW a \in Approvers, ApproveLoad(a)
      PROVE  PdfInv'
  BY <1>1, <1>0, AGotoValues DEF ApproveLoad
<1>2. ASSUME NEW a \in Approvers, ApproveRead(a)
      PROVE  PdfInv'
  <2>1. CASE AGoto(a, "claim") /\ aq' = [aq EXCEPT ![a] = quote]
    BY <1>2, <2>1, <1>0, AGotoValues, ADoneValues DEF ApproveRead
  <2>2. CASE ADone(a)
    BY <1>2, <2>2, <1>0, AGotoValues, ADoneValues DEF ApproveRead
  <2>3. QED
    BY <1>2, <2>1, <2>2 DEF ApproveRead
<1>3. ASSUME NEW a \in Approvers, TryClaimForApproval(a)
      PROVE  PdfInv'
  BY <1>3, <1>0, AGotoValues, ADoneValues DEF TryClaimForApproval
<1>4. ASSUME NEW a \in Approvers, RenderQuotePdf(a)
      PROVE  PdfInv'
  BY <1>4, <1>0, AGotoValues DEF RenderQuotePdf
<1>5. ASSUME NEW a \in Approvers, RenderFails(a)
      PROVE  PdfInv'
  BY <1>5, <1>0, AGotoValues DEF RenderFails
<1>6. ASSUME NEW a \in Approvers, RevertToDraft(a)
      PROVE  PdfInv'
  BY <1>6, <1>0, ADoneValues DEF RevertToDraft
<1>7. ASSUME NEW a \in Approvers, MarkReady(a)
      PROVE  PdfInv'
  <2>1. /\ ADone(a) /\ apc[a] = "publish"
        /\ UNCHANGED <<quote, delivery_started, made, pdfs, spc, sq>>
    BY <1>7 DEF MarkReady
  <2>2. CASE UNCHANGED <<qstatus, ready_once>>
    BY <2>1, <2>2, <1>0, ADoneValues
  <2>3. CASE /\ qstatus' = "ready" /\ ready_once' = ready_once \cup {quote}
             /\ quote # null /\ aq[a] = quote
    BY <2>1, <2>3, <1>0, ADoneValues
  <2>4. QED
    BY <1>7, <2>2, <2>3 DEF MarkReady
<1>8. ASSUME NEW s \in Senders, SendRead(s)
      PROVE  PdfInv'
  BY <1>8, <1>0, SGotoValues DEF SendRead
<1>9. ASSUME NEW s \in Senders, SendStart(s)
      PROVE  PdfInv'
  BY <1>9, <1>0, SGotoValues, SDoneValues DEF SendStart
<1>10. ASSUME NEW s \in Senders, TryStartDelivery(s)
      PROVE  PdfInv'
  BY <1>10, <1>0, SGotoValues DEF TryStartDelivery
<1>11. ASSUME NEW s \in Senders, RecheckDelivery(s)
      PROVE  PdfInv'
  BY <1>11, <1>0, SGotoValues, SDoneValues DEF RecheckDelivery, SafelyRetryable
<1>12. ASSUME NEW s \in Senders, ProviderAnswers(s)
      PROVE  PdfInv'
  BY <1>12, <1>0, SGotoValues DEF ProviderAnswers
<1>13. ASSUME NEW s \in Senders, ProviderAnswerLost(s)
      PROVE  PdfInv'
  BY <1>13, <1>0, SGotoValues, SDoneValues DEF ProviderAnswerLost
<1>14. ASSUME NEW s \in Senders, ProviderRefuses(s)
      PROVE  PdfInv'
  BY <1>14, <1>0, SDoneValues DEF ProviderRefuses
<1>15. ASSUME NEW s \in Senders, MarkSent(s)
      PROVE  PdfInv'
  BY <1>15, <1>0, SGotoValues DEF MarkSent
<1>16. ASSUME NEW s \in Senders, VerifySent(s)
      PROVE  PdfInv'
  BY <1>16, <1>0, SGotoValues, SDoneValues DEF VerifySent
<1>17. ASSUME NEW s \in Senders, SettleRequest(s)
      PROVE  PdfInv'
  BY <1>17, <1>0, SDoneValues DEF SettleRequest
<1>18. CASE RunStarts
  BY <1>18, <1>0 DEF RunStarts
<1>19. CASE RunPrices
  BY <1>19, <1>0 DEF RunPrices
<1>20. CASE RunFinalizes
  BY <1>20, <1>0 DEF RunFinalizes
<1>21. CASE Remap
  BY <1>21, <1>0 DEF Remap
<1>22. CASE DeclineRequest
  BY <1>22, <1>0 DEF DeclineRequest
<1>23. CASE Tick
  BY <1>23, <1>0 DEF Tick
<1>24. CASE CallDies
  <2>1. ASSUME NEW a \in Approvers, ADone(a), UNCHANGED sendVars
        PROVE  PdfInv'
    BY <1>24, <2>1, <1>0, ADoneValues DEF CallDies
  <2>2. ASSUME NEW s \in Senders, SDone(s), UNCHANGED approveVars
        PROVE  PdfInv'
    BY <1>24, <2>2, <1>0, SDoneValues DEF CallDies
  <2>3. QED
    BY <1>24, <2>1, <2>2 DEF CallDies
<1>25. CASE UNCHANGED vars
  BY <1>25 DEF vars
<1>26. QED
  BY <1>1, <1>2, <1>3, <1>4, <1>5, <1>6, <1>7, <1>8, <1>9, <1>10, <1>11, <1>12, <1>13,
     <1>14, <1>15, <1>16, <1>17, <1>18, <1>19, <1>20, <1>21, <1>22, <1>23, <1>24, <1>25
  DEF Next, ApproveStep, SendStep, PipelineStep

(* -------------------------- delivery, one step at a time --------------- *)

\* A call keeps its start time until it ends, and the clock waits for it.
LEMMA FlightStep ==
  TypeOK /\ FlightInv /\ [Next]_vars => FlightInv'
<1> SUFFICES ASSUME TypeOK, FlightInv, [Next]_vars PROVE FlightInv'
  OBVIOUS
<1>0. /\ CallsTyped
      /\ MaxFlight \in Nat /\ now \in Nat /\ now # null
      /\ \A s \in Senders : sstart[s] \in Nat
      /\ sstart \in [Senders -> Nat]
  BY TypeNumbers, QuoteLifecycleAssumption
  DEF QuoteLifecycleAssumption, TypeOK, CallsTyped, WorldTyped, null
<1> USE DEF FlightInv, null, rowVars, approveVars, sendVars, mailVars, OutsideApproval,
        OutsideSending, OutsidePipeline, Matches, ReplaceForRequest, DeleteForRequest
<1>1. ASSUME NEW a \in Approvers, ApproveLoad(a)
      PROVE  FlightInv'
  BY <1>1, <1>0 DEF ApproveLoad
<1>2. ASSUME NEW a \in Approvers, ApproveRead(a)
      PROVE  FlightInv'
  BY <1>2, <1>0 DEF ApproveRead
<1>3. ASSUME NEW a \in Approvers, TryClaimForApproval(a)
      PROVE  FlightInv'
  BY <1>3, <1>0 DEF TryClaimForApproval
<1>4. ASSUME NEW a \in Approvers, RenderQuotePdf(a)
      PROVE  FlightInv'
  BY <1>4, <1>0 DEF RenderQuotePdf
<1>5. ASSUME NEW a \in Approvers, RenderFails(a)
      PROVE  FlightInv'
  BY <1>5, <1>0 DEF RenderFails
<1>6. ASSUME NEW a \in Approvers, RevertToDraft(a)
      PROVE  FlightInv'
  BY <1>6, <1>0 DEF RevertToDraft
<1>7. ASSUME NEW a \in Approvers, MarkReady(a)
      PROVE  FlightInv'
  BY <1>7, <1>0 DEF MarkReady
<1>8. ASSUME NEW s \in Senders, SendRead(s)
      PROVE  FlightInv'
  BY <1>8, <1>0, SGotoValues DEF SendRead
<1>9. ASSUME NEW s \in Senders, SendStart(s)
      PROVE  FlightInv'
  BY <1>9, <1>0, SGotoValues, SDoneValues DEF SendStart
<1>10. ASSUME NEW s \in Senders, TryStartDelivery(s)
      PROVE  FlightInv'
  BY <1>10, <1>0, SGotoValues DEF TryStartDelivery
<1>11. ASSUME NEW s \in Senders, RecheckDelivery(s)
      PROVE  FlightInv'
  BY <1>11, <1>0, SGotoValues, SDoneValues DEF RecheckDelivery, SafelyRetryable
<1>12. ASSUME NEW s \in Senders, ProviderAnswers(s)
      PROVE  FlightInv'
  BY <1>12, <1>0, SGotoValues DEF ProviderAnswers
<1>13. ASSUME NEW s \in Senders, ProviderAnswerLost(s)
      PROVE  FlightInv'
  BY <1>13, <1>0, SGotoValues, SDoneValues DEF ProviderAnswerLost
<1>14. ASSUME NEW s \in Senders, ProviderRefuses(s)
      PROVE  FlightInv'
  BY <1>14, <1>0, SDoneValues DEF ProviderRefuses
<1>15. ASSUME NEW s \in Senders, MarkSent(s)
      PROVE  FlightInv'
  BY <1>15, <1>0, SGotoValues DEF MarkSent
<1>16. ASSUME NEW s \in Senders, VerifySent(s)
      PROVE  FlightInv'
  BY <1>16, <1>0, SGotoValues, SDoneValues DEF VerifySent
<1>17. ASSUME NEW s \in Senders, SettleRequest(s)
      PROVE  FlightInv'
  BY <1>17, <1>0, SDoneValues DEF SettleRequest
<1>18. CASE RunStarts
  BY <1>18, <1>0 DEF RunStarts
<1>19. CASE RunPrices
  BY <1>19, <1>0 DEF RunPrices
<1>20. CASE RunFinalizes
  BY <1>20, <1>0 DEF RunFinalizes
<1>21. CASE Remap
  BY <1>21, <1>0 DEF Remap
<1>22. CASE DeclineRequest
  BY <1>22, <1>0 DEF DeclineRequest
<1>23. CASE Tick
  BY <1>23, <1>0 DEF Tick
<1>24. CASE CallDies
  <2>1. ASSUME NEW a \in Approvers, ADone(a), UNCHANGED sendVars
        PROVE  FlightInv'
    BY <1>24, <2>1, <1>0, ADoneValues DEF CallDies
  <2>2. ASSUME NEW s \in Senders, SDone(s), UNCHANGED approveVars
        PROVE  FlightInv'
    BY <1>24, <2>2, <1>0, SDoneValues DEF CallDies
  <2>3. QED
    BY <1>24, <2>1, <2>2 DEF CallDies
<1>25. CASE UNCHANGED vars
  BY <1>25 DEF vars
<1>26. QED
  BY <1>1, <1>2, <1>3, <1>4, <1>5, <1>6, <1>7, <1>8, <1>9, <1>10, <1>11, <1>12, <1>13,
     <1>14, <1>15, <1>16, <1>17, <1>18, <1>19, <1>20, <1>21, <1>22, <1>23, <1>24, <1>25
  DEF Next, ApproveStep, SendStep, PipelineStep

\* Whoever reaches the provider either meets the key of an e-mail it has
\* accepted, or is the first to send the quote: a retry starts less than
\* SafeRetryWindow after the first attempt did and ends MaxFlight later, while
\* the provider still knows the key.
LEMMA AcceptOnce ==
  ASSUME TypeOK, IdsInv, FlightInv, AcceptedInv, DeliverInv,
         NEW s \in Senders, spc[s] = "deliver", Accept(sq[s])
  PROVE  /\ sq[s] \in Ids /\ sq[s] \in ready_once
         /\ \A q \in Ids :
               /\ accepted'[q] = IF q = sq[s] /\ accepted[q] = null THEN now ELSE accepted[q]
               /\ mails'[q] = IF q = sq[s] THEN 1 ELSE mails[q]
<1> DEFINE q == sq[s]
<1>1. q \in Ids /\ q \in ready_once
  BY DEF IdsInv, TypeOK, WorldTyped
<1>2. /\ now \in Nat /\ sstart[s] \in Nat /\ accepted[q] \in Nat /\ mails[q] \in Nat
      /\ accepted \in [Ids -> Nat] /\ mails \in [Ids -> Nat]
  BY <1>1, TypeNumbers DEF TypeOK, WorldTyped
<1>3. CASE accepted[q] # null
  <2>1. sstart[s] < accepted[q] + SafeRetryWindow
    BY <1>3 DEF DeliverInv
  <2>2. now <= sstart[s] + MaxFlight
    BY DEF FlightInv
  <2>3. now < accepted[q] + ProviderWindow
    BY <1>2, <2>1, <2>2, QuoteLifecycleAssumption DEF QuoteLifecycleAssumption
  <2>4. UNCHANGED mailVars /\ mails[q] = 1
    BY <1>1, <1>3, <2>3 DEF Accept, AcceptedInv
  <2>5. QED
    BY <1>1, <1>3, <2>4 DEF mailVars
<1>4. CASE accepted[q] = null
  <2>1. mails[q] = 0
    BY <1>1, <1>4 DEF AcceptedInv
  <2>2. /\ accepted' = [accepted EXCEPT ![q] = now]
        /\ mails' = [mails EXCEPT ![q] = @ + 1]
    BY <1>4 DEF Accept
  <2>3. QED
    BY <1>1, <1>2, <1>4, <2>1, <2>2
<1>5. QED
  BY <1>3, <1>4

\* A re-priced quote is new to the provider and to the senders.
LEMMA PricedIsNew ==
  ASSUME TypeOK, IdsInv, AcceptedInv, ReplaceForRequest \/ DeleteForRequest
  PROVE  /\ delivery_started' = null
         /\ quote' # null => accepted[quote'] = null
         /\ \A s \in Senders : sq[s] # null => sq[s] # quote'
<1>1. CASE DeleteForRequest
  BY <1>1 DEF DeleteForRequest
<1>2. CASE ReplaceForRequest
  <2>1. /\ quote' = made + 1 /\ quote' \in Ids /\ made \in Nat
        /\ delivery_started' = null
    BY <1>2, TypeNumbers, QuoteLifecycleAssumption
    DEF ReplaceForRequest, QuoteLifecycleAssumption, Ids
  <2>2. quote' \notin ready_once
    BY <2>1 DEF IdsInv
  <2>3. QED
    BY <2>1, <2>2 DEF IdsInv, AcceptedInv
<1>3. QED
  BY <1>1, <1>2

\* The first attempt at the live quote is written down before the provider is
\* called, so what it accepts is never older than the row says.
LEMMA AcceptedStep ==
  TypeOK /\ IdsInv /\ FlightInv /\ AcceptedInv /\ DeliverInv /\ [Next]_vars => AcceptedInv'
<1> SUFFICES ASSUME TypeOK, IdsInv, FlightInv, AcceptedInv, DeliverInv, [Next]_vars
             PROVE  AcceptedInv'
  OBVIOUS
<1>0. /\ CallsTyped
      /\ now \in Nat /\ now # null /\ made \in Nat /\ quote \in Nat
      /\ delivery_started \in Nat
      /\ \A q \in Ids : accepted[q] \in Nat
      /\ \A s \in Senders :
            /\ sstart[s] \in Nat
            /\ spc[s] = "deliver" /\ sq[s] = quote => delivery_started # null
            /\ spc[s] = "claim" => sstart[s] # null
            /\ sstart[s] # null => sstart[s] <= now
      /\ \A q \in ready_once : q <= made
      /\ ready_once \subseteq Ids
      /\ quote # null => quote \in Ids
  BY TypeNumbers
  DEF TypeOK, WorldTyped, RowsTyped, QuoteIds, FlightInv, IdsInv, DeliverInv, null
<1> USE DEF AcceptedInv, null, rowVars, approveVars, sendVars, mailVars, OutsideApproval,
        OutsideSending, OutsidePipeline, Matches, ReplaceForRequest, DeleteForRequest
<1>1. ASSUME NEW a \in Approvers, ApproveLoad(a)
      PROVE  AcceptedInv'
  BY <1>1, <1>0 DEF ApproveLoad
<1>2. ASSUME NEW a \in Approvers, ApproveRead(a)
      PROVE  AcceptedInv'
  BY <1>2, <1>0 DEF ApproveRead
<1>3. ASSUME NEW a \in Approvers, TryClaimForApproval(a)
      PROVE  AcceptedInv'
  BY <1>3, <1>0 DEF TryClaimForApproval
<1>4. ASSUME NEW a \in Approvers, RenderQuotePdf(a)
      PROVE  AcceptedInv'
  BY <1>4, <1>0 DEF RenderQuotePdf
<1>5. ASSUME NEW a \in Approvers, RenderFails(a)
      PROVE  AcceptedInv'
  BY <1>5, <1>0 DEF RenderFails
<1>6. ASSUME NEW a \in Approvers, RevertToDraft(a)
      PROVE  AcceptedInv'
  BY <1>6, <1>0 DEF RevertToDraft
<1>7. ASSUME NEW a \in Approvers, MarkReady(a)
      PROVE  AcceptedInv'
  BY <1>7, <1>0 DEF MarkReady
<1>8. ASSUME NEW s \in Senders, SendRead(s)
      PROVE  AcceptedInv'
  BY <1>8, <1>0, SGotoValues DEF SendRead
<1>9. ASSUME NEW s \in Senders, SendStart(s)
      PROVE  AcceptedInv'
  BY <1>9, <1>0, SGotoValues, SDoneValues DEF SendStart
<1>10. ASSUME NEW s \in Senders, TryStartDelivery(s)
      PROVE  AcceptedInv'
  BY <1>10, <1>0, SGotoValues DEF TryStartDelivery
<1>11. ASSUME NEW s \in Senders, RecheckDelivery(s)
      PROVE  AcceptedInv'
  BY <1>11, <1>0, SGotoValues, SDoneValues DEF RecheckDelivery, SafelyRetryable
<1>12. ASSUME NEW s \in Senders, ProviderAnswers(s)
      PROVE  AcceptedInv'
  BY <1>12, <1>0, SGotoValues, AcceptOnce DEF ProviderAnswers
<1>13. ASSUME NEW s \in Senders, ProviderAnswerLost(s)
      PROVE  AcceptedInv'
  BY <1>13, <1>0, SGotoValues, SDoneValues, AcceptOnce DEF ProviderAnswerLost
<1>14. ASSUME NEW s \in Senders, ProviderRefuses(s)
      PROVE  AcceptedInv'
  BY <1>14, <1>0, SDoneValues DEF ProviderRefuses
<1>15. ASSUME NEW s \in Senders, MarkSent(s)
      PROVE  AcceptedInv'
  BY <1>15, <1>0, SGotoValues DEF MarkSent
<1>16. ASSUME NEW s \in Senders, VerifySent(s)
      PROVE  AcceptedInv'
  BY <1>16, <1>0, SGotoValues, SDoneValues DEF VerifySent
<1>17. ASSUME NEW s \in Senders, SettleRequest(s)
      PROVE  AcceptedInv'
  BY <1>17, <1>0, SDoneValues DEF SettleRequest
<1>18. CASE RunStarts
  BY <1>18, <1>0 DEF RunStarts
<1>19. CASE RunPrices
  <2>1. ReplaceForRequest \/ DeleteForRequest
    BY <1>19 DEF RunPrices
  <2>2. QED
    BY <1>19, <2>1, <1>0, PricedIsNew DEF RunPrices
<1>20. CASE RunFinalizes
  BY <1>20, <1>0 DEF RunFinalizes
<1>21. CASE Remap
  <2>1. ReplaceForRequest \/ DeleteForRequest
    BY <1>21 DEF Remap
  <2>2. QED
    BY <1>21, <2>1, <1>0, PricedIsNew DEF Remap
<1>22. CASE DeclineRequest
  BY <1>22, <1>0 DEF DeclineRequest
<1>23. CASE Tick
  BY <1>23, <1>0 DEF Tick
<1>24. CASE CallDies
  BY <1>24, <1>0 DEF CallDies
<1>25. CASE UNCHANGED vars
  BY <1>25 DEF vars
<1>26. QED
  BY <1>1, <1>2, <1>3, <1>4, <1>5, <1>6, <1>7, <1>8, <1>9, <1>10, <1>11, <1>12, <1>13,
     <1>14, <1>15, <1>16, <1>17, <1>18, <1>19, <1>20, <1>21, <1>22, <1>23, <1>24, <1>25
  DEF Next, ApproveStep, SendStep, PipelineStep

\* Whoever comes to the provider either started the delivery, which nobody had
\* accepted, or was found to be retrying in time; and an acceptance by somebody
\* else is never older than the start of a call under way.
LEMMA DeliverStep ==
  TypeOK /\ IdsInv /\ FlightInv /\ AcceptedInv /\ DeliverInv /\ [Next]_vars => DeliverInv'
<1> SUFFICES ASSUME TypeOK, IdsInv, FlightInv, AcceptedInv, DeliverInv, [Next]_vars
             PROVE  DeliverInv'
  OBVIOUS
<1>0. /\ CallsTyped
      /\ SafeRetryWindow \in Nat \ {0}
      /\ now \in Nat /\ made \in Nat /\ quote \in Nat /\ delivery_started \in Nat
      /\ \A q \in Ids : accepted[q] \in Nat
      /\ \A s \in Senders :
            /\ sq[s] \in Nat /\ sq[s] <= made
            /\ spc[s] # "idle" => sq[s] \in Ids /\ sq[s] # null
            /\ sstart[s] \in Nat
            /\ spc[s] \in {"claim", "deliver"} => sstart[s] # null /\ sstart[s] <= now
      /\ quote # null => quote \in Ids
      /\ quote # null /\ accepted[quote] # null =>
            delivery_started # null /\ delivery_started <= accepted[quote]
  BY TypeNumbers, QuoteLifecycleAssumption
  DEF QuoteLifecycleAssumption, TypeOK, WorldTyped, RowsTyped, QuoteIds, FlightInv, IdsInv,
      AcceptedInv, null
<1> USE DEF DeliverInv, null, rowVars, approveVars, sendVars, mailVars, OutsideApproval,
        OutsideSending, OutsidePipeline, Matches, ReplaceForRequest, DeleteForRequest
<1>1. ASSUME NEW a \in Approvers, ApproveLoad(a)
      PROVE  DeliverInv'
  BY <1>1, <1>0 DEF ApproveLoad
<1>2. ASSUME NEW a \in Approvers, ApproveRead(a)
      PROVE  DeliverInv'
  BY <1>2, <1>0 DEF ApproveRead
<1>3. ASSUME NEW a \in Approvers, TryClaimForApproval(a)
      PROVE  DeliverInv'
  BY <1>3, <1>0 DEF TryClaimForApproval
<1>4. ASSUME NEW a \in Approvers, RenderQuotePdf(a)
      PROVE  DeliverInv'
  BY <1>4, <1>0 DEF RenderQuotePdf
<1>5. ASSUME NEW a \in Approvers, RenderFails(a)
      PROVE  DeliverInv'
  BY <1>5, <1>0 DEF RenderFails
<1>6. ASSUME NEW a \in Approvers, RevertToDraft(a)
      PROVE  DeliverInv'
  BY <1>6, <1>0 DEF RevertToDraft
<1>7. ASSUME NEW a \in Approvers, MarkReady(a)
      PROVE  DeliverInv'
  BY <1>7, <1>0 DEF MarkReady
<1>8. ASSUME NEW s \in Senders, SendRead(s)
      PROVE  DeliverInv'
  BY <1>8, <1>0, SGotoValues DEF SendRead
<1>9. ASSUME NEW s \in Senders, SendStart(s)
      PROVE  DeliverInv'
  <2>1. CASE SGoto(s, "claim") /\ sstart' = [sstart EXCEPT ![s] = now] /\ UNCHANGED sq
    BY <1>9, <2>1, <1>0, SGotoValues, SDoneValues DEF SendStart
  <2>2. CASE SDone(s)
    BY <1>9, <2>2, <1>0, SGotoValues, SDoneValues DEF SendStart
  <2>3. QED
    BY <1>9, <2>1, <2>2 DEF SendStart
<1>10. ASSUME NEW s \in Senders, TryStartDelivery(s)
      PROVE  DeliverInv'
  BY <1>10, <1>0, SGotoValues DEF TryStartDelivery
<1>11. ASSUME NEW s \in Senders, RecheckDelivery(s)
      PROVE  DeliverInv'
  BY <1>11, <1>0, SGotoValues, SDoneValues DEF RecheckDelivery, SafelyRetryable
<1>12. ASSUME NEW s \in Senders, ProviderAnswers(s)
      PROVE  DeliverInv'
  BY <1>12, <1>0, SGotoValues, AcceptOnce DEF ProviderAnswers
<1>13. ASSUME NEW s \in Senders, ProviderAnswerLost(s)
      PROVE  DeliverInv'
  BY <1>13, <1>0, SGotoValues, SDoneValues, AcceptOnce DEF ProviderAnswerLost
<1>14. ASSUME NEW s \in Senders, ProviderRefuses(s)
      PROVE  DeliverInv'
  BY <1>14, <1>0, SDoneValues DEF ProviderRefuses
<1>15. ASSUME NEW s \in Senders, MarkSent(s)
      PROVE  DeliverInv'
  BY <1>15, <1>0, SGotoValues DEF MarkSent
<1>16. ASSUME NEW s \in Senders, VerifySent(s)
      PROVE  DeliverInv'
  BY <1>16, <1>0, SGotoValues, SDoneValues DEF VerifySent
<1>17. ASSUME NEW s \in Senders, SettleRequest(s)
      PROVE  DeliverInv'
  BY <1>17, <1>0, SDoneValues DEF SettleRequest
<1>18. CASE RunStarts
  BY <1>18, <1>0 DEF RunStarts
<1>19. CASE RunPrices
  <2>1. ReplaceForRequest \/ DeleteForRequest
    BY <1>19 DEF RunPrices
  <2>2. QED
    BY <1>19, <2>1, <1>0, PricedIsNew DEF RunPrices
<1>20. CASE RunFinalizes
  BY <1>20, <1>0 DEF RunFinalizes
<1>21. CASE Remap
  <2>1. ReplaceForRequest \/ DeleteForRequest
    BY <1>21 DEF Remap
  <2>2. QED
    BY <1>21, <2>1, <1>0, PricedIsNew DEF Remap
<1>22. CASE DeclineRequest
  BY <1>22, <1>0 DEF DeclineRequest
<1>23. CASE Tick
  BY <1>23, <1>0 DEF Tick
<1>24. CASE CallDies
  <2>1. ASSUME NEW a \in Approvers, ADone(a), UNCHANGED sendVars
        PROVE  DeliverInv'
    BY <1>24, <2>1, <1>0, ADoneValues DEF CallDies
  <2>2. ASSUME NEW s \in Senders, SDone(s), UNCHANGED approveVars
        PROVE  DeliverInv'
    BY <1>24, <2>2, <1>0, SDoneValues DEF CallDies
  <2>3. QED
    BY <1>24, <2>1, <2>2 DEF CallDies
<1>25. CASE UNCHANGED vars
  BY <1>25 DEF vars
<1>26. QED
  BY <1>1, <1>2, <1>3, <1>4, <1>5, <1>6, <1>7, <1>8, <1>9, <1>10, <1>11, <1>12, <1>13,
     <1>14, <1>15, <1>16, <1>17, <1>18, <1>19, <1>20, <1>21, <1>22, <1>23, <1>24, <1>25
  DEF Next, ApproveStep, SendStep, PipelineStep

(* ------------------ what has been mailed, one step at a time ------------ *)

\* The three places a call concludes from that its quote was mailed: the
\* provider's answer, its own update, and a row that says SENT.
LEMMA MarkStep ==
  TypeOK /\ IdsInv /\ FlightInv /\ AcceptedInv /\ DeliverInv /\ MarkInv /\ SentMeansMailed
    /\ [Next]_vars => MarkInv' /\ SentMeansMailed'
<1> DEFINE Goal == MarkInv /\ SentMeansMailed
<1> SUFFICES ASSUME TypeOK, IdsInv, FlightInv, AcceptedInv, DeliverInv, MarkInv, SentMeansMailed,
                    [Next]_vars
             PROVE  Goal'
  BY DEF Goal
<1>0. /\ CallsTyped
      /\ \A s \in Senders : spc[s] # "idle" => sq[s] \in Ids
      /\ \A q \in Ids : mails[q] \in Nat
      /\ qstatus \in {"ready", "sent"} => quote \in Ids
      /\ sq \in [Senders -> QuoteIds]
  BY TypeNumbers DEF TypeOK, WorldTyped, CallsTyped, QuoteIds, IdsInv
<1> USE DEF MarkInv, SentMeansMailed, rowVars, approveVars, sendVars, mailVars, OutsideApproval,
        OutsideSending, OutsidePipeline, Matches, ReplaceForRequest, DeleteForRequest
<1>1. ASSUME NEW a \in Approvers, ApproveLoad(a)
      PROVE  Goal'
  BY <1>1, <1>0 DEF ApproveLoad
<1>2. ASSUME NEW a \in Approvers, ApproveRead(a)
      PROVE  Goal'
  BY <1>2, <1>0 DEF ApproveRead
<1>3. ASSUME NEW a \in Approvers, TryClaimForApproval(a)
      PROVE  Goal'
  BY <1>3, <1>0 DEF TryClaimForApproval
<1>4. ASSUME NEW a \in Approvers, RenderQuotePdf(a)
      PROVE  Goal'
  BY <1>4, <1>0 DEF RenderQuotePdf
<1>5. ASSUME NEW a \in Approvers, RenderFails(a)
      PROVE  Goal'
  BY <1>5, <1>0 DEF RenderFails
<1>6. ASSUME NEW a \in Approvers, RevertToDraft(a)
      PROVE  Goal'
  BY <1>6, <1>0 DEF RevertToDraft
<1>7. ASSUME NEW a \in Approvers, MarkReady(a)
      PROVE  Goal'
  BY <1>7, <1>0 DEF MarkReady
<1>8. ASSUME NEW s \in Senders, SendRead(s)
      PROVE  Goal'
  BY <1>8, <1>0, SGotoValues DEF SendRead
<1>9. ASSUME NEW s \in Senders, SendStart(s)
      PROVE  Goal'
  BY <1>9, <1>0, SGotoValues, SDoneValues DEF SendStart
<1>10. ASSUME NEW s \in Senders, TryStartDelivery(s)
      PROVE  Goal'
  BY <1>10, <1>0, SGotoValues DEF TryStartDelivery
<1>11. ASSUME NEW s \in Senders, RecheckDelivery(s)
      PROVE  Goal'
  BY <1>11, <1>0, SGotoValues, SDoneValues DEF RecheckDelivery
<1>12. ASSUME NEW s \in Senders, ProviderAnswers(s)
      PROVE  Goal'
  BY <1>12, <1>0, SGotoValues, AcceptOnce DEF ProviderAnswers
<1>13. ASSUME NEW s \in Senders, ProviderAnswerLost(s)
      PROVE  Goal'
  BY <1>13, <1>0, SGotoValues, SDoneValues, AcceptOnce DEF ProviderAnswerLost
<1>14. ASSUME NEW s \in Senders, ProviderRefuses(s)
      PROVE  Goal'
  BY <1>14, <1>0, SDoneValues DEF ProviderRefuses
<1>15. ASSUME NEW s \in Senders, MarkSent(s)
      PROVE  Goal'
  BY <1>15, <1>0, SGotoValues DEF MarkSent
<1>16. ASSUME NEW s \in Senders, VerifySent(s)
      PROVE  Goal'
  BY <1>16, <1>0, SGotoValues, SDoneValues DEF VerifySent
<1>17. ASSUME NEW s \in Senders, SettleRequest(s)
      PROVE  Goal'
  BY <1>17, <1>0, SDoneValues DEF SettleRequest
<1>18. CASE RunStarts
  BY <1>18, <1>0 DEF RunStarts
<1>19. CASE RunPrices
  BY <1>19, <1>0 DEF RunPrices
<1>20. CASE RunFinalizes
  BY <1>20, <1>0 DEF RunFinalizes
<1>21. CASE Remap
  BY <1>21, <1>0 DEF Remap
<1>22. CASE DeclineRequest
  BY <1>22, <1>0 DEF DeclineRequest
<1>23. CASE Tick
  BY <1>23, <1>0 DEF Tick
<1>24. CASE CallDies
  <2>1. ASSUME NEW a \in Approvers, ADone(a), UNCHANGED sendVars
        PROVE  Goal'
    BY <1>24, <2>1, <1>0, ADoneValues DEF CallDies
  <2>2. ASSUME NEW s \in Senders, SDone(s), UNCHANGED approveVars
        PROVE  Goal'
    BY <1>24, <2>2, <1>0, SDoneValues DEF CallDies
  <2>3. QED
    BY <1>24, <2>1, <2>2 DEF CallDies
<1>25. CASE UNCHANGED vars
  BY <1>25 DEF vars
<1>26. QED
  BY <1>1, <1>2, <1>3, <1>4, <1>5, <1>6, <1>7, <1>8, <1>9, <1>10, <1>11, <1>12, <1>13,
     <1>14, <1>15, <1>16, <1>17, <1>18, <1>19, <1>20, <1>21, <1>22, <1>23, <1>24, <1>25
  DEF Next, ApproveStep, SendStep, PipelineStep

(* ------------------------------- theorems ------------------------------ *)

\* Nothing has happened in the first state.
LEMMA InvInit == Init => Inv
<1> SUFFICES ASSUME Init PROVE Inv
  OBVIOUS
<1>1. TypeOK
  BY TypeInit
<1>2. /\ IdsInv /\ OneClaimant /\ PdfInv
      /\ FlightInv /\ AcceptedInv /\ DeliverInv /\ MarkInv /\ SentMeansMailed
  BY QuoteLifecycleAssumption
  DEF QuoteLifecycleAssumption, Init, IdsInv, OneClaimant, Claiming, PdfInv, FlightInv,
      AcceptedInv, DeliverInv, MarkInv, SentMeansMailed, Ids, null
<1>3. QED
  BY <1>1, <1>2 DEF Inv

\* Together the parts are inductive.
LEMMA InvStep == Inv /\ [Next]_vars => Inv'
  BY TypeStep, IdsStep, ClaimStep, PdfStep, FlightStep, AcceptedStep, DeliverStep, MarkStep
  DEF Inv

\* So they hold in every state of every run.
LEMMA Invariant == Spec => []Inv
  BY InvInit, InvStep, PTL DEF Spec

\* Every variable keeps its type, for any number of calls and any windows.
THEOREM TypeCorrect == Spec => []TypeOK
<1>1. Inv => TypeOK
  BY DEF Inv
<1>2. QED
  BY <1>1, Invariant, PTL

\* quote-delivery.service.ts: the customer gets the e-mail of a quote at most
\* once, whatever answers are lost and however many people send and retry, if
\* the provider remembers a key for as long as a safe retry may take.
THEOREM MailedOnce == Spec => []MailedOncePerQuote
<1>1. Inv => MailedOncePerQuote
  BY DEF Inv, AcceptedInv, MailedOncePerQuote
<1>2. QED
  BY <1>1, Invariant, PTL

\* quote-delivery.service.ts: neither the quote nor the request says SENT
\* before the provider has accepted the e-mail.
THEOREM SentIsMailed == Spec => []SentMeansMailed
<1>1. Inv => SentMeansMailed
  BY DEF Inv
<1>2. QED
  BY <1>1, Invariant, PTL

\* quote-approval.actions.ts: at most one call holds the claim on a quote, and
\* a claimed live quote is APPROVED.
THEOREM ClaimsAreExclusive == Spec => []OneClaimant
<1>1. Inv => OneClaimant
  BY DEF Inv
<1>2. QED
  BY <1>1, Invariant, PTL

\* quote-approval.actions.ts: what can be sent or downloaded has its PDF, also
\* what a sender still holds after a re-pricing.
THEOREM SendableHasItsPdf == Spec => []SendableHasPdf
<1>1. Inv => SendableHasPdf
  BY DEF Inv, IdsInv, PdfInv, SendableHasPdf
<1>2. QED
  BY <1>1, Invariant, PTL

(* ------------------------------ refinement ----------------------------- *)

\* What the provider does for a sender is to mail the quote or nothing, also
\* when the quote has been replaced meanwhile.
LEMMA AcceptMapped ==
  ASSUME Inv, NEW s \in Senders, spc[s] = "deliver", Accept(sq[s]),
         UNCHANGED <<rowVars, ready_once>>
  PROVE  [Promise!Next]_(Promise!vars)
<1> DEFINE q == sq[s]
<1>1. /\ q \in Ids /\ q \in ready_once
      /\ \A r \in Ids : mails'[r] = IF r = q THEN 1 ELSE mails[r]
  BY AcceptOnce DEF Inv
<1>2. /\ mails \in [Ids -> Nat] /\ \A r \in Ids : mails[r] \in {0, 1}
  BY DEF Inv, TypeOK, WorldTyped, AcceptedInv
<1>3. mails' \in [Ids -> Nat]
  BY AcceptTyped DEF Inv, TypeOK
<1>4. CASE mails[q] = 1
  <2>1. mails' = mails
    BY <1>1, <1>2, <1>3, <1>4
  <2>2. QED
    BY <2>1 DEF Promise!vars, rowVars
<1>5. CASE mails[q] = 0
  <2>1. mails' = [mails EXCEPT ![q] = 1]
    BY <1>1, <1>2, <1>3
  <2>2. Promise!Mail(q)
    BY <1>1, <1>5, <2>1 DEF Promise!Mail, rowVars
  <2>3. QED
    BY <1>1, <2>2 DEF Promise!Next
<1>6. QED
  BY <1>1, <1>2, <1>4, <1>5

\* Every step is a step of the promise or changes nothing that it speaks of.
LEMMA PromiseStep == Inv /\ [Next]_vars => [Promise!Next]_(Promise!vars)
<1> SUFFICES ASSUME Inv, [Next]_vars PROVE [Promise!Next]_(Promise!vars)
  OBVIOUS
<1>0. /\ made < MaxQuotes => made + 1 \in Ids
      /\ \A s \in Senders : spc[s] = "mark" => sq[s] \in Ids /\ mails[sq[s]] = 1
  <2>1. made < MaxQuotes => made + 1 \in Ids
    BY TypeNumbers, QuoteLifecycleAssumption DEF Inv, Ids, QuoteLifecycleAssumption
  <2>2. ASSUME NEW s \in Senders, spc[s] = "mark"
        PROVE  sq[s] \in Ids /\ mails[sq[s]] = 1
    BY <2>2 DEF Inv, IdsInv, TypeOK, CallsTyped, QuoteIds, MarkInv, AcceptedInv
  <2>3. QED
    BY <2>1, <2>2
<1> USE DEF Promise!vars, rowVars, approveVars, sendVars, mailVars, OutsideApproval,
        OutsideSending, OutsidePipeline, Matches
<1>1. ASSUME NEW a \in Approvers, ApproveLoad(a)
      PROVE  [Promise!Next]_(Promise!vars)
  BY <1>1, <1>0 DEF ApproveLoad
<1>2. ASSUME NEW a \in Approvers, ApproveRead(a)
      PROVE  [Promise!Next]_(Promise!vars)
  BY <1>2, <1>0 DEF ApproveRead
<1>3. ASSUME NEW a \in Approvers, TryClaimForApproval(a)
      PROVE  [Promise!Next]_(Promise!vars)
  <2>1. CASE Matches(aq[a], "draft")
    <3>1. Promise!Approve
      BY <1>3, <2>1, <1>0 DEF TryClaimForApproval, Promise!Approve, null
    <3>2. QED
      BY <3>1 DEF Promise!Next
  <2>2. CASE ~Matches(aq[a], "draft")
    BY <1>3, <2>2 DEF TryClaimForApproval
  <2>3. QED
    BY <2>1, <2>2
<1>4. ASSUME NEW a \in Approvers, RenderQuotePdf(a)
      PROVE  [Promise!Next]_(Promise!vars)
  BY <1>4, <1>0 DEF RenderQuotePdf
<1>5. ASSUME NEW a \in Approvers, RenderFails(a)
      PROVE  [Promise!Next]_(Promise!vars)
  BY <1>5, <1>0 DEF RenderFails
<1>6. ASSUME NEW a \in Approvers, RevertToDraft(a)
      PROVE  [Promise!Next]_(Promise!vars)
  <2>1. CASE Matches(aq[a], "approved")
    <3>1. Promise!Withdraw
      BY <1>6, <2>1, <1>0 DEF RevertToDraft, Promise!Withdraw, null
    <3>2. QED
      BY <3>1 DEF Promise!Next
  <2>2. CASE ~Matches(aq[a], "approved")
    BY <1>6, <2>2 DEF RevertToDraft
  <2>3. QED
    BY <2>1, <2>2
<1>7. ASSUME NEW a \in Approvers, MarkReady(a)
      PROVE  [Promise!Next]_(Promise!vars)
  <2>1. CASE Matches(aq[a], "approved")
    <3>1. Promise!Publish
      BY <1>7, <2>1, <1>0 DEF MarkReady, Promise!Publish, null
    <3>2. QED
      BY <3>1 DEF Promise!Next
  <2>2. CASE ~Matches(aq[a], "approved")
    BY <1>7, <2>2 DEF MarkReady
  <2>3. QED
    BY <2>1, <2>2
<1>8. ASSUME NEW s \in Senders, SendRead(s)
      PROVE  [Promise!Next]_(Promise!vars)
  BY <1>8, <1>0 DEF SendRead
<1>9. ASSUME NEW s \in Senders, SendStart(s)
      PROVE  [Promise!Next]_(Promise!vars)
  BY <1>9, <1>0 DEF SendStart
<1>10. ASSUME NEW s \in Senders, TryStartDelivery(s)
      PROVE  [Promise!Next]_(Promise!vars)
  BY <1>10, <1>0 DEF TryStartDelivery
<1>11. ASSUME NEW s \in Senders, RecheckDelivery(s)
      PROVE  [Promise!Next]_(Promise!vars)
  BY <1>11, <1>0 DEF RecheckDelivery
<1>12. ASSUME NEW s \in Senders, ProviderAnswers(s)
      PROVE  [Promise!Next]_(Promise!vars)
  <2>1. Accept(sq[s]) /\ spc[s] = "deliver" /\ UNCHANGED <<rowVars, ready_once>>
    BY <1>12 DEF ProviderAnswers
  <2>2. QED
    BY <2>1, AcceptMapped
<1>13. ASSUME NEW s \in Senders, ProviderAnswerLost(s)
      PROVE  [Promise!Next]_(Promise!vars)
  <2>1. Accept(sq[s]) /\ spc[s] = "deliver" /\ UNCHANGED <<rowVars, ready_once>>
    BY <1>13 DEF ProviderAnswerLost
  <2>2. QED
    BY <2>1, AcceptMapped
<1>14. ASSUME NEW s \in Senders, ProviderRefuses(s)
      PROVE  [Promise!Next]_(Promise!vars)
  BY <1>14, <1>0 DEF ProviderRefuses
<1>15. ASSUME NEW s \in Senders, MarkSent(s)
      PROVE  [Promise!Next]_(Promise!vars)
  <2>1. CASE Matches(sq[s], "ready")
    <3>1. mails[quote] = 1
      BY <1>15, <2>1, <1>0 DEF MarkSent
    <3>2. Promise!Conclude
      BY <1>15, <2>1, <3>1 DEF MarkSent, Promise!Conclude, null
    <3>3. QED
      BY <3>2 DEF Promise!Next
  <2>2. CASE ~Matches(sq[s], "ready")
    BY <1>15, <2>2 DEF MarkSent
  <2>3. QED
    BY <2>1, <2>2
<1>16. ASSUME NEW s \in Senders, VerifySent(s)
      PROVE  [Promise!Next]_(Promise!vars)
  BY <1>16, <1>0 DEF VerifySent
<1>17. ASSUME NEW s \in Senders, SettleRequest(s)
      PROVE  [Promise!Next]_(Promise!vars)
  BY <1>17, <1>0 DEF SettleRequest
<1>18. CASE RunStarts
  BY <1>18, <1>0 DEF RunStarts
<1>19. CASE RunPrices
  <2>1. CASE ReplaceForRequest
    <3>1. Promise!Replace
      BY <1>19, <2>1, <1>0 DEF RunPrices, ReplaceForRequest, Promise!Replace
    <3>2. QED
      BY <3>1 DEF Promise!Next
  <2>2. CASE DeleteForRequest
    <3>1. Promise!Drop
      BY <1>19, <2>2 DEF RunPrices, DeleteForRequest, Promise!Drop, null
    <3>2. QED
      BY <3>1 DEF Promise!Next
  <2>3. QED
    BY <1>19, <2>1, <2>2 DEF RunPrices
<1>20. CASE RunFinalizes
  BY <1>20, <1>0 DEF RunFinalizes
<1>21. CASE Remap
  <2>1. CASE ReplaceForRequest
    <3>1. Promise!Replace
      BY <1>21, <2>1, <1>0 DEF Remap, ReplaceForRequest, Promise!Replace
    <3>2. QED
      BY <3>1 DEF Promise!Next
  <2>2. CASE DeleteForRequest
    <3>1. Promise!Drop
      BY <1>21, <2>2 DEF Remap, DeleteForRequest, Promise!Drop, null
    <3>2. QED
      BY <3>1 DEF Promise!Next
  <2>3. QED
    BY <1>21, <2>1, <2>2 DEF Remap
<1>22. CASE DeclineRequest
  BY <1>22, <1>0 DEF DeclineRequest
<1>23. CASE Tick
  BY <1>23, <1>0 DEF Tick
<1>24. CASE CallDies
  BY <1>24, <1>0 DEF CallDies
<1>25. CASE UNCHANGED vars
  BY <1>25 DEF vars
<1>26. QED
  BY <1>1, <1>2, <1>3, <1>4, <1>5, <1>6, <1>7, <1>8, <1>9, <1>10, <1>11, <1>12, <1>13,
     <1>14, <1>15, <1>16, <1>17, <1>18, <1>19, <1>20, <1>21, <1>22, <1>23, <1>24, <1>25
  DEF Next, ApproveStep, SendStep, PipelineStep

\* Claims, failed renders, retries, stale senders and re-pricing keep the
\* promise: one draft at a time is approved, published, mailed at most once and
\* only then concluded.
THEOREM LifecycleKeepsPromise == Spec => KeepsQuotePromise
<1>1. Init => Promise!Init
  BY DEF Init, Promise!Init, null
<1>2. QED
  BY <1>1, PromiseStep, Invariant, PTL DEF Spec, KeepsQuotePromise, Promise!Spec
=============================================================================
