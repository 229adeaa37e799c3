------------------------------ MODULE Analytics ------------------------------
(* The figures of the analytics page: what the eight queries count over an    *)
(* organization's rows, what the service derives from the counts, and which   *)
(* of it the page shows.                                                      *)
(*                                                                            *)
(* A request is [id, org, created, routing, confidence, override, quote,      *)
(* calls, recoveries]: quote [created, status] or Null, override whether one  *)
(* of its lines was priced by hand, calls and recoveries the times of its     *)
(* tool calls and of its resumptions after a crash. Times are days;           *)
(* percentages are tenths of a percent.                                       *)
EXTENDS Values

QuoteStatuses == {"draft", "approved", "ready", "sent"}
ApprovedStatuses == QuoteStatuses \ {"draft"}

-----------------------------------------------------------------------------
\* The window of the call

Week  == 7
Month == 30

\* Null when the call is refused: the window must not be empty.
WindowOf(query, now) ==
    LET to   == OrElse(query.to, now)
        from == OrElse(query.from, to - Week)
    IN  IF from >= to THEN Null ELSE [from |-> from, to |-> to]

\* The window as long just before.
Prior(w) == [from |-> w.from - (w.to - w.from), to |-> w.from]

\* Mutant: both ends count, as with BETWEEN.
WithinClosed(w, t) == w.from <= t /\ t <= w.to

Within(w, t) == w.from <= t /\ t < w.to

-----------------------------------------------------------------------------
\* The queries, over the requests of one organization

CreatedIn(requests, w) == {r \in requests : Within(w, r.created)}

QuoteIn(r, statuses) == r.quote # Null /\ r.quote.status \in statuses

\* requests JOIN quotes, of which there is one per request.
QuotedIn(requests, w) == {r \in requests : r.quote # Null /\ Within(w, r.quote.created)}

\* FUNNEL_SQL
Funnel(requests, w) ==
    LET reached(statuses) == Cardinality({r \in CreatedIn(requests, w) : QuoteIn(r, statuses)})
    IN  [ingested |-> Cardinality(CreatedIn(requests, w)), drafted |-> reached(QuoteStatuses),
         approved |-> reached(ApprovedStatuses), sent |-> reached({"sent"})]

\* MEDIAN_SQL, twice the median: percentile_cont takes the middle of two.
TwiceMedian(requests, w) ==
    LET quoted == SetToSeq(QuotedIn(requests, w))
        waits  == SortedBy(LAMBDA t : t, [i \in DOMAIN quoted |-> quoted[i].quote.created - quoted[i].created])
        n == Len(waits)
    IN  IF n = 0 THEN Null ELSE waits[(n + 1) \div 2] + waits[n \div 2 + 1]

\* A share is [total, part].
Share(rows, Counts(_)) == [total |-> Cardinality(rows), part |-> Cardinality({x \in rows : Counts(x)})]

\* APPROVED_SQL, grouped so that the lines joined to a request do not multiply it.
ZeroEdit(requests, w) ==
    Share({r \in QuotedIn(requests, w) : QuoteIn(r, ApprovedStatuses)}, LAMBDA r : ~r.override)

\* NEEDS_REVIEW_SQL: sent to review by the router, and then approved untouched.
FalseNegatives(requests, w) ==
    Share({r \in CreatedIn(requests, w) : r.routing = "needs_review"},
          LAMBDA r : QuoteIn(r, ApprovedStatuses) /\ ~r.override)

\* CONFIDENCE_SQL, with confidences in hundredths.
Tiers(requests, w) ==
    LET scored == {r \in CreatedIn(requests, w) : r.confidence # Null}
        count(low, high) == Cardinality({r \in scored : low <= r.confidence /\ r.confidence < high})
    IN  [high |-> count(95, 101), medium |-> count(70, 95), low |-> count(0, 70),
         total |-> Cardinality(scored)]

\* CRASH_SQL, over the month that ends with the window; TOOL_CALLS_SQL.
CrashRecoveries(requests, to) ==
    MapThenSumSet(LAMBDA r : Cardinality({t \in r.recoveries : Within([from |-> to - Month, to |-> to], t)}),
                  requests)
ToolCalls(requests, w) ==
    MapThenSumSet(LAMBDA r : Cardinality({t \in r.calls : Within(w, t)}), requests)

-----------------------------------------------------------------------------
\* assembleSummary

Pct(part, total) == IF total > 0 THEN RoundDiv(1000 * part, total) ELSE 0
PctOf(share) == Pct(share.part, share.total)

PctChange(cur, prior) ==
    IF cur # Null /\ prior # Null /\ prior # 0 THEN RoundDiv(1000 * (cur - prior), prior) ELSE 0

\* No delta against a window that had nothing to compare with.
DeltaPts(cur, prior) == IF prior.total > 0 THEN PctOf(cur) - PctOf(prior) ELSE 0

AssembleSummary(requests, w) ==
    LET both(Stat(_, _)) == [cur |-> Stat(requests, w), prior |-> Stat(requests, Prior(w))]
        median == both(TwiceMedian)
        quotes == both(LAMBDA rs, v : Cardinality(QuotedIn(rs, v)))
        zero   == both(ZeroEdit)
        falseN == both(FalseNegatives)
        tiers  == Tiers(requests, w)
    IN  [median |-> RoundDiv(OrElse(median.cur, 0), 2), median_delta |-> PctChange(median.cur, median.prior),
         zero_edit |-> PctOf(zero.cur), zero_edit_delta |-> DeltaPts(zero.cur, zero.prior),
         false_neg |-> PctOf(falseN.cur), false_neg_delta |-> DeltaPts(falseN.cur, falseN.prior),
         quotes |-> quotes.cur, quotes_delta |-> quotes.cur - quotes.prior,
         crash_recoveries |-> CrashRecoveries(requests, w.to), tool_calls |-> ToolCalls(requests, w),
         tiers |-> [high |-> Pct(tiers.high, tiers.total), medium |-> Pct(tiers.medium, tiers.total),
                    low |-> Pct(tiers.low, tiers.total)],
         funnel |-> Funnel(requests, w)]

\* GET summary, for the caller's organization.
Summary(requests, org, query, now) ==
    LET w == WindowOf(query, now)
    IN  IF w = Null THEN Null ELSE AssembleSummary({r \in requests : r.org = org}, w)

-----------------------------------------------------------------------------
\* AnalyticsView

SmallSample == 20

LowerIsBetter(delta)  == IF delta <= 0 THEN "positive" ELSE "negative"
HigherIsBetter(delta) == IF delta >= 0 THEN "positive" ELSE "negative"

\* A bar of the funnel, in tenths of a percent of the first.
BarWidths(funnel) ==
    [stage \in DOMAIN funnel |->
        LET width == (1000 * funnel[stage]) \div funnel.ingested IN IF width > 1000 THEN 1000 ELSE width]

\* The bars of the confidence, "no data" when there is nothing to draw.
TierBars(tiers) ==
    IF \A t \in DOMAIN tiers : tiers[t] = 0 THEN Null
    ELSE [t \in DOMAIN tiers |-> IF tiers[t] > 1000 THEN 1000 ELSE tiers[t]]

AnalyticsView(summary) ==
    IF summary = Null THEN [shows |-> "error"]
    ELSE IF summary.funnel.ingested = 0 THEN [shows |-> "empty"]
    ELSE [shows |-> IF summary.funnel.ingested < SmallSample THEN "few" ELSE "full",
          median |-> LowerIsBetter(summary.median_delta), zero_edit |-> HigherIsBetter(summary.zero_edit_delta),
          false_neg |-> LowerIsBetter(summary.false_neg_delta), quotes |-> HigherIsBetter(summary.quotes_delta),
          bars |-> BarWidths(summary.funnel), tiers |-> TierBars(summary.tiers)]
=============================================================================
