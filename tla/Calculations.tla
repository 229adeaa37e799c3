----------------------------- MODULE Calculations -----------------------------
(* The pure calculations of the pipeline, asked one question at a time: what  *)
(* does an engine charge for these facts, which product does this search      *)
(* choose, where does this request go? The answer is what the code computes.  *)
EXTENDS PricingEngines, QuoteDecisions, CatalogMatching, ExtractionChecks, PdfLayout, Analytics

CONSTANTS
    Questions                \* a sequence of sets of questions

\* Lines are scored at the confidence they were matched with, if they were; the
\* threshold is read from 0 to 1, the rest of the scorer's table is not negative.
ASSUME CalculationsAssumption ==
    \A i \in DOMAIN Questions : \A q \in Questions[i] : q.kind = "score" =>
        /\ \A x \in ToSet(q.lines) : x.confidence \in {Null} \cup Nat
        /\ q.thresholds.auto \in 0..100
        /\ \A f \in {"unmatched", "flagged", "exceeded"} : q.thresholds[f] \in Nat

VARIABLES
    question, answer

calcVars == <<question, answer>>

Answer(q) ==
    CASE q.kind = "avac"        -> PriceAvac(q.facts, q.rules, q.catalog, q.taxRate)
      [] q.kind = "caixilharia" -> PriceCaixilharia(q.facts, q.rules, q.catalog, q.taxRate)
      [] q.kind = "match"       -> SearchCatalog(q.lexical, q.semantic, q.limit).candidates
      [] q.kind = "score"       -> Score(q.lines, q.thresholds)
      [] q.kind = "extract"     -> Attempt(q.answers, q.text)
      [] q.kind = "import"      -> ParsedRow(q.row)
      [] q.kind = "pdf"         -> Render(q)
      [] q.kind = "analytics"   -> Summary(q.requests, q.org, q.window, q.now)

CalcInit == (\E i \in DOMAIN Questions : question \in Questions[i]) /\ answer = Null

Calculate ==
    /\ answer = Null
    /\ answer' = [of |-> question.kind, is |-> Answer(question)]
    /\ UNCHANGED question

CalcSpec == CalcInit /\ [][Calculate]_calcVars

-----------------------------------------------------------------------------
\* Properties

Answered(kind) == answer # Null /\ answer.of = kind

ChargedOf(lines, Test(_)) ==
    SumOver(LAMBDA l: IF Test(l) THEN l.quantity ELSE 0, lines)

AddsUp(priced) ==
    /\ SumOver(LAMBDA l: l.amount, priced.totals.lines) = priced.totals.total + priced.totals.discount
    /\ \A s \in SkusOf(priced.totals.lines) :
         question.catalog[s].active /\ question.catalog[s].currency = "EUR"

\* A vertical quote that is not blocked leaves out nothing that was asked for:
\* as many indoor units as the request has, one outdoor unit, the labour; every
\* opening measured, glazed at no less than the minimum area, hung and installed;
\* its lines add up to total and discount and every product on it is sold, in EUR
\* (priceAvacQuote, priceCaixilhariaQuote: what is missing is pushed to
\* missingRules on one of a dozen branches, each beside a line it does not push).
EngineQuotesAreWhole ==
    /\ Answered("avac") /\ ~answer.is.blocked =>
         LET lines == answer.is.totals.lines
         IN  /\ AddsUp(answer.is)
             /\ ChargedOf(lines, LAMBDA l: l.kind = "equipment") = UnitCount(question.facts) + 1
             /\ \E l \in ToSet(lines) : l.kind = "labor" /\ l.sku = Null
    /\ Answered("caixilharia") /\ ~answer.is.blocked =>
         LET lines == answer.is.totals.lines
             asked(Test(_)) ==
                 SumOver(LAMBDA o: IF Test(o) THEN o.quantity ELSE 0, question.facts.openings)
             all == asked(LAMBDA o: TRUE)
         IN  /\ AddsUp(answer.is)
             /\ \A o \in ToSet(question.facts.openings) : Measured(o) /\ o.type # Null
             /\ ChargedOf(lines, LAMBDA l: l.kind = "equipment")
                  = asked(LAMBDA o: o.type # "fixo") + asked(LAMBDA o: o.screen = TRUE)
             \* profile and glass, each at least the area that was measured
             /\ ChargedOf(lines, LAMBDA l: l.kind = "material") >= 2 * answer.is.area
             /\ \E l \in ToSet(lines) : l.kind = "labor" /\ l.sku # Null /\ l.quantity = all
             /\ question.facts.remove_existing = TRUE =>
                  \E l \in ToSet(lines) : l.kind = "labor" /\ l.sku = Null /\ l.quantity = all

\* A product that either search ranks above another, and the other search does
\* not rank below it, is offered before it; without embeddings only lexical
\* matches are offered, and nothing is offered below the threshold (fuseRrf over
\* the two searches, execute of search_catalog).
FusionRespectsBothLists ==
    Answered("match") =>
        LET lex == question.lexical  sem == OrElse(question.semantic, <<>>)
            rank(list, s) == IF Holds(list, s) THEN RankIn(list, s) ELSE 1 + Len(list)
            better(s, t)  == /\ rank(lex, s) <= rank(lex, t) /\ rank(sem, s) <= rank(sem, t)
                             /\ rank(lex, s) < rank(lex, t) \/ rank(sem, s) < rank(sem, t)
            offered == answer.is
        IN  /\ \A i, j \in DOMAIN offered : better(offered[i].sku, offered[j].sku) => i < j
            /\ \A i \in DOMAIN offered :
                 /\ offered[i].score >= MatchThreshold
                 /\ sem = <<>> => offered[i].method = "FUZZY"

\* The reviewer is told why: with penalties that fall below the threshold, a
\* request is AUTO_ELIGIBLE exactly when that is the one reason given, and a
\* request under review never has it; the text that stands in for the language
\* model counts the flags of every breach it names and claims none elsewhere
\* (buildReasons, applyPolicyGate and aggregatePolicyFlags decide apart from the
\* routing they explain, over three sets of flags).
RoutingIsExplained ==
    Answered("score") /\ question.thresholds.flagged < question.thresholds.auto
                      /\ question.thresholds.exceeded < question.thresholds.auto =>
        /\ answer.is.reasons # {}
        /\ (answer.is.routing = "AUTO_ELIGIBLE") <=> (answer.is.reasons = {"auto_eligible"})
        /\ answer.is.routing # "AUTO_ELIGIBLE" => "auto_eligible" \notin answer.is.reasons
        /\ LET told == FallbackParts(answer.is.routing, answer.is.reasons, PolicyFlagsOf(question.lines))
           IN  /\ "policy_breach" \in told => {"review_required", "policy_flags"} \subseteq told
               /\ "policy_flags" \in told => "policy_flags_detected" \in told

\* Nothing the estimator approved on the screen is lost at the end of a page of
\* the PDF: whatever the rows, the client's block and the footer measure, each
\* row of the screen is printed once and in order, the totals have the screen's
\* figures, everything is inside the margins and nothing is printed over another
\* part (QuotePdfRenderer checks for room in three places, with three heights
\* kept apart from what is then drawn).
PdfLosesNothing ==
    Answered("pdf") =>
        LET boxes == answer.is
            panel == DocumentPanel(question)
            next(b, c) == IF c.page = b.page THEN c.top >= b.bottom ELSE c.page = b.page + 1
            parts(name) == SelectSeq([i \in DOMAIN boxes |-> boxes[i].part], LAMBDA p : p[1] = name)
        IN  /\ \A i \in DOMAIN boxes : boxes[i].top >= PAGE_MARGIN /\ boxes[i].bottom <= PageBottom
            /\ \A i \in DOMAIN boxes : i > 1 => next(boxes[i - 1], boxes[i])
            /\ parts("row") = [i \in DOMAIN panel.rows |-> <<"row", panel.rows[i]>>]
            /\ Len(parts("totals")) = 1 /\ ToSet(parts("totals")[1][2]) = panel.totals

\* One report agrees with the next: what this week's is compared with is what
\* last week's said, a quote at the edge of two weeks is counted in one of them,
\* and nobody else's rows are in either. What the page draws is consistent in
\* itself: the funnel never widens and the three confidences add up to the whole
\* but for rounding (getSummary cuts the windows, eight queries apply them each on their own).
ReportsAgree ==
    Answered("analytics") /\ answer.is # Null =>
        LET q     == question
            this  == answer.is
            w     == WindowOf(q.window, q.now)
            own   == {r \in q.requests : r.org = q.org}
            last  == Summary(q.requests, q.org, Prior(w), q.now)
            both  == Summary(own, q.org, [Prior(w) EXCEPT !.to = w.to], q.now)
            page  == AnalyticsView(this)
            near(x, y) == x - y \in -2..2
        IN  /\ this.quotes_delta = this.quotes - last.quotes
            /\ this.quotes + last.quotes = both.quotes
            /\ this.tool_calls + last.tool_calls = both.tool_calls
            /\ this.funnel.ingested + last.funnel.ingested = both.funnel.ingested
            /\ this.zero_edit_delta \in {0, this.zero_edit - last.zero_edit}
            /\ this.false_neg_delta \in {0, this.false_neg - last.false_neg}
            /\ this.funnel.sent <= this.funnel.approved /\ this.funnel.approved <= this.funnel.drafted
            /\ this.funnel.drafted <= this.funnel.ingested
            /\ \/ page.shows = "empty"
               \/ page.tiers = Null
               \/ near(page.tiers.high + page.tiers.medium + page.tiers.low, 1000)

\* What is printed for the customer and what is reported to the office hold.
FiguresHold == PdfLosesNothing /\ ReportsAgree
=============================================================================
