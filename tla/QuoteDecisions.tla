--------------------------- MODULE QuoteDecisions ---------------------------
(* What the price, policy and score nodes decide about a quote whose lines   *)
(* are catalogue items: the discount of each line, the breaches of the       *)
(* organization's limits, the confidence and the routing. All of it is pure. *)
(*                                                                           *)
(* A priced line is [base, cost, quantity, lead]; percentages are integers,  *)
(* confidences hundredths, money minor units.                                *)
EXTENDS Values

-----------------------------------------------------------------------------
\* Rule rows of an organization: [type, active, config], config Null when it does
\* not parse. The four operators below are getRuleSetForOrg of the two tables.

ActiveConfigs(rows, type) ==
    {r.config : r \in {s \in rows : s.active /\ s.type = type /\ s.config # Null}}

QuantityBreaks(rows) == ActiveConfigs(rows, "QTY_BREAK")

HasPricingRules(rows) == QuantityBreaks(rows) # {}

\* Of several rows the most restrictive counts.
MarginFloor(rows) ==
    LET floors == ActiveConfigs(rows, "MARGIN_FLOOR") IN IF floors = {} THEN Null ELSE Max(floors)

MaxDiscount(rows) ==
    LET caps == ActiveConfigs(rows, "MAX_DISCOUNT") IN IF caps = {} THEN Null ELSE Min(caps)

HasPolicyRules(rows) == MarginFloor(rows) # Null \/ MaxDiscount(rows) # Null

-----------------------------------------------------------------------------
\* QuotePricingService

AppliedDiscount(quantity, breaks) ==
    Max({0} \union {b.discount : b \in {c \in breaks : quantity >= c.min}})

\* The extended total is discounted before rounding; the unit price is rounded
\* on its own and need not multiply back to the amount.
PriceLine(line, breaks) ==
    LET discount == AppliedDiscount(line.quantity, breaks)
        base     == line.base * line.quantity
    IN  [base   |-> base,
         unit   |-> RoundDiv(line.base * (100 - discount), 100),
         amount |-> RoundDiv(base * (100 - discount), 100),
         lead   |-> line.lead]

PriceQuote(lines, rows) ==
    LET priced   == [i \in DOMAIN lines |-> PriceLine(lines[i], QuantityBreaks(rows))]
        subtotal == SumOver(LAMBDA l: l.base, priced)
        total    == SumOver(LAMBDA l: l.amount, priced)
        leads    == {l.lead : l \in ToSet(priced)} \ {Null}
    IN  [lines    |-> priced,
         subtotal |-> subtotal,
         discount |-> subtotal - total,
         total    |-> total,
         lead     |-> IF leads = {} THEN Null ELSE Max(leads),
         blocked  |-> lines # <<>> /\ ~HasPricingRules(rows)]

-----------------------------------------------------------------------------
\* QuotePolicyService: the flags one priced line [base, cost, unit] earns.
\* Both limits are inclusive.

DiscountBreached(line, max) ==
    max # Null /\ line.base > 0 /\ (line.base - line.unit) * 100 > max * line.base

MarginBreached(line, floor) ==
    /\ floor # Null /\ line.cost # Null
    /\ IF line.unit > 0 THEN (line.unit - line.cost) * 100 < floor * line.unit
       ELSE line.cost > 0

\* Mutant: a margin floor without a discount limit beside it is not looked at.
PolicyFlagsDiscountOnly(line, rows) ==
    IF ~HasPolicyRules(rows) THEN {"policy_blocked"}
    ELSE IF DiscountBreached(line, MaxDiscount(rows)) THEN {"max_discount_breach"} ELSE {}

PolicyFlags(line, rows) ==
    IF ~HasPolicyRules(rows) THEN {"policy_blocked"}
    ELSE (IF DiscountBreached(line, MaxDiscount(rows)) THEN {"max_discount_breach"} ELSE {})
         \union (IF MarginBreached(line, MarginFloor(rows)) THEN {"margin_floor_breach"} ELSE {})

PolicyManagedFlags == {"policy_blocked", "max_discount_breach", "margin_floor_breach"}

-----------------------------------------------------------------------------
\* ScorerService and the gate of the score node. A line is [confidence, unit,
\* quantity, flags]; thresholds is [auto, cap, unmatched, flagged, exceeded].

HardReviewFlags == PolicyManagedFlags \union {"pricing_blocked"}

LineConfidence(lines, thresholds) ==
    Max({0, Min({100} \union {OrElse(l.confidence, thresholds.unmatched) : l \in ToSet(lines)})})

SoftFlagged(lines) == \E l \in ToSet(lines) : l.flags \ {"close_tie"} # {}

ComplianceFactor(lines, thresholds) == IF SoftFlagged(lines) THEN thresholds.flagged ELSE 100

Incomplete(lines) == \E l \in ToSet(lines) : l.unit = Null \/ l.quantity = Null

DealValue(lines) == SumOver(LAMBDA l: l.unit * l.quantity, lines)

DealValueFactor(lines, thresholds) ==
    IF thresholds.cap = Null THEN 100
    ELSE IF Incomplete(lines) \/ DealValue(lines) > thresholds.cap THEN thresholds.exceeded
    ELSE 100

Confidence(lines, thresholds) ==
    Min({LineConfidence(lines, thresholds), ComplianceFactor(lines, thresholds),
         DealValueFactor(lines, thresholds)})

\* Mutant: the reason for AUTO_ELIGIBLE forgets the value of the deal.
ReasonsForgettingValue(lines, thresholds) ==
    LET low     == LineConfidence(lines, thresholds) < thresholds.auto
        flagged == ComplianceFactor(lines, thresholds) < 100
    IN  (IF low THEN {"low_line_confidence"} ELSE {})
        \union (IF flagged THEN {"policy_flags_detected"} ELSE {})
        \union (IF ~(low \/ flagged) THEN {"auto_eligible"} ELSE {})

\* The reasons shown to the reviewer, in the order they are pushed.
Reasons(lines, thresholds) ==
    LET low     == LineConfidence(lines, thresholds) < thresholds.auto
        flagged == ComplianceFactor(lines, thresholds) < 100
        dear    == DealValueFactor(lines, thresholds) < 100
    IN  (IF low THEN {"low_line_confidence"} ELSE {})
        \union (IF flagged THEN {"policy_flags_detected"} ELSE {})
        \union (IF ~dear THEN {}
                ELSE IF Incomplete(lines) THEN {"incomplete_deal_value"} ELSE {"deal_value_exceeds_cap"})
        \union (IF ~(low \/ flagged \/ dear) THEN {"auto_eligible"} ELSE {})

HardFlagged(lines) == \E l \in ToSet(lines) : l.flags \intersect HardReviewFlags # {}

\* score() and applyPolicyGate().
Score(lines, thresholds) ==
    IF lines = <<>> THEN [routing |-> "NEEDS_REVIEW", confidence |-> 0, reasons |-> {"no_line_items"}]
    ELSE LET confidence == Confidence(lines, thresholds)
         IN  [routing    |-> IF confidence >= thresholds.auto /\ ~HardFlagged(lines)
                             THEN "AUTO_ELIGIBLE" ELSE "NEEDS_REVIEW",
              confidence |-> confidence,
              reasons    |-> Reasons(lines, thresholds)
                             \union (IF HardFlagged(lines) THEN {"policy_breach"} ELSE {})]

\* scoreExtractionFailure(): nothing was scored, so nothing is confident.
ScoreExtractionFailure(emptySource) ==
    [routing    |-> "NEEDS_REVIEW", confidence |-> 0,
     reasons    |-> {IF emptySource THEN "extraction_empty_source" ELSE "extraction_failed"}]

\* aggregatePolicyFlags: the flags of the lines, without the two that only mark
\* how a match came about.
PolicyFlagsOf(lines) ==
    (UNION {l.flags : l \in ToSet(lines)}) \ {"close_tie", "manual_override"}

\* buildFallbackExplanation: what the text is put together from.
FallbackParts(routing, reasons, flags) ==
    IF routing = "AUTO_ELIGIBLE" /\ reasons = {} THEN {"all_clear"}
    ELSE (IF routing = "NEEDS_REVIEW" THEN {"review_required"} ELSE {})
         \union reasons \union (IF flags = {} THEN {} ELSE {"policy_flags"})

\* getAutoThreshold(): the value for this decision and the one to fall back on.
\* raw is what the environment holds: Null when unset, "malformed", or a number.
ReadThreshold(raw, lastValid, default) ==
    IF raw = Null THEN [value |-> default, last |-> default]
    ELSE IF raw \in 0..100 THEN [value |-> raw, last |-> raw]
    ELSE [value |-> lastValid, last |-> lastValid]
=============================================================================
