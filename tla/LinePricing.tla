----------------------------- MODULE LinePricing -----------------------------
(* The line items of one request and the quote made of them: a pipeline run  *)
(* (match, price, policy, score) that reads, decides and writes in separate  *)
(* statements, estimators who re-map lines meanwhile, each in a transaction  *)
(* of its own, and an administrator who edits catalogue prices.              *)
(*                                                                           *)
(* Postgres runs at READ COMMITTED: line and quote hold what is committed, a *)
(* re-map sees its own uncommitted rows over that (tx[u].own), and a row     *)
(* somebody has written but not committed cannot be written by another.      *)
EXTENDS QuoteDecisions

CONSTANTS
    Lines, Skus, Users,
    Candidates,              \* [Lines -> set of <<sku, score, close tie>> a search may return first]
    Cost, Currency,          \* [Skus -> ...]
    InitialPrices,           \* the price lists to begin with
    BasePrices,              \* the prices an administrator may set
    RuleSets,                \* the rule rows an organization may have
    Thresholds,              \* the scorer's configuration
    InitialLines,            \* what extraction may have written
    Quantities, ManualPrices,\* what an estimator may enter
    Budgets                  \* bounds: how many re-maps, runs and price edits a behaviour may
                             \* have, and whether they overlap

\* Extraction writes what the customer asked for; nothing is matched, priced or
\* flagged yet. A re-map's quantity is an integer from 0 up; a request has finitely
\* many lines; what is compared with a score is a score.
ASSUME LinePricingAssumption ==
    /\ InitialLines \subseteq [Lines -> [sku : {Null}, qty : {Null} \cup Nat, unit : {Null},
                                       conf : {Null}, flags : {{}}]]
    /\ Quantities \subseteq Nat
    /\ IsFiniteSet(Lines)
    /\ Null \notin Skus
    /\ \A l \in Lines : \A c \in Candidates[l] : c[1] \in Skus /\ c[2] \in Nat
    /\ \A f \in {"auto", "unmatched", "flagged", "exceeded"} : Thresholds[f] \in Nat
    /\ Budgets \subseteq [remaps : Nat, runs : Nat, edits : Nat, overlap : BOOLEAN]

VARIABLES
    line,                    \* line_items: [sku, qty, unit, conf, flags] of each line
    quote,                   \* the request's quote, or Null
    price,                   \* base_price_minor of each SKU
    rules,                   \* the organization's pricing_rules rows
    routing,                 \* requests.routing of the last run, or Null
    review,                  \* did a re-map put the request in NEEDS_REVIEW?
    run,                     \* the run: [pc, seen, at, todo]; at is the price list it read
    tx,                      \* the re-map of each user: [pc, line, dto, seen, at, own]
    budget,                  \* how many re-maps, runs and edits are left, and may they overlap?
    crossed                  \* history: did a writer of the quote miss what another had committed?

linesVars == <<line, quote, price, rules, routing, review, run, tx, budget, crossed>>

-----------------------------------------------------------------------------
\* What is priced

NoRun == [pc |-> "idle", seen |-> Null, at |-> Null, todo |-> {}]
NoTx  == [pc |-> "idle", line |-> Null, dto |-> Null, seen |-> Null, at |-> Null, own |-> <<>>]

Priceable(ls) == {l \in Lines : ls[l].sku # Null /\ ls[l].qty # Null /\ ls[l].qty > 0}

Overridden(x) == x.unit # Null /\ "manual_override" \in x.flags

AllEuro(ls) == \A l \in Priceable(ls) : Currency[ls[l].sku] = "EUR"

Blocked(ls) == Priceable(ls) # {} /\ ~HasPricingRules(rules)

\* The rule price of a line, at the price list that was read with it.
Priced(x, at) ==
    PriceLine([base |-> at[x.sku], quantity |-> x.qty, lead |-> Null], QuantityBreaks(rules))

\* A quote line; a manual price is multiplied out, a rule price discounted first.
QuoteLine(x, manual, at) ==
    [sku |-> x.sku, qty |-> x.qty,
     unit   |-> IF manual THEN x.unit ELSE Priced(x, at).unit,
     amount |-> IF manual THEN x.unit * x.qty ELSE Priced(x, at).amount]

\* The quote over lines ls when those in kept keep their manual price. Lines are
\* looked up by id, so the quote is a function of the lines it has.
QuoteOf(ls, kept, at) ==
    [l \in Priceable(ls) |-> QuoteLine(ls[l], l \in kept, at)]

WithFlag(flags, flag, on) == IF on THEN flags \union {flag} ELSE flags \ {flag}

-----------------------------------------------------------------------------
\* The run. Nothing it reads is locked against a re-map.

Idle == run.pc = "idle" /\ \A u \in Users : tx[u].pc = "idle"

\* Do two readings of the lines differ in what is quoted, product or quantity?
Differ(ls, ks) == \E l \in Lines : ls[l].sku # ks[l].sku \/ ls[l].qty # ks[l].qty

\* Do re-maps, runs and edits come as they like, or one after the other?
Overlap == budget.overlap

Unlocked(l) == \A u \in Users : l \notin DOMAIN tx[u].own

StartRun ==
    /\ run.pc = "idle" /\ budget.runs > 0
    /\ Overlap \/ Idle
    /\ run' = [NoRun EXCEPT !.pc = "match", !.seen = line,
                            !.todo = {l \in Lines : line[l].sku = Null}]
    /\ budget' = [budget EXCEPT !.runs = @ - 1]
    /\ UNCHANGED <<line, quote, price, rules, routing, review, tx, crossed>>

\* A search answers; the write is by id, over whatever the line has become, with
\* the flags read before the search.
MatchLine(l) ==
    /\ run.pc = "match" /\ l \in run.todo /\ Unlocked(l)
    /\ \E c \in Candidates[l] :
         line' = [line EXCEPT ![l].sku = c[1], ![l].conf = c[2],
                              ![l].flags = run.seen[l].flags
                                           \union (IF c[3] THEN {"close_tie"} ELSE {})]
    /\ run' = [run EXCEPT !.todo = @ \ {l}]
    /\ UNCHANGED <<quote, price, rules, routing, review, tx, budget, crossed>>

\* No candidates, a failed search or an empty text: the line stays unmatched.
SkipLine(l) ==
    /\ run.pc = "match" /\ l \in run.todo
    /\ run' = [run EXCEPT !.todo = @ \ {l}]
    /\ UNCHANGED <<line, quote, price, rules, routing, review, tx, budget, crossed>>

PriceRead ==
    /\ run.pc = "match" /\ run.todo = {}
    /\ run' = [run EXCEPT !.pc = "price", !.seen = line, !.at = price]
    /\ UNCHANGED <<line, quote, price, rules, routing, review, tx, budget, crossed>>

\* Nothing to price, or a product in another currency: the quote goes, the lines
\* are left as they are.
PriceNothing ==
    /\ run.pc = "price"
    /\ ~(Priceable(run.seen) # {} /\ AllEuro(run.seen))
    /\ quote' = Null
    /\ run' = [run EXCEPT !.pc = "priced", !.seen = Null, !.at = Null]
    /\ crossed' = (crossed \/ Differ(run.seen, line))
    /\ UNCHANGED <<line, price, rules, routing, review, tx, budget>>

\* Line prices and quote in one transaction; manual prices are priced over.
PriceWrite ==
    /\ run.pc = "price"
    /\ Priceable(run.seen) # {} /\ AllEuro(run.seen)
    /\ \A l \in Priceable(run.seen) : Unlocked(l)
    /\ LET q == QuoteOf(run.seen, {}, run.at)
       IN  /\ line' = [l \in Lines |->
                         IF l \notin DOMAIN q THEN line[l]
                         ELSE [line[l] EXCEPT
                                 !.unit = q[l].unit,
                                 !.flags = WithFlag(run.seen[l].flags, "pricing_blocked",
                                                    Blocked(run.seen))]]
           /\ quote' = q
    /\ run' = [run EXCEPT !.pc = "priced", !.seen = Null, !.at = Null]
    /\ crossed' = (crossed \/ Differ(run.seen, line))
    /\ UNCHANGED <<price, rules, routing, review, tx, budget>>

PolicyRead ==
    /\ run.pc = "priced"
    /\ run' = [run EXCEPT !.pc = "policy", !.seen = line, !.at = price]
    /\ UNCHANGED <<line, quote, price, rules, routing, review, tx, budget, crossed>>

\* Flags are decided from the lines as read, and written where they changed.
PolicyWrite ==
    /\ run.pc = "policy"
    /\ LET flags(x) == (x.flags \ PolicyManagedFlags)
                       \union (IF x.sku = Null \/ x.unit = Null THEN {}
                               ELSE PolicyFlags([base |-> run.at[x.sku], cost |-> Cost[x.sku],
                                                 unit |-> x.unit], rules))
           changed == {l \in Lines : flags(run.seen[l]) # run.seen[l].flags}
       IN  /\ \A l \in changed : Unlocked(l)
           /\ line' = [l \in Lines |-> IF l \in changed
                                       THEN [line[l] EXCEPT !.flags = flags(run.seen[l])]
                                       ELSE line[l]]
    /\ run' = [run EXCEPT !.pc = "score", !.seen = Null, !.at = Null]
    /\ UNCHANGED <<quote, price, rules, routing, review, tx, budget, crossed>>

ScoreWrite ==
    /\ run.pc = "score"
    /\ LET ids == SetToSeq(Lines)
           scored == Score([i \in DOMAIN ids |->
                              [confidence |-> line[ids[i]].conf, unit |-> line[ids[i]].unit,
                               quantity |-> line[ids[i]].qty, flags |-> line[ids[i]].flags]],
                           Thresholds)
       IN  routing' = scored.routing
    /\ run' = NoRun
    /\ UNCHANGED <<line, quote, price, rules, review, tx, budget, crossed>>

-----------------------------------------------------------------------------
\* Re-maps. A dto is [sku, qty, unit, override], Null where the field is absent.

Absent == Null
Dtos ==
    {d \in [sku : Skus \union {Absent}, qty : Quantities \union {Absent},
            unit : ManualPrices \union {Absent}, override : BOOLEAN \union {Absent}] :
       /\ \E f \in DOMAIN d : d[f] # Absent
       /\ ~(d.override = FALSE /\ d.unit # Absent)}

\* Mutant: a new product starts with no flags at all.
UpdatedUnflagged(x, seen, d) ==
    [sku |-> OrElse(d.sku, x.sku), qty |-> OrElse(d.qty, x.qty), unit |-> OrElse(d.unit, x.unit),
     conf |-> IF d.sku = Absent THEN x.conf ELSE 100,
     flags |-> IF d.sku # Absent THEN {} ELSE IF d.unit # Absent THEN {"manual_override"} ELSE seen.flags]

\* buildUpdate: the flags are those of the line as it was read.
Updated(x, seen, d) ==
    LET unmatched == IF d.sku = Absent THEN seen.flags ELSE seen.flags \ {"close_tie"}
        flags == IF d.override = FALSE THEN unmatched \ {"manual_override"}
                 ELSE IF d.override = TRUE \/ d.unit # Absent
                 THEN unmatched \union {"manual_override"} ELSE unmatched
    IN  [sku   |-> OrElse(d.sku, x.sku),
         qty   |-> OrElse(d.qty, x.qty),
         unit  |-> OrElse(d.unit, x.unit),
         conf  |-> IF d.sku = Absent THEN x.conf ELSE 100,
         flags |-> flags]

\* The request is read and the body checked before the transaction begins.
RemapStart(u, l, d) ==
    /\ tx[u].pc = "idle" /\ budget.remaps > 0
    /\ Overlap \/ Idle
    /\ ~(d.override = TRUE /\ d.unit = Absent /\ line[l].unit = Null)
    /\ tx' = [tx EXCEPT ![u] = [NoTx EXCEPT !.pc = "checked", !.line = l, !.dto = d, !.seen = line[l]]]
    /\ budget' = [budget EXCEPT !.remaps = @ - 1]
    /\ UNCHANGED <<line, quote, price, rules, routing, review, run, crossed>>

RemapUpdate(u) ==
    /\ tx[u].pc = "checked" /\ Unlocked(tx[u].line)
    /\ LET l == tx[u].line
       IN  tx' = [tx EXCEPT ![u].pc = "updated",
                            ![u].own = [k \in {l} |-> Updated(line[k], tx[u].seen, tx[u].dto)]]
    /\ UNCHANGED <<line, quote, price, rules, routing, review, run, budget, crossed>>

\* What the transaction sees: the committed lines under its own.
Visible(u) == [l \in Lines |-> IF l \in DOMAIN tx[u].own THEN tx[u].own[l] ELSE line[l]]

RemapRead(u) ==
    /\ tx[u].pc = "updated"
    /\ tx' = [tx EXCEPT ![u].pc = "recompute", ![u].seen = Visible(u), ![u].at = price]
    /\ UNCHANGED <<line, quote, price, rules, routing, review, run, budget, crossed>>

\* Mutant: a line that left the quote keeps its price.
RecomputedKeeping(ls, at) ==
    LET q == QuoteOf(ls, {l \in Priceable(ls) : Overridden(ls[l])}, at)
    IN  [quote |-> q, blocked |-> FALSE,
         written |-> [l \in DOMAIN q |-> [ls[l] EXCEPT !.unit = q[l].unit]]]

\* recompute: the lines that are no longer in the quote shed their price, manual
\* prices are kept, the others priced again.
Recomputed(ls, at) ==
    LET kept == {l \in Priceable(ls) : Overridden(ls[l])}
        q    == QuoteOf(ls, kept, at)
        auto == DOMAIN q \ kept
        blocked == auto # {} /\ ~HasPricingRules(rules)
        repriced(l) == [ls[l] EXCEPT
            !.unit = IF l \in DOMAIN q THEN q[l].unit ELSE Null,
            !.flags = WithFlag(@, "pricing_blocked", blocked /\ l \in auto)]
    IN  [quote |-> q, blocked |-> blocked,
         written |-> [l \in {k \in Lines : k \in DOMAIN q \/ repriced(k) # ls[k]} |-> repriced(l)]]

\* The rows are written and committed; only unit price and flags are written, the
\* rest of a row is what it has become.
RemapCommit(u) ==
    /\ tx[u].pc = "recompute" /\ AllEuro(tx[u].seen)
    /\ LET r == Recomputed(tx[u].seen, tx[u].at)
           now == Visible(u)
       IN  /\ \A l \in DOMAIN r.written, v \in Users \ {u} : l \notin DOMAIN tx[v].own
           /\ line' = [l \in Lines |->
                         IF l \in DOMAIN r.written
                         THEN [now[l] EXCEPT !.unit = r.written[l].unit, !.flags = r.written[l].flags]
                         ELSE now[l]]
           /\ quote' = IF DOMAIN r.quote = {} THEN Null ELSE r.quote
           /\ review' = (review \/ r.blocked)
           /\ crossed' = (tx[u].seen # now /\ (crossed \/ Differ(tx[u].seen, now)))
    /\ tx' = [tx EXCEPT ![u] = NoTx]
    /\ UNCHANGED <<price, rules, routing, run, budget>>

\* A product in another currency, or a statement Postgres refuses (a deadlock
\* between two re-maps, the unique index on quotes.request_id): rolled back.
RemapFails(u) ==
    /\ tx[u].pc \in {"updated", "recompute"}
    /\ tx' = [tx EXCEPT ![u] = NoTx]
    /\ UNCHANGED <<line, quote, price, rules, routing, review, run, budget, crossed>>

\* updateAdmin on a SKU's price. Existing lines and quotes keep theirs.
EditPrice(s) ==
    /\ budget.edits > 0 /\ (Overlap \/ Idle)
    /\ \E p \in BasePrices \ {price[s]} : price' = [price EXCEPT ![s] = p]
    /\ budget' = [budget EXCEPT !.edits = @ - 1]
    /\ UNCHANGED <<line, quote, rules, routing, review, run, tx, crossed>>

-----------------------------------------------------------------------------
LinesInit ==
    /\ line \in InitialLines
    /\ quote = Null
    /\ price \in InitialPrices
    /\ rules \in RuleSets
    /\ routing = Null /\ review = FALSE
    /\ run = NoRun
    /\ tx = [u \in Users |-> NoTx]
    /\ budget \in Budgets
    /\ crossed = FALSE

LinesNext ==
    \/ StartRun
    \/ \E l \in Lines : MatchLine(l)
    \/ \E l \in Lines : SkipLine(l)
    \/ PriceRead \/ PriceNothing \/ PriceWrite
    \/ PolicyRead \/ PolicyWrite
    \/ ScoreWrite
    \/ \E u \in Users, l \in Lines, d \in Dtos : RemapStart(u, l, d)
    \/ \E u \in Users : RemapUpdate(u) \/ RemapRead(u) \/ RemapCommit(u) \/ RemapFails(u)
    \/ \E s \in Skus : EditPrice(s)

LinesSpec == LinesInit /\ [][LinesNext]_linesVars

-----------------------------------------------------------------------------
\* Properties

\* The quote and the lines say the same: a line is on the quote exactly when it
\* has a product and a quantity, at the line's own SKU, quantity and unit price,
\* off the quote it carries no price, and there is no quote only where nothing
\* can be priced or a product is not in EUR.
QuoteShowsLines ==
    /\ IF quote = Null THEN Priceable(line) = {} \/ ~AllEuro(line)
       ELSE /\ DOMAIN quote = Priceable(line)
            /\ \A l \in DOMAIN quote : /\ quote[l].sku = line[l].sku
                                       /\ quote[l].qty = line[l].qty
                                       /\ quote[l].unit = line[l].unit
    /\ \A l \in Lines : line[l].unit # Null => l \in Priceable(line)

\* However re-maps overlap a run and one another, quote and lines part only where a
\* writer of the quote worked from a product or a quantity that somebody had
\* changed and committed since it read, and the next re-map that nobody disturbs
\* brings them together; between a run's first match and its prices nothing is
\* promised (PriceNode and QuoteRecomputeService).
QuoteMatchesLines ==
    run.pc \notin {"match", "price"} /\ ~crossed => QuoteShowsLines

\* "The line update, recompute, and any needs_review transition run in one
\* transaction so they cannot diverge" (line-item-remap.actions.ts:22-23): when
\* nobody is writing, quote and lines say the same, whoever wrote beside whom.
RemapsNeverDiverge == Idle => QuoteShowsLines

\* A price an estimator set by hand is still there after every later re-map, of
\* this line or of another, that does not itself enter a price or end the
\* override; a product or a quantity may change under it, and a line without
\* quantity loses it (buildUpdate, isOverridden, clearLinePricing). This is about
\* re-maps and runs that come one after the other.
ManualPriceKept ==
    [][\A u \in Users, l \in Lines :
         /\ ~Overlap /\ tx[u].pc = "recompute" /\ tx'[u].pc = "idle" /\ line' # line
         /\ Overridden(line[l]) /\ line'[l].qty \notin {Null, 0} /\ line'[l].sku # Null
         /\ ~(tx[u].line = l /\ (tx[u].dto.unit # Absent \/ tx[u].dto.override = FALSE))
         => line'[l].unit = line[l].unit /\ Overridden(line'[l])]_linesVars

\* A run that routes a request AUTO_ELIGIBLE leaves every line matched with at
\* least the confidence the threshold asks for and every price inside the
\* organization's limits, and what can be priced on a quote that rules were there
\* for. Only with a cap on the deal value is that quote whole: without one
\* (SCORE_AUTO_SEND_CAP_MINOR unset) nobody asks whether each line has a price,
\* and a matched line of no quantity is left off it. Nobody has re-mapped
\* meanwhile, and the catalogue is in EUR (ScoreNode.applyPolicyGate over what
\* PriceNode and PolicyNode flagged).
AutoEligibleIsSound ==
    [][run.pc = "score" /\ run'.pc = "idle" /\ routing' = "AUTO_ELIGIBLE" /\ ~Overlap /\ AllEuro(line) =>
         /\ Priceable(line) = {} \/ (quote # Null /\ ~Blocked(line))
         /\ Thresholds.cap # Null /\ Thresholds.exceeded < Thresholds.auto =>
              quote # Null /\ DOMAIN quote = Lines
         /\ \A l \in Lines :
              /\ line[l].conf # Null /\ line[l].conf >= Thresholds.auto
              /\ line[l].unit # Null =>
                   /\ ~DiscountBreached([base |-> price[line[l].sku], unit |-> line[l].unit],
                                         MaxDiscount(rules))
                   /\ ~MarginBreached([cost |-> Cost[line[l].sku], unit |-> line[l].unit],
                                       MarginFloor(rules))]_linesVars
=============================================================================
