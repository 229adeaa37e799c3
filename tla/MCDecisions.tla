----------------------------- MODULE MCDecisions -----------------------------
(* Instances of Calculations and LinePricing for TLC: each behaviour asks one *)
(* calculation, or follows the lines of one request.                          *)
EXTENDS LinePricing, Calculations, TLC

CONSTANTS l1, l2, a, b, u1, u2, Brick, Parts

VARIABLE part

-----------------------------------------------------------------------------
\* One request

MCCost == (a :> 80) @@ (b :> Null)
MCCurrency == (a :> "EUR") @@ (b :> "EUR")
MCInitialPrices == {(a :> 100) @@ (b :> 90)}
MCCandidates == (l1 :> {<<a, 97, FALSE>>, <<b, 60, TRUE>>}) @@ (l2 :> {<<b, 96, FALSE>>})
MCThresholds == [auto |-> 95, cap |-> 1090, unmatched |-> 0, flagged |-> 50, exceeded |-> 80]

RuleRow(type, config) == [type |-> type, active |-> TRUE, config |-> config]
Break(min, discount) == RuleRow("QTY_BREAK", [min |-> min, discount |-> discount])
WithFloor == {Break(1, 0), Break(10, 10), RuleRow("MARGIN_FLOOR", 15)}
MCRuleSets ==
    {{}, WithFloor,
     {Break(10, 30), RuleRow("MARGIN_FLOOR", 10), RuleRow("MAX_DISCOUNT", 20)}}

\* One after the other, or two re-maps and a run as they like; and re-maps only.
MCBudgets ==
    {[remaps |-> 2, runs |-> 2, edits |-> 1, overlap |-> FALSE],
     [remaps |-> 2, runs |-> 1, edits |-> 0, overlap |-> TRUE]}
MCRemapsOnly == {[remaps |-> 2, runs |-> 0, edits |-> 0, overlap |-> TRUE]}
MCUsersAlike == Permutations({u1, u2})

Fresh(qty) == [sku |-> Null, qty |-> qty, unit |-> Null, conf |-> Null, flags |-> {}]
MCInitialLines == {(l1 :> Fresh(10)) @@ (l2 :> Fresh(q)) : q \in {1}}

-----------------------------------------------------------------------------
\* Rule rows of the two verticals, complete; a question leaves one of them out,
\* breaks it or turns the order round.

VRow(vertical, type, role, order, config) ==
    [vertical |-> vertical, type |-> type, role |-> role, order |-> order, active |-> TRUE,
     config |-> config]

Product(minor, lead) == [price |-> minor, active |-> TRUE, currency |-> "EUR", lead |-> lead]

AvacRules ==
    <<VRow("avac", "CATALOG_UNIT", "indoor_unit", 5,
           [selections |-> <<[max_area |-> 20, sku |-> "small"], [max_area |-> Null, sku |-> "large"]>>,
            default_sku |-> "small"]),
      VRow("avac", "CATALOG_UNIT", "indoor_unit", 1,
           [selections |-> <<[max_area |-> 15, sku |-> "small"]>>, default_sku |-> "large"]),
      VRow("avac", "CATALOG_UNIT", "outdoor_unit", 2, [sku |-> "outdoor", max_indoor_units |-> 2]),
      VRow("avac", "INCLUDED_ALLOWANCE", Null, 3,
           [variable |-> "pipe_length_m", included |-> 3, unit_price |-> 7, kind |-> "material"]),
      VRow("avac", "CONDITIONAL_SURCHARGE", Null, 4,
           [variable |-> "install_height_m", operator |-> "gt", value |-> 3, amount |-> 50,
            kind |-> "consumable"]),
      VRow("avac", "CONDITIONAL_SURCHARGE", Null, 6,
           [variable |-> "wall_type", operator |-> "eq", value |-> Brick, amount |-> 30,
            kind |-> "consumable"]),
      VRow("avac", "FIXED_ADDER", Null, 7, [when |-> TRUE, amount |-> 90, kind |-> "material"]),
      VRow("avac", "LABOR_HOURS", Null, 8, [rate |-> 25, hours |-> (1 :> 4) @@ (2 :> 6)]),
      VRow("avac", "MARGIN_MARKUP", Null, 9, [percentage |-> 15]),
      VRow("avac", "TAX", Null, 10, [percentage |-> 23])>>

AvacCatalog ==
    ("small" :> Product(333, 5)) @@ ("large" :> Product(501, Null)) @@ ("outdoor" :> Product(700, 9))

AvacFacts ==
    [indoor_units_requested : {Null, 1, 2, 3},
     areas : {<<>>, <<12>>, <<Null>>, <<18, 12>>, <<30, Null>>},
     pipe_length_m : {Null, 3, 8}, install_height_m : {Null, 3, 4}, wall_type : {Null, Brick},
     outdoor_unit_distance_m : {Null}, distance_km : {Null}, install_type : {Null},
     needs_electrical_panel : {Null, TRUE, FALSE}]

FrameRules ==
    <<VRow("caixilharia", "CATALOG_UNIT", "profile", 1,
           [selections |-> <<[keywords |-> {"alu"}, sku |-> "alu"]>>, default_sku |-> "pvc",
            multipliers |-> ("correr" :> 125) @@ ("fixo" :> 90)]),
      VRow("caixilharia", "CATALOG_UNIT", "glass", 2, [selections |-> <<>>, default_sku |-> "glass"]),
      VRow("caixilharia", "CATALOG_UNIT", "hardware", 3, [skus |-> ("correr" :> "rail")]),
      VRow("caixilharia", "CATALOG_UNIT", "blind", 4, [sku |-> "blind"]),
      VRow("caixilharia", "CATALOG_UNIT", "insect_screen", 5, [sku |-> "screen"]),
      VRow("caixilharia", "FIXED_ADDER", "minimum_billable_area", 6, [area |-> 7500]),
      VRow("caixilharia", "FIXED_ADDER", "remove_existing", 7, [amount |-> 40]),
      VRow("caixilharia", "CONDITIONAL_SURCHARGE", "transport_per_km", 8,
           [sku |-> "km", included_km |-> 10]),
      VRow("caixilharia", "LABOR_HOURS", "installation_per_opening", 9, [sku |-> "fitting"]),
      VRow("caixilharia", "QTY_BREAK", "area_discount", 10,
           [thresholds |-> {[over |-> 10000, percentage |-> 5], [over |-> 20000, percentage |-> 12]}]),
      VRow("caixilharia", "MARGIN_MARKUP", Null, 11, [percentage |-> 20]),
      VRow("caixilharia", "TAX", Null, 12, [percentage |-> 23])>>

FrameCatalog ==
    ("alu" :> Product(901, 10)) @@ ("pvc" :> Product(633, 8)) @@ ("glass" :> Product(420, 12))
    @@ ("rail" :> Product(75, Null)) @@ ("blind" :> Product(211, 3)) @@ ("screen" :> Product(50, 3))
    @@ ("km" :> Product(2, Null)) @@ ("fitting" :> Product(120, Null))

Opening(w, h, t, q, p, bl, sc) ==
    [ref |-> "J", width |-> w, height |-> h, type |-> t, quantity |-> q, profile |-> p,
     glass |-> Null, blind |-> bl, screen |-> sc]

Openings ==
    {Opening(w, h, t, q, p, bl, sc) : w \in {Null, 1005}, h \in {500, 1500}, q \in {1, 2},
        t \in {Null, "fixo", "correr", "batente"}, p \in {Null, {"alu"}}, bl \in {TRUE, Null},
        sc \in {TRUE, FALSE}}

Frames ==
    {<<o>> : o \in Openings}
    \union {<<o, Opening(1005, h, "correr", 1, Null, TRUE, Null)>> : o \in Openings, h \in {500, Null}}

\* The rule tables a question may come with.
Variants(rows) ==
    {rows} \union {[rows EXCEPT ![i].active = FALSE] : i \in DOMAIN rows}
           \union {[rows EXCEPT ![i].config = Malformed] : i \in DOMAIN rows}

\* And the catalogues: whole, or with one product withdrawn or in another currency.
Stocks(catalog) ==
    {catalog} \union {[catalog EXCEPT ![s].active = FALSE] : s \in DOMAIN catalog}
              \union {[catalog EXCEPT ![s].currency = "USD"] : s \in DOMAIN catalog}

AvacFew == {f \in AvacFacts : f.pipe_length_m = 8 /\ f.install_height_m # 3 /\ f.needs_electrical_panel # FALSE}
FrameFew == [openings : {<<o>> : o \in Openings}, remove_existing : {Null, TRUE}, distance_km : {15}]

\* Sets of records, so that nothing has to be sorted before it is asked.
EngineQuestions ==
    <<[kind : {"avac"}, facts : AvacFacts, rules : {AvacRules}, catalog : {AvacCatalog}, taxRate : {Null}],
      [kind : {"avac"}, facts : AvacFew, rules : Variants(AvacRules), catalog : {AvacCatalog},
       taxRate : {Null, 6}],
      [kind : {"avac"}, facts : AvacFew, rules : {AvacRules}, catalog : Stocks(AvacCatalog), taxRate : {6}],
      [kind : {"caixilharia"},
       facts : [openings : Frames, remove_existing : {FALSE, TRUE}, distance_km : {Null, 5}],
       rules : {FrameRules}, catalog : {FrameCatalog}, taxRate : {Null}],
      [kind : {"caixilharia"}, facts : FrameFew, rules : Variants(FrameRules), catalog : {FrameCatalog},
       taxRate : {Null}],
      [kind : {"caixilharia"}, facts : FrameFew, rules : {FrameRules}, catalog : Stocks(FrameCatalog),
       taxRate : {6}]>>

-----------------------------------------------------------------------------
\* Searches, scores, extractions, catalogue rows

Hits == [sku : {"p", "q", "r", "t"}, sim : {65, 96}]
Lists == {l \in BoundedSeq(Hits, 3) :
            \A i, j \in DOMAIN l : i < j => l[i].sku # l[j].sku /\ l[i].sim >= l[j].sim}

MatchQuestions ==
    [kind : {"match"}, lexical : Lists, semantic : Lists \union {Null}, limit : {3}]

ScoredLine == [confidence : {Null, 70, 96}, unit : {Null, 100}, quantity : {2},
               flags : {{}, {"close_tie"}, {"manual_override"}, {"margin_floor_breach"}}]

ScoreQuestions ==
    [kind : {"score"}, lines : BoundedSeq(ScoredLine, 2),
     thresholds : {[MCThresholds EXCEPT !.cap = c, !.auto = t] : c \in {Null, 150, 500}, t \in {50, 95}}]

Num(n) == <<n, Null>>
Texts == [numerals : SUBSET {Num(2), <<2, 5>>, Num(12)}, words : {{}, {"sala"}}, items : {Null, 1, 2},
          total : {Null, 2}]
Extractions ==
    {[vertical |-> "avac", areas |-> <<[room |-> "sala", area |-> x]>>, numbers |-> <<Num(2)>>] :
        x \in {Null, Num(12), <<2, 5>>}}
    \union {[vertical |-> "caixilharia", openings |-> <<[width |-> Num(12), height |-> Null, quantity |-> Num(2)]>>,
             floor |-> Null, distance_km |-> x] : x \in {Null, <<2, 5>>}}
    \union {[vertical |-> "lines", items |-> [i \in 1..n |-> [quantity |-> 1, unit |-> "un"]]] : n \in 1..2}

ExtractQuestions ==
    [kind : {"extract"}, answers : {<<x, y>> : x \in Extractions \union {Null}, y \in Extractions},
     text : Texts]

Cell(w, c, d) == [whole |-> w, cents |-> c, digits |-> d]
Cells == {Null, Invalid, Cell(12, 0, 0), Cell(12, 50, 2), Cell(12, 50, 3)}
ImportQuestions ==
    [kind : {"import"}, row : {("sku_code" :> s) @@ ("name" :> "n") @@ x @@ y : s \in {Null, "S"},
        x \in {"base_price_minor" :> v : v \in Cells} \union {"base_price_eur" :> v : v \in Cells}
              \union {("base_price_eur" :> v) @@ ("base_price_minor" :> w) : v \in Cells, w \in Cells},
        y \in {"cost_eur" :> v : v \in Cells} \union {"cost_minor" :> v : v \in Cells}}]

\* Rows of one height but the last, over the ends of one page and of two.
Row(i, text, sku, kind) == [id |-> i, description |-> text, sku |-> sku, kind |-> kind]
PdfRows(n, text, sku, last) ==
    [i \in 1..n |-> Row(i, IF i = n THEN last ELSE text, sku, IF i = 1 THEN "tax" ELSE "material")]
PdfQuestions ==
    [kind : {"pdf"}, lines : {PdfRows(n, t, s, l) : n \in 0..30, t \in 1..2, s \in BOOLEAN, l \in {1, 5}},
     sender : [company : {TRUE}, contact : BOOLEAN, email : {TRUE}, address : {0, 3}],
     discounted : BOOLEAN, footer : {0, 1, 4}]

\* Day 14: two requests of every kind, made and quoted inside, at and beyond the
\* edges of the week and of the week before, one that took a week, and one of
\* somebody else; then other windows, also empty ones.
QuotesSince(t) == {Null} \union [created : {u \in {7, 13, 14} : u >= t}, status : {"draft", "ready", "sent"}]
Case(id, created, drafted, routed, conf, touched) ==
    [id |-> id, org |-> "own", created |-> created, routing |-> routed, confidence |-> conf,
     override |-> touched, quote |-> drafted, calls |-> {created}, recoveries |-> {created}]
Cases(id) ==
    UNION {{Case(id, t, q, r, IF r = "auto_eligible" THEN 96 ELSE IF o THEN Null ELSE 70, o) :
              q \in QuotesSince(t), r \in {"auto_eligible", "needs_review"}, o \in BOOLEAN} : t \in {0, 6, 7, 14}}
Slow == Case("c", 6, [created |-> 13, status |-> "sent"], "needs_review", 30, FALSE)
Foreign == [Slow EXCEPT !.id = "d", !.org = "other"]

AnalyticsQuestions ==
    [kind : {"analytics"}, requests : {{x, y, Slow, Foreign} : x \in Cases("a"), y \in Cases("b")},
     org : {"own"}, window : {[from |-> Null, to |-> Null], [from |-> 4, to |-> 10]}, now : {14}]
OtherWindows ==
    [kind : {"analytics"}, requests : {{}, {Slow, Foreign}}, org : {"own", "other"},
     window : [from : {Null, 0, 7, 14}, to : {Null, 7, 40}], now : {14}]

MCQuestions ==
    EngineQuestions
    \o <<MatchQuestions, ScoreQuestions, ExtractQuestions, ImportQuestions, PdfQuestions,
         AnalyticsQuestions, OtherWindows>>

-----------------------------------------------------------------------------
\* The two parts side by side; the part that is not asked about stands still.

NoQuestion == [kind |-> "none"]

AtRest ==
    /\ line = [l \in Lines |-> Fresh(1)] /\ quote = Null /\ price = [s \in Skus |-> 100]
    /\ rules = {} /\ routing = Null /\ review = FALSE /\ run = NoRun
    /\ tx = [u \in Users |-> NoTx] /\ budget = [remaps |-> 0, runs |-> 0, edits |-> 0, overlap |-> FALSE]
    /\ crossed = FALSE

\* With overlap, who writes last from what it read is in who reads and writes when:
\* one rule set and no prices of the estimators' own will do.
Small ==
    Overlap => /\ rules = WithFloor
               /\ \A u \in {v \in Users : tx[v].pc # "idle"} : tx[u].dto.unit = Absent

MCInit ==
    \/ /\ "lines" \in Parts /\ part = "lines" /\ LinesInit /\ Small
       /\ question = NoQuestion /\ answer = Null
    \/ "calc" \in Parts /\ part = "calc" /\ CalcInit /\ AtRest

MCNext ==
    \/ part = "lines" /\ LinesNext /\ Small' /\ UNCHANGED <<part, calcVars>>
    \/ part = "calc" /\ Calculate /\ UNCHANGED <<part, linesVars>>

MCSpec == MCInit /\ [][MCNext]_<<part, linesVars, calcVars>>
=============================================================================
