--------------------------- MODULE PricingEngines ---------------------------
(* The two vertical price calculators: air conditioning (AVAC) and window    *)
(* frames (caixilharia). Each is a pure function of the extracted facts, the *)
(* organization's rule rows, its catalogue and its tax rate.                 *)
(*                                                                           *)
(* A rule row is a record [type, vertical, active, order, role, config];     *)
(* config is Malformed when it does not parse against the schema of the rule *)
(* that looks for it, which the engines skip without a word. A catalogue is  *)
(* a function from SKU codes to [price, active, currency, lead]. Money is in *)
(* minor units, areas in 1/10000 m2 (the precision roundArea keeps),         *)
(* multipliers in hundredths, lengths and hours in whole units.              *)
EXTENDS Values

CONSTANTS
    Malformed                \* a config no schema accepts

-----------------------------------------------------------------------------
\* Rule rows

VerticalRules(allRules, vertical) ==
    SortedBy(LAMBDA r: r.order,
             SelectSeq(allRules, LAMBDA r: r.active /\ r.vertical = vertical))

\* The configs of the rules of one type that parse, in order.
ParsedConfigs(rules, type) ==
    LET parsing == SelectSeq(rules, LAMBDA r: r.type = type /\ r.config # Malformed)
    IN  [i \in DOMAIN parsing |-> parsing[i].config]

\* The first rule of this type (and role) whose config parses, or Null.
ParsedRule(rules, type, role) ==
    LET found == ParsedConfigs(SelectSeq(rules, LAMBDA r: role = Null \/ r.role = role), type)
    IN  IF found = <<>> THEN Null ELSE Head(found)

-----------------------------------------------------------------------------
\* Lines and totals, the same in both engines

Line(sku, quantity, unit, amount, kind) ==
    [sku |-> sku, quantity |-> quantity, unit |-> unit, amount |-> amount, kind |-> kind]

FixedLine(amount, kind) == Line(Null, 1, amount, amount, kind)

CatalogLine(catalog, sku, quantity, kind) ==
    Line(sku, quantity, catalog[sku].price, catalog[sku].price * quantity, kind)

\* area in 1/10000 m2, multiplier in hundredths
AreaLine(catalog, sku, area, multiplier, kind) ==
    LET unit == RoundDiv(catalog[sku].price * multiplier, 100)
    IN  Line(sku, area, unit, RoundDiv(area * unit, 10000), kind)

Sellable(catalog, sku) == sku \in DOMAIN catalog /\ catalog[sku].active

\* What requireSku reports, and the line that is only pushed when it finds one.
IfSellable(catalog, sku, line) == IF Sellable(catalog, sku) THEN <<line>> ELSE <<>>
\* Mutant: a product that is not sold is left off without a word.
UnknownSkuIgnored(catalog, skus) == {}

UnknownSku(catalog, skus) == {<<"catalog", s>> : s \in {t \in skus : ~Sellable(catalog, t)}}

Missing(cond, what) == IF cond THEN {what} ELSE {}

SkusOf(lines) == {l.sku : l \in ToSet(lines)} \ {Null}

LongestLead(catalog, lines) ==
    LET leads == {catalog[s].lead : s \in SkusOf(lines)} \ {Null}
    IN  IF leads = {} THEN Null ELSE Max(leads)

NotInEuro(catalog, lines) ==
    Missing(\E s \in SkusOf(lines) : catalog[s].currency # "EUR", <<"catalog.currency_must_be_eur">>)

\* Margin on the costs, discount on the subtotal, tax on what is left. The
\* organization's own rate replaces the rule's, and the tax line needs a rule.
Totalled(costs, margin, discountPercentage, tax, taxRate) ==
    LET base     == SumOver(LAMBDA l: l.amount, costs)
        marked   == costs \o (IF margin = Null THEN <<>>
                              ELSE <<FixedLine(Percent(base, margin.percentage), "margin")>>)
        subtotal == SumOver(LAMBDA l: l.amount, marked)
        discount == Percent(subtotal, discountPercentage)
        rate     == OrElse(taxRate, IF tax = Null THEN Null ELSE tax.percentage)
        taxed    == IF rate = Null THEN 0 ELSE Percent(subtotal - discount, rate)
    IN  [lines    |-> marked \o (IF tax = Null THEN <<>> ELSE <<FixedLine(taxed, "tax")>>),
         subtotal |-> subtotal,
         discount |-> discount,
         tax      |-> taxed,
         total    |-> subtotal - discount + taxed]

-----------------------------------------------------------------------------
\* Air conditioning. facts: [indoor_units_requested, areas, needs_electrical_panel,
\* and the variables the rules name].

UnitCount(facts) == OrElse(facts.indoor_units_requested, Len(facts.areas))

\* The first selection large enough for the i-th room; unknown rooms take the default.
IndoorSku(facts, indoor, i) ==
    LET area  == IF i \in DOMAIN facts.areas THEN facts.areas[i] ELSE Null
        large == SelectSeq(indoor.selections, LAMBDA c: c.max_area = Null \/ area <= c.max_area)
    IN  IF area = Null \/ large = <<>> THEN indoor.default_sku ELSE Head(large).sku

\* One line per distinct SKU, its quantity the number of rooms that chose it.
IndoorLines(facts, indoor, catalog) ==
    LET rooms == 1..UnitCount(facts)
        skus  == {IndoorSku(facts, indoor, i) : i \in rooms}
        rooms_of(s) == Cardinality({i \in rooms : IndoorSku(facts, indoor, i) = s})
        found == SetToSeq({s \in skus : Sellable(catalog, s)})
    IN  [i \in DOMAIN found |-> CatalogLine(catalog, found[i], rooms_of(found[i]), "equipment")]

OutdoorFits(facts, outdoor) == UnitCount(facts) <= outdoor.max_indoor_units

OutdoorLines(facts, outdoor, catalog) ==
    IF UnitCount(facts) > 0 /\ OutdoorFits(facts, outdoor)
    THEN IfSellable(catalog, outdoor.sku, CatalogLine(catalog, outdoor.sku, 1, "equipment"))
    ELSE <<>>

\* What is used beyond the included allowance.
AllowanceLines(facts, rules) ==
    LET excess(c) == IF facts[c.variable] = Null THEN 0
                     ELSE Max({0, facts[c.variable] - c.included})
        charged   == SelectSeq(ParsedConfigs(rules, "INCLUDED_ALLOWANCE"), LAMBDA c: excess(c) # 0)
    IN  [i \in DOMAIN charged |->
           LET c == charged[i]
           IN  Line(Null, excess(c), c.unit_price, excess(c) * c.unit_price, c.kind)]

\* "gt" holds of two numbers only; a fact that is not known matches nothing.
ConditionMatches(actual, operator, expected) ==
    CASE operator = "eq" -> actual = expected
      [] operator = "gt" -> actual \in Int /\ expected \in Int /\ actual > expected

SurchargeLines(facts, rules) ==
    LET applies(c) == /\ facts[c.variable] # Null
                      /\ ConditionMatches(facts[c.variable], c.operator, c.value)
        charged    == SelectSeq(ParsedConfigs(rules, "CONDITIONAL_SURCHARGE"), applies)
    IN  [i \in DOMAIN charged |-> FixedLine(charged[i].amount, charged[i].kind)]

AdderLines(facts, rules) ==
    LET charged == SelectSeq(ParsedConfigs(rules, "FIXED_ADDER"),
                             LAMBDA c: facts.needs_electrical_panel = c.when)
    IN  [i \in DOMAIN charged |-> FixedLine(charged[i].amount, charged[i].kind)]

HasHours(facts, labor) == labor # Null /\ UnitCount(facts) \in DOMAIN labor.hours

LaborLines(facts, labor) ==
    IF ~HasHours(facts, labor) THEN <<>>
    ELSE LET hours == labor.hours[UnitCount(facts)]
         IN  <<Line(Null, hours, labor.rate, hours * labor.rate, "labor")>>

PriceAvac(facts, allRules, catalog, taxRate) ==
    LET rules   == VerticalRules(allRules, "avac")
        indoor  == ParsedRule(rules, "CATALOG_UNIT", "indoor_unit")
        outdoor == ParsedRule(rules, "CATALOG_UNIT", "outdoor_unit")
        labor   == ParsedRule(rules, "LABOR_HOURS", Null)
        margin  == ParsedRule(rules, "MARGIN_MARKUP", Null)
        tax     == ParsedRule(rules, "TAX", Null)
        chosen  == (IF indoor = Null THEN {}
                    ELSE {IndoorSku(facts, indoor, i) : i \in 1..UnitCount(facts)})
                   \union (IF outdoor = Null \/ UnitCount(facts) < 1 THEN {}
                           ELSE IF OutdoorFits(facts, outdoor) THEN {outdoor.sku} ELSE {})
        costs   == (IF indoor = Null THEN <<>> ELSE IndoorLines(facts, indoor, catalog))
                   \o (IF outdoor = Null THEN <<>> ELSE OutdoorLines(facts, outdoor, catalog))
                   \o AllowanceLines(facts, rules) \o SurchargeLines(facts, rules)
                   \o AdderLines(facts, rules) \o LaborLines(facts, labor)
        missing == Missing(UnitCount(facts) < 1, <<"critical_input.indoor_units_or_areas">>)
                   \union Missing(indoor = Null, <<"avac.indoor.selection">>)
                   \union Missing(outdoor = Null, <<"avac.outdoor.selection">>)
                   \union Missing(outdoor # Null /\ ~OutdoorFits(facts, outdoor), <<"avac.outdoor.capacity">>)
                   \union UnknownSku(catalog, chosen)
                   \union Missing(~HasHours(facts, labor), <<"avac.installation.labor">>)
                   \union Missing(margin = Null, <<"avac.margin">>)
                   \union Missing(tax = Null, <<"avac.iva">>)
                   \union NotInEuro(catalog, costs)
        totals  == Totalled(costs, margin, 0, tax, taxRate)
    IN  [totals |-> totals, lead |-> LongestLead(catalog, costs),
         missing |-> missing, blocked |-> missing # {}]

-----------------------------------------------------------------------------
\* Window frames. facts: [openings, remove_existing, distance_km]; an opening is
\* [ref, width, height, type, quantity, profile, glass, blind, screen], lengths
\* in mm; a preference is the set of keywords its text contains.

SelectSku(preference, rule) ==
    LET named == SelectSeq(rule.selections, LAMBDA c: c.keywords \intersect preference # {})
    IN  IF preference = Null \/ named = <<>> THEN rule.default_sku ELSE Head(named).sku

Measured(opening) == opening.width # Null /\ opening.height # Null

ActualArea(opening) == RoundDiv(opening.width * opening.height, 100)

\* Every opening is charged for at least the minimum area.
BillableArea(opening, minimum) ==
    opening.quantity * (IF minimum = Null THEN ActualArea(opening)
                        ELSE Max({ActualArea(opening), minimum.area}))

\* A type nobody stated is charged without a multiplier; a stated type without
\* one in the rule is not charged at all. Null stands for "no multiplier".
ProfileMultiplier(opening, profile) ==
    IF opening.type = Null THEN 100
    ELSE IF opening.type \in DOMAIN profile.multipliers THEN profile.multipliers[opening.type] ELSE Null

\* A fixed pane has no hardware.
NeedsHardware(opening) == opening.type \notin {Null, "fixo"}

OpeningLines(o, r, catalog) ==
    LET area == BillableArea(o, r.minimum)
        profile == IF r.profile = Null THEN Null ELSE SelectSku(o.profile, r.profile)
        factor  == IF r.profile = Null THEN Null ELSE ProfileMultiplier(o, r.profile)
        glass   == IF r.glass = Null THEN Null ELSE SelectSku(o.glass, r.glass)
        hinged  == r.hardware # Null /\ NeedsHardware(o) /\ o.type \in DOMAIN r.hardware.skus
    IN  IF ~Measured(o) THEN <<>> ELSE
           (IF profile = Null \/ factor = Null THEN <<>>
            ELSE IfSellable(catalog, profile, AreaLine(catalog, profile, area, factor, "material")))
           \o (IF glass = Null THEN <<>>
               ELSE IfSellable(catalog, glass, AreaLine(catalog, glass, area, 100, "material")))
           \o (IF ~hinged THEN <<>>
               ELSE LET s == r.hardware.skus[o.type]
                    IN  IfSellable(catalog, s, CatalogLine(catalog, s, o.quantity, "equipment")))
           \o (IF o.blind # TRUE \/ r.blind = Null THEN <<>>
               ELSE IfSellable(catalog, r.blind.sku,
                               AreaLine(catalog, r.blind.sku, area, 100, "material")))
           \o (IF o.screen # TRUE \/ r.screen = Null THEN <<>>
               ELSE IfSellable(catalog, r.screen.sku,
                               CatalogLine(catalog, r.screen.sku, o.quantity, "equipment")))

\* What one opening leaves unanswered, in the order the loop looks at it.
OpeningMissing(o, r, catalog) ==
    Missing(o.width = Null, <<o.ref, "width_mm">>)
    \union Missing(o.height = Null, <<o.ref, "height_mm">>)
    \union Missing(o.type = Null, <<o.ref, "opening_type">>)
    \union (IF ~Measured(o) THEN {} ELSE
        UnknownSku(catalog,
            (IF r.profile = Null THEN {} ELSE {SelectSku(o.profile, r.profile)})
            \union (IF r.glass = Null THEN {} ELSE {SelectSku(o.glass, r.glass)})
            \union (IF r.hardware # Null /\ NeedsHardware(o) /\ o.type \in DOMAIN r.hardware.skus
                    THEN {r.hardware.skus[o.type]} ELSE {})
            \union (IF o.blind = TRUE /\ r.blind # Null THEN {r.blind.sku} ELSE {})
            \union (IF o.screen = TRUE /\ r.screen # Null THEN {r.screen.sku} ELSE {}))
        \* the multiplier is only looked up once the profile is known to be sold
        \union Missing(r.profile # Null /\ ProfileMultiplier(o, r.profile) = Null
                          /\ Sellable(catalog, SelectSku(o.profile, r.profile)),
                       <<"profile.multiplier", o.type>>)
        \union Missing(r.hardware # Null /\ NeedsHardware(o) /\ o.type \notin DOMAIN r.hardware.skus,
                       <<"hardware", o.type>>))

RoleRules(rules) ==
    [profile  |-> ParsedRule(rules, "CATALOG_UNIT", "profile"),
     glass    |-> ParsedRule(rules, "CATALOG_UNIT", "glass"),
     hardware |-> ParsedRule(rules, "CATALOG_UNIT", "hardware"),
     blind    |-> ParsedRule(rules, "CATALOG_UNIT", "blind"),
     screen   |-> ParsedRule(rules, "CATALOG_UNIT", "insect_screen"),
     minimum  |-> ParsedRule(rules, "FIXED_ADDER", "minimum_billable_area"),
     labor    |-> ParsedRule(rules, "LABOR_HOURS", "installation_per_opening")]

\* The percentage of the highest threshold the total area is above.
AreaDiscount(rule, totalArea) ==
    LET passed == {t \in rule.thresholds : totalArea > t.over}
    IN  IF passed = {} THEN 0
        ELSE (CHOOSE t \in passed : \A u \in passed : u.over <= t.over).percentage

PriceCaixilharia(facts, allRules, catalog, taxRate) ==
    LET rules     == VerticalRules(allRules, "caixilharia")
        r         == RoleRules(rules)
        removal   == ParsedRule(rules, "FIXED_ADDER", "remove_existing")
        transport == ParsedRule(rules, "CONDITIONAL_SURCHARGE", "transport_per_km")
        margin    == ParsedRule(rules, "MARGIN_MARKUP", Null)
        discount  == ParsedRule(rules, "QTY_BREAK", "area_discount")
        tax       == ParsedRule(rules, "TAX", Null)
        measured  == SelectSeq(facts.openings, Measured)
        count     == SumOver(LAMBDA o: o.quantity, measured)
        totalArea == SumOver(LAMBDA o: o.quantity * ActualArea(o), measured)
        km        == IF facts.distance_km = Null \/ transport = Null THEN 0
                     ELSE Max({0, facts.distance_km - transport.included_km})
        site      == (IF r.labor = Null \/ count = 0 THEN <<>>
                      ELSE IfSellable(catalog, r.labor.sku,
                                      CatalogLine(catalog, r.labor.sku, count, "labor")))
                     \o (IF facts.remove_existing # TRUE \/ removal = Null THEN <<>>
                         ELSE <<Line(Null, count, removal.amount, removal.amount * count, "labor")>>)
                     \o (IF km = 0 THEN <<>>
                         ELSE IfSellable(catalog, transport.sku,
                                         CatalogLine(catalog, transport.sku, km, "labor")))
        costs     == FoldLeft(LAMBDA lines, o: lines \o OpeningLines(o, r, catalog), <<>>, facts.openings)
                     \o site
        missing   == {<<role>> : role \in {k \in DOMAIN r : r[k] = Null}}
                     \union UNION {OpeningMissing(o, r, catalog) : o \in ToSet(facts.openings)}
                     \union UnknownSku(catalog,
                           (IF r.labor # Null /\ count > 0 THEN {r.labor.sku} ELSE {})
                           \union (IF km > 0 THEN {transport.sku} ELSE {}))
                     \union Missing(facts.remove_existing = TRUE /\ removal = Null, <<"remove_existing">>)
                     \union Missing(facts.distance_km # Null /\ transport = Null, <<"transport">>)
                     \union Missing(margin = Null, <<"margin">>)
                     \union Missing(discount = Null, <<"area_discount">>)
                     \union Missing(tax = Null, <<"iva">>)
                     \union Missing(Cardinality({catalog[s].currency : s \in SkusOf(costs)}) > 1,
                                    <<"catalog.currency_mismatch">>)
                     \union NotInEuro(catalog, costs)
        totals    == Totalled(costs, margin,
                              IF discount = Null THEN 0 ELSE AreaDiscount(discount, totalArea),
                              tax, taxRate)
    IN  [totals |-> totals, lead |-> LongestLead(catalog, costs), area |-> totalArea,
         missing |-> missing, blocked |-> missing # {}]
=============================================================================
