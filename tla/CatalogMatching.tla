--------------------------- MODULE CatalogMatching ---------------------------
(* How a line's text becomes a product: the two searches of the search_catalog *)
(* tool, their reciprocal rank fusion, the candidate the match node takes and *)
(* what a row of a catalogue file is read as. All of it is pure; what         *)
(* Postgres and the embedding service answer is an input.                     *)
(*                                                                            *)
(* A hit is [sku, sim], sim in hundredths; a result list holds a SKU once.    *)
EXTENDS Values

CONSTANTS
    K,                       \* DEFAULT_K of the fusion
    MatchThreshold, AutoThreshold, CloseTieMargin,
    Invalid                  \* a cell that cannot be read, a row that is refused

-----------------------------------------------------------------------------
\* fuseRrf

RankIn(list, sku) == CHOOSE i \in DOMAIN list : list[i].sku = sku
Holds(list, sku)  == \E i \in DOMAIN list : list[i].sku = sku

\* Mutant: the second list's contribution replaces the first's.
RrfScoreReplaced(lexical, semantic, sku) ==
    [num |-> 1, den |-> K + RankIn(IF Holds(semantic, sku) THEN semantic ELSE lexical, sku)]

\* The sum of 1 / (K + rank) over the lists that hold the SKU, as [num, den].
RrfScore(lexical, semantic, sku) ==
    LET l == K + RankIn(lexical, sku)
        s == K + RankIn(semantic, sku)
    IN  IF ~Holds(semantic, sku) THEN [num |-> 1, den |-> l]
        ELSE IF ~Holds(lexical, sku) THEN [num |-> 1, den |-> s]
        ELSE [num |-> l + s, den |-> l * s]

Higher(x, y) == x.num * y.den > y.num * x.den

Fused(lexical, semantic, sku) ==
    LET both == Holds(lexical, sku) /\ Holds(semantic, sku)
        sims == {h.sim : h \in {k \in ToSet(lexical \o semantic) : k.sku = sku}}
    IN  [sku    |-> sku,
         score  |-> Max(sims),
         method |-> IF both THEN "FUSED" ELSE IF Holds(lexical, sku) THEN "FUZZY" ELSE "SEMANTIC"]

\* Highest fused score first; ties in the order the SKUs were first met.
FuseRrf(lexical, semantic) ==
    LET met   == lexical \o SelectSeq(semantic, LAMBDA h: ~Holds(lexical, h.sku))
        score(i) == RrfScore(lexical, semantic, met[i].sku)
        Before(i, j) == \/ Higher(score(i), score(j))
                        \/ ~Higher(score(j), score(i)) /\ i < j
        order == SortSeq([i \in DOMAIN met |-> i], Before)
    IN  [r \in DOMAIN order |-> Fused(lexical, semantic, met[order[r]].sku)]

\* The tool: without embeddings (semantic = Null) the lexical list alone, degraded.
SearchCatalog(lexical, semantic, limit) ==
    LET fused == FuseRrf(lexical, OrElse(semantic, <<>>))
        good  == SelectSeq(fused, LAMBDA c: c.score >= MatchThreshold)
    IN  [candidates |-> SubSeq(good, 1, Min({limit, Len(good)})),
         degraded   |-> semantic = Null]

-----------------------------------------------------------------------------
\* MatchNode: the first candidate is taken. Null when there is none.

MatchMethod(c) ==
    IF c.score >= AutoThreshold /\ c.method \in {"FUZZY", "FUSED"} THEN "EXACT" ELSE c.method

IsCloseTie(candidates) ==
    Len(candidates) > 1 /\ candidates[2].score >= candidates[1].score - CloseTieMargin

MatchOf(candidates) ==
    IF candidates = <<>> THEN Null
    ELSE [sku        |-> candidates[1].sku,
          confidence |-> candidates[1].score,
          method     |-> MatchMethod(candidates[1]),
          closeTie   |-> IsCloseTie(candidates)]

-----------------------------------------------------------------------------
\* CatalogImportService.parseRow. A row maps column names to cells; an absent
\* column is not in its domain, an empty cell is Null. A number cell is
\* [whole, cents, digits]: its digits before the point, its value after the point
\* in cents, and how many digits it has there. "bad" cells parse as nothing.

Empty(row, column) == column \notin DOMAIN row \/ row[column] = Null

NonNegativeInteger(cell) ==
    IF cell \in {Null, Invalid} \/ cell.digits # 0 THEN Invalid ELSE cell.whole

EurosToMinor(cell) ==
    IF cell \in {Null, Invalid} \/ cell.digits > 2 THEN Invalid ELSE cell.whole * 100 + cell.cents

\* The cents column wins by being in the file, even where its cell is empty: the
\* euro cell is then read as cents.
BasePrice(row) ==
    LET cell(c) == IF c \in DOMAIN row THEN row[c] ELSE Null
        price == OrElse(cell("base_price_minor"), cell("base_price_eur"))
    IN  IF "base_price_minor" \in DOMAIN row THEN NonNegativeInteger(price) ELSE EurosToMinor(price)

CostPrice(row) ==
    IF ~Empty(row, "cost_minor") THEN NonNegativeInteger(row["cost_minor"])
    ELSE IF ~Empty(row, "cost_eur") THEN EurosToMinor(row["cost_eur"])
    ELSE Null

\* A row is refused as a whole when any of its cells is.
ParsedRow(row) ==
    LET base == BasePrice(row)  cost == CostPrice(row)
    IN  IF base = Invalid \/ cost = Invalid \/ Empty(row, "sku_code") \/ Empty(row, "name")
        THEN Invalid
        ELSE [sku_code |-> row["sku_code"], base |-> base, cost |-> cost]
=============================================================================
