------------------------- MODULE DecisionProofs ----------------------------
(* What holds of the lines and the quote for every catalogue, rule set and   *)
(* number of lines and estimators, and of a score for every lines and        *)
(* thresholds. Manual prices and verdicts are proved of re-maps that come    *)
(* one at a time and never during a run (~Overlap), with an invariant that   *)
(* says that whoever writes works from what the lines still hold, that only  *)
(* a line that can be priced carries a price, and, in its second part, that  *)
(* a line without flags was left so by the last run to look at it. That      *)
(* quote and lines agree is proved with overlap, up to what a writer missed. *)
EXTENDS LinePricing, Calculations, FiniteSetTheorems, WellFoundedInduction, TLAPS

\* The shape of the state. What a row holds beside its quantity and the confidence
\* of its match does not matter.
RowFields == {"sku", "qty", "unit", "conf", "flags"}
IsRow(x) == DOMAIN x = RowFields /\ x.qty \in {Null} \cup Nat /\ x.conf \in {Null} \cup Nat
AreRows(ls) == DOMAIN ls = Lines /\ \A l \in Lines : IsRow(ls[l])

TxFields == {"pc", "line", "dto", "seen", "at", "own"}

ShapeInv ==
    /\ AreRows(line)
    /\ run.pc \in {"idle", "match", "price", "priced", "policy", "score"}
    /\ DOMAIN run = {"pc", "seen", "at", "todo"}
    /\ DOMAIN tx = Users
    /\ \A u \in Users :
         /\ DOMAIN tx[u] = TxFields
         /\ tx[u].pc \in {"idle", "checked", "updated", "recompute"}
         /\ tx[u].pc # "idle" => tx[u].line \in Lines /\ tx[u].dto \in Dtos

\* Without overlap there is one writer: the run, or the re-map of one user.
OneWriter ==
    /\ run.pc # "idle" => \A u \in Users : tx[u].pc = "idle"
    /\ \A u, v \in Users : tx[u].pc # "idle" /\ tx[v].pc # "idle" => u = v

\* What the run works from is still what the lines hold.
RunInv ==
    /\ run.pc = "match" => \A l \in run.todo : l \in Lines /\ line[l].sku = Null
    /\ run.pc = "price" => run.seen = line

\* What a re-map works from is what the lines hold, under its own row.
TxInv ==
    \A u \in Users :
       /\ tx[u].pc \in {"idle", "checked"} => DOMAIN tx[u].own = {}
       /\ tx[u].pc = "checked" => tx[u].seen = line[tx[u].line]
       /\ tx[u].pc \in {"updated", "recompute"} =>
            tx[u].own = [k \in {tx[u].line} |-> Updated(line[k], line[k], tx[u].dto)]
       /\ tx[u].pc = "recompute" => tx[u].seen = Visible(u)

\* Only a line that can be priced carries a price.
UnitInv == \A l \in Lines : line[l].unit # Null => l \in Priceable(line)

\* The quote lists the lines that can be priced, at what they hold, except
\* between a run's first match and the price it writes.
QuoteAgrees(q, ls) ==
    /\ DOMAIN q = Priceable(ls)
    /\ \A l \in DOMAIN q : q[l].sku = ls[l].sku /\ q[l].qty = ls[l].qty /\ q[l].unit = ls[l].unit

QuoteInv ==
    quote # Null /\ run.pc \notin {"match", "price"} => QuoteAgrees(quote, line)

IInv == ShapeInv /\ OneWriter /\ RunInv /\ TxInv /\ UnitInv /\ QuoteInv

\* No quote is the absent value.
NullIsNoFunction == \A S, T : Null \notin [S -> T]

-----------------------------------------------------------------------------
\* Lemmas about the operators

\* Whether lines can be priced depends on their products and quantities only.
LEMMA SamePriceable ==
    ASSUME NEW old, NEW new,
           \A l \in Lines : new[l].sku = old[l].sku /\ new[l].qty = old[l].qty
    PROVE  Priceable(new) = Priceable(old)
BY DEF Priceable

\* buildUpdate makes a row of a row.
LEMMA UpdatedIsRow ==
    ASSUME NEW x, IsRow(x), NEW seen, NEW d \in Dtos
    PROVE  IsRow(Updated(x, seen, d))
<1>1. d.qty \in Quantities \union {Absent}
  BY DEF Dtos
<1>2. OrElse(d.qty, x.qty) \in {Null} \cup Nat
  BY <1>1, LinePricingAssumption DEF OrElse, IsRow, Absent
<1>3. DOMAIN Updated(x, seen, d) = RowFields
  BY DEF Updated, RowFields
<1>4. /\ Updated(x, seen, d).qty = OrElse(d.qty, x.qty)
      /\ Updated(x, seen, d).conf \in {x.conf, 100}
  BY DEF Updated
<1> QED BY <1>2, <1>3, <1>4 DEF IsRow

\* buildUpdate leaves a manual price that its body does not speak of.
LEMMA UpdatedKeepsPrice ==
    ASSUME NEW x, NEW d \in Dtos, Overridden(x), d.unit = Absent, d.override # FALSE
    PROVE  Updated(x, x, d).unit = x.unit /\ Overridden(Updated(x, x, d))
<1>1. Updated(x, x, d).unit = x.unit
  BY DEF Updated, OrElse, Absent
<1>2. "manual_override" \in Updated(x, x, d).flags
  BY DEF Updated, Overridden
<1> QED BY <1>1, <1>2 DEF Overridden

\* The quote over some lines lists the ones that can be priced, at what they hold;
\* a manual price is taken as it is.
LEMMA QuoteLists ==
    ASSUME NEW ls, NEW kept, NEW at
    PROVE  /\ DOMAIN QuoteOf(ls, kept, at) = Priceable(ls)
           /\ \A l \in Priceable(ls) :
                /\ QuoteOf(ls, kept, at)[l].sku = ls[l].sku
                /\ QuoteOf(ls, kept, at)[l].qty = ls[l].qty
                /\ l \in kept => QuoteOf(ls, kept, at)[l].unit = ls[l].unit
BY DEF QuoteOf, QuoteLine

\* What recompute writes: every line of the quote at the quote's price, a manual
\* price as it was, and no price on a line that left the quote.
LEMMA RecomputedLines ==
    ASSUME NEW ls, AreRows(ls), NEW at
    PROVE  LET r == Recomputed(ls, at)
           IN  /\ DOMAIN r.quote = Priceable(ls)
               /\ DOMAIN r.written \subseteq Lines
               /\ \A l \in Priceable(ls) :
                    /\ l \in DOMAIN r.written
                    /\ r.quote[l].sku = ls[l].sku /\ r.quote[l].qty = ls[l].qty
                    /\ r.written[l].unit = r.quote[l].unit
                    /\ Overridden(ls[l]) => r.written[l].unit = ls[l].unit
                                            /\ Overridden(r.written[l])
               /\ \A l \in Lines \ Priceable(ls) :
                    IF l \in DOMAIN r.written THEN r.written[l].unit = Null ELSE ls[l].unit = Null
<1> DEFINE kept == {l \in Priceable(ls) : Overridden(ls[l])}
           q    == QuoteOf(ls, kept, at)
           auto == DOMAIN q \ kept
           blocked == auto # {} /\ ~HasPricingRules(rules)
           flags(l) == WithFlag(ls[l].flags, "pricing_blocked", blocked /\ l \in auto)
           unit(l)  == IF l \in DOMAIN q THEN q[l].unit ELSE Null
           repriced(l) == [ls[l] EXCEPT !.unit = unit(l), !.flags = flags(l)]
           dom == {k \in Lines : k \in DOMAIN q \/ repriced(k) # ls[k]}
           r == Recomputed(ls, at)
<1>1. /\ r.quote = q
      /\ r.written = [l \in dom |-> repriced(l)]
  BY Zenon DEF Recomputed
<1>2. /\ DOMAIN q = Priceable(ls)
      /\ \A l \in Priceable(ls) :
           /\ q[l].sku = ls[l].sku /\ q[l].qty = ls[l].qty
           /\ l \in kept => q[l].unit = ls[l].unit
  BY QuoteLists
<1>3. Priceable(ls) \subseteq Lines
  BY DEF Priceable
<1>4. \A l \in Lines : repriced(l).unit = unit(l) /\ repriced(l).flags = flags(l)
  <2> TAKE l \in Lines
  <2>1. IsRow(ls[l])
    BY DEF AreRows
  <2> HIDE DEF unit, flags
  <2> QED BY <2>1 DEF IsRow, RowFields
<1>5. \A l \in kept : "manual_override" \in ls[l].flags => "manual_override" \in flags(l)
  BY DEF WithFlag
<1> HIDE DEF r, q, kept, flags, unit, repriced
<1>6. ASSUME NEW l \in Priceable(ls)
      PROVE  /\ l \in dom
             /\ r.written[l].unit = q[l].unit
             /\ Overridden(ls[l]) => /\ r.written[l].unit = ls[l].unit
                                     /\ Overridden(r.written[l])
  <2>1. l \in dom /\ r.written[l] = repriced(l)
    BY <1>1, <1>2, <1>3
  <2>2. r.written[l].unit = q[l].unit /\ r.written[l].flags = flags(l)
    BY <2>1, <1>2, <1>3, <1>4 DEF unit
  <2>3. ASSUME Overridden(ls[l])
        PROVE  r.written[l].unit = ls[l].unit /\ Overridden(r.written[l])
    <3>1. l \in kept
      BY <2>3 DEF kept
    <3>2. r.written[l].unit = ls[l].unit
      BY <3>1, <2>2, <1>2
    <3>3. "manual_override" \in r.written[l].flags
      BY <3>1, <2>2, <2>3, <1>5 DEF Overridden
    <3> QED BY <3>2, <3>3, <2>3 DEF Overridden
  <2> QED BY <2>1, <2>2, <2>3
<1>7. ASSUME NEW l \in Lines \ Priceable(ls)
      PROVE  IF l \in dom THEN r.written[l].unit = Null ELSE ls[l].unit = Null
  <2>1. unit(l) = Null
    BY <1>2 DEF unit
  <2>2. CASE l \in dom
    BY <2>1, <2>2, <1>1, <1>4
  <2>3. CASE l \notin dom
    BY <2>1, <2>3, <1>4
  <2> QED BY <2>2, <2>3
<1>8. DOMAIN r.written = dom /\ dom \subseteq Lines
  BY <1>1
<1> HIDE DEF dom
<1>9. /\ DOMAIN r.quote = Priceable(ls)
      /\ DOMAIN r.written \subseteq Lines
  BY <1>1, <1>2, <1>8
<1>10. \A l \in Priceable(ls) :
         /\ l \in DOMAIN r.written
         /\ r.quote[l].sku = ls[l].sku /\ r.quote[l].qty = ls[l].qty
         /\ r.written[l].unit = r.quote[l].unit
         /\ Overridden(ls[l]) => r.written[l].unit = ls[l].unit /\ Overridden(r.written[l])
  BY <1>1, <1>2, <1>6, <1>8
<1>11. \A l \in Lines \ Priceable(ls) :
         IF l \in DOMAIN r.written THEN r.written[l].unit = Null ELSE ls[l].unit = Null
  BY <1>7, <1>8
<1> QED BY <1>9, <1>10, <1>11 DEF r

-----------------------------------------------------------------------------
\* The steps of a run

\* While the run is the writer no re-map is open, and it stays so.
LEMMA NoTxDuringRun ==
    ASSUME IInv, run.pc # "idle" \/ Idle, UNCHANGED tx
    PROVE  /\ \A u \in Users : tx[u].pc = "idle"
           /\ OneWriter' /\ TxInv'
           /\ DOMAIN tx' = Users
           /\ \A u \in Users : DOMAIN tx'[u] = TxFields /\ tx'[u].pc = "idle"
<1>1. \A u \in Users : tx[u].pc = "idle"
  BY DEF IInv, OneWriter, Idle
<1> QED BY <1>1 DEF IInv, OneWriter, TxInv, ShapeInv

\* A run begins only when no re-map is open.
LEMMA StartRunKeeps == ASSUME ~Overlap, IInv, StartRun PROVE IInv'
<1>1. Idle /\ run.pc = "idle" /\ UNCHANGED <<line, quote, tx>>
  BY DEF StartRun
<1>2. /\ DOMAIN run' = {"pc", "seen", "at", "todo"} /\ run'.pc = "match"
      /\ run'.todo = {l \in Lines : line[l].sku = Null}
  BY DEF StartRun, NoRun
<1>3. OneWriter' /\ TxInv' /\ ShapeInv'
  BY <1>1, <1>2, NoTxDuringRun DEF IInv, ShapeInv, AreRows, IsRow
<1>4. RunInv' /\ QuoteInv'
  BY <1>1, <1>2 DEF RunInv, QuoteInv
<1>5. UnitInv'
  BY <1>1 DEF IInv, UnitInv, Priceable
<1> QED BY <1>3, <1>4, <1>5 DEF IInv

\* A match writes lines that carry no price yet.
LEMMA MatchLineKeeps == ASSUME IInv, NEW l \in Lines, MatchLine(l) PROVE IInv'
<1>1. run.pc = "match" /\ l \in run.todo /\ UNCHANGED <<quote, tx>>
  BY DEF MatchLine
<1>2. PICK c \in Candidates[l] :
        line' = [line EXCEPT ![l].sku = c[1], ![l].conf = c[2],
                             ![l].flags = run.seen[l].flags
                                          \union (IF c[3] THEN {"close_tie"} ELSE {})]
  BY DEF MatchLine
<1>3. /\ DOMAIN run' = {"pc", "seen", "at", "todo"} /\ run'.pc = "match"
      /\ run'.todo = run.todo \ {l}
  BY <1>1 DEF MatchLine, IInv, ShapeInv
<1>4. AreRows(line) /\ IsRow(line[l]) /\ c[2] \in Nat
  BY LinePricingAssumption DEF IInv, ShapeInv, AreRows
<1> DEFINE sku == c[1]  conf == c[2]
           flags == run.seen[l].flags \union (IF c[3] THEN {"close_tie"} ELSE {})
           row == [line[l] EXCEPT !.sku = sku, !.conf = conf, !.flags = flags]
<1>5. line' = [line EXCEPT ![l] = row]
  <2> HIDE DEF sku, conf, flags
  <2>1. line' = [line EXCEPT ![l].sku = sku, ![l].conf = conf, ![l].flags = flags]
    BY <1>2, Zenon DEF sku, conf, flags
  <2> QED BY <2>1, <1>4 DEF AreRows, IsRow, RowFields
<1>6. IsRow(row) /\ row.unit = line[l].unit /\ row.qty = line[l].qty
  <2>1. conf \in Nat
    BY <1>4
  <2> HIDE DEF sku, conf, flags
  <2> QED BY <1>4, <2>1 DEF IsRow, RowFields
<1> HIDE DEF row
<1>7. /\ line'[l] = row
      /\ \A k \in Lines \ {l} : line'[k] = line[k]
      /\ AreRows(line')
  BY <1>4, <1>5, <1>6 DEF AreRows
<1>8. line[l].unit = Null
  BY <1>1 DEF IInv, RunInv, UnitInv, Priceable
<1>9. UnitInv'
  BY <1>6, <1>7, <1>8 DEF IInv, UnitInv, Priceable
<1>10. RunInv'
  BY <1>1, <1>3, <1>7 DEF IInv, RunInv
<1>11. OneWriter' /\ TxInv' /\ ShapeInv'
  BY <1>1, <1>3, <1>7, NoTxDuringRun DEF IInv, ShapeInv, AreRows, IsRow
<1>12. QuoteInv'
  BY <1>3 DEF QuoteInv
<1> QED BY <1>9, <1>10, <1>11, <1>12 DEF IInv

\* A line without an answer is left as it is.
LEMMA SkipLineKeeps == ASSUME IInv, NEW l \in Lines, SkipLine(l) PROVE IInv'
<1>1. run.pc = "match" /\ UNCHANGED <<line, quote, tx>>
  BY DEF SkipLine
<1>2. /\ DOMAIN run' = {"pc", "seen", "at", "todo"} /\ run'.pc = "match"
      /\ run'.todo = run.todo \ {l}
  BY <1>1 DEF SkipLine, IInv, ShapeInv
<1>3. OneWriter' /\ TxInv' /\ ShapeInv'
  BY <1>1, <1>2, NoTxDuringRun DEF IInv, ShapeInv, AreRows, IsRow
<1> QED BY <1>1, <1>2, <1>3 DEF IInv, RunInv, UnitInv, Priceable, QuoteInv

\* The price node reads the lines that are there.
LEMMA PriceReadKeeps == ASSUME IInv, PriceRead PROVE IInv'
<1>1. run.pc = "match" /\ UNCHANGED <<line, quote, tx>>
  BY DEF PriceRead
<1>2. /\ DOMAIN run' = {"pc", "seen", "at", "todo"} /\ run'.pc = "price"
      /\ run'.seen = line
  BY <1>1 DEF PriceRead, IInv, ShapeInv
<1>3. OneWriter' /\ TxInv' /\ ShapeInv'
  BY <1>1, <1>2, NoTxDuringRun DEF IInv, ShapeInv, AreRows, IsRow
<1> QED BY <1>1, <1>2, <1>3 DEF IInv, RunInv, UnitInv, Priceable, QuoteInv

\* With nothing to price the quote goes.
LEMMA PriceNothingKeeps == ASSUME IInv, PriceNothing PROVE IInv'
<1>1. run.pc = "price" /\ UNCHANGED <<line, tx>> /\ quote' = Null
  BY DEF PriceNothing
<1>2. DOMAIN run' = {"pc", "seen", "at", "todo"} /\ run'.pc = "priced"
  BY <1>1 DEF PriceNothing, IInv, ShapeInv
<1>3. OneWriter' /\ TxInv' /\ ShapeInv'
  BY <1>1, <1>2, NoTxDuringRun DEF IInv, ShapeInv, AreRows, IsRow
<1> QED BY <1>1, <1>2, <1>3 DEF IInv, RunInv, UnitInv, Priceable, QuoteInv

\* The prices are written over the very lines they were calculated from.
LEMMA PriceWriteKeeps == ASSUME IInv, PriceWrite PROVE IInv'
<1> DEFINE q == QuoteOf(run.seen, {}, run.at)
           flags(l) == WithFlag(run.seen[l].flags, "pricing_blocked", Blocked(run.seen))
           row(l) == [line[l] EXCEPT !.unit = q[l].unit, !.flags = flags(l)]
<1>1. run.pc = "price" /\ UNCHANGED tx /\ quote' = q
  BY Zenon DEF PriceWrite
<1>2. line' = [l \in Lines |-> IF l \notin DOMAIN q THEN line[l] ELSE row(l)]
  BY Zenon DEF PriceWrite
<1>3. DOMAIN run' = {"pc", "seen", "at", "todo"} /\ run'.pc = "priced"
  BY <1>1 DEF PriceWrite, IInv, ShapeInv
<1>4. run.seen = line /\ AreRows(line)
  BY <1>1 DEF IInv, RunInv, ShapeInv
<1>5. /\ DOMAIN q = Priceable(line)
      /\ \A l \in Priceable(line) : q[l].sku = line[l].sku /\ q[l].qty = line[l].qty
  BY <1>4, QuoteLists
<1> HIDE DEF q, flags
<1>6. \A l \in Lines : /\ IsRow(row(l)) /\ row(l).sku = line[l].sku
                       /\ row(l).qty = line[l].qty /\ row(l).unit = q[l].unit
  BY <1>4 DEF AreRows, IsRow, RowFields
<1> HIDE DEF row
<1>7. /\ AreRows(line')
      /\ \A l \in Lines : line'[l].sku = line[l].sku /\ line'[l].qty = line[l].qty
      /\ \A l \in Priceable(line) : line'[l].unit = q[l].unit
      /\ \A l \in Lines \ Priceable(line) : line'[l] = line[l]
  BY <1>2, <1>4, <1>5, <1>6 DEF AreRows, Priceable
<1>8. Priceable(line') = Priceable(line)
  BY <1>7, SamePriceable
<1>9. UnitInv'
  BY <1>7, <1>8 DEF IInv, UnitInv
<1>10. QuoteAgrees(q, line')
  BY <1>5, <1>7, <1>8 DEF QuoteAgrees, Priceable
<1>11. RunInv' /\ QuoteInv'
  BY <1>1, <1>3, <1>10 DEF RunInv, QuoteInv
<1>12. OneWriter' /\ TxInv' /\ ShapeInv'
  BY <1>1, <1>3, <1>7, NoTxDuringRun DEF IInv, ShapeInv
<1> QED BY <1>9, <1>11, <1>12 DEF IInv

\* The policy node reads, and writes nothing yet.
LEMMA PolicyReadKeeps == ASSUME IInv, PolicyRead PROVE IInv'
<1>1. run.pc = "priced" /\ UNCHANGED <<line, quote, tx>>
  BY DEF PolicyRead
<1>2. DOMAIN run' = {"pc", "seen", "at", "todo"} /\ run'.pc = "policy"
  BY <1>1 DEF PolicyRead, IInv, ShapeInv
<1>3. OneWriter' /\ TxInv' /\ ShapeInv'
  BY <1>1, <1>2, NoTxDuringRun DEF IInv, ShapeInv, AreRows, IsRow
<1> QED BY <1>1, <1>2, <1>3 DEF IInv, RunInv, UnitInv, Priceable, QuoteInv, QuoteAgrees

\* The policy writes flags, which neither the quote nor a price depends on.
LEMMA PolicyWriteKeeps == ASSUME IInv, PolicyWrite PROVE IInv'
<1>1. run.pc = "policy" /\ UNCHANGED <<quote, tx>>
  BY DEF PolicyWrite
<1>2. DOMAIN run' = {"pc", "seen", "at", "todo"} /\ run'.pc = "score"
  BY <1>1 DEF PolicyWrite, IInv, ShapeInv
<1> DEFINE flags(x) == (x.flags \ PolicyManagedFlags)
                       \union (IF x.sku = Null \/ x.unit = Null THEN {}
                               ELSE PolicyFlags([base |-> run.at[x.sku], cost |-> Cost[x.sku],
                                                 unit |-> x.unit], rules))
           changed == {l \in Lines : flags(run.seen[l]) # run.seen[l].flags}
           row(l) == [line[l] EXCEPT !.flags = flags(run.seen[l])]
<1>3. line' = [l \in Lines |-> IF l \in changed THEN row(l) ELSE line[l]]
  BY Zenon DEF PolicyWrite
<1> HIDE DEF flags
<1>4. \A l \in Lines : /\ IsRow(row(l)) /\ row(l).sku = line[l].sku
                       /\ row(l).qty = line[l].qty /\ row(l).unit = line[l].unit
  BY DEF IInv, ShapeInv, AreRows, IsRow, RowFields
<1> HIDE DEF changed, row
<1>5. /\ AreRows(line')
      /\ \A l \in Lines : /\ line'[l].sku = line[l].sku /\ line'[l].qty = line[l].qty
                          /\ line'[l].unit = line[l].unit
  BY <1>3, <1>4 DEF IInv, ShapeInv, AreRows
<1>6. Priceable(line') = Priceable(line)
  BY <1>5, SamePriceable
<1>7. UnitInv'
  BY <1>5, <1>6 DEF IInv, UnitInv
<1>8. RunInv' /\ QuoteInv'
  BY <1>1, <1>2, <1>5, <1>6 DEF IInv, RunInv, QuoteInv, QuoteAgrees, Priceable
<1>9. OneWriter' /\ TxInv' /\ ShapeInv'
  BY <1>1, <1>2, <1>5, NoTxDuringRun DEF IInv, ShapeInv
<1> QED BY <1>7, <1>8, <1>9 DEF IInv

\* The score node writes the routing, and the run is over.
LEMMA ScoreWriteKeeps == ASSUME IInv, ScoreWrite PROVE IInv'
<1>1. run.pc = "score" /\ UNCHANGED <<line, quote, tx>> /\ run' = NoRun
  BY DEF ScoreWrite
<1>2. DOMAIN run' = {"pc", "seen", "at", "todo"} /\ run'.pc = "idle"
  BY <1>1 DEF NoRun
<1>3. OneWriter' /\ TxInv' /\ ShapeInv'
  BY <1>1, <1>2, NoTxDuringRun DEF IInv, ShapeInv, AreRows, IsRow
<1> QED BY <1>1, <1>2, <1>3 DEF IInv, RunInv, UnitInv, Priceable, QuoteInv, QuoteAgrees

-----------------------------------------------------------------------------
\* The steps of a re-map

\* While a re-map is open the run rests and no other re-map is open.
LEMMA RemapIsAlone ==
    ASSUME IInv, NEW u \in Users, tx[u].pc # "idle"
    PROVE  run.pc = "idle" /\ \A v \in Users \ {u} : tx[v].pc = "idle"
BY DEF IInv, OneWriter

\* A re-map reads its line before its transaction begins.
LEMMA RemapStartKeeps ==
    ASSUME ~Overlap, IInv, NEW u \in Users, NEW l \in Lines, NEW d \in Dtos, RemapStart(u, l, d)
    PROVE  IInv'
<1> DEFINE new == [NoTx EXCEPT !.pc = "checked", !.line = l, !.dto = d, !.seen = line[l]]
<1>1. Idle /\ UNCHANGED <<line, quote, run>> /\ tx' = [tx EXCEPT ![u] = new]
  BY DEF RemapStart
<1>2. /\ DOMAIN new = TxFields /\ new.pc = "checked" /\ new.line = l /\ new.dto = d
      /\ new.seen = line[l] /\ DOMAIN new.own = {}
  BY DEF NoTx, TxFields
<1> HIDE DEF new
<1>3. DOMAIN tx' = Users /\ tx'[u] = new /\ \A v \in Users \ {u} : tx'[v] = tx[v]
  BY <1>1 DEF IInv, ShapeInv
<1>4. ShapeInv'
  BY <1>1, <1>2, <1>3 DEF IInv, ShapeInv, AreRows, IsRow
<1>5. OneWriter'
  BY <1>1, <1>3 DEF OneWriter, Idle
<1>6. TxInv'
  <2> SUFFICES ASSUME NEW v \in Users
               PROVE  (/\ tx[v].pc \in {"idle", "checked"} => DOMAIN tx[v].own = {}
                       /\ tx[v].pc = "checked" => tx[v].seen = line[tx[v].line]
                       /\ tx[v].pc \in {"idle", "checked"})'
    BY DEF TxInv
  <2>1. CASE v = u
    BY <1>1, <1>2, <1>3, <2>1
  <2>2. CASE v # u
    BY <1>1, <1>3, <2>2 DEF IInv, TxInv, Idle
  <2> QED BY <2>1, <2>2
<1>7. RunInv' /\ UnitInv' /\ QuoteInv'
  BY <1>1 DEF IInv, RunInv, UnitInv, Priceable, QuoteInv, QuoteAgrees
<1> QED BY <1>4, <1>5, <1>6, <1>7 DEF IInv

\* Its own row is the line as it was read, and as it still is, updated.
LEMMA RemapUpdateKeeps == ASSUME IInv, NEW u \in Users, RemapUpdate(u) PROVE IInv'
<1> DEFINE l == tx[u].line
           own == [k \in {l} |-> Updated(line[k], tx[u].seen, tx[u].dto)]
           new == [tx[u] EXCEPT !.pc = "updated", !.own = own]
<1>1. tx[u].pc = "checked" /\ UNCHANGED <<line, quote, run>>
  BY DEF RemapUpdate
<1>2. tx' = [tx EXCEPT ![u].pc = "updated", ![u].own = own]
  BY Zenon DEF RemapUpdate
<1>3. own = [k \in {l} |-> Updated(line[k], line[k], tx[u].dto)]
  BY <1>1 DEF IInv, TxInv
<1> HIDE DEF own
<1>4. tx' = [tx EXCEPT ![u] = new]
  BY <1>2 DEF IInv, ShapeInv
<1>5. /\ DOMAIN new = TxFields /\ new.pc = "updated" /\ new.line = tx[u].line
      /\ new.dto = tx[u].dto /\ new.own = own
  BY DEF IInv, ShapeInv, TxFields
<1> HIDE DEF new
<1>6. DOMAIN tx' = Users /\ tx'[u] = new /\ \A v \in Users \ {u} : tx'[v] = tx[v]
  BY <1>4 DEF IInv, ShapeInv
<1>7. run.pc = "idle" /\ \A v \in Users \ {u} : tx[v].pc = "idle"
  BY <1>1, RemapIsAlone
<1>8. ShapeInv'
  BY <1>1, <1>5, <1>6 DEF IInv, ShapeInv, AreRows, IsRow
<1>9. OneWriter'
  BY <1>1, <1>6, <1>7 DEF OneWriter
<1>10. TxInv'
  <2> SUFFICES ASSUME NEW v \in Users
               PROVE  (/\ tx[v].pc \in {"idle", "updated"}
                       /\ tx[v].pc = "idle" => DOMAIN tx[v].own = {}
                       /\ tx[v].pc = "updated" =>
                            tx[v].own =
                              [k \in {tx[v].line} |-> Updated(line[k], line[k], tx[v].dto)])'
    BY DEF TxInv
  <2>1. CASE v = u
    BY <1>1, <1>3, <1>5, <1>6, <2>1
  <2>2. CASE v # u
    BY <1>6, <1>7, <2>2 DEF IInv, TxInv
  <2> QED BY <2>1, <2>2
<1>11. RunInv' /\ UnitInv' /\ QuoteInv'
  BY <1>1 DEF IInv, RunInv, UnitInv, Priceable, QuoteInv, QuoteAgrees
<1> QED BY <1>8, <1>9, <1>10, <1>11 DEF IInv

\* recompute reads the lines with that row among them.
LEMMA RemapReadKeeps == ASSUME IInv, NEW u \in Users, RemapRead(u) PROVE IInv'
<1> DEFINE new == [tx[u] EXCEPT !.pc = "recompute", !.seen = Visible(u), !.at = price]
<1>1. tx[u].pc = "updated" /\ UNCHANGED <<line, quote, run>>
  BY DEF RemapRead
<1>2. tx' = [tx EXCEPT ![u].pc = "recompute", ![u].seen = Visible(u), ![u].at = price]
  BY DEF RemapRead
<1>3. tx' = [tx EXCEPT ![u] = new]
  <2> DEFINE see == Visible(u)
  <2> HIDE DEF see
  <2>1. tx' = [tx EXCEPT ![u].pc = "recompute", ![u].seen = see, ![u].at = price]
    BY <1>2 DEF see
  <2>2. tx' = [tx EXCEPT ![u] = [tx[u] EXCEPT !.pc = "recompute", !.seen = see, !.at = price]]
    BY <2>1 DEF IInv, ShapeInv
  <2> QED BY <2>2 DEF see
<1>4. /\ DOMAIN new = TxFields /\ new.pc = "recompute" /\ new.line = tx[u].line
      /\ new.dto = tx[u].dto /\ new.own = tx[u].own /\ new.seen = Visible(u)
  <2> DEFINE see == Visible(u)
  <2> HIDE DEF see
  <2>1. DOMAIN tx[u] = TxFields
    BY DEF IInv, ShapeInv
  <2>2. new = [tx[u] EXCEPT !.pc = "recompute", !.seen = see, !.at = price]
    BY DEF see
  <2> HIDE DEF new
  <2>3. /\ DOMAIN new = TxFields /\ new.pc = "recompute" /\ new.line = tx[u].line
        /\ new.dto = tx[u].dto /\ new.own = tx[u].own /\ new.seen = see
    BY <2>1, <2>2 DEF TxFields
  <2> QED BY <2>3 DEF see
<1> HIDE DEF new
<1>5. DOMAIN tx' = Users /\ tx'[u] = new /\ \A v \in Users \ {u} : tx'[v] = tx[v]
  BY <1>3 DEF IInv, ShapeInv
<1>6. run.pc = "idle" /\ \A v \in Users \ {u} : tx[v].pc = "idle"
  BY <1>1, RemapIsAlone
<1>7. ShapeInv'
  BY <1>1, <1>4, <1>5 DEF IInv, ShapeInv, AreRows, IsRow
<1>8. OneWriter'
  BY <1>1, <1>5, <1>6 DEF OneWriter
<1>9. Visible(u)' = Visible(u)
  BY <1>1, <1>4, <1>5 DEF Visible
<1>10. TxInv'
  <2> SUFFICES ASSUME NEW v \in Users
               PROVE  (/\ tx[v].pc \in {"idle", "recompute"}
                       /\ tx[v].pc = "idle" => DOMAIN tx[v].own = {}
                       /\ tx[v].pc = "recompute" =>
                            /\ tx[v].own =
                                 [k \in {tx[v].line} |-> Updated(line[k], line[k], tx[v].dto)]
                            /\ tx[v].seen = Visible(v))'
    BY DEF TxInv
  <2>1. CASE v = u
    <3>1. tx[u].own = [k \in {tx[u].line} |-> Updated(line[k], line[k], tx[u].dto)]
      BY <1>1 DEF IInv, TxInv
    <3> QED BY <1>1, <1>4, <1>5, <1>9, <2>1, <3>1
  <2>2. CASE v # u
    BY <1>5, <1>6, <2>2 DEF IInv, TxInv
  <2> QED BY <2>1, <2>2
<1>11. RunInv' /\ UnitInv' /\ QuoteInv'
  BY <1>1 DEF IInv, RunInv, UnitInv, Priceable, QuoteInv, QuoteAgrees
<1> QED BY <1>7, <1>8, <1>10, <1>11 DEF IInv

\* However a re-map ends, nobody is writing afterwards.
LEMMA RemapEnds ==
    ASSUME IInv, NEW u \in Users, tx[u].pc # "idle", tx' = [tx EXCEPT ![u] = NoTx],
           UNCHANGED run, AreRows(line')
    PROVE  ShapeInv' /\ OneWriter' /\ RunInv' /\ TxInv'
<1>1. run.pc = "idle" /\ \A v \in Users \ {u} : tx[v].pc = "idle"
  BY RemapIsAlone
<1>2. DOMAIN NoTx = TxFields /\ NoTx.pc = "idle" /\ DOMAIN NoTx.own = {}
  BY DEF NoTx, TxFields
<1>3. DOMAIN tx' = Users /\ tx'[u] = NoTx /\ \A v \in Users \ {u} : tx'[v] = tx[v]
  BY DEF IInv, ShapeInv
<1>4. \A v \in Users : /\ DOMAIN tx'[v] = TxFields /\ tx'[v].pc = "idle"
                       /\ DOMAIN tx'[v].own = {}
  BY <1>1, <1>2, <1>3 DEF IInv, ShapeInv, TxInv
<1>5. ShapeInv'
  BY <1>3, <1>4 DEF IInv, ShapeInv
<1>6. OneWriter' /\ RunInv' /\ TxInv'
  BY <1>1, <1>4 DEF OneWriter, RunInv, TxInv
<1> QED BY <1>5, <1>6

\* What a re-map's transaction sees: the lines, its own one as buildUpdate left it.
LEMMA SeenByRemap ==
    ASSUME IInv, NEW u \in Users, tx[u].pc = "recompute"
    PROVE  /\ tx[u].seen = Visible(u) /\ AreRows(Visible(u))
           /\ tx[u].line \in Lines /\ tx[u].dto \in Dtos
           /\ \A l \in Lines :
                Visible(u)[l] = IF l = tx[u].line THEN Updated(line[l], line[l], tx[u].dto)
                                ELSE line[l]
<1>1. tx[u].seen = Visible(u) /\ tx[u].line \in Lines /\ tx[u].dto \in Dtos
  BY DEF IInv, TxInv, ShapeInv
<1>2. tx[u].own = [k \in {tx[u].line} |-> Updated(line[k], line[k], tx[u].dto)]
  BY DEF IInv, TxInv
<1>3. \A l \in Lines :
        Visible(u)[l] = IF l = tx[u].line THEN Updated(line[l], line[l], tx[u].dto) ELSE line[l]
  BY <1>2 DEF Visible
<1>4. \A l \in Lines : IsRow(line[l])
  BY DEF IInv, ShapeInv, AreRows
<1>5. DOMAIN Visible(u) = Lines
  BY DEF Visible
<1> QED BY <1>1, <1>3, <1>4, <1>5, UpdatedIsRow DEF AreRows

\* What a commit leaves: the lines the transaction saw, with the prices of the
\* quote that was calculated from them.
LEMMA CommittedLines ==
    ASSUME IInv, NEW u \in Users, RemapCommit(u)
    PROVE  LET now == Visible(u)
               r   == Recomputed(now, tx[u].at)
           IN  /\ AreRows(line')
               /\ quote' = IF DOMAIN r.quote = {} THEN Null ELSE r.quote
               /\ \A l \in Lines :
                    /\ line'[l].sku = now[l].sku /\ line'[l].qty = now[l].qty
                    /\ IF l \in DOMAIN r.written
                       THEN /\ line'[l].unit = r.written[l].unit
                            /\ line'[l].flags = r.written[l].flags
                       ELSE line'[l].unit = now[l].unit
<1> DEFINE now == Visible(u)
           r   == Recomputed(now, tx[u].at)
           row(l) == [now[l] EXCEPT !.unit = r.written[l].unit, !.flags = r.written[l].flags]
<1>1. tx[u].pc = "recompute"
  BY DEF RemapCommit
<1>2. tx[u].seen = now /\ AreRows(now)
  BY <1>1, SeenByRemap
<1>3. quote' = IF DOMAIN Recomputed(tx[u].seen, tx[u].at).quote = {} THEN Null
               ELSE Recomputed(tx[u].seen, tx[u].at).quote
  BY Zenon DEF RemapCommit
<1>4. line' = [l \in Lines |->
                 IF l \in DOMAIN Recomputed(tx[u].seen, tx[u].at).written
                 THEN [now[l] EXCEPT
                         !.unit = Recomputed(tx[u].seen, tx[u].at).written[l].unit,
                         !.flags = Recomputed(tx[u].seen, tx[u].at).written[l].flags]
                 ELSE now[l]]
  BY Zenon DEF RemapCommit
<1>5. quote' = IF DOMAIN r.quote = {} THEN Null ELSE r.quote
  BY <1>2, <1>3
<1>6. line' = [l \in Lines |-> IF l \in DOMAIN r.written THEN row(l) ELSE now[l]]
  BY <1>2, <1>4, Zenon
<1> HIDE DEF now, r
<1>7. \A l \in Lines : /\ IsRow(row(l)) /\ row(l).sku = now[l].sku /\ row(l).qty = now[l].qty
                       /\ row(l).unit = r.written[l].unit /\ row(l).flags = r.written[l].flags
  BY <1>2 DEF AreRows, IsRow, RowFields
<1> HIDE DEF row
<1>8. /\ AreRows(line')
      /\ \A l \in Lines :
           /\ line'[l].sku = now[l].sku /\ line'[l].qty = now[l].qty
           /\ IF l \in DOMAIN r.written
              THEN line'[l].unit = r.written[l].unit /\ line'[l].flags = r.written[l].flags
              ELSE line'[l].unit = now[l].unit
  BY <1>2, <1>6, <1>7 DEF AreRows
<1> QED BY <1>5, <1>8 DEF r, now

\* What it writes are the prices of the quote it writes.
LEMMA RemapCommitKeeps == ASSUME IInv, NEW u \in Users, RemapCommit(u) PROVE IInv'
<1> DEFINE now == Visible(u)
           r   == Recomputed(now, tx[u].at)
<1>1. tx[u].pc = "recompute" /\ tx' = [tx EXCEPT ![u] = NoTx] /\ UNCHANGED run
  BY DEF RemapCommit
<1>2. AreRows(now)
  BY <1>1, SeenByRemap
<1>3. /\ AreRows(line')
      /\ quote' = IF DOMAIN r.quote = {} THEN Null ELSE r.quote
      /\ \A l \in Lines :
           /\ line'[l].sku = now[l].sku /\ line'[l].qty = now[l].qty
           /\ IF l \in DOMAIN r.written
              THEN line'[l].unit = r.written[l].unit /\ line'[l].flags = r.written[l].flags
              ELSE line'[l].unit = now[l].unit
  BY CommittedLines
<1>4. /\ DOMAIN r.quote = Priceable(now)
      /\ \A l \in Priceable(now) :
           /\ l \in DOMAIN r.written
           /\ r.quote[l].sku = now[l].sku /\ r.quote[l].qty = now[l].qty
           /\ r.written[l].unit = r.quote[l].unit
      /\ \A l \in Lines \ Priceable(now) :
           IF l \in DOMAIN r.written THEN r.written[l].unit = Null ELSE now[l].unit = Null
  BY <1>2, RecomputedLines
<1> HIDE DEF now, r
<1>5. Priceable(line') = Priceable(now) /\ Priceable(now) \subseteq Lines
  BY <1>3, SamePriceable DEF Priceable
<1>6. ShapeInv' /\ OneWriter' /\ RunInv' /\ TxInv'
  BY <1>1, <1>3, RemapEnds
<1>7. \A l \in Lines \ Priceable(now) : line'[l].unit = Null
  BY <1>3, <1>4
<1>8. UnitInv'
  BY <1>5, <1>7 DEF UnitInv
<1>9. QuoteAgrees(r.quote, line')
  BY <1>3, <1>4, <1>5 DEF QuoteAgrees
<1>10. QuoteInv'
  BY <1>3, <1>9 DEF QuoteInv
<1> QED BY <1>6, <1>8, <1>10 DEF IInv

\* A rollback takes back the row; the lines were never touched.
LEMMA RemapFailsKeeps == ASSUME IInv, NEW u \in Users, RemapFails(u) PROVE IInv'
<1>1. /\ tx[u].pc # "idle" /\ tx' = [tx EXCEPT ![u] = NoTx]
      /\ UNCHANGED <<line, quote, run>>
  BY DEF RemapFails
<1>2. AreRows(line')
  BY <1>1 DEF IInv, ShapeInv
<1>3. ShapeInv' /\ OneWriter' /\ RunInv' /\ TxInv'
  BY <1>1, <1>2, RemapEnds
<1> QED BY <1>1, <1>3 DEF IInv, UnitInv, Priceable, QuoteInv, QuoteAgrees

\* An edit of the price list touches neither lines nor quote.
LEMMA FrameKeeps == ASSUME IInv, UNCHANGED <<line, quote, run, tx>> PROVE IInv'
<1>1. ShapeInv' /\ OneWriter' /\ RunInv' /\ UnitInv'
  BY DEF IInv, ShapeInv, AreRows, IsRow, OneWriter, RunInv, UnitInv, Priceable
<1>2. \A u \in Users : Visible(u)' = Visible(u)
  BY DEF Visible
<1>3. TxInv'
  BY <1>2 DEF IInv, TxInv
<1>4. QuoteInv'
  BY DEF IInv, QuoteInv, QuoteAgrees, Priceable
<1> QED BY <1>1, <1>3, <1>4 DEF IInv

-----------------------------------------------------------------------------
\* The invariant

\* What extraction wrote is not priced yet, and there is no quote.
LEMMA InitHolds == ASSUME LinesInit PROVE IInv
<1>1. /\ quote = Null /\ run = NoRun /\ line \in InitialLines
      /\ tx = [u \in Users |-> NoTx]
  BY DEF LinesInit
<1>2. /\ DOMAIN NoTx = TxFields /\ NoTx.pc = "idle" /\ DOMAIN NoTx.own = {}
      /\ DOMAIN NoRun = {"pc", "seen", "at", "todo"} /\ NoRun.pc = "idle"
  BY DEF NoTx, TxFields, NoRun
<1>3. line \in [Lines -> [sku : {Null}, qty : {Null} \cup Nat, unit : {Null},
                          conf : {Null}, flags : {{}}]]
  BY <1>1, LinePricingAssumption
<1>4. AreRows(line) /\ \A l \in Lines : line[l].unit = Null
  BY <1>3 DEF AreRows, IsRow, RowFields
<1>5. ShapeInv
  BY <1>1, <1>2, <1>4 DEF ShapeInv
<1> QED BY <1>1, <1>2, <1>4, <1>5 DEF IInv, OneWriter, RunInv, TxInv, UnitInv, QuoteInv

\* Every step keeps the invariant.
LEMMA StepKeeps == ASSUME ~Overlap, IInv, [LinesNext]_linesVars PROVE IInv'
<1>1. CASE StartRun
  BY <1>1, StartRunKeeps
<1>2. CASE \E l \in Lines : MatchLine(l)
  BY <1>2, MatchLineKeeps
<1>3. CASE \E l \in Lines : SkipLine(l)
  BY <1>3, SkipLineKeeps
<1>4. CASE PriceRead \/ PriceNothing \/ PriceWrite
  BY <1>4, PriceReadKeeps, PriceNothingKeeps, PriceWriteKeeps
<1>5. CASE PolicyRead \/ PolicyWrite
  BY <1>5, PolicyReadKeeps, PolicyWriteKeeps
<1>6. CASE ScoreWrite
  BY <1>6, ScoreWriteKeeps
<1>7. CASE \E u \in Users, l \in Lines, d \in Dtos : RemapStart(u, l, d)
  BY <1>7, RemapStartKeeps
<1>8. CASE \E u \in Users : RemapUpdate(u) \/ RemapRead(u) \/ RemapCommit(u) \/ RemapFails(u)
  BY <1>8, RemapUpdateKeeps, RemapReadKeeps, RemapCommitKeeps, RemapFailsKeeps
<1>9. CASE \E s \in Skus : EditPrice(s)
  BY <1>9, FrameKeeps DEF EditPrice
<1>10. CASE UNCHANGED linesVars
  BY <1>10, FrameKeeps DEF linesVars
<1> QED BY <1>1, <1>2, <1>3, <1>4, <1>5, <1>6, <1>7, <1>8, <1>9, <1>10 DEF LinesNext

\* Whether they overlap is settled at the start.
BudgetType == [remaps : Int, runs : Int, edits : Int, overlap : BOOLEAN]

LEMMA OverlapStays ==
    ASSUME budget \in BudgetType, [LinesNext]_linesVars
    PROVE  budget' \in BudgetType /\ (Overlap' <=> Overlap)
<1>1. \/ UNCHANGED budget
      \/ budget' = [budget EXCEPT !.remaps = @ - 1]
      \/ budget' = [budget EXCEPT !.runs = @ - 1]
      \/ budget' = [budget EXCEPT !.edits = @ - 1]
  BY DEF LinesNext, linesVars, StartRun, MatchLine, SkipLine, PriceRead, PriceNothing, PriceWrite,
         PolicyRead, PolicyWrite, ScoreWrite, RemapStart, RemapUpdate, RemapRead, RemapCommit,
         RemapFails, EditPrice
<1> QED BY <1>1 DEF BudgetType, Overlap

AloneInv == budget \in BudgetType /\ (~Overlap => IInv)

\* The invariant holds of every state, when no re-map overlaps a run or another
\* re-map.
THEOREM LinesStaySound == LinesSpec => []AloneInv
<1>1. LinesInit => AloneInv
  <2>1. LinesInit => budget \in BudgetType
    BY LinePricingAssumption DEF LinesInit, BudgetType
  <2> QED BY <2>1, InitHolds DEF AloneInv
<1>2. AloneInv /\ [LinesNext]_linesVars => AloneInv'
  BY OverlapStays, StepKeeps DEF AloneInv
<1> QED BY <1>1, <1>2, PTL DEF LinesSpec

-----------------------------------------------------------------------------
\* However re-maps overlap a run and one another

\* An open re-map: its own row is a row, and recompute has read that one.
GoodTx(t) ==
    /\ DOMAIN t = TxFields
    /\ t.pc \in {"idle", "checked", "updated", "recompute"}
    /\ t.pc # "idle" => t.line \in Lines /\ t.dto \in Dtos
    /\ \A l \in DOMAIN t.own : l \in Lines /\ IsRow(t.own[l])
    /\ t.pc = "recompute" => AreRows(t.seen) /\ \A l \in DOMAIN t.own : t.seen[l] = t.own[l]

GoodRun(r) ==
    /\ DOMAIN r = {"pc", "seen", "at", "todo"}
    /\ r.pc \in {"idle", "match", "price", "priced", "policy", "score"}

\* The quote's half of QuoteShowsLines.
QuoteSays(q, ls) == IF q = Null THEN Priceable(ls) = {} \/ ~AllEuro(ls) ELSE QuoteAgrees(q, ls)

\* As long as no writer of the quote missed anything, only lines that can be
\* priced carry a price, and outside matching the quote says what the lines say.
ApartInv ==
    ~crossed => UnitInv /\ (run.pc \notin {"match", "price"} => QuoteSays(quote, line))

OInv ==
    /\ AreRows(line) /\ GoodRun(run)
    /\ DOMAIN tx = Users /\ \A u \in Users : GoodTx(tx[u])
    /\ ApartInv

\* What the quote says depends on products, quantities and prices only.
LEMMA SaysSame ==
    ASSUME NEW q, NEW old, NEW new,
           \A l \in Lines : new[l].sku = old[l].sku /\ new[l].qty = old[l].qty,
           \A l \in Priceable(old) : new[l].unit = old[l].unit, QuoteSays(q, old)
    PROVE  QuoteSays(q, new)
<1>1. Priceable(new) = Priceable(old)
  BY SamePriceable
<1>2. AllEuro(new) <=> AllEuro(old)
  BY <1>1 DEF AllEuro, Priceable
<1>3. QuoteAgrees(q, old) => QuoteAgrees(q, new)
  BY <1>1 DEF QuoteAgrees, Priceable
<1> QED BY <1>1, <1>2, <1>3 DEF QuoteSays

\* A step of the run that reads, or ends it, moves nothing but the run.
LEMMA RunMoves ==
    ASSUME OInv, UNCHANGED <<line, quote, tx, crossed>>, GoodRun(run'),
           run'.pc \notin {"match", "price"} => run.pc \notin {"match", "price"}
    PROVE  OInv'
BY DEF OInv, ApartInv, AreRows, IsRow, GoodTx, GoodRun, UnitInv, QuoteSays, QuoteAgrees, AllEuro,
       Priceable

\* A step of a re-map before its commit moves nothing but the re-map.
LEMMA TxMoves ==
    ASSUME OInv, UNCHANGED <<line, quote, run, crossed>>, NEW u \in Users, NEW new, GoodTx(new),
           tx' = [tx EXCEPT ![u] = new]
    PROVE  OInv'
<1>1. DOMAIN tx' = Users /\ \A v \in Users : GoodTx(tx'[v])
  BY DEF OInv
<1>2. ApartInv'
  BY DEF OInv, ApartInv, UnitInv, QuoteSays, QuoteAgrees, AllEuro, Priceable
<1>3. AreRows(line') /\ GoodRun(run')
  BY DEF OInv, AreRows, IsRow, GoodRun
<1> QED BY <1>1, <1>2, <1>3 DEF OInv, AreRows, IsRow, GoodRun, GoodTx

LEMMA RunReadsApart ==
    ASSUME OInv, StartRun \/ PriceRead \/ PolicyRead \/ ScoreWrite \/ \E l \in Lines : SkipLine(l)
    PROVE  OInv'
<1>1. UNCHANGED <<line, quote, tx, crossed>>
  BY DEF StartRun, PriceRead, PolicyRead, ScoreWrite, SkipLine
<1>2. GoodRun(run)
  BY DEF OInv
<1>3. CASE StartRun
  <2>1. DOMAIN run' = {"pc", "seen", "at", "todo"} /\ run'.pc = "match"
    BY <1>3 DEF StartRun, NoRun
  <2> QED BY <1>1, <2>1, RunMoves DEF GoodRun
<1>4. CASE PriceRead
  <2>1. DOMAIN run' = {"pc", "seen", "at", "todo"} /\ run'.pc = "price"
    BY <1>2, <1>4 DEF PriceRead, GoodRun
  <2> QED BY <1>1, <2>1, RunMoves DEF GoodRun
<1>5. CASE PolicyRead
  <2>1. DOMAIN run' = {"pc", "seen", "at", "todo"} /\ run'.pc = "policy" /\ run.pc = "priced"
    BY <1>2, <1>5 DEF PolicyRead, GoodRun
  <2> QED BY <1>1, <2>1, RunMoves DEF GoodRun
<1>6. CASE ScoreWrite
  <2>1. DOMAIN run' = {"pc", "seen", "at", "todo"} /\ run'.pc = "idle" /\ run.pc = "score"
    BY <1>6 DEF ScoreWrite, NoRun
  <2> QED BY <1>1, <2>1, RunMoves DEF GoodRun
<1>7. CASE \E l \in Lines : SkipLine(l)
  <2>1. DOMAIN run' = {"pc", "seen", "at", "todo"} /\ run'.pc = "match"
    BY <1>2, <1>7 DEF SkipLine, GoodRun
  <2> QED BY <1>1, <2>1, RunMoves DEF GoodRun
<1> QED BY <1>3, <1>4, <1>5, <1>6, <1>7

\* A match gives a line a product, and takes none away.
LEMMA MatchLineApart == ASSUME OInv, NEW l \in Lines, MatchLine(l) PROVE OInv'
<1>1. run.pc = "match" /\ UNCHANGED <<quote, tx, crossed>>
  BY DEF MatchLine
<1>2. PICK c \in Candidates[l] :
        line' = [line EXCEPT ![l].sku = c[1], ![l].conf = c[2],
                             ![l].flags = run.seen[l].flags
                                          \union (IF c[3] THEN {"close_tie"} ELSE {})]
  BY DEF MatchLine
<1>3. DOMAIN run' = {"pc", "seen", "at", "todo"} /\ run'.pc = "match"
  BY <1>1 DEF MatchLine, OInv, GoodRun
<1>4. AreRows(line) /\ IsRow(line[l]) /\ c[1] # Null /\ c[2] \in Nat
  BY LinePricingAssumption DEF OInv, AreRows
<1> DEFINE sku == c[1]  conf == c[2]
           flags == run.seen[l].flags \union (IF c[3] THEN {"close_tie"} ELSE {})
           row == [line[l] EXCEPT !.sku = sku, !.conf = conf, !.flags = flags]
<1>5. line' = [line EXCEPT ![l] = row]
  <2> HIDE DEF sku, conf, flags
  <2>1. line' = [line EXCEPT ![l].sku = sku, ![l].conf = conf, ![l].flags = flags]
    BY <1>2, Zenon DEF sku, conf, flags
  <2> QED BY <2>1, <1>4 DEF AreRows, IsRow, RowFields
<1>6. IsRow(row) /\ row.unit = line[l].unit /\ row.qty = line[l].qty /\ row.sku # Null
  <2>1. conf \in Nat /\ sku # Null
    BY <1>4
  <2> HIDE DEF sku, conf, flags
  <2> QED BY <1>4, <2>1 DEF IsRow, RowFields
<1> HIDE DEF row
<1>7. /\ line'[l] = row
      /\ \A k \in Lines \ {l} : line'[k] = line[k]
      /\ AreRows(line')
  BY <1>4, <1>5, <1>6 DEF AreRows
<1>8. UnitInv => UnitInv'
  BY <1>6, <1>7 DEF UnitInv, Priceable
<1>9. ApartInv'
  BY <1>1, <1>3, <1>8 DEF OInv, ApartInv
<1> QED BY <1>1, <1>3, <1>7, <1>9 DEF OInv, GoodRun, GoodTx, AreRows, IsRow

\* With nothing to price the quote goes.
LEMMA PriceNothingApart == ASSUME OInv, PriceNothing PROVE OInv'
<1>1. /\ run.pc = "price" /\ UNCHANGED <<line, tx>> /\ quote' = Null
      /\ ~(Priceable(run.seen) # {} /\ AllEuro(run.seen))
      /\ crossed' = (crossed \/ Differ(run.seen, line))
  BY DEF PriceNothing
<1>2. DOMAIN run' = {"pc", "seen", "at", "todo"} /\ run'.pc = "priced"
  BY <1>1 DEF PriceNothing, OInv, GoodRun
<1>3. ASSUME ~crossed' PROVE UnitInv' /\ QuoteSays(Null, line')
  <2>1. ~crossed /\ \A l \in Lines : line[l].sku = run.seen[l].sku /\ line[l].qty = run.seen[l].qty
    BY <1>1, <1>3 DEF Differ
  <2>2. UnitInv'
    BY <1>1, <2>1 DEF OInv, ApartInv, UnitInv, Priceable
  <2>3. Priceable(line) = Priceable(run.seen)
    BY <2>1, SamePriceable
  <2>4. Priceable(line) = {} \/ ~AllEuro(line)
    BY <1>1, <2>1, <2>3 DEF AllEuro, Priceable
  <2> QED BY <1>1, <2>2, <2>4 DEF QuoteSays
<1>4. ApartInv'
  BY <1>1, <1>3 DEF ApartInv
<1> QED BY <1>1, <1>2, <1>4 DEF OInv, GoodRun, GoodTx, AreRows, IsRow

\* Prices and quote of lines whose products and quantities nobody has changed.
LEMMA PriceWriteApart == ASSUME NullIsNoFunction, OInv, PriceWrite PROVE OInv'
<1> DEFINE q == QuoteOf(run.seen, {}, run.at)
           flags(l) == WithFlag(run.seen[l].flags, "pricing_blocked", Blocked(run.seen))
           row(l) == [line[l] EXCEPT !.unit = q[l].unit, !.flags = flags(l)]
<1>1. run.pc = "price" /\ UNCHANGED tx /\ quote' = q /\ crossed' = (crossed \/ Differ(run.seen, line))
  BY Zenon DEF PriceWrite
<1>2. line' = [l \in Lines |-> IF l \notin DOMAIN q THEN line[l] ELSE row(l)]
  BY Zenon DEF PriceWrite
<1>3. DOMAIN run' = {"pc", "seen", "at", "todo"} /\ run'.pc = "priced"
  BY <1>1 DEF PriceWrite, OInv, GoodRun
<1>4. /\ DOMAIN q = Priceable(run.seen)
      /\ \A l \in Priceable(run.seen) : q[l].sku = run.seen[l].sku /\ q[l].qty = run.seen[l].qty
  BY QuoteLists
<1>5. q # Null
  <2>1. q \in [Priceable(run.seen) -> {q[l] : l \in Priceable(run.seen)}]
    BY DEF QuoteOf
  <2> QED BY <2>1 DEF NullIsNoFunction
<1>6. AreRows(line)
  BY DEF OInv
<1> HIDE DEF q, flags
<1>7. \A l \in Lines : /\ IsRow(row(l)) /\ row(l).sku = line[l].sku
                       /\ row(l).qty = line[l].qty /\ row(l).unit = q[l].unit
  BY <1>6 DEF AreRows, IsRow, RowFields
<1> HIDE DEF row
<1>8. /\ AreRows(line')
      /\ \A l \in Lines : line'[l].sku = line[l].sku /\ line'[l].qty = line[l].qty
      /\ \A l \in Lines : IF l \in DOMAIN q THEN line'[l].unit = q[l].unit
                          ELSE line'[l].unit = line[l].unit
  BY <1>2, <1>6, <1>7 DEF AreRows
<1>9. ASSUME ~crossed' PROVE UnitInv' /\ QuoteSays(q, line')
  <2>1. ~crossed /\ \A l \in Lines : line[l].sku = run.seen[l].sku /\ line[l].qty = run.seen[l].qty
    BY <1>1, <1>9 DEF Differ
  <2>2. Priceable(line) = Priceable(run.seen) /\ Priceable(line') = Priceable(line)
    BY <2>1, <1>8, SamePriceable
  <2>3. UnitInv
    BY <2>1 DEF OInv, ApartInv
  <2>4. UnitInv'
    BY <1>4, <1>8, <2>2, <2>3 DEF UnitInv
  <2>5. QuoteAgrees(q, line')
    BY <1>4, <1>8, <2>1, <2>2 DEF QuoteAgrees, Priceable
  <2> QED BY <1>5, <2>4, <2>5 DEF QuoteSays
<1>10. ApartInv'
  BY <1>1, <1>9 DEF ApartInv
<1> QED BY <1>1, <1>3, <1>8, <1>10 DEF OInv, GoodRun, GoodTx, AreRows, IsRow

\* The policy writes flags, which neither the quote nor a price depends on.
LEMMA PolicyWriteApart == ASSUME OInv, PolicyWrite PROVE OInv'
<1>1. run.pc = "policy" /\ UNCHANGED <<quote, tx, crossed>>
  BY DEF PolicyWrite
<1>2. DOMAIN run' = {"pc", "seen", "at", "todo"} /\ run'.pc = "score"
  BY <1>1 DEF PolicyWrite, OInv, GoodRun
<1> DEFINE flags(x) == (x.flags \ PolicyManagedFlags)
                       \union (IF x.sku = Null \/ x.unit = Null THEN {}
                               ELSE PolicyFlags([base |-> run.at[x.sku], cost |-> Cost[x.sku],
                                                 unit |-> x.unit], rules))
           changed == {l \in Lines : flags(run.seen[l]) # run.seen[l].flags}
           row(l) == [line[l] EXCEPT !.flags = flags(run.seen[l])]
<1>3. line' = [l \in Lines |-> IF l \in changed THEN row(l) ELSE line[l]]
  BY Zenon DEF PolicyWrite
<1> HIDE DEF flags
<1>4. \A l \in Lines : /\ IsRow(row(l)) /\ row(l).sku = line[l].sku
                       /\ row(l).qty = line[l].qty /\ row(l).unit = line[l].unit
  BY DEF OInv, AreRows, IsRow, RowFields
<1> HIDE DEF changed, row
<1>5. /\ AreRows(line')
      /\ \A l \in Lines : /\ line'[l].sku = line[l].sku /\ line'[l].qty = line[l].qty
                          /\ line'[l].unit = line[l].unit
  BY <1>3, <1>4 DEF OInv, AreRows
<1>6. UnitInv => UnitInv'
  BY <1>5, SamePriceable DEF UnitInv
<1>7. QuoteSays(quote, line) => QuoteSays(quote, line')
  BY <1>5, SaysSame DEF Priceable
<1>8. ApartInv'
  BY <1>1, <1>6, <1>7 DEF OInv, ApartInv
<1> QED BY <1>1, <1>2, <1>5, <1>8 DEF OInv, GoodRun, GoodTx, AreRows, IsRow

\* A re-map reads its line, takes it, reads the others, or is rolled back.
LEMMA RemapMovesApart ==
    ASSUME OInv, NEW u \in Users,
           (\E l \in Lines, d \in Dtos : RemapStart(u, l, d)) \/ RemapUpdate(u) \/ RemapRead(u)
             \/ RemapFails(u)
    PROVE  OInv'
<1>1. UNCHANGED <<line, quote, run, crossed>>
  BY DEF RemapStart, RemapUpdate, RemapRead, RemapFails
<1>2. GoodTx(tx[u]) /\ AreRows(line) /\ DOMAIN tx = Users
  BY DEF OInv
<1>3. DOMAIN NoTx = TxFields /\ NoTx.pc = "idle" /\ DOMAIN NoTx.own = {}
  BY DEF NoTx, TxFields
<1>4. CASE \E l \in Lines, d \in Dtos : RemapStart(u, l, d)
  <2>1. PICK l \in Lines, d \in Dtos : RemapStart(u, l, d)
    BY <1>4
  <2> DEFINE new == [NoTx EXCEPT !.pc = "checked", !.line = l, !.dto = d, !.seen = line[l]]
  <2>2. tx' = [tx EXCEPT ![u] = new]
    BY <2>1 DEF RemapStart
  <2>3. /\ DOMAIN new = TxFields /\ new.pc = "checked" /\ new.line = l /\ new.dto = d
        /\ DOMAIN new.own = {}
    BY DEF NoTx, TxFields
  <2> HIDE DEF new
  <2>4. GoodTx(new)
    BY <2>3 DEF GoodTx
  <2> QED BY <1>1, <2>2, <2>4, TxMoves
<1>5. CASE RemapUpdate(u)
  <2> DEFINE l == tx[u].line
             own == [k \in {l} |-> Updated(line[k], tx[u].seen, tx[u].dto)]
             new == [tx[u] EXCEPT !.pc = "updated", !.own = own]
  <2>1. tx[u].pc = "checked" /\ tx' = [tx EXCEPT ![u].pc = "updated", ![u].own = own]
    BY <1>5, Zenon DEF RemapUpdate
  <2>2. l \in Lines /\ tx[u].dto \in Dtos /\ IsRow(line[l])
    BY <1>2, <2>1 DEF GoodTx, AreRows
  <2>3. DOMAIN own = {l} /\ IsRow(own[l])
    BY <2>2, UpdatedIsRow
  <2> HIDE DEF own
  <2>4. tx' = [tx EXCEPT ![u] = new]
    BY <1>2, <2>1
  <2>5. /\ DOMAIN new = TxFields /\ new.pc = "updated" /\ new.line = l
        /\ new.dto = tx[u].dto /\ new.own = own
    BY <1>2 DEF GoodTx, TxFields
  <2> HIDE DEF new
  <2>6. GoodTx(new)
    BY <2>2, <2>3, <2>5 DEF GoodTx
  <2> QED BY <1>1, <2>4, <2>6, TxMoves
<1>6. CASE RemapRead(u)
  <2> DEFINE see == Visible(u)
             new == [tx[u] EXCEPT !.pc = "recompute", !.seen = see, !.at = price]
  <2>1. tx[u].pc = "updated" /\ tx' = [tx EXCEPT ![u].pc = "recompute", ![u].seen = see, ![u].at = price]
    BY <1>6 DEF RemapRead
  <2>2. AreRows(see) /\ \A l \in DOMAIN tx[u].own : see[l] = tx[u].own[l]
    BY <1>2 DEF Visible, GoodTx, AreRows
  <2> HIDE DEF see
  <2>3. tx' = [tx EXCEPT ![u] = new]
    BY <1>2, <2>1
  <2>4. /\ DOMAIN new = TxFields /\ new.pc = "recompute" /\ new.line = tx[u].line
        /\ new.dto = tx[u].dto /\ new.own = tx[u].own /\ new.seen = see
    BY <1>2 DEF GoodTx, TxFields
  <2> HIDE DEF new
  <2>5. GoodTx(new)
    BY <1>2, <2>1, <2>2, <2>4 DEF GoodTx
  <2> QED BY <1>1, <2>3, <2>5, TxMoves
<1>7. CASE RemapFails(u)
  <2>1. tx' = [tx EXCEPT ![u] = NoTx]
    BY <1>7 DEF RemapFails
  <2>2. GoodTx(NoTx)
    BY <1>3 DEF GoodTx
  <2> QED BY <1>1, <2>1, <2>2, TxMoves
<1> QED BY <1>4, <1>5, <1>6, <1>7

\* A commit leaves the quote of what it saw: of what there is, unless somebody has
\* changed a product or a quantity since, and then it says so.
LEMMA RemapCommitApart == ASSUME NullIsNoFunction, OInv, NEW u \in Users, RemapCommit(u) PROVE OInv'
<1> DEFINE seen == tx[u].seen
           now == Visible(u)
           r   == Recomputed(seen, tx[u].at)
           row(l) == [now[l] EXCEPT !.unit = r.written[l].unit, !.flags = r.written[l].flags]
<1>1. /\ tx[u].pc = "recompute" /\ tx' = [tx EXCEPT ![u] = NoTx] /\ UNCHANGED run
      /\ AllEuro(seen)
  BY DEF RemapCommit
<1>2. /\ quote' = IF DOMAIN r.quote = {} THEN Null ELSE r.quote
      /\ line' = [l \in Lines |-> IF l \in DOMAIN r.written THEN row(l) ELSE now[l]]
      /\ crossed' = (seen # now /\ (crossed \/ Differ(seen, now)))
  BY Zenon DEF RemapCommit
<1>3. /\ GoodTx(tx[u]) /\ AreRows(line) /\ DOMAIN tx = Users
      /\ AreRows(seen) /\ \A l \in DOMAIN tx[u].own : seen[l] = tx[u].own[l]
  BY <1>1 DEF OInv, GoodTx
<1>4. AreRows(now)
  BY <1>3 DEF Visible, GoodTx, AreRows
<1>5. \A l \in Lines : now[l] = seen[l] \/ now[l] = line[l]
  BY <1>3 DEF Visible
<1>6. /\ DOMAIN r.quote = Priceable(seen)
      /\ \A l \in Priceable(seen) :
           /\ l \in DOMAIN r.written
           /\ r.quote[l].sku = seen[l].sku /\ r.quote[l].qty = seen[l].qty
           /\ r.written[l].unit = r.quote[l].unit
      /\ \A l \in Lines \ Priceable(seen) :
           IF l \in DOMAIN r.written THEN r.written[l].unit = Null ELSE seen[l].unit = Null
  BY <1>3, RecomputedLines
<1>7. r.quote # Null
  <2> DEFINE kept == {l \in Priceable(seen) : Overridden(seen[l])}
             q == QuoteOf(seen, kept, tx[u].at)
  <2>1. r.quote = q
    BY Zenon DEF Recomputed
  <2>2. q \in [Priceable(seen) -> {q[l] : l \in Priceable(seen)}]
    BY DEF QuoteOf
  <2> QED BY <2>1, <2>2 DEF NullIsNoFunction
<1>8. GoodTx(NoTx)
  BY DEF NoTx, GoodTx, TxFields
<1> HIDE DEF seen, now, r
<1>9. \A l \in Lines : /\ IsRow(row(l)) /\ row(l).sku = now[l].sku /\ row(l).qty = now[l].qty
                       /\ row(l).unit = r.written[l].unit
  BY <1>4 DEF AreRows, IsRow, RowFields
<1> HIDE DEF row
<1>10. /\ AreRows(line')
       /\ \A l \in Lines :
            /\ line'[l].sku = now[l].sku /\ line'[l].qty = now[l].qty
            /\ line'[l].unit = IF l \in DOMAIN r.written THEN r.written[l].unit ELSE now[l].unit
  BY <1>2, <1>4, <1>9 DEF AreRows
<1>11. ASSUME ~crossed' PROVE UnitInv' /\ QuoteSays(quote', line')
  <2>1. seen = now \/ (~crossed /\ ~Differ(seen, now))
    BY <1>2, <1>11
  <2>2. \A l \in Lines : now[l].sku = seen[l].sku /\ now[l].qty = seen[l].qty
    BY <2>1 DEF Differ
  <2>3. Priceable(now) = Priceable(seen) /\ Priceable(line') = Priceable(now)
    BY <1>10, <2>2, SamePriceable
  <2>4. Priceable(seen) \subseteq Lines
    BY DEF Priceable
  <2>5. ASSUME NEW l \in Lines \ Priceable(seen) PROVE line'[l].unit = Null
    <3>1. CASE l \in DOMAIN r.written
      BY <1>6, <1>10, <2>5, <3>1
    <3>2. CASE l \notin DOMAIN r.written
      <4>1. seen[l].unit = Null /\ line'[l].unit = now[l].unit
        BY <1>6, <1>10, <2>5, <3>2
      <4>2. CASE now[l] = seen[l]
        BY <4>1, <4>2
      <4>3. CASE now[l] # seen[l]
        <5>1. now[l] = line[l] /\ ~crossed
          BY <1>5, <2>1, <4>3
        <5>2. l \notin Priceable(line)
          BY <2>3, <2>5, <5>1 DEF Priceable
        <5>3. line[l].unit = Null
          BY <2>5, <5>1, <5>2 DEF OInv, ApartInv, UnitInv
        <5> QED BY <4>1, <5>1, <5>3
      <4> QED BY <4>2, <4>3
    <3> QED BY <3>1, <3>2
  <2>6. UnitInv'
    BY <2>3, <2>5 DEF UnitInv
  <2>7. QuoteAgrees(r.quote, line')
    BY <1>6, <1>10, <2>2, <2>3, <2>4 DEF QuoteAgrees
  <2>8. QuoteSays(quote', line')
    BY <1>2, <1>6, <1>7, <2>3, <2>7 DEF QuoteSays
  <2> QED BY <2>6, <2>8
<1>12. ApartInv'
  BY <1>11 DEF ApartInv
<1>13. DOMAIN tx' = Users /\ \A v \in Users : GoodTx(tx'[v])
  BY <1>1, <1>3, <1>8 DEF OInv
<1> QED BY <1>1, <1>10, <1>12, <1>13 DEF OInv, GoodRun, GoodTx, AreRows, IsRow

\* Every step keeps the second invariant, whoever acts beside whom.
LEMMA StepKeepsApart == ASSUME NullIsNoFunction, OInv, [LinesNext]_linesVars PROVE OInv'
<1>1. CASE StartRun \/ PriceRead \/ PolicyRead \/ ScoreWrite \/ \E l \in Lines : SkipLine(l)
  BY <1>1, RunReadsApart
<1>2. CASE \E l \in Lines : MatchLine(l)
  BY <1>2, MatchLineApart
<1>3. CASE PriceNothing \/ PriceWrite \/ PolicyWrite
  BY <1>3, PriceNothingApart, PriceWriteApart, PolicyWriteApart
<1>4. CASE \/ \E u \in Users, l \in Lines, d \in Dtos : RemapStart(u, l, d)
           \/ \E u \in Users : RemapUpdate(u) \/ RemapRead(u) \/ RemapFails(u)
  BY <1>4, RemapMovesApart
<1>5. CASE \E u \in Users : RemapCommit(u)
  BY <1>5, RemapCommitApart
<1>6. CASE (\E s \in Skus : EditPrice(s)) \/ UNCHANGED linesVars
  <2>1. UNCHANGED <<line, quote, run, tx, crossed>>
    BY <1>6 DEF EditPrice, linesVars
  <2> QED BY <2>1, RunMoves DEF OInv, GoodRun
<1> QED BY <1>1, <1>2, <1>3, <1>4, <1>5, <1>6 DEF LinesNext

\* However runs and re-maps overlap, quote and lines agree outside matching, unless
\* a writer of the quote missed a product or a quantity that somebody had changed
\* since it read (PriceNode and QuoteRecomputeService): whatever the catalogue,
\* the rules, the lines and the number of estimators.
THEOREM QuoteAndLinesAgree == ASSUME NullIsNoFunction PROVE LinesSpec => []QuoteMatchesLines
<1>1. LinesInit => OInv
  <2> SUFFICES ASSUME LinesInit PROVE OInv
    OBVIOUS
  <2>1. /\ quote = Null /\ run = NoRun /\ line \in InitialLines
        /\ tx = [u \in Users |-> NoTx]
    BY DEF LinesInit
  <2>2. GoodTx(NoTx) /\ GoodRun(NoRun)
    BY DEF NoTx, GoodTx, TxFields, NoRun, GoodRun
  <2>3. line \in [Lines -> [sku : {Null}, qty : {Null} \cup Nat, unit : {Null},
                            conf : {Null}, flags : {{}}]]
    BY <2>1, LinePricingAssumption
  <2>4. AreRows(line) /\ \A l \in Lines : line[l].unit = Null /\ line[l].sku = Null
    BY <2>3 DEF AreRows, IsRow, RowFields
  <2>5. UnitInv /\ QuoteSays(quote, line)
    BY <2>1, <2>4 DEF UnitInv, QuoteSays, Priceable
  <2> QED BY <2>1, <2>2, <2>4, <2>5 DEF OInv, ApartInv
<1>2. OInv /\ [LinesNext]_linesVars => OInv'
  BY StepKeepsApart
<1>3. OInv => QuoteMatchesLines
  BY DEF OInv, ApartInv, UnitInv, QuoteSays, QuoteAgrees, QuoteMatchesLines, QuoteShowsLines
<1> QED BY <1>1, <1>2, <1>3, PTL DEF LinesSpec

-----------------------------------------------------------------------------
\* What the invariant shows

\* What one re-map that commits does to a manual price it does not speak of.
LEMMA CommitKeepsPrice ==
    ASSUME IInv, NEW u \in Users, RemapCommit(u), NEW l \in Lines,
           Overridden(line[l]), line'[l].qty \notin {Null, 0}, line'[l].sku # Null,
           ~(tx[u].line = l /\ (tx[u].dto.unit # Absent \/ tx[u].dto.override = FALSE))
    PROVE  line'[l].unit = line[l].unit /\ Overridden(line'[l])
<1> DEFINE now == Visible(u)
           r   == Recomputed(now, tx[u].at)
<1>1. tx[u].pc = "recompute"
  BY DEF RemapCommit
<1>2. /\ AreRows(now) /\ tx[u].dto \in Dtos
      /\ now[l] = IF l = tx[u].line THEN Updated(line[l], line[l], tx[u].dto) ELSE line[l]
  BY <1>1, SeenByRemap
<1>3. now[l].unit = line[l].unit /\ Overridden(now[l])
  <2>1. CASE l = tx[u].line
    <3>1. tx[u].dto.unit = Absent /\ tx[u].dto.override # FALSE
      BY <2>1
    <3> QED BY <1>2, <2>1, <3>1, UpdatedKeepsPrice
  <2>2. CASE l # tx[u].line
    BY <1>2, <2>2
  <2> QED BY <2>1, <2>2
<1>4. /\ line'[l].sku = now[l].sku /\ line'[l].qty = now[l].qty
      /\ l \in DOMAIN r.written => /\ line'[l].unit = r.written[l].unit
                                   /\ line'[l].flags = r.written[l].flags
  BY CommittedLines
<1>5. \A k \in Priceable(now) :
        /\ k \in DOMAIN r.written
        /\ Overridden(now[k]) => /\ r.written[k].unit = now[k].unit
                                 /\ Overridden(r.written[k])
  BY <1>2, RecomputedLines
<1> HIDE DEF now, r
<1>6. l \in Priceable(now)
  BY <1>2, <1>4 DEF AreRows, IsRow, Priceable
<1>7. /\ r.written[l].unit = line[l].unit /\ Overridden(r.written[l])
      /\ line'[l].unit = r.written[l].unit /\ line'[l].flags = r.written[l].flags
  BY <1>3, <1>4, <1>5, <1>6
<1> QED BY <1>7 DEF Overridden

\* A price an estimator set by hand survives every later re-map that neither
\* enters a price for the line nor ends its override (buildUpdate, isOverridden,
\* clearLinePricing).
THEOREM ManualPricesSurvive == LinesSpec => ManualPriceKept
<1> DEFINE Kept ==
      \A u \in Users, l \in Lines :
         /\ ~Overlap /\ tx[u].pc = "recompute" /\ tx'[u].pc = "idle" /\ line' # line
         /\ Overridden(line[l]) /\ line'[l].qty \notin {Null, 0} /\ line'[l].sku # Null
         /\ ~(tx[u].line = l /\ (tx[u].dto.unit # Absent \/ tx[u].dto.override = FALSE))
         => line'[l].unit = line[l].unit /\ Overridden(line'[l])
<1>1. AloneInv /\ [LinesNext]_linesVars => [Kept]_linesVars
  <2> SUFFICES ASSUME IInv, LinesNext, NEW u \in Users, NEW l \in Lines,
                      tx[u].pc = "recompute", tx'[u].pc = "idle", line' # line,
                      Overridden(line[l]), line'[l].qty \notin {Null, 0}, line'[l].sku # Null,
                      ~(tx[u].line = l /\ (tx[u].dto.unit # Absent \/ tx[u].dto.override = FALSE))
               PROVE  line'[l].unit = line[l].unit /\ Overridden(line'[l])
    BY DEF AloneInv
  <2>1. run.pc = "idle" /\ \A v \in Users \ {u} : tx[v].pc = "idle"
    BY RemapIsAlone
  <2>2. \A v \in Users : RemapCommit(v) => v = u
    BY <2>1 DEF RemapCommit
  <2>3. \E v \in Users : RemapCommit(v)
    BY <2>1 DEF LinesNext, StartRun, MatchLine, SkipLine, PriceRead, PriceNothing, PriceWrite,
                PolicyRead, PolicyWrite, ScoreWrite, RemapStart, RemapUpdate, RemapRead,
                RemapFails, EditPrice
  <2>4. RemapCommit(u)
    BY <2>2, <2>3
  <2> QED BY <2>4, CommitKeepsPrice
<1>2. LinesSpec => [][Kept]_linesVars
  BY <1>1, LinesStaySound, PTL DEF LinesSpec
<1> QED BY <1>2 DEF ManualPriceKept

-----------------------------------------------------------------------------
\* The least of a set, and the scores a run acts on

\* A finite set of naturals with a member has a least one, which Min returns.
LEMMA MinOfNats ==
    ASSUME NEW S \in SUBSET Nat, S # {}
    PROVE  Min(S) \in S /\ \A x \in S : Min(S) <= x
<1>1. PICK m \in S : \A y \in S : ~(<<y, m>> \in OpToRel(<, Nat))
  BY NatLessThanWellFounded, WFMin
<1>2. \A x, y \in Nat : x < y => <<x, y>> \in OpToRel(<, Nat)
  BY DEF OpToRel
<1>3. \A y \in S : ~(y < m)
  BY <1>1, <1>2, Zenon
<1>4. \A y \in S : m <= y
  BY <1>3
<1> QED BY <1>4 DEF Min

\* Of two naturals Max returns the greater.
LEMMA MaxOfTwo ==
    ASSUME NEW a \in Nat, NEW b \in Nat
    PROVE  Max({a, b}) \in {a, b} /\ Max({a, b}) >= a /\ Max({a, b}) >= b
<1>1. \E x \in {a, b} : \A y \in {a, b} : x >= y
  OBVIOUS
<1> QED BY <1>1 DEF Max

\* The lines of a request as a sequence leave none out.
LEMMA EveryLineListed ==
    ASSUME NEW S, IsFiniteSet(S)
    PROVE  ToSet(SetToSeq(S)) = S
<1> DEFINE ids == SetToSeq(S)
           n   == Cardinality(S)
<1>1. n \in Nat /\ ExistsBijection(1..n, S)
  BY FS_CardinalityType
<1>2. ids \in [1..n -> S] /\ IsInjective(ids)
  <2>1. PICK f \in [1..n -> S] : f \in Injection(1..n, S)
    BY <1>1 DEF ExistsBijection, Bijection, Injection
  <2>2. IsInjective(f)
    BY <2>1 DEF Injection
  <2> QED BY <2>2 DEF SetToSeq
<1> HIDE DEF ids
<1>3. ids \in Injection(1..n, S)
  BY <1>2 DEF Injection
<1>4. Cardinality(1..n) = n
  BY <1>1, FS_Interval
<1>5. ids \in Surjection(1..n, S)
  BY <1>3, <1>4, FS_Injection
<1>6. \A l \in S : \E i \in DOMAIN ids : ids[i] = l
  BY <1>2, <1>5 DEF Surjection
<1>7. \A i \in DOMAIN ids : ids[i] \in S
  BY <1>2
<1> QED BY <1>6, <1>7 DEF ToSet, ids

-----------------------------------------------------------------------------
\* The score of lines with any confidences is the least of three parts, of which
\* the first is no higher than any line's.
ScoreParameters(t) == \A f \in {"auto", "unmatched", "flagged", "exceeded"} : t[f] \in Nat

LEMMA ScoreIsLeast ==
    ASSUME NEW lines, \A x \in ToSet(lines) : x.confidence \in {Null} \cup Nat,
           NEW t, ScoreParameters(t)
    PROVE  /\ LineConfidence(lines, t) \in 0 .. 100
           /\ \A x \in ToSet(lines) : LineConfidence(lines, t) <= OrElse(x.confidence, t.unmatched)
           /\ LET parts == {LineConfidence(lines, t), ComplianceFactor(lines, t), DealValueFactor(lines, t)}
              IN  /\ parts \subseteq Nat /\ Confidence(lines, t) \in parts
                  /\ \A p \in parts : Confidence(lines, t) <= p
<1> DEFINE said(x) == OrElse(x.confidence, t.unmatched)
           all == {100} \union {said(x) : x \in ToSet(lines)}
           parts == {LineConfidence(lines, t), ComplianceFactor(lines, t), DealValueFactor(lines, t)}
<1>1. t.auto \in Nat /\ t.unmatched \in Nat /\ t.flagged \in Nat /\ t.exceeded \in Nat
  BY DEF ScoreParameters
<1>2. all \in SUBSET Nat /\ all # {}
  BY <1>1 DEF OrElse
<1>3. LineConfidence(lines, t) = Max({0, Min(all)})
  BY DEF LineConfidence
<1>4. \A x \in ToSet(lines) : said(x) \in all
  OBVIOUS
<1>5. 100 \in all
  OBVIOUS
<1> HIDE DEF all
<1>6. Min(all) \in Nat /\ \A x \in all : Min(all) <= x
  BY <1>2, MinOfNats
<1>7. LineConfidence(lines, t) = Min(all)
  BY <1>3, <1>6, MaxOfTwo
<1>8. LineConfidence(lines, t) \in 0 .. 100
  BY <1>5, <1>6, <1>7
<1>9. \A x \in ToSet(lines) : LineConfidence(lines, t) <= said(x)
  BY <1>4, <1>6, <1>7
<1>10. parts \in SUBSET Nat /\ parts # {}
  BY <1>1, <1>8 DEF ComplianceFactor, DealValueFactor
<1>11. Confidence(lines, t) = Min(parts)
  BY DEF Confidence
<1> HIDE DEF parts
<1>12. Confidence(lines, t) \in parts /\ \A p \in parts : Confidence(lines, t) <= p
  BY <1>10, <1>11, MinOfNats
<1> QED BY <1>8, <1>9, <1>10, <1>12 DEF parts

\* An AUTO_ELIGIBLE verdict: no line has a flag that calls for a person, and none
\* was matched with less than the threshold.
LEMMA AutoMeansClear ==
    ASSUME NEW lines, \A x \in ToSet(lines) : x.confidence \in {Null} \cup Nat,
           NEW t, ScoreParameters(t), Score(lines, t).routing = "AUTO_ELIGIBLE"
    PROVE  /\ ~HardFlagged(lines)
           /\ \A x \in ToSet(lines) : OrElse(x.confidence, t.unmatched) >= t.auto
<1>1. Confidence(lines, t) >= t.auto /\ ~HardFlagged(lines)
  BY DEF Score
<1>2. /\ Confidence(lines, t) <= LineConfidence(lines, t)
      /\ Confidence(lines, t) \in Nat /\ LineConfidence(lines, t) \in Nat
      /\ \A x \in ToSet(lines) : LineConfidence(lines, t) <= OrElse(x.confidence, t.unmatched)
  BY ScoreIsLeast
<1>3. t.auto \in Nat /\ \A x \in ToSet(lines) : OrElse(x.confidence, t.unmatched) \in Nat
  BY DEF ScoreParameters, OrElse
<1> QED BY <1>1, <1>2, <1>3

\* With a cap, and a penalty below the threshold, every line has a price.
LEMMA AutoMeansWhole ==
    ASSUME NEW lines, \A x \in ToSet(lines) : x.confidence \in {Null} \cup Nat,
           NEW t, ScoreParameters(t), Score(lines, t).routing = "AUTO_ELIGIBLE",
           t.cap # Null, t.exceeded < t.auto
    PROVE  lines # <<>> /\ \A x \in ToSet(lines) : x.unit # Null
<1>1. Confidence(lines, t) >= t.auto /\ lines # <<>>
  BY DEF Score
<1>2. Confidence(lines, t) <= DealValueFactor(lines, t) /\ Confidence(lines, t) \in Nat
  BY ScoreIsLeast
<1>3. t.auto \in Nat /\ t.exceeded \in Nat
  BY DEF ScoreParameters
<1>4. Incomplete(lines) => DealValueFactor(lines, t) = t.exceeded
  BY DEF DealValueFactor
<1>5. ~Incomplete(lines)
  BY <1>1, <1>2, <1>3, <1>4
<1> QED BY <1>1, <1>5 DEF Incomplete

-----------------------------------------------------------------------------
\* What the policy looks at of a line, at the price list it read.
Judged(x, at) == [base |-> at[x.sku], cost |-> Cost[x.sku], unit |-> x.unit]

\* What price and policy have left behind for the score: the policy works from
\* what the lines hold; lines that can be priced are on a quote, flagged when it
\* was priced without rules; and every breach is a flag.
PricedInv ==
    run.pc \in {"priced", "policy", "score"} /\ AllEuro(line) =>
        \/ Priceable(line) = {}
        \/ /\ quote # Null
           /\ Blocked(line) => \A l \in Priceable(line) : "pricing_blocked" \in line[l].flags

FlaggedInv ==
    run.pc = "score" =>
        \A l \in Lines : line[l].sku # Null /\ line[l].unit # Null =>
            PolicyFlags(Judged(line[l], price), rules) \subseteq line[l].flags

ScoreInv ==
    /\ run.pc = "policy" => run.seen = line /\ run.at = price
    /\ PricedInv
    /\ FlaggedInv

\* Prices are written for every line that can be priced, and the flag with them.
LEMMA PriceWriteScores == ASSUME NullIsNoFunction, IInv, PriceWrite PROVE ScoreInv'
<1> DEFINE q == QuoteOf(run.seen, {}, run.at)
           flags(l) == WithFlag(run.seen[l].flags, "pricing_blocked", Blocked(run.seen))
           row(l) == [line[l] EXCEPT !.unit = q[l].unit, !.flags = flags(l)]
<1>1. run.pc = "price" /\ quote' = q /\ UNCHANGED rules
  BY Zenon DEF PriceWrite
<1>2. line' = [l \in Lines |-> IF l \notin DOMAIN q THEN line[l] ELSE row(l)]
  BY Zenon DEF PriceWrite
<1>3. run'.pc = "priced"
  BY <1>1 DEF PriceWrite, IInv, ShapeInv
<1>4. run.seen = line /\ AreRows(line)
  BY <1>1 DEF IInv, RunInv, ShapeInv
<1>5. DOMAIN q = Priceable(line)
  BY <1>4, QuoteLists
<1>6. quote' # Null
  <2>1. q \in [Priceable(run.seen) -> {q[l] : l \in Priceable(run.seen)}]
    BY DEF QuoteOf
  <2> QED BY <1>1, <2>1 DEF NullIsNoFunction
<1>7. \A l \in Lines : flags(l) = WithFlag(line[l].flags, "pricing_blocked", Blocked(line))
  BY <1>4
<1> HIDE DEF q, flags
<1>8. \A l \in Lines : /\ row(l).sku = line[l].sku /\ row(l).qty = line[l].qty
                       /\ row(l).flags = flags(l)
  BY <1>4 DEF AreRows, IsRow, RowFields
<1> HIDE DEF row
<1>9. /\ \A l \in Lines : line'[l].sku = line[l].sku /\ line'[l].qty = line[l].qty
      /\ \A l \in Priceable(line) : line'[l].flags = flags(l)
  BY <1>2, <1>5, <1>8 DEF Priceable
<1>10. Priceable(line') = Priceable(line)
  BY <1>9, SamePriceable
<1>11. Blocked(line)' <=> Blocked(line)
  BY <1>1, <1>10 DEF Blocked
<1>12. Blocked(line) => \A l \in Priceable(line) : "pricing_blocked" \in flags(l)
  BY <1>7 DEF WithFlag, Priceable
<1>13. PricedInv'
  BY <1>6, <1>9, <1>10, <1>11, <1>12 DEF PricedInv
<1> QED BY <1>3, <1>13 DEF ScoreInv, FlaggedInv

\* With nothing to price, or a product in another currency, no quote is promised.
LEMMA PriceNothingScores == ASSUME IInv, PriceNothing PROVE ScoreInv'
<1>1. run.pc = "price" /\ UNCHANGED line
  BY DEF PriceNothing
<1>2. run.seen = line
  BY <1>1 DEF IInv, RunInv
<1>3. run'.pc = "priced"
  BY <1>1 DEF PriceNothing, IInv, ShapeInv
<1>4. AllEuro(line') => Priceable(line') = {}
  BY <1>1, <1>2 DEF PriceNothing, AllEuro, Priceable
<1> QED BY <1>3, <1>4 DEF ScoreInv, PricedInv, FlaggedInv

\* The policy node reads lines and prices as they are.
LEMMA PolicyReadScores == ASSUME IInv, ScoreInv, PolicyRead PROVE ScoreInv'
<1>1. run.pc = "priced" /\ UNCHANGED <<line, quote, price, rules>>
  BY DEF PolicyRead
<1>2. run'.pc = "policy" /\ run'.seen = line /\ run'.at = price
  BY <1>1 DEF PolicyRead, IInv, ShapeInv
<1>3. PricedInv'
  BY <1>1, <1>2 DEF ScoreInv, PricedInv, AllEuro, Priceable, Blocked
<1> QED BY <1>1, <1>2, <1>3 DEF ScoreInv, FlaggedInv

\* Every breach becomes a flag, and the flag of the price node stays.
LEMMA PolicyWriteScores == ASSUME IInv, ScoreInv, PolicyWrite PROVE ScoreInv'
<1> DEFINE flags(x) == (x.flags \ PolicyManagedFlags)
                       \union (IF x.sku = Null \/ x.unit = Null THEN {}
                               ELSE PolicyFlags([base |-> run.at[x.sku], cost |-> Cost[x.sku],
                                                 unit |-> x.unit], rules))
           changed == {l \in Lines : flags(run.seen[l]) # run.seen[l].flags}
           row(l) == [line[l] EXCEPT !.flags = flags(run.seen[l])]
<1>1. run.pc = "policy" /\ UNCHANGED <<quote, price, rules>>
  BY DEF PolicyWrite
<1>2. line' = [l \in Lines |-> IF l \in changed THEN row(l) ELSE line[l]]
  BY Zenon DEF PolicyWrite
<1>3. run.seen = line /\ run.at = price /\ run'.pc = "score"
  BY <1>1 DEF PolicyWrite, ScoreInv, IInv, ShapeInv
<1>4. \A l \in Lines : line[l].sku # Null /\ line[l].unit # Null =>
        PolicyFlags(Judged(line[l], price), rules) \subseteq flags(line[l])
  BY <1>3 DEF Judged
<1>5. \A l \in Lines : "pricing_blocked" \in line[l].flags => "pricing_blocked" \in flags(line[l])
  BY DEF PolicyManagedFlags
<1> HIDE DEF flags
<1>6. \A l \in Lines : /\ row(l).sku = line[l].sku /\ row(l).qty = line[l].qty
                       /\ row(l).unit = line[l].unit /\ row(l).flags = flags(line[l])
  BY <1>3 DEF IInv, ShapeInv, AreRows, IsRow, RowFields
<1>7. \A l \in Lines \ changed : flags(line[l]) = line[l].flags
  BY <1>3
<1> HIDE DEF changed, row
<1>8. \A l \in Lines : /\ line'[l].sku = line[l].sku /\ line'[l].qty = line[l].qty
                       /\ line'[l].unit = line[l].unit /\ line'[l].flags = flags(line[l])
  BY <1>2, <1>6, <1>7
<1>9. Priceable(line') = Priceable(line)
  BY <1>8, SamePriceable
<1>10. \A l \in Lines : Judged(line'[l], price') = Judged(line[l], price)
  BY <1>1, <1>8 DEF Judged
<1>11. FlaggedInv'
  BY <1>1, <1>4, <1>8, <1>10 DEF FlaggedInv
<1>12. AllEuro(line)' => AllEuro(line)
  BY <1>8, <1>9 DEF AllEuro, Priceable
<1>13. Blocked(line)' => Blocked(line)
  BY <1>1, <1>9 DEF Blocked
<1>14. PricedInv'
  BY <1>1, <1>5, <1>8, <1>9, <1>12, <1>13 DEF ScoreInv, PricedInv, Priceable
<1> QED BY <1>3, <1>11, <1>14 DEF ScoreInv

\* Without overlap nobody else acts between the prices and the score.
LEMMA ScoreStepKeeps ==
    ASSUME ~Overlap, NullIsNoFunction, IInv, ScoreInv, [LinesNext]_linesVars
    PROVE  ScoreInv'
<1>1. CASE StartRun \/ PriceRead \/ ScoreWrite \/ \E l \in Lines : MatchLine(l) \/ SkipLine(l)
  <2>1. DOMAIN run = {"pc", "seen", "at", "todo"}
    BY DEF IInv, ShapeInv
  <2>2. CASE StartRun
    <3>1. run'.pc = "match"
      BY <2>2 DEF StartRun, NoRun
    <3> QED BY <3>1 DEF ScoreInv, PricedInv, FlaggedInv
  <2>5. CASE ScoreWrite
    BY <2>5 DEF ScoreWrite, NoRun, ScoreInv, PricedInv, FlaggedInv
  <2>3. CASE PriceRead
    BY <2>1, <2>3 DEF PriceRead, ScoreInv, PricedInv, FlaggedInv
  <2>4. CASE \E l \in Lines : MatchLine(l) \/ SkipLine(l)
    <3>1. run.pc = "match" /\ run'.pc = run.pc
      BY <2>1, <2>4 DEF MatchLine, SkipLine
    <3> QED BY <3>1 DEF ScoreInv, PricedInv, FlaggedInv
  <2> QED BY <1>1, <2>2, <2>3, <2>4, <2>5
<1>2. CASE PriceNothing \/ PriceWrite \/ PolicyRead \/ PolicyWrite
  BY <1>2, PriceNothingScores, PriceWriteScores, PolicyReadScores, PolicyWriteScores
<1>3. CASE \/ \E u \in Users, l \in Lines, d \in Dtos : RemapStart(u, l, d)
           \/ \E u \in Users : RemapUpdate(u) \/ RemapRead(u) \/ RemapCommit(u) \/ RemapFails(u)
           \/ \E s \in Skus : EditPrice(s)
  <2>1. run.pc = "idle" /\ UNCHANGED run
    BY <1>3, RemapIsAlone DEF RemapStart, RemapUpdate, RemapRead, RemapCommit, RemapFails,
                              EditPrice, Idle
  <2> QED BY <2>1 DEF ScoreInv, PricedInv, FlaggedInv
<1>4. CASE UNCHANGED linesVars
  <2>1. UNCHANGED <<line, quote, price, rules, run>>
    BY <1>4 DEF linesVars
  <2> QED BY <2>1 DEF ScoreInv, PricedInv, FlaggedInv, AllEuro, Priceable, Blocked, Judged
<1> QED BY <1>1, <1>2, <1>3, <1>4 DEF LinesNext

-----------------------------------------------------------------------------
\* The verdict

\* The lines as the scorer is given them.
ScoredLines ==
    LET ids == SetToSeq(Lines)
    IN  [i \in DOMAIN ids |-> [confidence |-> line[ids[i]].conf, unit |-> line[ids[i]].unit,
                               quantity |-> line[ids[i]].qty, flags |-> line[ids[i]].flags]]

\* The scorer is given every line.
LEMMA EveryLineScored ==
    /\ \A x \in ToSet(ScoredLines) : \E l \in Lines : x.confidence = line[l].conf
    /\ \A l \in Lines : \E x \in ToSet(ScoredLines) :
          x.confidence = line[l].conf /\ x.flags = line[l].flags /\ x.unit = line[l].unit
<1> DEFINE ids == SetToSeq(Lines)
<1>1. ToSet(ids) = Lines
  BY LinePricingAssumption, EveryLineListed
<1>2. /\ DOMAIN ScoredLines = DOMAIN ids
      /\ \A i \in DOMAIN ids : ScoredLines[i].confidence = line[ids[i]].conf
                               /\ ScoredLines[i].flags = line[ids[i]].flags
                               /\ ScoredLines[i].unit = line[ids[i]].unit
  BY DEF ScoredLines
<1> HIDE DEF ids
<1> QED BY <1>1, <1>2 DEF ToSet

\* A request without lines gives the scorer the empty sequence.
LEMMA NoLinesNoScore == Lines = {} => ScoredLines = <<>>
<1> DEFINE ids == SetToSeq(Lines)
<1>1. ToSet(ids) = Lines
  BY LinePricingAssumption, EveryLineListed
<1>2. Lines = {} => DOMAIN ids = {}
  BY <1>1 DEF ToSet
<1> HIDE DEF ids
<1>3. DOMAIN ids = {} =>
        [i \in DOMAIN ids |-> [confidence |-> line[ids[i]].conf, unit |-> line[ids[i]].unit,
                               quantity |-> line[ids[i]].qty, flags |-> line[ids[i]].flags]] = <<>>
  OBVIOUS
<1> QED BY <1>2, <1>3 DEF ScoredLines, ids

\* A flag of the policy calls for a person; without one the line is inside both
\* limits, and there are limits.
LEMMA UnflaggedIsInside ==
    ASSUME NEW x, NEW flags, PolicyFlags(x, rules) \subseteq flags, flags \intersect HardReviewFlags = {}
    PROVE  ~DiscountBreached(x, MaxDiscount(rules)) /\ ~MarginBreached(x, MarginFloor(rules))
BY DEF PolicyFlags, HardReviewFlags, PolicyManagedFlags

\* What an AUTO_ELIGIBLE verdict rests on.
LEMMA AutoRestsOn ==
    ASSUME IInv, ScoreInv, Thresholds.unmatched < Thresholds.auto,
           ScoreWrite, routing' = "AUTO_ELIGIBLE", AllEuro(line)
    PROVE  /\ Priceable(line) = {} \/ (quote # Null /\ ~Blocked(line))
           /\ Thresholds.cap # Null /\ Thresholds.exceeded < Thresholds.auto =>
                quote # Null /\ DOMAIN quote = Lines
           /\ \A l \in Lines :
                /\ line[l].conf # Null /\ line[l].conf >= Thresholds.auto
                /\ line[l].unit # Null =>
                     /\ ~DiscountBreached(Judged(line[l], price), MaxDiscount(rules))
                     /\ ~MarginBreached(Judged(line[l], price), MarginFloor(rules))
<1>1. run.pc = "score" /\ Score(ScoredLines, Thresholds).routing = "AUTO_ELIGIBLE"
  BY Zenon DEF ScoreWrite, ScoredLines
<1>2. ScoreParameters(Thresholds)
  BY LinePricingAssumption DEF ScoreParameters
<1>3. \A l \in Lines : line[l].conf \in {Null} \cup Nat
  BY DEF IInv, ShapeInv, AreRows, IsRow
<1>4. \A x \in ToSet(ScoredLines) : x.confidence \in {Null} \cup Nat
  BY <1>3, EveryLineScored
<1>5. /\ ~HardFlagged(ScoredLines)
      /\ \A x \in ToSet(ScoredLines) : OrElse(x.confidence, Thresholds.unmatched) >= Thresholds.auto
  BY <1>1, <1>2, <1>4, AutoMeansClear
<1>6. \A l \in Lines : /\ line[l].flags \intersect HardReviewFlags = {}
                       /\ OrElse(line[l].conf, Thresholds.unmatched) >= Thresholds.auto
  BY <1>5, EveryLineScored DEF HardFlagged
<1>7. Thresholds.unmatched \in Nat /\ Thresholds.auto \in Nat
  BY <1>2 DEF ScoreParameters
<1>8. \A l \in Lines : line[l].conf # Null /\ line[l].conf >= Thresholds.auto
  BY <1>3, <1>6, <1>7 DEF OrElse
<1>9. ASSUME NEW l \in Lines, line[l].unit # Null
      PROVE  /\ ~DiscountBreached(Judged(line[l], price), MaxDiscount(rules))
             /\ ~MarginBreached(Judged(line[l], price), MarginFloor(rules))
  <2>1. line[l].sku # Null
    BY <1>9 DEF IInv, UnitInv, Priceable
  <2>2. PolicyFlags(Judged(line[l], price), rules) \subseteq line[l].flags
    BY <1>1, <1>9, <2>1 DEF ScoreInv, FlaggedInv
  <2> QED BY <1>6, <2>2, UnflaggedIsInside
<1>10. Priceable(line) = {} \/ (quote # Null /\ ~Blocked(line))
  <2>1. ASSUME Blocked(line), \A l \in Priceable(line) : "pricing_blocked" \in line[l].flags
        PROVE  FALSE
    BY <1>6, <2>1 DEF Blocked, HardReviewFlags, Priceable
  <2> QED BY <1>1, <2>1 DEF ScoreInv, PricedInv
<1>11. ASSUME Thresholds.cap # Null, Thresholds.exceeded < Thresholds.auto
       PROVE  quote # Null /\ DOMAIN quote = Lines
  <2>1. ScoredLines # <<>> /\ \A x \in ToSet(ScoredLines) : x.unit # Null
    BY <1>1, <1>2, <1>4, <1>11, AutoMeansWhole
  <2>2. \A l \in Lines : line[l].unit # Null
    BY <2>1, EveryLineScored
  <2>3. Priceable(line) = Lines
    BY <2>2 DEF IInv, UnitInv, Priceable
  <2>4. Lines # {}
    BY <2>1, NoLinesNoScore
  <2>5. quote # Null
    BY <1>10, <2>3, <2>4
  <2> QED BY <1>1, <2>3, <2>5 DEF IInv, QuoteInv, QuoteAgrees
<1> QED BY <1>8, <1>9, <1>10, <1>11

\* A run that routes a request AUTO_ELIGIBLE leaves lines inside the organization's
\* limits, matched with at least the confidence asked for, and what can be priced
\* on a quote that rules were there for; with a cap on the deal value, and a
\* penalty below the threshold, every line is on it (ScoreNode.applyPolicyGate
\* over what PriceNode and PolicyNode flagged): for any catalogue, lines and
\* rules, as long as the threshold is above what an unmatched line counts for.
THEOREM AutoEligibleMeansSound ==
    ASSUME NullIsNoFunction, Thresholds.unmatched < Thresholds.auto
    PROVE  LinesSpec => AutoEligibleIsSound
<1> DEFINE Sound ==
      run.pc = "score" /\ run'.pc = "idle" /\ routing' = "AUTO_ELIGIBLE" /\ ~Overlap /\ AllEuro(line) =>
         /\ Priceable(line) = {} \/ (quote # Null /\ ~Blocked(line))
         /\ Thresholds.cap # Null /\ Thresholds.exceeded < Thresholds.auto =>
              quote # Null /\ DOMAIN quote = Lines
         /\ \A l \in Lines :
              /\ line[l].conf # Null /\ line[l].conf >= Thresholds.auto
              /\ line[l].unit # Null =>
                   /\ ~DiscountBreached([base |-> price[line[l].sku], unit |-> line[l].unit],
                                         MaxDiscount(rules))
                   /\ ~MarginBreached([cost |-> Cost[line[l].sku], unit |-> line[l].unit],
                                       MarginFloor(rules))
<1> DEFINE Scores == ~Overlap => ScoreInv
<1>1. LinesInit => Scores
  BY DEF LinesInit, NoRun, ScoreInv, PricedInv, FlaggedInv
<1>2. AloneInv /\ Scores /\ [LinesNext]_linesVars => Scores'
  BY ScoreStepKeeps, OverlapStays DEF AloneInv
<1>3. AloneInv /\ Scores /\ [LinesNext]_linesVars => [Sound]_linesVars
  <2> SUFFICES ASSUME IInv, ScoreInv, LinesNext, run.pc = "score", run'.pc = "idle",
                      routing' = "AUTO_ELIGIBLE", AllEuro(line)
               PROVE  Sound
    BY DEF AloneInv
  <2>1. \A u \in Users : tx[u].pc = "idle"
    BY DEF IInv, OneWriter
  <2>2. ScoreWrite
    BY <2>1 DEF LinesNext, StartRun, MatchLine, SkipLine, PriceRead, PriceNothing, PriceWrite,
                PolicyRead, PolicyWrite, RemapStart, RemapUpdate, RemapRead, RemapCommit,
                RemapFails, EditPrice, Idle
  <2>3. /\ Priceable(line) = {} \/ (quote # Null /\ ~Blocked(line))
        /\ Thresholds.cap # Null /\ Thresholds.exceeded < Thresholds.auto =>
             quote # Null /\ DOMAIN quote = Lines
        /\ \A l \in Lines :
             /\ line[l].conf # Null /\ line[l].conf >= Thresholds.auto
             /\ line[l].unit # Null =>
                  /\ ~DiscountBreached(Judged(line[l], price), MaxDiscount(rules))
                  /\ ~MarginBreached(Judged(line[l], price), MarginFloor(rules))
    BY <2>2, AutoRestsOn
  <2>4. \A l \in Lines :
          /\ DiscountBreached([base |-> price[line[l].sku], unit |-> line[l].unit], MaxDiscount(rules))
               <=> DiscountBreached(Judged(line[l], price), MaxDiscount(rules))
          /\ MarginBreached([cost |-> Cost[line[l].sku], unit |-> line[l].unit], MarginFloor(rules))
               <=> MarginBreached(Judged(line[l], price), MarginFloor(rules))
    BY DEF DiscountBreached, MarginBreached, Judged
  <2> QED BY <2>3, <2>4, Zenon
<1>4. LinesSpec => [][Sound]_linesVars
  BY <1>1, <1>2, <1>3, LinesStaySound, PTL DEF LinesSpec
<1> QED BY <1>4 DEF AutoEligibleIsSound

-----------------------------------------------------------------------------
\* Calculations: the reasons of a score

\* The reasons follow the same comparisons as the routing: with penalties below
\* the threshold, a score reaches it exactly when none of its parts is low.
LEMMA ReasonsFollowScore ==
    ASSUME NEW lines, \A x \in ToSet(lines) : x.confidence \in {Null} \cup Nat,
           NEW t, ScoreParameters(t), t.auto <= 100, t.flagged < t.auto, t.exceeded < t.auto
    PROVE  /\ Confidence(lines, t) >= t.auto <=>
                /\ LineConfidence(lines, t) >= t.auto
                /\ ComplianceFactor(lines, t) = 100
                /\ DealValueFactor(lines, t) = 100
           /\ ComplianceFactor(lines, t) < 100 <=> SoftFlagged(lines)
           /\ ComplianceFactor(lines, t) < 100 <=> ComplianceFactor(lines, t) # 100
           /\ DealValueFactor(lines, t) < 100 <=> DealValueFactor(lines, t) # 100
           /\ LineConfidence(lines, t) < t.auto <=> ~(LineConfidence(lines, t) >= t.auto)
<1> DEFINE c == Confidence(lines, t)
           lc == LineConfidence(lines, t)
           cf == ComplianceFactor(lines, t)
           df == DealValueFactor(lines, t)
<1>1. t.auto \in Nat /\ t.flagged \in Nat /\ t.exceeded \in Nat
  BY DEF ScoreParameters
<1>2. /\ lc \in Nat /\ c \in {lc, cf, df}
      /\ c <= lc /\ c <= cf /\ c <= df
  BY ScoreIsLeast
<1>3. cf = (IF SoftFlagged(lines) THEN t.flagged ELSE 100)
  BY DEF ComplianceFactor
<1>4. df \in {t.exceeded, 100}
  BY DEF DealValueFactor
<1> HIDE DEF c, lc, cf, df
<1>5. /\ c >= t.auto <=> lc >= t.auto /\ cf = 100 /\ df = 100
      /\ cf < 100 <=> SoftFlagged(lines)
      /\ cf < 100 <=> cf # 100
      /\ df < 100 <=> df # 100
      /\ lc < t.auto <=> ~(lc >= t.auto)
  BY <1>1, <1>2, <1>3, <1>4
<1> QED BY <1>5 DEF c, lc, cf, df

\* Flags that call for a person are among those that lower the score.
LEMMA HardIsSoft ==
    ASSUME NEW lines, HardFlagged(lines)
    PROVE  SoftFlagged(lines) /\ PolicyFlagsOf(lines) # {}
<1>1. PICK x \in ToSet(lines) : x.flags \intersect HardReviewFlags # {}
  BY DEF HardFlagged
<1>2. PICK f \in x.flags : f \in HardReviewFlags
  BY <1>1
<1>3. f # "close_tie" /\ f # "manual_override"
  BY <1>2 DEF HardReviewFlags, PolicyManagedFlags
<1>4. SoftFlagged(lines)
  BY <1>3 DEF SoftFlagged
<1>5. f \in UNION {l.flags : l \in ToSet(lines)}
  <2>1. x.flags \in {l.flags : l \in ToSet(lines)}
    OBVIOUS
  <2> QED BY <2>1
<1>6. f \in PolicyFlagsOf(lines)
  BY <1>3, <1>5 DEF PolicyFlagsOf
<1> QED BY <1>4, <1>6

\* A flag the text counts lowers the score.
LEMMA CountedIsSoft ==
    ASSUME NEW lines, PolicyFlagsOf(lines) # {}
    PROVE  SoftFlagged(lines)
<1>1. PICK f \in UNION {l.flags : l \in ToSet(lines)} : f \notin {"close_tie", "manual_override"}
  BY DEF PolicyFlagsOf
<1>2. PICK x \in ToSet(lines) : f \in x.flags
  BY <1>1
<1> QED BY <1>1, <1>2 DEF SoftFlagged

\* A score's routing, its reasons and the text that stands in for the language
\* model agree.
LEMMA ScoreExplains ==
    ASSUME NEW lines, \A x \in ToSet(lines) : x.confidence \in {Null} \cup Nat,
           NEW t, ScoreParameters(t), t.auto <= 100, t.flagged < t.auto, t.exceeded < t.auto
    PROVE  LET s == Score(lines, t)
               told == FallbackParts(s.routing, s.reasons, PolicyFlagsOf(lines))
           IN  /\ s.reasons # {}
               /\ (s.routing = "AUTO_ELIGIBLE") <=> (s.reasons = {"auto_eligible"})
               /\ s.routing # "AUTO_ELIGIBLE" => "auto_eligible" \notin s.reasons
               /\ "policy_breach" \in told => {"review_required", "policy_flags"} \subseteq told
               /\ "policy_flags" \in told => "policy_flags_detected" \in told
<1> DEFINE s == Score(lines, t)
           r == Reasons(lines, t)
           flags == PolicyFlagsOf(lines)
           told == FallbackParts(s.routing, s.reasons, flags)
           low == LineConfidence(lines, t) < t.auto
           soft == SoftFlagged(lines)
           dear == DealValueFactor(lines, t) < 100
           hard == HardFlagged(lines)
<1>1. told = IF s.routing = "AUTO_ELIGIBLE" /\ s.reasons = {} THEN {"all_clear"}
             ELSE (IF s.routing = "NEEDS_REVIEW" THEN {"review_required"} ELSE {})
                  \union s.reasons \union (IF flags = {} THEN {} ELSE {"policy_flags"})
  BY DEF FallbackParts
<1>2. CASE lines = <<>>
  <2>1. s.routing = "NEEDS_REVIEW" /\ s.reasons = {"no_line_items"}
    BY <1>2 DEF Score
  <2>2. flags = {}
    BY <1>2 DEF PolicyFlagsOf, ToSet
  <2> HIDE DEF s, told, flags
  <2>3. told = {"review_required", "no_line_items"}
    BY <1>1, <2>1, <2>2
  <2>4. /\ s.reasons # {}
        /\ s.routing # "AUTO_ELIGIBLE" /\ s.reasons # {"auto_eligible"}
        /\ "auto_eligible" \notin s.reasons
        /\ "policy_breach" \notin told /\ "policy_flags" \notin told
    BY <2>1, <2>3
  <2> QED BY <2>4 DEF s, told, flags
<1>3. CASE lines # <<>>
  <2>1. /\ s.routing = IF Confidence(lines, t) >= t.auto /\ ~hard THEN "AUTO_ELIGIBLE" ELSE "NEEDS_REVIEW"
        /\ s.reasons = r \union (IF hard THEN {"policy_breach"} ELSE {})
    BY <1>3 DEF Score
  <2>2. /\ Confidence(lines, t) >= t.auto <=> ~low /\ ~soft /\ ~dear
        /\ ComplianceFactor(lines, t) < 100 <=> soft
    BY ReasonsFollowScore
  <2>3. PICK why \in {"incomplete_deal_value", "deal_value_exceeds_cap"} :
          r = (IF low THEN {"low_line_confidence"} ELSE {})
              \union (IF soft THEN {"policy_flags_detected"} ELSE {})
              \union (IF dear THEN {why} ELSE {})
              \union (IF ~(low \/ soft \/ dear) THEN {"auto_eligible"} ELSE {})
    BY <2>2 DEF Reasons
  <2>4. hard => soft /\ flags # {}
    BY HardIsSoft
  <2>5. flags # {} => soft
    BY CountedIsSoft
  <2> HIDE DEF s, r, told, flags, low, soft, dear, hard
  <2>6. s.routing = IF ~(low \/ soft \/ dear) THEN "AUTO_ELIGIBLE" ELSE "NEEDS_REVIEW"
    BY <2>1, <2>2, <2>4
  <2>7. CASE ~(low \/ soft \/ dear)
    <3>1. s.routing = "AUTO_ELIGIBLE" /\ s.reasons = {"auto_eligible"}
      BY <2>1, <2>3, <2>4, <2>6, <2>7
    <3>2. told = {"auto_eligible"}
      BY <1>1, <2>5, <2>7, <3>1
    <3>3. /\ s.reasons # {}
          /\ "policy_breach" \notin told /\ "policy_flags" \notin told
      BY <3>1, <3>2
    <3> QED BY <3>1, <3>3 DEF s, told, flags
  <2>8. CASE low \/ soft \/ dear
    <3>1. s.routing = "NEEDS_REVIEW"
      BY <2>6, <2>8
    <3>2. "auto_eligible" \notin s.reasons /\ s.reasons # {}
      BY <2>1, <2>3, <2>8
    <3>3. told = {"review_required"} \union s.reasons \union (IF flags = {} THEN {} ELSE {"policy_flags"})
      BY <1>1, <3>1
    <3>4. "policy_breach" \in told => hard
      BY <2>1, <2>3, <3>3
    <3>5. "policy_flags" \in told => flags # {}
      BY <2>1, <2>3, <3>3
    <3>6. "policy_breach" \in told => {"review_required", "policy_flags"} \subseteq told
      BY <2>4, <3>3, <3>4
    <3>7. "policy_flags" \in told => "policy_flags_detected" \in told
      BY <2>1, <2>3, <2>5, <3>3, <3>5
    <3>8. s.routing # "AUTO_ELIGIBLE" /\ s.reasons # {"auto_eligible"}
      BY <3>1, <3>2
    <3> QED BY <3>2, <3>6, <3>7, <3>8 DEF s, told, flags
  <2> QED BY <2>7, <2>8
<1> QED BY <1>2, <1>3

\* What stands as an answer answers one of the questions.
CalcInv ==
    /\ \E i \in DOMAIN Questions : question \in Questions[i]
    /\ answer # Null => answer = [of |-> question.kind, is |-> Answer(question)]

\* The reviewer is told why (buildReasons, applyPolicyGate, aggregatePolicyFlags):
\* of any lines and thresholds, the routing, its reasons and the fallback text
\* agree, wherever the penalties fall below the threshold.
THEOREM RoutingsAreExplained == CalcSpec => []RoutingIsExplained
<1>1. CalcInit => CalcInv
  BY DEF CalcInit, CalcInv
<1>2. CalcInv /\ [Calculate]_calcVars => CalcInv'
  BY DEF CalcInv, Calculate, calcVars
<1>3. CalcInv => RoutingIsExplained
  <2> DEFINE t == question.thresholds
             s == Score(question.lines, t)
             told == FallbackParts(s.routing, s.reasons, PolicyFlagsOf(question.lines))
  <2> SUFFICES ASSUME CalcInv, Answered("score"), t.flagged < t.auto, t.exceeded < t.auto
               PROVE  /\ answer.is = s
                      /\ s.reasons # {}
                      /\ (s.routing = "AUTO_ELIGIBLE") <=> (s.reasons = {"auto_eligible"})
                      /\ s.routing # "AUTO_ELIGIBLE" => "auto_eligible" \notin s.reasons
                      /\ "policy_breach" \in told => {"review_required", "policy_flags"} \subseteq told
                      /\ "policy_flags" \in told => "policy_flags_detected" \in told
    BY Zenon DEF RoutingIsExplained
  <2>1. question.kind = "score" /\ answer.is = Answer(question)
    BY DEF CalcInv, Answered
  <2>2. answer.is = s
    BY <2>1 DEF Answer
  <2>3. /\ \A x \in ToSet(question.lines) : x.confidence \in {Null} \cup Nat
        /\ t.auto \in 0..100 /\ ScoreParameters(t)
    BY <2>1, CalculationsAssumption DEF CalcInv, ScoreParameters
  <2> HIDE DEF t
  <2>4. t.auto <= 100
    BY <2>3
  <2> QED BY <2>2, <2>3, <2>4, ScoreExplains
<1> QED BY <1>1, <1>2, <1>3, PTL DEF CalcSpec
=============================================================================
