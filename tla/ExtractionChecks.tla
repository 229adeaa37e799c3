-------------------------- MODULE ExtractionChecks --------------------------
(* The deterministic check an extraction has to pass before it is believed.  *)
(*                                                                           *)
(* A number is a pair of digit groups, the second Null in a whole number. A  *)
(* source text is [numerals, words, items, total]: the numbers and the room  *)
(* names in it, the item count and the total quantity it states, or Null.    *)
EXTENDS Values

\* sourceContainsNumber: the digits of the value, with no digit beside them. The
\* parts of a decimal therefore count as numbers of their own.
Supports(text, value) ==
    \/ value = Null
    \/ value \in text.numerals
    \/ value[2] = Null /\ \E d \in text.numerals : value[1] \in {d[1], d[2]}

\* data: [areas : Seq([room, area]), numbers : Seq of the other numeric facts]
ReconcileAvac(data, text) ==
    /\ \A a \in ToSet(data.areas) : a.room \in text.words /\ Supports(text, a.area)
    /\ \A n \in ToSet(data.numbers) : Supports(text, n)

\* data: [openings : Seq([width, height, quantity]), floor, distance_km]
ReconcileCaixilharia(data, text) ==
    /\ \A o \in ToSet(data.openings) :
         Supports(text, o.width) /\ Supports(text, o.height) /\ Supports(text, o.quantity)
    /\ Supports(text, data.floor) /\ Supports(text, data.distance_km)

\* data: [items : Seq([quantity, unit])]; only a count or a total the text states
\* can disagree with the lines.
ReconcileLines(data, text) ==
    /\ \A i \in ToSet(data.items) : i.unit # ""
    /\ text.items \in {Null, Len(data.items)}
    /\ text.total \in {Null, SumOver(LAMBDA i: i.quantity, data.items)}

Reconcile(data, text) ==
    CASE data.vertical = "avac"        -> ReconcileAvac(data, text)
      [] data.vertical = "caixilharia" -> ReconcileCaixilharia(data, text)
      [] data.vertical = "lines"       -> ReconcileLines(data, text)

\* ExtractNode: up to two attempts, an answer being Null when the model failed or
\* broke the schema. The first one that is believed is kept.
Attempt(answers, text) ==
    LET believed == {i \in DOMAIN answers : answers[i] # Null /\ Reconcile(answers[i], text)}
    IN  IF believed = {} THEN Null ELSE answers[Min(believed)]
=============================================================================
