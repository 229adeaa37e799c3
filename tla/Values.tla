------------------------------- MODULE Values -------------------------------
(* Small vocabulary of the calculation modules: the absent value, half-up    *)
(* rounding as JavaScript's Math.round does it on non-negative numbers, and  *)
(* the sum over a sequence of lines.                                          *)
EXTENDS Integers, SequencesExt

CONSTANT Null                \* null and undefined: a fact nobody stated

OrElse(value, default) == IF value = Null THEN default ELSE value

\* Math.round(a / b)
RoundDiv(a, b) == (2 * a + b) \div (2 * b)

Percent(amount, percentage) == RoundDiv(amount * percentage, 100)

SumOver(Op(_), seq) == FoldLeft(LAMBDA sum, x: sum + Op(x), 0, seq)

\* Sequence s with its elements in ascending order of Key, ties as they were:
\* Array.prototype.sort is stable.
SortedBy(Key(_), s) ==
    LET Before(i, j) == \/ Key(s[i]) < Key(s[j])
                        \/ Key(s[i]) = Key(s[j]) /\ i < j
        order == SortSeq([i \in DOMAIN s |-> i], Before)
    IN  [i \in DOMAIN s |-> s[order[i]]]
=============================================================================
