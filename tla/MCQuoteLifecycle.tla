-------------------------- MODULE MCQuoteLifecycle --------------------------
(* Instances of QuoteLifecycle for TLC.                                      *)
EXTENDS QuoteLifecycle, TLC

\* Approving calls are alike, and so are sending calls.
CallSymmetry == Permutations(Approvers) \cup Permutations(Senders)
=============================================================================
