------------------------- MODULE MCRequestPipeline -------------------------
(***************************************************************************)
(* RequestPipeline for TLC: constants the cfg files cannot spell.          *)
(***************************************************************************)
EXTENDS RequestPipeline, TLC

\* The registry of the product: every node of the graph.
AllNodes == GraphNodes

\* A registry that lost every node behind parse. It shortens the graph for the
\* runs about locks and people, and takes the unregistered-node exit.
ParseOnly == {"parse"}

\* Engine slots are interchangeable; used where no liveness is checked.
WorkerSymmetry == Permutations(Workers)
=============================================================================
