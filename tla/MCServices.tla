----------------------------- MODULE MCServices -----------------------------
(* Instances for TLC of the services around the pipeline. They share nothing, *)
(* so each behaviour follows one of them, "part", and the others stand still: *)
(* nothing their fairness asks for is enabled where they start.               *)
EXTENDS HttpTransaction, CatalogEmbedding, Copilot, LlmTools, TLC

CONSTANT Parts          \* the services to follow

VARIABLE part

servicesVars == <<part, httpVars, catalogVars, copilotVars, llmVars>>

MCDemoCorpus ==
    <<[type |-> "catalog_rfq", items |-> {"a", "b"}, sender |-> "s1", clean |-> TRUE],
      [type |-> "service_quote", items |-> {"c"}, sender |-> "s2", clean |-> FALSE]>>
MCSourceTexts == {{}, {"x"}, {"c", "s2"}, {"a", "c", "s1"}}

\* What does not depend on the part asked about starts in one state.
ServicesInit ==
    /\ part \in Parts
    /\ HttpInit /\ CatalogInit /\ CopilotInit /\ LlmInit
    /\ part = "http" \/ \A size \in PoolSizes : pool <= size
    /\ part = "llm" \/ llmEnv = [demo |-> FALSE, key |-> FALSE, fixtures |-> <<>>]

ServicesNext ==
    \/ part = "http" /\ HttpNext /\ UNCHANGED <<part, catalogVars, copilotVars, llmVars>>
    \/ part = "catalog" /\ CatalogNext /\ UNCHANGED <<part, httpVars, copilotVars, llmVars>>
    \/ part = "copilot" /\ CopilotNext /\ UNCHANGED <<part, httpVars, catalogVars, llmVars>>
    \/ part = "llm" /\ LlmNext /\ UNCHANGED <<part, httpVars, catalogVars, copilotVars>>

ServicesSpec ==
    /\ ServicesInit /\ [][ServicesNext]_servicesVars
    /\ HttpFairness /\ CatalogFairness /\ CopilotFairness /\ LlmFairness

-----------------------------------------------------------------------------

\* Neither a call that waits for a connection of the pool, nor a stage that waits
\* for the provider, nor a page that waits for its explanation waits for ever
\* (rls-context.middleware.ts, classify.service.ts, copilot.service.ts).
NothingHangs == ConnectionsReturn /\ TaskEnds /\ BlockSettles
=============================================================================
