------------------------------ MODULE LlmTools ------------------------------
(* The stages and tools that ask a language model, each with its own way of   *)
(* taking what comes back: asking once more and then a default, two attempts  *)
(* and then an escalation, a template, a refusal, or retries with a pause. A  *)
(* demo replays fixtures in three of them. The provider may answer anything,  *)
(* or never; every call has a timer.                                          *)
EXTENDS Naturals, FiniteSets, Sequences, SequencesExt, FiniteSetsExt

CONSTANTS
    DemoCorpus,         \* the seed fixtures: [type, items, sender, clean]
    SourceTexts,        \* what requests say, as sets of words
    ExtractAttempts,    \* maxAttempts of the extraction stage
    LlmMaxRetries,      \* LLM_MAX_RETRIES
    MaxLlmTasks         \* bound: tasks started

VARIABLES
    llmEnv,             \* [demo, key, fixtures]: the process's environment
    task,               \* what is under way
    learned,            \* what the stages wrote of the request
    tasksRun

llmVars == <<llmEnv, task, learned, tasksRun>>

DraftTools == {"draft_quote_email", "draft_clarification"}
LlmTasks == {"classify", "extract", "explain_routing", "completion"} \union DraftTools
NoTask == [kind |-> "none", at |-> "idle", text |-> {}, attempt |-> 1, reply |-> "none",
           prior |-> "none", outcome |-> "none"]

LlmInit ==
    /\ llmEnv \in [demo : BOOLEAN, key : BOOLEAN, fixtures : {<<>>, DemoCorpus}]
    /\ task = NoTask
    /\ learned = [type |-> "none", extraction |-> "none", sender |-> "none"]
    /\ tasksRun = 0

\* The outcome stands until the next task starts.
EndTask(outcome) == task' = [task EXCEPT !.at = "idle", !.outcome = outcome]

StartTask(kind, text) ==
    /\ task.at = "idle" /\ tasksRun < MaxLlmTasks /\ tasksRun' = tasksRun + 1
    /\ task' = [NoTask EXCEPT !.kind = kind, !.at = "begin", !.text = text]
    /\ UNCHANGED <<llmEnv, learned>>

-----------------------------------------------------------------------------
(* ----------------------------- the provider ---------------------------- *)

\* A call without a key throws before anything is sent.
CallProvider ==
    /\ task.at = "begin" /\ task.text # {}
    /\ ~llmEnv.demo \/ task.kind \in DraftTools \union {"explain_routing"}
    /\ task' = IF llmEnv.key THEN [task EXCEPT !.at = "calling"]
                             ELSE [task EXCEPT !.at = "heard", !.reply = "rejected"]
    /\ UNCHANGED <<llmEnv, learned, tasksRun>>

\* A text that is what was asked for, one that is but unsure of itself, one that
\* is not, none, a failure that may pass (429, 5xx), a refusal (other 4xx).
ProviderAnswers(reply) ==
    /\ task.at = "calling"
    /\ reply \in {"valid", "unsure", "invalid", "empty", "transient", "rejected"}
    /\ task' = [task EXCEPT !.at = "heard", !.reply = reply]
    /\ UNCHANGED <<llmEnv, learned, tasksRun>>

\* The timer aborts the call; nothing of it is heard afterwards.
TimeOut ==
    /\ task.at = "calling"
    /\ task' = [task EXCEPT !.at = "heard", !.reply = "transient"]
    /\ UNCHANGED <<llmEnv, learned, tasksRun>>

-----------------------------------------------------------------------------
(* ------------------------------ the fixtures --------------------------- *)

Score(fixture, text) == Cardinality(fixture.items \intersect text)

\* matchDemoFixture: the first with the most of its lines in the text; where no
\* line is there, the clean one, or the first.
MatchFixture(fixtures, text) ==
    LET best == CHOOSE i \in DOMAIN fixtures :
                   /\ \A j \in DOMAIN fixtures : Score(fixtures[j], text) <= Score(fixtures[i], text)
                   /\ \A j \in 1 .. i - 1 : Score(fixtures[j], text) < Score(fixtures[i], text)
        clean == SelectSeq(fixtures, LAMBDA f : f.clean)
    IN  IF Score(fixtures[best], text) > 0 THEN fixtures[best]
        ELSE IF clean # <<>> THEN Head(clean) ELSE Head(fixtures)

\* A sender is replayed only where the text names it.
ReplayedSender(fixture, text) == IF fixture.sender \in text THEN fixture.sender ELSE "none"

\* getFixture: the first of the type, or else the clean one.
CompletionFixtures(fixtures, type) ==
    SelectSeq(fixtures, LAMBDA f : f.type = type) \o SelectSeq(fixtures, LAMBDA f : f.clean)

Replayed(kind) == llmEnv.demo /\ task.at = "begin" /\ task.kind = kind /\ task.text # {}

\* Without fixtures a classification throws out of its stage.
ReplayClassification ==
    /\ Replayed("classify")
    /\ IF llmEnv.fixtures = <<>> THEN EndTask("thrown") /\ UNCHANGED learned
       ELSE /\ learned' = [learned EXCEPT !.type = MatchFixture(llmEnv.fixtures, task.text).type]
            /\ EndTask("classified")
    /\ UNCHANGED <<llmEnv, tasksRun>>

\* A replayed extraction is an attempt like another: without fixtures a failed
\* one, and with them still to be held against the text.
ReplayExtraction ==
    /\ Replayed("extract")
    /\ task' = [task EXCEPT !.at = "heard",
                            !.reply = IF llmEnv.fixtures = <<>> THEN "rejected" ELSE "valid"]
    /\ UNCHANGED <<llmEnv, learned, tasksRun>>

\* A completion announces a stage error before it throws.
ReplayCompletion(type) ==
    /\ Replayed("completion")
    /\ EndTask(IF CompletionFixtures(llmEnv.fixtures, type) = <<>> THEN "thrown" ELSE "completed")
    /\ UNCHANGED <<llmEnv, learned, tasksRun>>

-----------------------------------------------------------------------------
(* ---------------------------- classification --------------------------- *)

\* Nothing to classify: a service quote, of no confidence.
ClassifyBlank ==
    /\ task.at = "begin" /\ task.kind = "classify" /\ task.text = {}
    /\ learned' = [learned EXCEPT !.type = "service_quote"]
    /\ EndTask("defaulted")
    /\ UNCHANGED <<llmEnv, tasksRun>>

\* Mutant: the second attempt is not counted.
NextAttemptUncounted == [task EXCEPT !.at = "begin"]

NextAttempt == [task EXCEPT !.at = "begin", !.attempt = @ + 1]

\* One more attempt after any failure, then the default; an answer below the
\* threshold becomes a service quote at once, with its own confidence.
HearClassification ==
    /\ task.at = "heard" /\ task.kind = "classify"
    /\ \/ /\ task.reply = "valid"
          /\ \E type \in {"catalog_rfq", "service_quote"} : learned' = [learned EXCEPT !.type = type]
          /\ EndTask("classified")
       \/ /\ task.reply = "unsure"
          /\ learned' = [learned EXCEPT !.type = "service_quote"]
          /\ EndTask("classified")
       \/ /\ task.reply \notin {"valid", "unsure"} /\ task.attempt < 2
          /\ task' = NextAttempt /\ UNCHANGED learned
       \/ /\ task.reply \notin {"valid", "unsure"} /\ task.attempt >= 2
          /\ learned' = [learned EXCEPT !.type = "service_quote"]
          /\ EndTask("defaulted")
    /\ UNCHANGED <<llmEnv, tasksRun>>

-----------------------------------------------------------------------------
(* ------------------------------ extraction ----------------------------- *)

ExtractBlank ==
    /\ task.at = "begin" /\ task.kind = "extract" /\ task.text = {}
    /\ learned' = [learned EXCEPT !.extraction = "failed"]
    /\ EndTask("empty_source")
    /\ UNCHANGED <<llmEnv, tasksRun>>

\* An answer of the right shape may still contradict the text. What failed is
\* told to the model in the next attempt; after the last one the request goes on
\* to a person, keeping the sender and lines of an earlier extraction.
HearExtraction ==
    /\ task.at = "heard" /\ task.kind = "extract"
    /\ \/ /\ task.reply \in {"valid", "unsure"}
          /\ learned' = [learned EXCEPT !.extraction = "completed",
                            !.sender = IF llmEnv.demo
                                       THEN ReplayedSender(MatchFixture(llmEnv.fixtures, task.text), task.text)
                                       ELSE "stated"]
          /\ EndTask("extracted")
       \/ /\ task.attempt < ExtractAttempts
          /\ task' = [NextAttempt EXCEPT !.prior = task.reply] /\ UNCHANGED learned
       \/ /\ task.attempt >= ExtractAttempts
          /\ learned' = [learned EXCEPT !.extraction = "failed"]
          /\ EndTask("escalated")
    /\ UNCHANGED <<llmEnv, tasksRun>>

-----------------------------------------------------------------------------
(* ------------------------ explanations and drafts ---------------------- *)

HearExplanation ==
    /\ task.at = "heard" /\ task.kind = "explain_routing"
    /\ EndTask(IF task.reply \in {"valid", "unsure", "invalid"} THEN "explained" ELSE "template")
    /\ UNCHANGED <<llmEnv, learned, tasksRun>>

\* A draft that cannot be read is refused; a failed call is passed on.
HearDraft ==
    /\ task.at = "heard" /\ task.kind \in DraftTools
    /\ EndTask(CASE task.reply \in {"valid", "unsure"}  -> "drafted"
                 [] task.reply \in {"invalid", "empty"} -> "unprocessable"
                 [] OTHER                               -> "thrown")
    /\ UNCHANGED <<llmEnv, learned, tasksRun>>

-----------------------------------------------------------------------------
(* ----------------------------- completions ----------------------------- *)

\* isTransientError.
MayPass(reply) == reply = "transient"

\* executeWithRetry: only what may pass is tried again, after a pause.
HearCompletion ==
    /\ task.at = "heard" /\ task.kind = "completion"
    /\ IF MayPass(task.reply) /\ task.attempt <= LlmMaxRetries
       THEN task' = [task EXCEPT !.at = "pausing"]
       ELSE EndTask(IF task.reply \in {"transient", "rejected"} THEN "thrown" ELSE "completed")
    /\ UNCHANGED <<llmEnv, learned, tasksRun>>

EndPause ==
    /\ task.at = "pausing" /\ task' = NextAttempt
    /\ UNCHANGED <<llmEnv, learned, tasksRun>>

LlmProgram ==
    \/ CallProvider \/ TimeOut \/ ReplayClassification \/ ReplayExtraction
    \/ \E type \in {"catalog_rfq", "service_quote"} : ReplayCompletion(type)
    \/ ClassifyBlank \/ HearClassification
    \/ ExtractBlank \/ HearExtraction \/ HearExplanation \/ HearDraft \/ HearCompletion \/ EndPause

LlmNext ==
    \/ \E kind \in LlmTasks, text \in SourceTexts :
          (text # {} \/ kind \in {"classify", "extract"}) /\ StartTask(kind, text)
    \/ LlmProgram
    \/ \E reply \in {"valid", "unsure", "invalid", "empty", "transient", "rejected"} : ProviderAnswers(reply)

\* Timers fire and code runs; nothing is asked of the provider.
LlmFairness == WF_llmVars(LlmProgram)

-----------------------------------------------------------------------------
(* ----------------------------- properties ------------------------------ *)

\* No stage waits on a provider that never answers, or goes on asking one that
\* answers nonsense: every task ends, in an outcome of its own
\* (classify.service.ts:80-109, llm.provider.ts:27-28, llm-client.service.ts:128-154).
TaskEnds == task.at # "idle" ~> (task.at = "idle" /\ task.outcome # "none")
=============================================================================
