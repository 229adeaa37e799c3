----------------------------- MODULE AskCopilot -----------------------------
(* A question about a request, answered by an agent: the panel it is typed    *)
(* into, and the bounded loop of model turns and tool calls behind it. The    *)
(* model may call a tool twice in one turn, and whatever the calls do, the    *)
(* loop ends in an answer, a fixed phrase or an error.                        *)
EXTENDS ToolRegistry, SequencesExt

CONSTANTS
    Questions,          \* what is typed, "" among it
    AgentMaxSteps,      \* the recursion limit
    MaxTurnCalls,       \* bound: tool calls of one turn
    MaxQuestions        \* bound: questions sent

VARIABLES
    askPanel,           \* the text, and the mutation's question and outcome
    agent,              \* the call on the server
    demoFixture,        \* the replay, once read
    askMode,            \* the environment: "disabled", "demo" or "live"
    questionsSent

askVars == <<askPanel, agent, demoFixture, askMode, questionsSent>>

AgentTools == {"search_catalog", "explain_routing"}
NoOutcome == [kind |-> "none", of |-> "", trace |-> <<>>]
NoAgent == [at |-> "none", question |-> "", steps |-> 0, messages |-> <<>>, open |-> {}]

AskInit ==
    /\ askPanel = [text |-> "", pending |-> FALSE, outcome |-> NoOutcome]
    /\ agent = NoAgent
    /\ demoFixture = FALSE
    /\ askMode \in {"disabled", "demo", "live"}
    /\ questionsSent = 0

-----------------------------------------------------------------------------
(* ------------------------------ the panel ------------------------------ *)

\* Mutant: a change of the text leaves what is shown.
ClearedNot(outcome) == outcome

\* reset: what was shown belonged to the question before the change.
Cleared(outcome) == NoOutcome

\* The box is disabled while a question is under way.
TypeQuestion(text) ==
    /\ ~askPanel.pending /\ text # askPanel.text
    /\ askPanel' = [askPanel EXCEPT !.text = text, !.outcome = Cleared(askPanel.outcome)]
    /\ UNCHANGED <<agent, demoFixture, askMode, questionsSent>>

SubmitQuestion ==
    /\ askPanel.text # "" /\ ~askPanel.pending /\ questionsSent < MaxQuestions
    /\ askPanel' = [askPanel EXCEPT !.pending = TRUE, !.outcome = NoOutcome]
    /\ agent' = [NoAgent EXCEPT !.at = "asked", !.question = askPanel.text]
    /\ questionsSent' = questionsSent + 1
    /\ UNCHANGED <<demoFixture, askMode>>

\* The mutation settles with the server's answer or error.
SettleAnswer(kind, trace) ==
    /\ askPanel' = [askPanel EXCEPT !.pending = FALSE,
                              !.outcome = [kind |-> kind, of |-> agent.question, trace |-> trace]]
    /\ agent' = NoAgent

-----------------------------------------------------------------------------
(* ------------------------------ the agent ------------------------------ *)

\* A replay that cannot be read is an error, and not remembered as one.
Replay ==
    /\ agent.at = "asked" /\ askMode = "demo"
    /\ \/ demoFixture' = TRUE /\ SettleAnswer("answer", <<>>)
       \/ ~demoFixture /\ SettleAnswer("error", <<>>) /\ UNCHANGED demoFixture
    /\ UNCHANGED <<askMode, questionsSent>>

Disabled ==
    /\ agent.at = "asked" /\ askMode = "disabled"
    /\ SettleAnswer("error", <<>>)
    /\ UNCHANGED <<demoFixture, askMode, questionsSent>>

\* The lines' flags are read, the tools bound to the request and its
\* organization, the agent built.
BuildAgent ==
    /\ agent.at = "asked" /\ askMode = "live"
    /\ agent' = [agent EXCEPT !.at = "thinking"]
    /\ UNCHANGED <<askPanel, demoFixture, askMode, questionsSent>>

\* toAskResult: a step per tool call, holding what that call last answered, and
\* one per text without calls, the last of which is the answer. The trace is kept
\* at the positions of the messages its steps are made of.
Trace(messages) ==
    LET steps == {i \in DOMAIN messages :
                     \/ messages[i].from = "call"
                     \/ messages[i].from = "text" /\ messages[i].said}
        heard(i) == {j \in DOMAIN messages :
                       j > i /\ messages[j].from = "tool" /\ messages[j].id = messages[i].id}
    IN  [i \in steps |-> [tool |-> messages[i].tool,
                          output |-> IF messages[i].from = "text" \/ heard(i) = {} THEN "none"
                                     ELSE messages[Max(heard(i))].output]]

HasAnswer(messages) == \E i \in DOMAIN messages : messages[i].from = "text" /\ messages[i].said

Message(from, id, tool, output) ==
    [from |-> from, id |-> id, tool |-> tool, output |-> output, said |-> TRUE]

\* A turn of the model: calls, or a text, or nothing.
Think ==
    /\ agent.at = "thinking" /\ agent.steps < AgentMaxSteps
    /\ \/ \E n \in 1 .. MaxTurnCalls : \E tools \in [1 .. n -> AgentTools] :
             LET calls == [i \in 1 .. n |-> Message("call", <<agent.steps, i>>, tools[i], "none")]
             IN  agent' = [agent EXCEPT !.at = "calling", !.steps = @ + 1,
                                        !.messages = @ \o calls, !.open = Range(calls)]
       \/ \E said \in BOOLEAN :
             agent' = [agent EXCEPT !.at = "done", !.steps = @ + 1,
                          !.messages = Append(@, [Message("text", <<>>, "none", "none") EXCEPT !.said = said])]
    /\ UNCHANGED <<askPanel, demoFixture, askMode, questionsSent>>

\* A tool of the turn: through the registry, for the request's organization. A
\* call that is not OK is thrown, and the loop hands it to the model or on.
UseTool(call, fault, unaudited) ==
    /\ agent.at = "calling"
    /\ LET ended == Invoke(call.tool, fault, unaudited, "org")
           left == agent.open \ {call}
           output == IF ended.status = "ok" THEN "result" ELSE "failure"
       IN  \/ /\ agent' = [agent EXCEPT !.messages = Append(@, Message("tool", call.id, call.tool, output)),
                                        !.open = left,
                                        !.steps = IF left = {} THEN @ + 1 ELSE @,
                                        !.at = IF left = {} THEN "thinking" ELSE "calling"]
              /\ UNCHANGED askPanel
           \/ ended.status # "ok" /\ SettleAnswer("error", <<>>)
    /\ UNCHANGED <<demoFixture, askMode, questionsSent>>

\* GraphRecursionError: a fixed phrase, and no trace.
HitLimit ==
    /\ agent.at = "thinking" /\ agent.steps >= AgentMaxSteps
    /\ SettleAnswer("phrase", <<>>)
    /\ UNCHANGED <<demoFixture, askMode, questionsSent>>

\* The timeout of the whole loop, or of the model's own client, which has no
\* breaker: a phrase in the first case, an error in the second.
GiveUpAsk ==
    /\ agent.at \in {"thinking", "calling"}
    /\ \E kind \in {"phrase", "error"} : SettleAnswer(kind, <<>>)
    /\ UNCHANGED <<demoFixture, askMode, questionsSent>>

Finish ==
    /\ agent.at = "done"
    /\ SettleAnswer(IF HasAnswer(agent.messages) THEN "answer" ELSE "blank", Trace(agent.messages))
    /\ UNCHANGED <<demoFixture, askMode, questionsSent>>

AskNext ==
    \/ \E text \in Questions : TypeQuestion(text)
    \/ SubmitQuestion \/ Replay \/ Disabled \/ BuildAgent \/ Think \/ HitLimit \/ GiveUpAsk \/ Finish
    \/ \E call \in agent.open, fault \in {"none", "execution"}, unaudited \in {{}, {1}, {2}} :
          UseTool(call, fault, unaudited)

-----------------------------------------------------------------------------
(* ----------------------------- properties ------------------------------ *)

\* What the panel shows answers the question that stands in its box, and a step
\* of its trace never lacks the output of a call the agent heard back from
\* (AskCopilotPanel.tsx:30-36, agentic-copilot.service.ts:52-87).
AnswerIsOfQuestion ==
    askPanel.outcome.kind # "none" =>
        /\ askPanel.outcome.of = askPanel.text
        /\ \A i \in DOMAIN askPanel.outcome.trace :
              askPanel.outcome.trace[i].tool # "none" => askPanel.outcome.trace[i].output # "none"
=============================================================================
