----------------------------- MODULE WebClient -----------------------------
(* The pages of the web client, each with the part of the server it talks to, *)
(* and the two services that read rule files. They share nothing, so each     *)
(* behaviour follows one of them, "part", and the others stand still.         *)
EXTENDS EventStream, Clarifications, RemapScreen, Inbox, Dialogs, AdminPanels,
        Organizations, RuleFiles, AskCopilot, QuoteScreen

CONSTANT Parts          \* the pages to follow

VARIABLE part

screensVars ==
    <<part, traceVars, clarifyVars, remapVars, inboxVars, dialogVars, adminVars, orgVars, ruleVars,
      askVars, screenVars>>

-----------------------------------------------------------------------------
ScreensInit ==
    /\ part \in Parts
    /\ TraceInit /\ ClarifyInit /\ RemapInit /\ InboxInit /\ DialogInit
    /\ AdminInit /\ OrgInit /\ RuleInit /\ AskInit /\ ScreenInit

Still(p, p_vars) == IF part = p THEN TRUE ELSE UNCHANGED p_vars

OthersRest ==
    /\ UNCHANGED part
    /\ Still("trace", traceVars) /\ Still("letter", clarifyVars) /\ Still("remap", remapVars)
    /\ Still("inbox", inboxVars) /\ Still("dialog", dialogVars) /\ Still("admin", adminVars)
    /\ Still("org", orgVars) /\ Still("rules", ruleVars) /\ Still("ask", askVars)
    /\ Still("quote", screenVars)

ScreensNext ==
    \/ part = "trace" /\ TraceNext /\ OthersRest
    \/ part = "letter" /\ ClarifyNext /\ OthersRest
    \/ part = "remap" /\ RemapNext /\ OthersRest
    \/ part = "inbox" /\ InboxNext /\ OthersRest
    \/ part = "dialog" /\ DialogNext /\ OthersRest
    \/ part = "admin" /\ AdminNext /\ OthersRest
    \/ part = "org" /\ OrgNext /\ OthersRest
    \/ part = "rules" /\ RuleNext /\ OthersRest
    \/ part = "ask" /\ AskNext /\ OthersRest
    \/ part = "quote" /\ ScreenNext /\ OthersRest

ScreensSpec == ScreensInit /\ [][ScreensNext]_screensVars

-----------------------------------------------------------------------------
(* ----------------------------- properties ------------------------------ *)

\* An answer is taken for what was asked, also when it comes after something
\* else was asked: by the re-map screen, the decline dialog (of a refusal), the
\* copilot's panel, calls made for a chosen organization, and calls that read a
\* rule file.
AnswersFitWhatWasAsked ==
    /\ TotalFollowsLatest /\ LateAnswerSpares /\ AnswerIsOfQuestion
    /\ ListedOrgIsServed /\ AnswersAsOfCall

\* What a page has shown is not taken back by a query that was under way when
\* the page learned better: the inbox's rows, the quote's state and the register.
ScreensMoveForward == StalePollNeverWins /\ ShownMovesForward
=============================================================================
