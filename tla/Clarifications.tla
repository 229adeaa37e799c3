--------------------------- MODULE Clarifications ----------------------------
(* The clarification of one request: the draft a language model writes, the   *)
(* people who edit and send it, and the page they do it on. Every call reads  *)
(* the row, thinks, and writes with a condition; the page keeps a copy of the *)
(* draft that it never refreshes.                                             *)
EXTENDS Naturals, FiniteSets

CONSTANTS
    Writers,            \* people with the page open
    Texts,              \* texts a draft can hold, none of them blank
    MaxClarifyCalls     \* bound: calls in all

VARIABLES
    letter,             \* the row of table clarifications, unique per request
    callOf,             \* the call each person has at the server
    form,               \* each person's page
    letterCalls         \* calls made so far

clarifyVars == <<letter, callOf, form, letterCalls>>

NoLetter == [there |-> FALSE, text |-> "blank", sentBy |-> "nobody"]
NoLetterCall == [op |-> "none", at |-> "none", text |-> "blank", saw |-> NoLetter]
NoForm == [open |-> FALSE, text |-> "blank", dirty |-> FALSE, sending |-> FALSE, sent |-> FALSE,
           asks |-> FALSE, error |-> FALSE]

ClarifyInit ==
    /\ letter = NoLetter
    /\ callOf = [w \in Writers |-> NoLetterCall]
    /\ form = [w \in Writers |-> NoForm]
    /\ letterCalls = 0

Sent(row) == row.sentBy # "nobody"

-----------------------------------------------------------------------------
(* ------------------------------- service ------------------------------- *)

StartCall(w, op, text) ==
    /\ callOf[w].op = "none" /\ letterCalls < MaxClarifyCalls
    /\ callOf' = [callOf EXCEPT ![w] = [op |-> op, at |-> "begun", text |-> text, saw |-> NoLetter]]
    /\ letterCalls' = letterCalls + 1

\* useBlocker: with unsaved edits the dialog opens in place of leaving.
Leaving(page) == IF page.dirty THEN [page EXCEPT !.asks = TRUE] ELSE NoForm

\* What the page does with the answer to a send: navigate, from whatever page
\* the person has open by then, or show the error in the page that asked. After
\* a success "sending" is never taken back: the page was to be gone.
SendAnswered(w, ok) ==
    /\ callOf' = [callOf EXCEPT ![w] = NoLetterCall]
    /\ form' = [form EXCEPT ![w] = IF ok /\ form[w].open THEN Leaving(form[w])
                                   ELSE [form[w] EXCEPT !.error = form[w].sending, !.sending = FALSE]]
    /\ UNCHANGED letterCalls

\* POST draft: the gaps must not be empty (the body's schema says so too).
AskForDraft(w) == StartCall(w, "generate", "blank") /\ UNCHANGED <<letter, form>>

\* The draft_clarification tool: the model's answer, stripped of its fence and
\* parsed, gives a subject and a body, or the draft fails. Neither is empty, but
\* either may be white space only.
DraftFailed == "failed"
Generated(w, text) ==
    /\ callOf[w].op = "generate" /\ callOf[w].at = "begun"
    /\ callOf' = [callOf EXCEPT ![w].at = "drafted", ![w].text = text]
    /\ UNCHANGED <<letter, form, letterCalls>>

\* getById, findByRequestId.
ReadLetter(w) ==
    /\ \/ callOf[w].op = "generate" /\ callOf[w].at = "drafted"
       \/ callOf[w].op \in {"update", "put", "send"} /\ callOf[w].at = "begun"
    /\ callOf' = [callOf EXCEPT ![w].at = "read", ![w].saw = letter]
    /\ UNCHANGED <<letter, form, letterCalls>>

\* Mutant: the update is not conditional on sent_at being null.
WriteDraftAlways(row, text) == [row EXCEPT !.text = text]

\* actions.updateDraft: UPDATE ... WHERE id = $1 AND sent_at IS NULL.
WriteDraft(row, text) == IF Sent(row) THEN row ELSE [row EXCEPT !.text = text]

\* An existing letter that was sent, or a draft that failed, changes nothing; a
\* second insert meets the unique index.
FinishDraft(w) ==
    LET call == callOf[w] IN
    /\ call.op = "generate" /\ call.at = "read"
    /\ letter' = IF call.text = DraftFailed \/ Sent(call.saw) THEN letter
                 ELSE IF call.saw.there THEN WriteDraft(letter, call.text)
                 ELSE IF letter.there THEN letter
                 ELSE [NoLetter EXCEPT !.there = TRUE, !.text = call.text]
    /\ callOf' = [callOf EXCEPT ![w] = NoLetterCall]
    /\ UNCHANGED <<form, letterCalls>>

\* PUT draft by a caller of the API other than the page: any text, a blank one too.
PutDraft(w, text) ==
    /\ ~form[w].open
    /\ StartCall(w, "put", text)
    /\ UNCHANGED <<letter, form>>

\* updateDraft: refused when the row read was sent or is not there.
FinishPut(w) ==
    LET call == callOf[w] IN
    /\ call.op = "put" /\ call.at = "read"
    /\ letter' = IF call.saw.there /\ ~Sent(call.saw) THEN WriteDraft(letter, call.text) ELSE letter
    /\ callOf' = [callOf EXCEPT ![w] = NoLetterCall]
    /\ UNCHANGED <<form, letterCalls>>

\* The same, made by the page's handleSend.
FinishUpdate(w) ==
    LET call == callOf[w] IN
    /\ call.op = "update" /\ call.at = "read"
    /\ letter' = IF call.saw.there /\ ~Sent(call.saw) THEN WriteDraft(letter, call.text) ELSE letter
    /\ UNCHANGED letterCalls
    /\ IF call.saw.there /\ ~Sent(call.saw) /\ ~Sent(letter) THEN
            \* handleSend goes on, also when its page is gone: what was typed meanwhile
            \* is replaced by what was saved.
            /\ form' = [form EXCEPT ![w].text = IF form[w].sending THEN call.text ELSE @,
                                    ![w].dirty = @ /\ ~form[w].sending]
            /\ callOf' = [callOf EXCEPT ![w] = [NoLetterCall EXCEPT !.op = "send", !.at = "begun"]]
       ELSE /\ form' = [form EXCEPT ![w].error = form[w].sending, ![w].sending = FALSE]
            /\ callOf' = [callOf EXCEPT ![w] = NoLetterCall]

\* send: a letter already sent is answered as it is, one that was blank when it
\* was read is refused. markSent, like updateDraft, asks of the row only that it is
\* not sent: what it marks may be another text by then. Nothing is mailed.
FinishSend(w) ==
    LET call == callOf[w]
        may == call.saw.there /\ ~Sent(call.saw) /\ call.saw.text # "blank"
    IN
    /\ call.op = "send" /\ call.at = "read"
    /\ letter' = IF may /\ ~Sent(letter) THEN [letter EXCEPT !.sentBy = w] ELSE letter
    /\ SendAnswered(w, may \/ Sent(call.saw))

-----------------------------------------------------------------------------
(* ------------------------------- the page ------------------------------ *)

\* useClarification answers; the form takes the draft once, keyed by its id.
OpenForm(w) ==
    /\ ~form[w].open /\ letter.there
    /\ form' = [form EXCEPT ![w] = [NoForm EXCEPT !.open = TRUE, !.text = letter.text, !.sent = Sent(letter)]]
    /\ UNCHANGED <<letter, callOf, letterCalls>>

\* The query again, on the window's focus or after a send: only what says that
\* the letter was sent is shown, the fields stay.
RefreshForm(w) ==
    /\ form[w].open /\ form[w].sent # Sent(letter)
    /\ form' = [form EXCEPT ![w].sent = Sent(letter)]
    /\ UNCHANGED <<letter, callOf, letterCalls>>

\* The fields are open unless the copy says the letter was sent, also while a
\* send is under way; not behind the dialog.
Type(w, text) ==
    /\ form[w].open /\ ~form[w].sent /\ ~form[w].asks /\ form[w].text # text
    /\ form' = [form EXCEPT ![w].text = text, ![w].dirty = TRUE, ![w].error = FALSE]
    /\ UNCHANGED <<letter, callOf, letterCalls>>

CanSend(page) == page.text # "blank" /\ ~page.sending

\* handleSend: save what was edited, then send.
Send(w) ==
    /\ form[w].open /\ ~form[w].asks /\ CanSend(form[w]) /\ ~form[w].sent
    /\ StartCall(w, IF form[w].dirty THEN "update" ELSE "send", form[w].text)
    /\ form' = [form EXCEPT ![w].sending = TRUE, ![w].error = FALSE]
    /\ UNCHANGED letter

\* handleNav: the page's own buttons are dead from a send on.
LeaveForm(w) ==
    /\ form[w].open /\ ~form[w].asks /\ ~form[w].sending
    /\ form' = [form EXCEPT ![w] = Leaving(form[w])]
    /\ UNCHANGED <<letter, callOf, letterCalls>>

\* The links of the shell are not.
FollowLink(w) ==
    /\ form[w].open /\ ~form[w].asks
    /\ form' = [form EXCEPT ![w] = Leaving(form[w])]
    /\ UNCHANGED <<letter, callOf, letterCalls>>

\* The dialog: go, or stay (the button, the backdrop, Escape).
Discard(w) ==
    /\ form[w].asks
    /\ form' = [form EXCEPT ![w] = NoForm]
    /\ UNCHANGED <<letter, callOf, letterCalls>>

Stay(w) ==
    /\ form[w].asks
    /\ form' = [form EXCEPT ![w].asks = FALSE]
    /\ UNCHANGED <<letter, callOf, letterCalls>>

ClarifyNext ==
    \E w \in Writers :
        \/ AskForDraft(w) \/ ReadLetter(w)
        \/ \E t \in Texts \cup {"blank", DraftFailed} : Generated(w, t)
        \/ \E t \in Texts \cup {"blank"} : PutDraft(w, t)
        \/ FinishDraft(w) \/ FinishPut(w) \/ FinishUpdate(w) \/ FinishSend(w)
        \/ OpenForm(w) \/ RefreshForm(w) \/ Send(w)
        \/ LeaveForm(w) \/ FollowLink(w) \/ Discard(w) \/ Stay(w)
        \/ \E t \in Texts \cup {"blank"} : Type(w, t)

-----------------------------------------------------------------------------
(* ------------------------------ properties ----------------------------- *)

\* Whatever call was under way when the letter was sent (a regeneration waiting
\* for the model, a colleague's edit, a second send), the text that was sent and
\* who sent it stay as they were, and whoever sent it had read a letter that was
\* there, not sent and not blank.
SentIsFinal ==
    [][/\ Sent(letter) => letter' = letter
       /\ ~Sent(letter) /\ Sent(letter') =>
            LET call == callOf[letter'.sentBy]
            IN /\ call.op = "send" /\ letter'.there
               /\ call.saw.there /\ ~Sent(call.saw) /\ call.saw.text # "blank"]_letter
=============================================================================
