------------------------------- MODULE Dialogs -------------------------------
(* Two dialogs that wait for an answer: declining a request under review and  *)
(* pasting the text of an attachment nothing could read. Either may be closed *)
(* and opened again while the answer to an earlier session is still out.      *)
EXTENDS Naturals, Sequences

CONSTANT MaxDialogCalls \* bound: submissions

VARIABLES
    desk,               \* the page: which dialog it has, what it knows of the request
    dialog,             \* the dialog
    sent,               \* the submissions
    verdict             \* the server: the submission that took effect, or 0

dialogVars == <<desk, dialog, sent, verdict>>

Submissions == 1..Len(sent)

\* since: the submissions that were made before this session. heeds: the one
\* whose answer the dialog will hear (the mutation the observer holds and the
\* token its callbacks compare), or 0.
NoDialog == [open |-> FALSE, since |-> 0, filled |-> FALSE, error |-> FALSE, heeds |-> 0]

DialogInit ==
    /\ desk \in [kind : {"decline", "paste"}, shown : {TRUE}, done : {FALSE}]
    /\ dialog = NoDialog
    /\ sent = <<>>
    /\ verdict = 0

Pending == dialog.heeds # 0 /\ sent[dialog.heeds].heard = FALSE
FreshDialog(d) == [d EXCEPT !.open = TRUE, !.since = Len(sent)]

-----------------------------------------------------------------------------
(* ----------------------------- the dialogs ----------------------------- *)

\* The page offers to decline while the request it shows is in NEEDS_REVIEW.
OpenDecline ==
    /\ desk.kind = "decline" /\ desk.shown /\ ~desk.done /\ ~dialog.open
    /\ dialog' = FreshDialog(dialog)
    /\ UNCHANGED <<desk, sent, verdict>>

\* The panel of an attachment nothing has been pasted for.
OpenPaste ==
    /\ desk.kind = "paste" /\ desk.shown /\ ~desk.done /\ ~dialog.open
    /\ dialog' = FreshDialog(dialog)
    /\ UNCHANGED <<desk, sent, verdict>>

\* The reason picked (or written, for another), the text pasted.
FillIn(some) ==
    /\ dialog.open /\ dialog.filled # some
    /\ dialog' = [dialog EXCEPT !.filled = some]
    /\ UNCHANGED <<desk, sent, verdict>>

Submit(change) ==
    /\ dialog.open /\ dialog.filled /\ ~Pending /\ Len(sent) < MaxDialogCalls
    /\ sent' = Append(sent, [at |-> "sent", heard |-> FALSE])
    /\ dialog' = [change EXCEPT !.heeds = Len(sent) + 1]
    /\ UNCHANGED <<desk, verdict>>

\* An error shown stays while the new attempt is out.
ConfirmDecline == desk.kind = "decline" /\ Submit(dialog)

SubmitPaste == desk.kind = "paste" /\ Submit([dialog EXCEPT !.error = FALSE])

\* handleClose of the decline dialog raises the token and resets the mutation:
\* no answer to this session is heard, and the next may submit at once.
AbandonDecline ==
    /\ desk.kind = "decline" /\ dialog.open
    /\ dialog' = NoDialog
    /\ UNCHANGED <<desk, sent, verdict>>

\* handleClose of the paste dialog empties it; the mutation goes on and its
\* answer will be heard by whatever session is open by then.
ClosePaste ==
    /\ desk.kind = "paste" /\ dialog.open
    /\ dialog' = [NoDialog EXCEPT !.heeds = dialog.heeds]
    /\ UNCHANGED <<desk, sent, verdict>>

-----------------------------------------------------------------------------
(* ------------------------------ the server ----------------------------- *)

\* A decline is recorded once; a second one is answered as if it had been. An
\* attachment takes what is pasted last. The transition or the save may fail.
Decide(i) ==
    /\ sent[i].at = "sent"
    /\ \/ /\ sent' = [sent EXCEPT ![i].at = "done"]
          /\ verdict' = IF desk.kind = "decline" /\ verdict # 0 THEN verdict ELSE i
       \/ sent' = [sent EXCEPT ![i].at = "refused"] /\ UNCHANGED verdict
    /\ UNCHANGED <<desk, dialog>>

-----------------------------------------------------------------------------
(* ------------------------------ the answers ---------------------------- *)

\* Mutant: callbacks that neither the token nor the reset holds back.
HeedsAny(i) == dialog.open

\* Is this the answer the dialog is waiting for?
Heeds(i) == dialog.heeds = i

Hear(i, at) ==
    /\ sent[i].at = at /\ ~sent[i].heard
    /\ sent' = [sent EXCEPT ![i].heard = TRUE]
    /\ UNCHANGED verdict

\* A decline takes the person to the inbox, heeded or not.
HearDeclined(i) ==
    /\ desk.kind = "decline" /\ Hear(i, "done")
    /\ desk' = [desk EXCEPT !.shown = FALSE]
    /\ dialog' = NoDialog

\* The reason is shown in the dialog; other sessions never see it.
HearNotDeclined(i) ==
    /\ desk.kind = "decline" /\ Hear(i, "refused")
    /\ dialog' = IF Heeds(i) THEN [dialog EXCEPT !.error = TRUE] ELSE dialog
    /\ UNCHANGED desk

\* onPasteSuccess and handleClose, for the last submission only.
HearPasted(i) ==
    /\ desk.kind = "paste" /\ Hear(i, "done")
    /\ IF dialog.heeds = i /\ desk.shown
       THEN /\ dialog' = NoDialog
            /\ desk' = [desk EXCEPT !.done = TRUE]
       ELSE UNCHANGED <<desk, dialog>>

HearNotPasted(i) ==
    /\ desk.kind = "paste" /\ Hear(i, "refused")
    /\ dialog' = IF dialog.heeds = i THEN [dialog EXCEPT !.error = TRUE] ELSE dialog
    /\ UNCHANGED desk

\* Another page and back: the dialog is gone, what it sent goes on. The request
\* is read again.
LeaveDesk ==
    /\ desk.shown
    /\ desk' = [desk EXCEPT !.shown = FALSE]
    /\ dialog' = NoDialog
    /\ UNCHANGED <<sent, verdict>>

ComeBack ==
    /\ ~desk.shown
    /\ desk' = [desk EXCEPT !.shown = TRUE,
                            !.done = IF desk.kind = "decline" THEN verdict # 0 ELSE FALSE]
    /\ UNCHANGED <<dialog, sent, verdict>>

DialogNext ==
    \/ OpenDecline \/ OpenPaste \/ ConfirmDecline \/ SubmitPaste \/ AbandonDecline \/ ClosePaste
    \/ \E some \in BOOLEAN : FillIn(some)
    \/ \E i \in Submissions : Decide(i) \/ HearDeclined(i) \/ HearNotDeclined(i)
    \/ \E i \in Submissions : HearPasted(i) \/ HearNotPasted(i)
    \/ LeaveDesk \/ ComeBack

-----------------------------------------------------------------------------
(* ------------------------------ properties ----------------------------- *)

\* An error shown in a decline dialog is the answer to what was sent from that
\* dialog: the refusal of a decline that was given up never shows in one opened
\* since. (A late success does close such a dialog: it navigates to the inbox.)
LateAnswerSpares ==
    desk.kind = "decline" /\ dialog.error =>
        \E i \in Submissions : i > dialog.since /\ sent[i].at = "refused" /\ sent[i].heard
=============================================================================
