---------------------------- MODULE ScreenProofs ----------------------------
(***************************************************************************)
(* Proofs about three of the pages with their services: the clarification  *)
(* letter, for any number of people, texts and calls; the pricing rule     *)
(* behind the administration tabs, for any number of admins and calls, any *)
(* verticals, rule types and configs, and PATCHes of any fields; and the   *)
(* trace of a request, for any pipeline and any number of runs, events and *)
(* reconnects.                                                             *)
(***************************************************************************)
EXTENDS Clarifications, AdminPanels, EventStream, TLAPS, FiniteSetTheorems, SequenceTheorems

(* ------------------------------ the letter ----------------------------- *)

ClarifySpec == ClarifyInit /\ [][ClarifyNext]_clarifyVars

Wordings == Texts \cup {"blank"}
Letters == [there : BOOLEAN, text : Wordings, sentBy : Writers \cup {"nobody"}]
LetterCalls ==
    [op : {"none", "generate", "put", "update", "send"}, at : {"none", "begun", "drafted", "read"},
     text : Wordings \cup {DraftFailed}, saw : Letters]
Forms ==
    [open : BOOLEAN, text : Wordings, dirty : BOOLEAN, sending : BOOLEAN, sent : BOOLEAN,
     asks : BOOLEAN, error : BOOLEAN]

ClarifyTypeOK ==
    /\ letter \in Letters
    /\ callOf \in [Writers -> LetterCalls]
    /\ form \in [Writers -> Forms]
    /\ letterCalls \in Nat

\* Only a row that is there is sent, what a call has read is there still, and an
\* update carries a text.
LetterInv ==
    /\ Sent(letter) => letter.there
    /\ \A w \in Writers :
        /\ callOf[w].saw.there => letter.there
        /\ callOf[w].op \in {"update", "put"} => callOf[w].text \in Wordings

ClarifyInv == ClarifyTypeOK /\ LetterInv

\* Nothing is written yet.
LEMMA ClarifyInitInv == ClarifyInit => ClarifyInv
  BY
  DEF ClarifyInit, ClarifyInv, ClarifyTypeOK, LetterInv, Letters, LetterCalls, Forms, Wordings,
         NoLetter, NoLetterCall, NoForm, Sent

\* One page changes.
LEMMA FormStep ==
  ASSUME ClarifyTypeOK, NEW w \in Writers, NEW change \in Forms,
         form' = [form EXCEPT ![w] = change]
  PROVE  form' \in [Writers -> Forms]
  BY DEF ClarifyTypeOK

\* One call changes, and what it has read is there.
LEMMA CallStep ==
  ASSUME ClarifyInv, NEW w \in Writers, NEW change \in LetterCalls,
         callOf' = [callOf EXCEPT ![w] = change],
         letter.there => letter'.there, change.saw.there => letter'.there,
         change.op \in {"update", "put"} => change.text \in Wordings
  PROVE  /\ callOf' \in [Writers -> LetterCalls]
         /\ \A v \in Writers :
              /\ callOf'[v].saw.there => letter'.there
              /\ callOf'[v].op \in {"update", "put"} => callOf'[v].text \in Wordings
  BY DEF ClarifyInv, ClarifyTypeOK, LetterInv

\* The page's own steps leave the row and the calls alone.
LEMMA PageStep ==
  ASSUME ClarifyInv, UNCHANGED <<letter, callOf, letterCalls>>, form' \in [Writers -> Forms]
  PROVE  ClarifyInv'
  BY DEF ClarifyInv, ClarifyTypeOK, LetterInv, Sent

\* A call that begins, thinks or reads leaves the row alone.
LEMMA WaitStep ==
  ASSUME ClarifyInv, NEW w \in Writers, NEW change \in LetterCalls,
         callOf' = [callOf EXCEPT ![w] = change], UNCHANGED letter,
         form' \in [Writers -> Forms], letterCalls' \in Nat,
         change.saw.there => letter.there, change.op \in {"update", "put"} => change.text \in Wordings
  PROVE  ClarifyInv'
<1>1. /\ callOf' \in [Writers -> LetterCalls]
      /\ \A v \in Writers :
           /\ callOf'[v].saw.there => letter'.there
           /\ callOf'[v].op \in {"update", "put"} => callOf'[v].text \in Wordings
  BY CallStep
<1>2. QED
  BY <1>1 DEF ClarifyInv, ClarifyTypeOK, LetterInv, Sent

\* What the conditional writes make of the row.
LEMMA WriteDraftKeeps ==
  ASSUME NEW row \in Letters, NEW text \in Wordings, row.there
  PROVE  /\ WriteDraft(row, text) \in Letters /\ WriteDraft(row, text).there
         /\ WriteDraft(row, text).sentBy = row.sentBy
         /\ Sent(row) => WriteDraft(row, text) = row
  BY DEF WriteDraft, Letters, Sent

\* The step of a call that writes: the row stays there, stays as it is once it was
\* sent, and is sent by a call that read it there, not sent and not blank.
RowStep ==
    /\ letter' \in Letters
    /\ letter.there => letter'.there
    /\ Sent(letter') => letter'.there
    /\ Sent(letter) => letter' = letter
    /\ ~Sent(letter) /\ Sent(letter') =>
         LET call == callOf[letter'.sentBy]
         IN /\ call.op = "send" /\ letter'.there
            /\ call.saw.there /\ ~Sent(call.saw) /\ call.saw.text # "blank"

\* The writers of the row.
LEMMA WritersKeepRow ==
  ASSUME ClarifyInv, NEW w \in Writers,
         FinishDraft(w) \/ FinishPut(w) \/ FinishUpdate(w) \/ FinishSend(w)
  PROVE  RowStep
<1> DEFINE call == callOf[w]
<1>1. /\ letter \in Letters /\ call.text \in Wordings \cup {DraftFailed}
      /\ Sent(letter) => letter.there
      /\ call.saw.there => letter.there
      /\ call.op \in {"update", "put"} => call.text \in Wordings
  BY DEF ClarifyInv, ClarifyTypeOK, LetterInv, LetterCalls
<1>2. CASE letter' = letter
  BY <1>1, <1>2 DEF RowStep
<1>3. CASE letter' = WriteDraft(letter, call.text) /\ call.text \in Wordings /\ letter.there
  BY <1>1, <1>3, WriteDraftKeeps DEF RowStep, Sent
<1>4. CASE /\ letter' = [NoLetter EXCEPT !.there = TRUE, !.text = call.text]
           /\ call.text \in Wordings /\ ~letter.there
  <2>1. letter' = [there |-> TRUE, text |-> call.text, sentBy |-> "nobody"]
    BY <1>4 DEF NoLetter
  <2>2. QED
    BY <2>1, <1>1, <1>4 DEF RowStep, Sent, Letters
<1>5. CASE /\ letter' = [letter EXCEPT !.sentBy = w] /\ letter.there /\ ~Sent(letter)
           /\ call.op = "send" /\ call.saw.there /\ ~Sent(call.saw) /\ call.saw.text # "blank"
  <2>1. /\ letter' \in Letters /\ letter'.there = letter.there /\ letter'.sentBy = w
    BY <1>1, <1>5 DEF Letters
  <2>2. QED
    BY <2>1, <1>1, <1>5 DEF RowStep
<1>6. CASE FinishDraft(w)
  BY <1>6, <1>1, <1>2, <1>3, <1>4 DEF FinishDraft
<1>7. CASE FinishUpdate(w)
  BY <1>7, <1>1, <1>2, <1>3 DEF FinishUpdate
<1>8. CASE FinishPut(w)
  BY <1>8, <1>1, <1>2, <1>3 DEF FinishPut
<1>9. CASE FinishSend(w)
  BY <1>9, <1>1, <1>2, <1>5 DEF FinishSend
<1>10. QED
  BY <1>6, <1>7, <1>8, <1>9

\* Every step of the service and of the pages keeps the invariant.
LEMMA ClarifyStepInv == ClarifyInv /\ [ClarifyNext]_clarifyVars => ClarifyInv'
<1> SUFFICES ASSUME ClarifyInv, [ClarifyNext]_clarifyVars PROVE ClarifyInv'
  OBVIOUS
<1>0. /\ letter \in Letters /\ letterCalls \in Nat /\ form \in [Writers -> Forms]
      /\ \A w \in Writers : /\ form[w] \in Forms /\ callOf[w] \in LetterCalls
                            /\ callOf[w].saw.there => letter.there
                            /\ callOf[w].op \in {"update", "put"} => callOf[w].text \in Wordings
  BY DEF ClarifyInv, ClarifyTypeOK, LetterInv
<1>a. NoLetterCall \in LetterCalls /\ NoForm \in Forms /\ NoLetter \in Letters /\ ~NoLetter.there
  BY DEF NoLetterCall, NoForm, NoLetter, LetterCalls, Forms, Letters, Wordings
<1>1. ASSUME NEW w \in Writers, AskForDraft(w)
      PROVE  ClarifyInv'
  <2> DEFINE change == [op |-> "generate", at |-> "begun", text |-> "blank", saw |-> NoLetter]
  <2>1. change \in LetterCalls
    BY <1>a DEF LetterCalls, Wordings
  <2>2. /\ callOf' = [callOf EXCEPT ![w] = change] /\ letterCalls' = letterCalls + 1
        /\ UNCHANGED <<letter, form>>
    BY <1>1 DEF AskForDraft, StartCall
  <2>3. change.saw = NoLetter /\ change.op = "generate" /\ letterCalls' \in Nat
    BY <1>0, <2>2
  <2>4. QED
    BY <1>0, <1>a, <2>1, <2>2, <2>3, WaitStep
<1>2. ASSUME NEW w \in Writers, ReadLetter(w)
      PROVE  ClarifyInv'
  <2> DEFINE change == [callOf[w] EXCEPT !.at = "read", !.saw = letter]
  <2>1. /\ change \in LetterCalls /\ change.saw = letter
        /\ change.op = callOf[w].op /\ change.text = callOf[w].text
    BY <1>0 DEF LetterCalls
  <2>2. callOf' = [callOf EXCEPT ![w] = change] /\ UNCHANGED <<letter, form, letterCalls>>
    BY <1>2 DEF ReadLetter
  <2>3. QED
    BY <1>0, <2>1, <2>2, WaitStep
<1>3. ASSUME NEW w \in Writers, NEW t \in Wordings \cup {DraftFailed}, Generated(w, t)
      PROVE  ClarifyInv'
  <2> DEFINE change == [callOf[w] EXCEPT !.at = "drafted", !.text = t]
  <2>1. change \in LetterCalls /\ change.saw = callOf[w].saw /\ change.op = callOf[w].op
    BY <1>0 DEF LetterCalls
  <2>2. /\ callOf' = [callOf EXCEPT ![w] = change] /\ callOf[w].op = "generate"
        /\ UNCHANGED <<letter, form, letterCalls>>
    BY <1>3 DEF Generated
  <2>3. QED
    BY <1>0, <2>1, <2>2, WaitStep
<1>4. ASSUME NEW w \in Writers, FinishDraft(w)
      PROVE  ClarifyInv'
  <2>1. RowStep
    BY <1>4, WritersKeepRow
  <2>2. /\ callOf' \in [Writers -> LetterCalls]
        /\ \A v \in Writers :
             /\ callOf'[v].saw.there => letter'.there
             /\ callOf'[v].op \in {"update", "put"} => callOf'[v].text \in Wordings
    <3>1. callOf' = [callOf EXCEPT ![w] = NoLetterCall]
      BY <1>4 DEF FinishDraft
    <3>2. ~NoLetterCall.saw.there /\ NoLetterCall.op = "none"
      BY DEF NoLetterCall, NoLetter
    <3>3. QED
      BY <1>a, <2>1, <3>1, <3>2, CallStep DEF RowStep
  <2>3. form' \in [Writers -> Forms]
    BY <1>4, <1>0 DEF FinishDraft
  <2>4. letterCalls' = letterCalls
    BY <1>4 DEF FinishDraft
  <2>5. QED
    BY <1>0, <2>1, <2>2, <2>3, <2>4 DEF ClarifyInv, ClarifyTypeOK, LetterInv, RowStep
<1>5. ASSUME NEW w \in Writers, FinishUpdate(w)
      PROVE  ClarifyInv'
  <2>1. RowStep
    BY <1>5, WritersKeepRow
  <2>2. /\ callOf' \in [Writers -> LetterCalls]
        /\ \A v \in Writers :
             /\ callOf'[v].saw.there => letter'.there
             /\ callOf'[v].op \in {"update", "put"} => callOf'[v].text \in Wordings
    <3> DEFINE send == [NoLetterCall EXCEPT !.op = "send", !.at = "begun"]
    <3>1. send \in LetterCalls /\ ~send.saw.there /\ send.op = "send"
      BY DEF NoLetterCall, NoLetter, LetterCalls, Letters, Wordings
    <3>2. ~NoLetterCall.saw.there /\ NoLetterCall.op = "none"
      BY DEF NoLetterCall, NoLetter
    <3>3. \/ callOf' = [callOf EXCEPT ![w] = NoLetterCall]
          \/ callOf' = [callOf EXCEPT ![w] = send]
      BY <1>5 DEF FinishUpdate
    <3>4. QED
      BY <1>a, <2>1, <3>1, <3>2, <3>3, CallStep DEF RowStep
  <2>3. form' \in [Writers -> Forms]
    <3> DEFINE saved == [form EXCEPT ![w].text = IF form[w].sending THEN callOf[w].text ELSE @,
                                     ![w].dirty = @ /\ ~form[w].sending]
               failed == [form EXCEPT ![w].error = form[w].sending, ![w].sending = FALSE]
    <3>1. form' = saved \/ form' = failed
      BY <1>5 DEF FinishUpdate
    <3>2. saved \in [Writers -> Forms]
      <4> DEFINE text == IF form[w].sending THEN callOf[w].text ELSE form[w].text
                 dirty == form[w].dirty /\ ~form[w].sending
                 page == [form[w] EXCEPT !.text = text, !.dirty = dirty]
      <4>1. text \in Wordings /\ dirty \in BOOLEAN
        BY <1>0, <1>5 DEF FinishUpdate, Forms
      <4>2. saved = [form EXCEPT ![w] = page]
        OBVIOUS
      <4> HIDE DEF text, dirty
      <4>3. page \in Forms
        BY <1>0, <4>1 DEF Forms
      <4>4. QED
        BY <1>0, <4>2, <4>3
    <3>3. failed \in [Writers -> Forms]
      BY <1>0 DEF Forms
    <3>4. QED
      BY <3>1, <3>2, <3>3
  <2>4. letterCalls' = letterCalls
    BY <1>5 DEF FinishUpdate
  <2>5. QED
    BY <1>0, <2>1, <2>2, <2>3, <2>4 DEF ClarifyInv, ClarifyTypeOK, LetterInv, RowStep
<1>6. ASSUME NEW w \in Writers, FinishSend(w)
      PROVE  ClarifyInv'
  <2>1. RowStep
    BY <1>6, WritersKeepRow
  <2>2. /\ callOf' \in [Writers -> LetterCalls]
        /\ \A v \in Writers :
             /\ callOf'[v].saw.there => letter'.there
             /\ callOf'[v].op \in {"update", "put"} => callOf'[v].text \in Wordings
    <3>1. callOf' = [callOf EXCEPT ![w] = NoLetterCall]
      BY <1>6 DEF FinishSend, SendAnswered
    <3>2. ~NoLetterCall.saw.there /\ NoLetterCall.op = "none"
      BY DEF NoLetterCall, NoLetter
    <3>3. QED
      BY <1>a, <2>1, <3>1, <3>2, CallStep DEF RowStep
  <2>3. form' \in [Writers -> Forms]
    <3> DEFINE failed == [form[w] EXCEPT !.error = form[w].sending, !.sending = FALSE]
    <3>1. failed \in Forms /\ Leaving(form[w]) \in Forms
      BY <1>0, <1>a DEF Forms, Leaving
    <3>2. form' = [form EXCEPT ![w] = failed] \/ form' = [form EXCEPT ![w] = Leaving(form[w])]
      BY <1>6 DEF FinishSend, SendAnswered
    <3>3. QED
      BY <3>1, <3>2, FormStep DEF ClarifyInv
  <2>4. letterCalls' = letterCalls
    BY <1>6 DEF FinishSend, SendAnswered
  <2>5. QED
    BY <1>0, <2>1, <2>2, <2>3, <2>4 DEF ClarifyInv, ClarifyTypeOK, LetterInv, RowStep
<1>7. ASSUME NEW w \in Writers, OpenForm(w)
      PROVE  ClarifyInv'
  <2> DEFINE change == [NoForm EXCEPT !.open = TRUE, !.text = letter.text, !.sent = Sent(letter)]
  <2>1. change \in Forms
    BY <1>0, <1>a DEF Forms, Letters, Sent, NoForm, Leaving, Wordings
  <2>2. form' = [form EXCEPT ![w] = change] /\ UNCHANGED <<letter, callOf, letterCalls>>
    BY <1>7 DEF OpenForm
  <2>3. form' \in [Writers -> Forms]
    BY <2>1, <2>2, FormStep DEF ClarifyInv
  <2>4. QED
    BY <2>2, <2>3, PageStep
<1>8. ASSUME NEW w \in Writers, RefreshForm(w)
      PROVE  ClarifyInv'
  <2> DEFINE change == [form[w] EXCEPT !.sent = Sent(letter)]
  <2>1. change \in Forms
    BY <1>0, <1>a DEF Forms, Letters, Sent, NoForm, Leaving, Wordings
  <2>2. form' = [form EXCEPT ![w] = change] /\ UNCHANGED <<letter, callOf, letterCalls>>
    BY <1>8 DEF RefreshForm
  <2>3. form' \in [Writers -> Forms]
    BY <2>1, <2>2, FormStep DEF ClarifyInv
  <2>4. QED
    BY <2>2, <2>3, PageStep
<1>9. ASSUME NEW w \in Writers, Send(w)
      PROVE  ClarifyInv'
  <2> DEFINE change == [op |-> IF form[w].dirty THEN "update" ELSE "send", at |-> "begun",
                        text |-> form[w].text, saw |-> NoLetter]
             page == [form[w] EXCEPT !.sending = TRUE, !.error = FALSE]
  <2>1. change \in LetterCalls /\ page \in Forms
    <3>1. form[w].text \in Wordings /\ form[w].dirty \in BOOLEAN
      BY <1>0 DEF Forms
    <3>2. change \in LetterCalls
      BY <1>a, <3>1 DEF LetterCalls
    <3>3. QED
      BY <1>0, <3>2 DEF Forms
  <2>2. /\ callOf' = [callOf EXCEPT ![w] = change] /\ letterCalls' = letterCalls + 1
        /\ form' = [form EXCEPT ![w] = page] /\ UNCHANGED letter /\ form[w].text # "blank"
    BY <1>9 DEF Send, StartCall, CanSend
  <2>3. form' \in [Writers -> Forms]
    BY <2>1, <2>2, FormStep DEF ClarifyInv
  <2>4. /\ change.saw = NoLetter /\ ~change.saw.there
        /\ change.text \in Wordings /\ letterCalls' \in Nat
    BY <1>0, <1>a, <2>2 DEF Forms
  <2> HIDE DEF change
  <2>5. QED
    BY <2>1, <2>2, <2>3, <2>4, WaitStep
<1>10. ASSUME NEW w \in Writers, LeaveForm(w)
      PROVE  ClarifyInv'
  <2> DEFINE change == Leaving(form[w])
  <2>1. change \in Forms
    BY <1>0, <1>a DEF Forms, Letters, Sent, NoForm, Leaving, Wordings
  <2>2. form' = [form EXCEPT ![w] = change] /\ UNCHANGED <<letter, callOf, letterCalls>>
    BY <1>10 DEF LeaveForm
  <2>3. form' \in [Writers -> Forms]
    BY <2>1, <2>2, FormStep DEF ClarifyInv
  <2>4. QED
    BY <2>2, <2>3, PageStep
<1>11. ASSUME NEW w \in Writers, FollowLink(w)
      PROVE  ClarifyInv'
  <2> DEFINE change == Leaving(form[w])
  <2>1. change \in Forms
    BY <1>0, <1>a DEF Forms, Letters, Sent, NoForm, Leaving, Wordings
  <2>2. form' = [form EXCEPT ![w] = change] /\ UNCHANGED <<letter, callOf, letterCalls>>
    BY <1>11 DEF FollowLink
  <2>3. form' \in [Writers -> Forms]
    BY <2>1, <2>2, FormStep DEF ClarifyInv
  <2>4. QED
    BY <2>2, <2>3, PageStep
<1>12. ASSUME NEW w \in Writers, Discard(w)
      PROVE  ClarifyInv'
  <2> DEFINE change == NoForm
  <2>1. change \in Forms
    BY <1>0, <1>a DEF Forms
  <2>2. form' = [form EXCEPT ![w] = change] /\ UNCHANGED <<letter, callOf, letterCalls>>
    BY <1>12 DEF Discard
  <2>3. form' \in [Writers -> Forms]
    BY <2>1, <2>2, FormStep DEF ClarifyInv
  <2>4. QED
    BY <2>2, <2>3, PageStep
<1>13. ASSUME NEW w \in Writers, Stay(w)
      PROVE  ClarifyInv'
  <2> DEFINE change == [form[w] EXCEPT !.asks = FALSE]
  <2>1. change \in Forms
    BY <1>0, <1>a DEF Forms
  <2>2. form' = [form EXCEPT ![w] = change] /\ UNCHANGED <<letter, callOf, letterCalls>>
    BY <1>13 DEF Stay
  <2>3. form' \in [Writers -> Forms]
    BY <2>1, <2>2, FormStep DEF ClarifyInv
  <2>4. QED
    BY <2>2, <2>3, PageStep
<1>14. ASSUME NEW w \in Writers, NEW t \in Wordings, Type(w, t)
      PROVE  ClarifyInv'
  <2> DEFINE change == [form[w] EXCEPT !.text = t, !.dirty = TRUE, !.error = FALSE]
  <2>1. change \in Forms
    BY <1>0, <1>a DEF Forms, Letters, Sent, NoForm, Leaving, Wordings
  <2>2. form' = [form EXCEPT ![w] = change] /\ UNCHANGED <<letter, callOf, letterCalls>>
    BY <1>14 DEF Type
  <2>3. form' \in [Writers -> Forms]
    BY <2>1, <2>2, FormStep DEF ClarifyInv
  <2>4. QED
    BY <2>2, <2>3, PageStep
<1>15. ASSUME NEW w \in Writers, NEW t \in Wordings, PutDraft(w, t)
      PROVE  ClarifyInv'
  <2> DEFINE change == [op |-> "put", at |-> "begun", text |-> t, saw |-> NoLetter]
  <2>1. change \in LetterCalls
    BY <1>a DEF LetterCalls, Wordings
  <2>2. /\ callOf' = [callOf EXCEPT ![w] = change] /\ letterCalls' = letterCalls + 1
        /\ UNCHANGED <<letter, form>>
    BY <1>15 DEF PutDraft, StartCall
  <2>3. change.saw = NoLetter /\ change.text = t /\ letterCalls' \in Nat
    BY <1>0, <2>2
  <2>4. QED
    BY <1>0, <1>a, <2>1, <2>2, <2>3, WaitStep
<1>16. ASSUME NEW w \in Writers, FinishPut(w)
      PROVE  ClarifyInv'
  <2>1. RowStep
    BY <1>16, WritersKeepRow
  <2>2. /\ callOf' \in [Writers -> LetterCalls]
        /\ \A v \in Writers :
             /\ callOf'[v].saw.there => letter'.there
             /\ callOf'[v].op \in {"update", "put"} => callOf'[v].text \in Wordings
    <3>1. callOf' = [callOf EXCEPT ![w] = NoLetterCall]
      BY <1>16 DEF FinishPut
    <3>2. ~NoLetterCall.saw.there /\ NoLetterCall.op = "none"
      BY DEF NoLetterCall, NoLetter
    <3>3. QED
      BY <1>a, <2>1, <3>1, <3>2, CallStep DEF RowStep
  <2>3. form' \in [Writers -> Forms] /\ letterCalls' = letterCalls
    BY <1>16, <1>0 DEF FinishPut
  <2>4. QED
    BY <1>0, <2>1, <2>2, <2>3 DEF ClarifyInv, ClarifyTypeOK, LetterInv, RowStep
<1>17. CASE UNCHANGED clarifyVars
  BY <1>17 DEF clarifyVars, ClarifyInv, ClarifyTypeOK, LetterInv, Sent
<1>18. QED
  BY <1>1, <1>2, <1>3, <1>4, <1>5, <1>6, <1>7, <1>8, <1>9, <1>10, <1>11, <1>12, <1>13, <1>14,
     <1>15, <1>16, <1>17
  DEF ClarifyNext, Wordings

\* The letter, the calls at the server and the pages keep their types.
THEOREM LetterTypeCorrect == ClarifySpec => []ClarifyTypeOK
<1>1. ClarifyInv => ClarifyTypeOK
  BY DEF ClarifyInv
<1>2. QED
  BY <1>1, ClarifyInitInv, ClarifyStepInv, PTL DEF ClarifySpec

\* Whatever was under way when the letter was sent, its text and its sender stay,
\* and whoever sent it had read it unsent and not blank: every step that writes
\* the row is one of the four conditional writers.
THEOREM SentLettersAreFinal == ClarifySpec => SentIsFinal
<1>1. ClarifyInv /\ [ClarifyNext]_clarifyVars =>
        [/\ Sent(letter) => letter' = letter
         /\ ~Sent(letter) /\ Sent(letter') =>
              LET call == callOf[letter'.sentBy]
              IN /\ call.op = "send" /\ letter'.there
                 /\ call.saw.there /\ ~Sent(call.saw) /\ call.saw.text # "blank"]_letter
  <2> SUFFICES ASSUME ClarifyInv, [ClarifyNext]_clarifyVars, letter' # letter
               PROVE  RowStep
    BY DEF RowStep
  <2>1. PICK w \in Writers : FinishDraft(w) \/ FinishPut(w) \/ FinishUpdate(w) \/ FinishSend(w)
    BY DEF ClarifyNext, clarifyVars, AskForDraft, ReadLetter, Generated, PutDraft, OpenForm,
           RefreshForm, Send, LeaveForm, FollowLink, Discard, Stay, Type
  <2>2. QED
    BY <2>1, WritersKeepRow
<1>2. QED
  BY <1>1, ClarifyInitInv, ClarifyStepInv, PTL DEF ClarifySpec, SentIsFinal

(* --------------------------- the pricing rule -------------------------- *)

AdminSpec == AdminInit /\ [][AdminNext]_adminVars

Deactivation == [active |-> FALSE]

\* A PATCH as the service takes it: some fields of a row or all of them; a config
\* is anything.
IsPatch(b) ==
    /\ DOMAIN b \subseteq RowFields
    /\ "vertical" \in DOMAIN b => b["vertical"] \in Verticals \cup {NoVertical}
    /\ "type" \in DOMAIN b => b["type"] \in RuleTypes
    /\ "active" \in DOMAIN b => b["active"] \in BOOLEAN

Tabs == {"branding", "rules", ""} \cup UNION {TabsOf[a] : a \in Admins}
RulePatches == Drafts \cup PatchBodies \cup {Deactivation}
Patches == RulePatches \cup {<<>>}
Besides == {Beside(b, row) : b \in Patches, row \in Rows} \cup {<<>>}
Calls ==
    [by : Admins \cup {Api, ""}, tab : Tabs, of : Mutations \cup {""}, patch : Patches,
     at : {"sent", "checked", "done", "refused", "over"}, beside : Besides]
\* What passes the check: a patch over some row, with the fields it stands beside.
Checked ==
    {c \in RulePatches \X Besides :
        \E row \in Rows : ValidConfig(Effective(c[1], row)) /\ c[2] = Beside(c[1], row)}
Panels ==
    [tab : Tabs, form : {"closed", "create", "edit"}, confirm : BOOLEAN, last : [Mutations -> Nat]]

\* Who waits for a call that is not over.
Answerable(c) ==
    /\ c.at \in {"sent", "checked"} => c.by \in Admins \cup {Api} /\ c.of \in Mutations
    /\ c.at \in {"done", "refused"} => c.by \in Admins /\ c.of \in Mutations

AdminTypeOK ==
    /\ rule \in Rows
    /\ panel \in [Admins -> Panels]
    /\ saves \in Seq(Calls)
    /\ \A i \in Saves : Answerable(saves[i])
    /\ patchesCrossed \in BOOLEAN

\* What is on its way to the rule is a patch, and what has been checked was valid
\* over some row with the fields it remembers.
PatchInv ==
    \A i \in Saves :
        /\ saves[i].at = "sent" /\ OnRule(i) => saves[i].patch \in RulePatches
        /\ saves[i].at = "checked" => <<saves[i].patch, saves[i].beside>> \in Checked

AdminInv == AdminTypeOK /\ RuleStaysValid /\ PatchInv

\* Forms, callers of the API and the switch send patches.
LEMMA TheyArePatches == \A b \in RulePatches : IsPatch(b)
<1>1. \A b \in Drafts : IsPatch(b)
  BY DEF Drafts, IsPatch, RowFields
<1>2. IsPatch(Deactivation)
  BY DEF Deactivation, IsPatch, RowFields
<1>3. ASSUME NEW b \in PatchBodies
      PROVE  IsPatch(b)
  <2>1. PICK row \in Rows : \A f \in DOMAIN b : b[f] = row[f]
    BY PatchAssumption
  <2>2. /\ row["vertical"] \in Verticals \cup {NoVertical} /\ row["type"] \in RuleTypes
        /\ row["active"] \in BOOLEAN
    BY DEF Rows
  <2>3. DOMAIN b \subseteq RowFields
    BY PatchAssumption
  <2>4. QED
    BY <2>1, <2>2, <2>3 DEF IsPatch
<1>4. QED
  BY <1>1, <1>2, <1>3 DEF RulePatches

\* The fields of a merge.
LEMMA MergeFields ==
  ASSUME NEW row \in Rows, NEW b
  PROVE  /\ Merge(b, row) = [vertical |-> Merge(b, row).vertical, type |-> Merge(b, row).type,
                             config |-> Merge(b, row).config, active |-> Merge(b, row).active]
         /\ \A f \in RowFields : Merge(b, row)[f] = IF f \in DOMAIN b THEN b[f] ELSE row[f]
<1>1. DOMAIN row = RowFields
  BY DEF Rows, RowFields
<1>2. Merge(b, row) = [f \in RowFields |-> IF f \in DOMAIN b THEN b[f] ELSE row[f]]
  BY <1>1 DEF Merge
<1>3. QED
  BY <1>2 DEF RowFields

\* What is checked, field by field.
LEMMA EffectiveFields ==
  ASSUME NEW row \in Rows, NEW b
  PROVE  LET e == Effective(b, row)
             m == Merge(b, row)
         IN /\ e.vertical = IF m.vertical = NoVertical THEN row.vertical ELSE m.vertical
            /\ e.type = m.type /\ e.config = m.config
<1> DEFINE m == Merge(b, row)
<1>1. DOMAIN m = {"vertical", "type", "config", "active"}
  BY MergeFields
<1> HIDE DEF m
<1>2. Effective(b, row) = [m EXCEPT !.vertical = IF @ = NoVertical THEN row.vertical ELSE @]
  BY DEF Effective, m
<1>3. QED
  BY <1>1, <1>2 DEF m

\* A checked patch makes a row of any row: a valid one, or one of no vertical, if
\* it is written beside what it was checked beside, and one with the schema and the
\* config there were if it carries none of these.
LEMMA CheckedPatchMerges ==
  ASSUME NEW row \in Rows, NEW now \in Rows, NEW b, IsPatch(b), ValidConfig(Effective(b, row))
  PROVE  LET m == Merge(b, now)
         IN /\ m \in Rows
            /\ Beside(b, now) = Beside(b, row) => m.vertical = NoVertical \/ ValidConfig(m)
            /\ DOMAIN b \cap SchemaFields = {} =>
                 m.vertical = now.vertical /\ m.type = now.type /\ m.config = now.config
<1> DEFINE m == Merge(b, now)
           old == Merge(b, row)
           e == Effective(b, row)
<1>1. /\ m = [vertical |-> m.vertical, type |-> m.type, config |-> m.config, active |-> m.active]
      /\ \A f \in RowFields : m[f] = IF f \in DOMAIN b THEN b[f] ELSE now[f]
      /\ \A f \in RowFields : old[f] = IF f \in DOMAIN b THEN b[f] ELSE row[f]
  BY MergeFields
<1>2. /\ e.vertical = IF old.vertical = NoVertical THEN row.vertical ELSE old.vertical
      /\ e.type = old.type /\ e.config = old.config
  BY EffectiveFields
<1>3. /\ <<e.vertical, e.type>> \in DOMAIN Takes
      /\ e.config \in Takes[<<e.vertical, e.type>>]
  BY DEF ValidConfig
<1>4. /\ now.vertical \in Verticals \cup {NoVertical} /\ now.type \in RuleTypes
      /\ now.config \in Configs /\ now.active \in BOOLEAN
  BY DEF Rows
<1> HIDE DEF m, old, e
<1>5. e.config \in Configs
  BY <1>3 DEF Configs
<1>6. "config" \in DOMAIN b => b["config"] \in Configs
  BY <1>1, <1>2, <1>5 DEF RowFields
<1>7. /\ m.vertical \in Verticals \cup {NoVertical} /\ m.type \in RuleTypes
      /\ m.config \in Configs /\ m.active \in BOOLEAN
  BY <1>1, <1>4, <1>6 DEF IsPatch, RowFields
<1>8. m \in Rows
  BY <1>1, <1>7 DEF Rows
<1>9. ASSUME Beside(b, now) = Beside(b, row), m.vertical # NoVertical
      PROVE  ValidConfig(m)
  <2>1. \A f \in SchemaFields : f \notin DOMAIN b => now[f] = row[f]
    BY <1>9 DEF Beside
  <2>2. \A f \in SchemaFields : m[f] = old[f]
    BY <1>1, <2>1 DEF SchemaFields, RowFields
  <2>3. m.vertical = e.vertical /\ m.type = e.type /\ m.config = e.config
    BY <1>2, <1>9, <2>2 DEF SchemaFields
  <2>4. QED
    BY <1>3, <2>3 DEF ValidConfig
<1>10. DOMAIN b \cap SchemaFields = {} =>
         m.vertical = now.vertical /\ m.type = now.type /\ m.config = now.config
  BY <1>1 DEF RowFields, SchemaFields
<1>11. QED
  BY <1>8, <1>9, <1>10 DEF m

\* Nobody has called yet, and the rule is one the service took.
LEMMA AdminInitInv == AdminInit => AdminInv
<1> SUFFICES ASSUME AdminInit PROVE AdminInv
  OBVIOUS
<1>1. rule \in Rows /\ ValidConfig(rule) /\ patchesCrossed = FALSE
  BY DEF AdminInit
<1>2. saves \in Seq(Calls) /\ Saves = {}
  BY DEF AdminInit, Saves
<1>3. EmptyTab("branding") \in Panels
  BY DEF EmptyTab, Panels, Tabs
<1>4. panel \in [Admins -> Panels]
  BY <1>3 DEF AdminInit
<1>5. QED
  BY <1>1, <1>2, <1>4 DEF AdminInv, AdminTypeOK, PatchInv, RuleStaysValid

\* What leaves the calls alone as well as the rule.
LEMMA TabsOnly ==
  ASSUME AdminInv, panel' \in [Admins -> Panels], UNCHANGED <<rule, saves, patchesCrossed>>
  PROVE  AdminInv'
  BY DEF AdminInv, AdminTypeOK, PatchInv, RuleStaysValid, Saves, OnRule, ValidConfig, Answerable

\* What a person does in a tab without calling changes the tab only.
LEMMA TabStep ==
  ASSUME AdminInv, NEW a \in Admins, NEW change \in Panels, ChangeTab(a, change)
  PROVE  AdminInv'
  BY TabsOnly DEF ChangeTab, AdminInv, AdminTypeOK

\* A new call is appended; what it carries for the rule is a patch.
LEMMA CallAppended ==
  ASSUME AdminInv, NEW call \in Calls, call.at = "sent", Answerable(call),
         call.tab = "rules" /\ call.of \in {"update", "remove"} => call.patch \in RulePatches,
         saves' = Append(saves, call), panel' \in [Admins -> Panels],
         UNCHANGED <<rule, patchesCrossed>>
  PROVE  AdminInv'
<1>1. saves \in Seq(Calls) /\ Len(saves) + 1 \in Nat
  BY DEF AdminInv, AdminTypeOK
<1>2. /\ saves' \in Seq(Calls) /\ Saves' = Saves \cup {Len(saves) + 1}
      /\ \A i \in Saves : saves'[i] = saves[i]
      /\ saves'[Len(saves) + 1] = call
  BY <1>1 DEF Saves
<1>3. AdminTypeOK'
  BY <1>2 DEF AdminInv, AdminTypeOK, Answerable
<1>4. PatchInv'
  BY <1>2 DEF AdminInv, PatchInv, OnRule
<1>5. QED
  BY <1>3, <1>4 DEF AdminInv, RuleStaysValid, ValidConfig

\* A call from a tab.
LEMMA SendStep ==
  ASSUME AdminInv, NEW a \in Admins, NEW of \in Mutations, NEW patch \in Patches,
         panel[a].tab = "rules" /\ of \in {"update", "remove"} => patch \in RulePatches,
         SendCall(a, of, patch)
  PROVE  AdminInv'
<1> DEFINE call == [by |-> a, tab |-> panel[a].tab, of |-> of, patch |-> patch,
                    at |-> "sent", beside |-> <<>>]
           change == [panel[a] EXCEPT !.last[of] = Len(saves) + 1]
<1>1. panel[a] \in Panels /\ saves \in Seq(Calls) /\ Len(saves) + 1 \in Nat
  BY DEF AdminInv, AdminTypeOK
<1>2. call \in Calls
  <2>1. <<>> \in Besides /\ panel[a].tab \in Tabs
    BY <1>1 DEF Besides, Panels
  <2>2. QED
    BY <2>1 DEF Calls
<1>3. /\ saves' = Append(saves, call) /\ UNCHANGED <<rule, patchesCrossed>>
      /\ panel' = [panel EXCEPT ![a] = change]
  BY DEF SendCall
<1>4. change \in Panels
  <2> DEFINE last == [panel[a].last EXCEPT ![of] = Len(saves) + 1]
  <2>1. last \in [Mutations -> Nat]
    BY <1>1 DEF Panels
  <2>2. change = [panel[a] EXCEPT !.last = last]
    OBVIOUS
  <2>3. QED
    BY <1>1, <2>1, <2>2 DEF Panels
<1>5. panel' \in [Admins -> Panels]
  BY <1>3, <1>4 DEF AdminInv, AdminTypeOK
<1>6. /\ call.at = "sent" /\ Answerable(call)
      /\ call.tab = "rules" /\ call.of \in {"update", "remove"} => call.patch \in RulePatches
  BY DEF Answerable
<1> HIDE DEF call
<1>7. QED
  BY <1>2, <1>3, <1>5, <1>6, CallAppended

\* A call of the API, which no tab makes.
LEMMA PatchRuleStep ==
  ASSUME AdminInv, NEW body \in PatchBodies, PatchRule(body)
  PROVE  AdminInv'
<1> DEFINE call == [by |-> Api, tab |-> "rules", of |-> "update", patch |-> body,
                    at |-> "sent", beside |-> <<>>]
<1>1. call \in Calls /\ body \in RulePatches
  BY DEF Calls, Besides, Tabs, Mutations, Patches, RulePatches
<1>2. saves' = Append(saves, call) /\ UNCHANGED <<panel, rule, patchesCrossed>>
  BY DEF PatchRule
<1>3. /\ call.at = "sent" /\ Answerable(call)
      /\ call.tab = "rules" /\ call.of \in {"update", "remove"} => call.patch \in RulePatches
  BY <1>1 DEF Answerable, Mutations
<1>4. panel' \in [Admins -> Panels]
  BY <1>2 DEF AdminInv, AdminTypeOK
<1> HIDE DEF call
<1>5. QED
  BY <1>1, <1>2, <1>3, <1>4, CallAppended

\* A call goes on at the server or is heard.
LEMMA SaveStep ==
  ASSUME AdminInv, NEW i \in Saves, NEW change \in Calls, saves' = [saves EXCEPT ![i] = change],
         change.at # "sent", Answerable(change),
         change.at = "checked" => <<change.patch, change.beside>> \in Checked
  PROVE  saves' \in Seq(Calls) /\ PatchInv' /\ \A k \in Saves' : Answerable(saves'[k])
<1>1. /\ saves' \in Seq(Calls) /\ Saves' = Saves
      /\ \A k \in Saves : saves'[k] = IF k = i THEN change ELSE saves[k]
  BY DEF AdminInv, AdminTypeOK, Saves
<1>2. \A k \in Saves : Answerable(saves'[k])
  BY <1>1 DEF AdminInv, AdminTypeOK
<1>3. PatchInv'
  BY <1>1 DEF AdminInv, PatchInv, OnRule
<1>4. QED
  BY <1>1, <1>2, <1>3

\* What nobody is to hear of any more.
LEMMA OverIsACall == Over \in Calls /\ Over.at = "over" /\ Answerable(Over)
  BY DEF Over, Calls, Tabs, Patches, Besides, Answerable

\* A call that is decided carries nothing any more.
LEMMA DecidedStep ==
  ASSUME AdminInv, NEW i \in Saves, saves[i].at \in {"sent", "checked"},
         NEW at \in {"done", "refused"}, saves' = Decided(i, at)
  PROVE  saves' \in Seq(Calls) /\ PatchInv' /\ \A k \in Saves' : Answerable(saves'[k])
<1> DEFINE told == [saves[i] EXCEPT !.at = at, !.patch = <<>>, !.tab = "", !.beside = <<>>]
<1>1. saves[i] \in Calls /\ saves[i].by \in Admins \cup {Api} /\ saves[i].of \in Mutations
  BY DEF AdminInv, AdminTypeOK, Saves, Answerable
<1>2. CASE saves[i].by = Api
  <2>1. saves' = [saves EXCEPT ![i] = Over]
    BY <1>2 DEF Decided
  <2>2. QED
    BY <2>1, OverIsACall, SaveStep
<1>3. CASE saves[i].by # Api
  <2>1. saves' = [saves EXCEPT ![i] = told]
    BY <1>3 DEF Decided
  <2>2. told \in Calls /\ told.by = saves[i].by /\ told.of = saves[i].of /\ told.at = at
    <3>1. <<>> \in Besides /\ <<>> \in Patches /\ "" \in Tabs
      BY DEF Besides, Patches, Tabs
    <3>2. QED
      BY <1>1, <3>1 DEF Calls
  <2> HIDE DEF told
  <2>3. Answerable(told)
    BY <1>1, <1>3, <2>2 DEF Answerable
  <2>4. QED
    BY <2>1, <2>2, <2>3, SaveStep
<1>4. QED
  BY <1>2, <1>3

\* An answer that is heard changes the call and the tab that made it.
LEMMA HearStep ==
  ASSUME AdminInv, NEW i \in Saves, saves[i].at \in {"done", "refused"}, NEW change \in Panels,
         HearCall(i, change)
  PROVE  AdminInv'
<1> DEFINE a == saves[i].by
           m == saves[i].of
           heard == [change EXCEPT !.last[m] = 0]
<1>1. a \in Admins /\ m \in Mutations
  BY DEF AdminInv, AdminTypeOK, Answerable
<1>2. heard \in Panels
  <2> DEFINE last == [change.last EXCEPT ![m] = 0]
  <2>1. last \in [Mutations -> Nat]
    BY DEF Panels
  <2>2. heard = [change EXCEPT !.last = last]
    OBVIOUS
  <2>3. QED
    BY <2>1, <2>2 DEF Panels
<1>3. panel' = [panel EXCEPT ![a] = heard] \/ panel' = panel
  BY DEF HearCall
<1>4. panel' \in [Admins -> Panels]
  BY <1>1, <1>2, <1>3 DEF AdminInv, AdminTypeOK
<1>5. saves' = [saves EXCEPT ![i] = Over] /\ UNCHANGED <<rule, patchesCrossed>>
  BY DEF HearCall
<1>6. QED
  BY <1>4, <1>5, OverIsACall, SaveStep DEF AdminInv, AdminTypeOK, RuleStaysValid, ValidConfig

\* The whole row is all that a form of the rules tab sends.
LEMMA FormSends ==
  ASSUME AdminInv, NEW a \in Admins, NEW draft \in Drafts, SubmitForm(a, draft)
  PROVE  AdminInv'
<1>1. Content(a, draft) \in Patches /\ (panel[a].tab = "rules" => Content(a, draft) \in RulePatches)
  BY DEF Content, Patches, RulePatches
<1>2. PICK of \in {"create", "update"} : SendCall(a, of, Content(a, draft))
  BY DEF SubmitForm
<1>3. QED
  BY <1>1, <1>2, SendStep DEF Mutations

\* A patch that passes the check remembers what it stands beside.
LEMMA CheckStep ==
  ASSUME AdminInv, NEW i \in Saves, CheckPatch(i)
  PROVE  AdminInv'
<1>1. saves[i].at = "sent" /\ OnRule(i) /\ UNCHANGED <<panel, rule, patchesCrossed>>
  BY DEF CheckPatch
<1>2. CASE saves' = Decided(i, "refused")
  BY <1>1, <1>2, DecidedStep DEF AdminInv, AdminTypeOK, RuleStaysValid, ValidConfig
<1>3. CASE /\ ValidConfig(Effective(saves[i].patch, rule))
           /\ saves' = [saves EXCEPT ![i].at = "checked", ![i].beside = Beside(saves[i].patch, rule)]
  <2> DEFINE beside == Beside(saves[i].patch, rule)
             change == [saves[i] EXCEPT !.at = "checked", !.beside = beside]
  <2>1. /\ saves[i] \in Calls /\ saves[i].by \in Admins \cup {Api} /\ saves[i].of \in Mutations
        /\ saves[i].patch \in RulePatches /\ rule \in Rows
    <3>1. saves[i] \in Calls /\ rule \in Rows /\ Answerable(saves[i])
      BY DEF AdminInv, AdminTypeOK, Saves
    <3>2. saves[i].patch \in RulePatches
      BY <1>1 DEF AdminInv, PatchInv
    <3>3. QED
      BY <1>1, <3>1, <3>2 DEF Answerable
  <2>2. beside \in Besides
    BY <2>1 DEF Besides, Patches
  <2>3. saves' = [saves EXCEPT ![i] = change]
    BY <1>3
  <2> HIDE DEF beside
  <2>4. /\ change \in Calls /\ change.at = "checked" /\ change.patch = saves[i].patch
        /\ change.by = saves[i].by /\ change.of = saves[i].of /\ change.beside = beside
    BY <2>1, <2>2 DEF Calls
  <2> HIDE DEF change
  <2>5. <<change.patch, change.beside>> \in Checked /\ Answerable(change)
    BY <1>3, <2>1, <2>2, <2>4 DEF Checked, Answerable, beside
  <2>6. QED
    BY <1>1, <2>1, <2>3, <2>4, <2>5, SaveStep
    DEF AdminInv, AdminTypeOK, RuleStaysValid, ValidConfig
<1>4. QED
  BY <1>2, <1>3 DEF CheckPatch

\* A patch that is written makes the rule valid, or has crossed another, or
\* leaves the schema and the config alone.
LEMMA WriteStep ==
  ASSUME AdminInv, NEW i \in Saves, WritePatch(i)
  PROVE  AdminInv'
<1> DEFINE b == saves[i].patch
<1>1. saves[i].at = "checked" /\ UNCHANGED panel
  BY DEF WritePatch
<1>2. PICK at \in {"done", "refused"} : saves' = Decided(i, at)
  BY DEF WritePatch
<1>3. saves' \in Seq(Calls) /\ PatchInv' /\ \A k \in Saves' : Answerable(saves'[k])
  BY <1>1, <1>2, DecidedStep
<1>4. CASE UNCHANGED <<rule, patchesCrossed>>
  BY <1>1, <1>3, <1>4 DEF AdminInv, AdminTypeOK, RuleStaysValid, ValidConfig
<1>5. CASE /\ rule' = Merge(b, rule)
           /\ patchesCrossed' = IF DOMAIN b \cap SchemaFields = {} THEN patchesCrossed
                                ELSE Beside(b, rule) # saves[i].beside
  <2>1. <<b, saves[i].beside>> \in Checked
    BY <1>1 DEF AdminInv, PatchInv
  <2>2. /\ b \in RulePatches
        /\ \E row \in Rows : ValidConfig(Effective(b, row)) /\ saves[i].beside = Beside(b, row)
    BY <2>1 DEF Checked
  <2>3. PICK row \in Rows : ValidConfig(Effective(b, row)) /\ saves[i].beside = Beside(b, row)
    BY <2>2
  <2>4. IsPatch(b)
    BY <2>2, TheyArePatches
  <2>5. rule \in Rows /\ patchesCrossed \in BOOLEAN
    BY DEF AdminInv, AdminTypeOK
  <2> HIDE DEF b
  <2>6. /\ rule' \in Rows
        /\ Beside(b, rule) = Beside(b, row) => rule'.vertical = NoVertical \/ ValidConfig(rule')
        /\ DOMAIN b \cap SchemaFields = {} =>
             rule'.vertical = rule.vertical /\ rule'.type = rule.type /\ rule'.config = rule.config
    BY <1>5, <2>3, <2>4, <2>5, CheckedPatchMerges
  <2>7. patchesCrossed' \in BOOLEAN
    BY <1>5, <2>5
  <2>8. RuleStaysValid'
    <3>1. CASE DOMAIN b \cap SchemaFields = {}
      BY <1>5, <2>6, <3>1 DEF AdminInv, RuleStaysValid, ValidConfig
    <3>2. CASE DOMAIN b \cap SchemaFields # {}
      BY <1>5, <2>3, <2>6, <3>2 DEF RuleStaysValid, ValidConfig
    <3>3. QED
      BY <3>1, <3>2
  <2>9. QED
    BY <1>1, <1>3, <2>6, <2>7, <2>8 DEF AdminInv, AdminTypeOK
<1>6. QED
  BY <1>4, <1>5 DEF WritePatch

\* Every step of the tabs and of the service keeps the invariant.
LEMMA AdminStepInv == AdminInv /\ [AdminNext]_adminVars => AdminInv'
<1> SUFFICES ASSUME AdminInv, [AdminNext]_adminVars PROVE AdminInv'
  OBVIOUS
<1>0. \A a \in Admins : panel[a] \in Panels
  BY DEF AdminInv, AdminTypeOK
<1>1. ASSUME NEW a \in Admins, OpenNew(a) \/ OpenEdit(a) \/ AskRemoval(a) \/ CancelRemoval(a)
      PROVE  AdminInv'
  <2> DEFINE new == [panel[a] EXCEPT !.form = "create"]
             edit == [panel[a] EXCEPT !.form = "edit"]
             ask == [panel[a] EXCEPT !.confirm = TRUE]
             cancel == [panel[a] EXCEPT !.confirm = FALSE]
  <2>1. new \in Panels /\ edit \in Panels /\ ask \in Panels /\ cancel \in Panels
    BY <1>0 DEF Panels
  <2>2. ChangeTab(a, new) \/ ChangeTab(a, edit) \/ ChangeTab(a, ask) \/ ChangeTab(a, cancel)
    BY <1>1 DEF OpenNew, OpenEdit, AskRemoval, CancelRemoval
  <2>3. QED
    BY <2>1, <2>2, TabStep
<1>3. \A a \in Admins : FormClosed(a) \in Panels
  BY <1>0 DEF FormClosed, Panels
<1>4. ASSUME NEW a \in Admins, CloseForm(a)
      PROVE  AdminInv'
  BY <1>3, <1>4, TabStep DEF CloseForm
<1>5. ASSUME NEW a \in Admins, NEW t \in TabsOf[a], SwitchTab(a, t)
      PROVE  AdminInv'
  <2>1. t \in Tabs
    BY DEF Tabs
  <2>2. EmptyTab(t) \in Panels
    BY <2>1 DEF EmptyTab, Panels
  <2>3. QED
    BY <1>5, <2>2, TabStep DEF SwitchTab
<1>6. ASSUME NEW a \in Admins, ConfirmRemoval(a)
      PROVE  AdminInv'
  <2>1. SendCall(a, "remove", Deactivation)
    BY <1>6 DEF ConfirmRemoval, Deactivation
  <2>2. QED
    BY <2>1, SendStep DEF Mutations, Patches, RulePatches
<1>7. ASSUME NEW a \in Admins, ImportFile(a)
      PROVE  AdminInv'
  <2>1. SendCall(a, "import", <<>>)
    BY <1>7 DEF ImportFile
  <2>2. QED
    BY <2>1, SendStep DEF Mutations, Patches
<1>8. ASSUME NEW i \in Saves, CheckWhole(i)
      PROVE  AdminInv'
  <2>1. PICK at \in {"done", "refused"} : saves' = Decided(i, at)
    BY <1>8 DEF CheckWhole
  <2>2. saves[i].at = "sent" /\ UNCHANGED <<panel, rule, patchesCrossed>>
    BY <1>8 DEF CheckWhole
  <2>3. QED
    BY <2>1, <2>2, DecidedStep DEF AdminInv, AdminTypeOK, RuleStaysValid, ValidConfig
<1>9. ASSUME NEW i \in Saves, HearSaved(i) \/ HearRemoved(i) \/ HearImported(i) \/ HearRefused(i)
       PROVE  AdminInv'
  <2> DEFINE a == saves[i].by
  <2>1. saves[i].at \in {"done", "refused"}
    BY <1>9 DEF HearSaved, HearRemoved, HearImported, HearRefused
  <2>2. a \in Admins
    BY <2>1 DEF AdminInv, AdminTypeOK, Answerable
  <2>3. [panel[a] EXCEPT !.confirm = FALSE] \in Panels
    BY <1>0, <2>2 DEF Panels
  <2>4. \/ HearCall(i, FormClosed(a)) \/ HearCall(i, panel[a])
        \/ HearCall(i, [panel[a] EXCEPT !.confirm = FALSE])
    BY <1>9 DEF HearSaved, HearRemoved, HearImported, HearRefused
  <2>5. QED
    BY <1>0, <1>3, <2>1, <2>2, <2>3, <2>4, HearStep
<1>10. CASE UNCHANGED adminVars
  BY <1>10, TabsOnly DEF adminVars, AdminInv, AdminTypeOK
<1>11. QED
  BY <1>1, <1>4, <1>5, <1>6, <1>7, <1>8, <1>9, <1>10, FormSends, PatchRuleStep, CheckStep, WriteStep
  DEF AdminNext

\* The rule, the tabs and the calls keep their types.
THEOREM AdminTypeCorrect == AdminSpec => []AdminTypeOK
<1>1. AdminInv => AdminTypeOK
  BY DEF AdminInv
<1>2. QED
  BY <1>1, AdminInitInv, AdminStepInv, PTL DEF AdminSpec

\* In whatever order PATCHes of any fields are checked and written, the rule's
\* config is one that the schema of its vertical and type takes, unless it has no
\* vertical or the last of these fields to be written was checked beside others
\* than it was written over.
THEOREM OnlyCrossingSpoilsRule == AdminSpec => []RuleStaysValid
<1>1. AdminInv => RuleStaysValid
  BY DEF AdminInv
<1>2. QED
  BY <1>1, AdminInitInv, AdminStepInv, PTL DEF AdminSpec

(* ----------------------------- the trace ------------------------------- *)

TraceSpec == TraceInit /\ [][TraceNext]_traceVars

RunFields == {"at", "node", "status", "past", "result", "runs", "ended", "lost"}
TabFields == {"shown", "conn", "final", "snapshot", "resumed", "settled"}

\* The engine's side: the nodes before the checkpoint have exited, and the one
\* whose exit was emitted has too, though its checkpoint may never be written.
RunSound(r) ==
    /\ DOMAIN r = RunFields
    /\ r.node \in 1..(LastNode + 1) /\ r.past \subseteq StageNames /\ r.ended \in Nat
    /\ \A i \in 1..LastNode : i < r.node => TraceNodes[i] \in r.past
    /\ r.at \in {"inside", "worked", "returned", "exited"} => r.node <= LastNode
    /\ r.at = "exited" => TraceNodes[r.node] \in r.past

\* The events that say nothing that is not so, given the nodes that have exited
\* and the number of runs that have ended.
TrueEvents(past, ended) ==
    {e \in EventSchemas :
       /\ e.name = "node.exited" /\ e.status = "success" => e.node \in past
       /\ e.name = "processing.complete" => ended > 0}

TabSound(t) ==
    /\ DOMAIN t = TabFields
    /\ DOMAIN t.shown = StageNames
    /\ \A n \in StageNames : t.shown[n] = "success" => n \in run.past \/ t.settled
    /\ t.final # "none" => run.ended > 0 \/ t.settled

TraceInv ==
    /\ RunSound(run)
    /\ wire \in Seq(TrueEvents(run.past, run.ended))
    /\ TabSound(tab)

\* What was true of a run stays true: nodes that have exited and runs that have
\* ended only become more.
LEMMA TruthStays ==
  ASSUME NEW past, NEW more, past \subseteq more,
         NEW ended \in Nat, NEW later \in Nat, ended <= later,
         NEW s \in Seq(TrueEvents(past, ended))
  PROVE  s \in Seq(TrueEvents(more, later))
<1>1. TrueEvents(past, ended) \subseteq TrueEvents(more, later)
  BY DEF TrueEvents
<1> QED BY <1>1

\* EventsService hands on an event of a known schema, or nothing.
LEMMA KnownIsTrue ==
  ASSUME NEW past, NEW ended, NEW e,
         e.name = "node.exited" /\ e.status = "success" => e.node \in past,
         e.name = "processing.complete" => ended > 0
  PROVE  Known(e) \in Seq(TrueEvents(past, ended))
<1>1. CASE e \in EventSchemas
  <2>1. e \in TrueEvents(past, ended) /\ Known(e) = <<e>>
    BY <1>1 DEF TrueEvents, Known
  <2> QED BY <2>1
<1>2. CASE e \notin EventSchemas
  BY <1>2 DEF Known
<1> QED BY <1>1, <1>2

\* A step that emits: what it changes, and what it says, is true.
LEMMA EmitKeeps ==
  ASSUME TraceInv, NEW change, NEW events, Emit(change, events),
         RunSound(change), run.past \subseteq change.past, run.ended <= change.ended,
         events \in Seq(TrueEvents(change.past, change.ended))
  PROVE  TraceInv'
<1>1. PICK refused \in BOOLEAN :
        /\ run' = [change EXCEPT !.lost = IF refused THEN @ + 1 ELSE @]
        /\ Publish(events, refused)
        /\ UNCHANGED tab
  BY DEF Emit
<1> DEFINE lost == IF refused THEN change.lost + 1 ELSE change.lost
<1>2. run' = [change EXCEPT !.lost = lost]
  BY <1>1
<1> HIDE DEF lost
<1>3. /\ DOMAIN run' = RunFields /\ run'.at = change.at /\ run'.node = change.node
      /\ run'.past = change.past /\ run'.ended = change.ended
  BY <1>2 DEF RunSound, RunFields
<1>4. RunSound(run)'
  BY <1>3 DEF RunSound
<1>5. wire \in Seq(TrueEvents(change.past, change.ended))
  BY TruthStays DEF TraceInv, RunSound
<1>6. wire' \in Seq(TrueEvents(change.past, change.ended))
  <2>1. wire' = wire \/ wire' = wire \o events
    BY <1>1 DEF Publish
  <2>2. wire \o events \in Seq(TrueEvents(change.past, change.ended))
    BY <1>5, ConcatProperties
  <2> QED BY <2>1, <2>2, <1>5
<1>7. (wire \in Seq(TrueEvents(run.past, run.ended)))'
  BY <1>3, <1>6
<1>8. TabSound(tab)'
  BY <1>1, <1>3 DEF TraceInv, RunSound, TabSound
<1> QED BY <1>4, <1>7, <1>8 DEF TraceInv

\* A step of the engine that says nothing.
LEMMA SilentKeeps ==
  ASSUME TraceInv, UNCHANGED <<wire, tab>>,
         RunSound(run)', run.past \subseteq run'.past, run'.ended = run.ended
  PROVE  TraceInv'
<1>1. wire' \in Seq(TrueEvents(run'.past, run'.ended))
  BY TruthStays DEF TraceInv, RunSound
<1>2. TabSound(tab)'
  BY DEF TraceInv, TabSound
<1> QED BY <1>1, <1>2 DEF TraceInv

\* A step of the page.
LEMMA PageKeeps ==
  ASSUME TraceInv, UNCHANGED run, wire' \in Seq(TrueEvents(run.past, run.ended)),
         TabSound(tab')
  PROVE  TraceInv'
BY DEF TraceInv, RunSound, TabSound

\* The node a run is at is one of the pipeline's.
LEMMA NodeName ==
  ASSUME NEW i \in 1..LastNode
  PROVE  TraceNodes[i] \in StageNames
BY DEF StageNames, LastNode

\* The pipeline has so many nodes.
LEMMA LengthIsNat == LastNode \in Nat
BY EventStreamAssumption DEF LastNode

\* A run that goes on where another stopped says so, and no more.
LEMMA BeginTraceKeeps == ASSUME TraceInv, BeginTrace PROVE TraceInv'
<1> DEFINE e == Event("request.resumed",
                      IF run.node > LastNode THEN "done" ELSE TraceNodes[run.node], "none")
           events == IF run.node = 1 THEN <<>> ELSE Known(e)
           change == [run EXCEPT !.at = "between", !.status = "parsing", !.result = "success",
                                 !.runs = @ + 1]
<1>1. Emit(change, events)
  BY DEF BeginTrace
<1>2. /\ DOMAIN change = RunFields /\ change.at = "between" /\ change.node = run.node
      /\ change.past = run.past /\ change.ended = run.ended
  BY DEF TraceInv, RunSound, RunFields
<1>3. e.name = "request.resumed"
  BY DEF Event
<1> HIDE DEF change, e
<1>4. Known(e) \in Seq(TrueEvents(change.past, change.ended))
  BY <1>3, KnownIsTrue
<1>5. RunSound(change) /\ run.ended <= change.ended
  BY <1>2 DEF TraceInv, RunSound
<1>6. events \in Seq(TrueEvents(change.past, change.ended))
  BY <1>4, EmptySeq
<1> HIDE DEF events
<1> QED BY <1>1, <1>2, <1>5, <1>6, EmitKeeps

\* That a node was entered claims nothing of it.
LEMMA EnterNodeKeeps == ASSUME TraceInv, EnterNode PROVE TraceInv'
<1> DEFINE e == Event("node.entered", TraceNodes[run.node], "none")
           change == [run EXCEPT !.at = "inside"]
<1>1. Emit(change, Known(e)) /\ run.node <= LastNode
  BY DEF EnterNode
<1>2. /\ DOMAIN change = RunFields /\ change.at = "inside" /\ change.node = run.node
      /\ change.past = run.past /\ change.ended = run.ended
  BY DEF TraceInv, RunSound, RunFields
<1>3. e.name = "node.entered"
  BY DEF Event
<1> HIDE DEF change, e
<1>4. Known(e) \in Seq(TrueEvents(change.past, change.ended))
  BY <1>3, KnownIsTrue
<1>5. RunSound(change) /\ run.ended <= change.ended
  BY <1>1, <1>2 DEF TraceInv, RunSound
<1> QED BY <1>1, <1>2, <1>4, <1>5, EmitKeeps

\* Nor does a tool call.
LEMMA InvokeToolKeeps == ASSUME TraceInv, InvokeTool PROVE TraceInv'
<1> DEFINE e == Event("tool.invoked", TraceNodes[run.node], "none")
           change == [run EXCEPT !.at = "worked"]
<1>1. Emit(change, Known(e)) /\ run.at = "inside"
  BY DEF InvokeTool
<1>2. /\ DOMAIN change = RunFields /\ change.at = "worked" /\ change.node = run.node
      /\ change.past = run.past /\ change.ended = run.ended
  BY DEF TraceInv, RunSound, RunFields
<1>3. e.name = "tool.invoked"
  BY DEF Event
<1> HIDE DEF change, e
<1>4. Known(e) \in Seq(TrueEvents(change.past, change.ended))
  BY <1>3, KnownIsTrue
<1>5. RunSound(change) /\ run.ended <= change.ended
  BY <1>1, <1>2 DEF TraceInv, RunSound
<1> QED BY <1>1, <1>2, <1>4, <1>5, EmitKeeps

\* A node's own exit has no status: it claims nothing.
LEMMA NodeReturnsKeeps == ASSUME TraceInv, NodeReturns PROVE TraceInv'
<1> DEFINE e == Event("node.exited", TraceNodes[run.node], "none")
           events == IF TraceNodes[run.node] \in OwnExits THEN Known(e) ELSE <<>>
           change == [run EXCEPT !.at = "returned"]
<1>1. Emit(change, events) /\ run.at \in {"inside", "worked"}
  BY DEF NodeReturns
<1>2. /\ DOMAIN change = RunFields /\ change.at = "returned" /\ change.node = run.node
      /\ change.past = run.past /\ change.ended = run.ended
  BY DEF TraceInv, RunSound, RunFields
<1>3. e.name = "node.exited" /\ e.status = "none"
  BY DEF Event
<1> HIDE DEF change, e
<1>4. Known(e) \in Seq(TrueEvents(change.past, change.ended))
  BY <1>3, KnownIsTrue
<1>5. RunSound(change) /\ run.ended <= change.ended
  BY <1>1, <1>2 DEF TraceInv, RunSound
<1>6. events \in Seq(TrueEvents(change.past, change.ended))
  BY <1>4, EmptySeq
<1> HIDE DEF events
<1> QED BY <1>1, <1>2, <1>5, <1>6, EmitKeeps

\* The engine's exit says success, and the node has just exited.
LEMMA ExitNodeKeeps == ASSUME TraceInv, ExitNode PROVE TraceInv'
<1> DEFINE name == TraceNodes[run.node]
           e == Event("node.exited", name, "success")
           change == [run EXCEPT !.at = "exited", !.past = @ \cup {name}]
<1>1. Emit(change, Known(e)) /\ run.at = "returned"
  BY DEF ExitNode
<1>2. name \in StageNames
  BY <1>1, NodeName, LengthIsNat DEF TraceInv, RunSound
<1> DEFINE past == run.past \cup {name}
<1>3. change = [run EXCEPT !.at = "exited", !.past = past]
  OBVIOUS
<1>4. e.name = "node.exited" /\ e.status = "success" /\ e.node = name
  BY DEF Event
<1>5. name \in past /\ run.past \subseteq past /\ past \subseteq StageNames
  BY <1>2 DEF TraceInv, RunSound
<1> HIDE DEF change, e, past
<1>6. /\ DOMAIN change = RunFields /\ change.at = "exited" /\ change.node = run.node
      /\ change.past = past /\ change.ended = run.ended
  BY <1>3 DEF TraceInv, RunSound, RunFields
<1>7. Known(e) \in Seq(TrueEvents(change.past, change.ended))
  BY <1>4, <1>5, <1>6, KnownIsTrue
<1>8. RunSound(change) /\ run.ended <= change.ended
  BY <1>1, <1>5, <1>6 DEF TraceInv, RunSound
<1> QED BY <1>1, <1>5, <1>6, <1>7, <1>8, EmitKeeps

\* The checkpoint moves past a node whose exit was emitted.
LEMMA CheckpointNodeKeeps == ASSUME TraceInv, CheckpointNode PROVE TraceInv'
<1>1. run.at = "exited" /\ UNCHANGED <<wire, tab>> /\ run.node <= LastNode
  BY DEF CheckpointNode, TraceInv, RunSound
<1>2. /\ DOMAIN run' = RunFields /\ run'.at = "between" /\ run'.node = run.node + 1
      /\ run'.past = run.past /\ run'.ended = run.ended
  BY DEF CheckpointNode, TraceInv, RunSound, RunFields
<1>3. RunSound(run)'
  <2>1. run'.node \in 1..(LastNode + 1)
    BY <1>1, <1>2, LengthIsNat DEF TraceInv, RunSound
  <2>2. ASSUME NEW i \in 1..LastNode, i < run.node + 1
        PROVE  TraceNodes[i] \in run.past
    <3>1. i < run.node \/ i = run.node
      BY <2>2 DEF TraceInv, RunSound
    <3> QED BY <3>1, <1>1 DEF TraceInv, RunSound
  <2> QED BY <1>2, <2>1, <2>2 DEF TraceInv, RunSound
<1> QED BY <1>1, <1>2, <1>3, SilentKeeps

\* A failure ends the run with events that say failed, or nothing.
LEMMA NodeFailsKeeps ==
  ASSUME TraceInv, NEW ending \in Endings, NodeFails(ending) PROVE TraceInv'
<1> DEFINE name == TraceNodes[run.node]
           events == EventsOf(ending, name)
           status == StatusOf(ending)
           change == [run EXCEPT !.at = "finalizing", !.status = status, !.result = "failed"]
<1>1. Emit(change, events)
  BY DEF NodeFails
<1> HIDE DEF status
<1>2. /\ DOMAIN change = RunFields /\ change.at = "finalizing" /\ change.node = run.node
      /\ change.past = run.past /\ change.ended = run.ended
  BY DEF TraceInv, RunSound, RunFields
<1> HIDE DEF change
<1> DEFINE Said == Seq(TrueEvents(change.past, change.ended))
           e1 == Event("stage.error", name, "none")
           e2 == Event("node.exited", name, "none")
           e3 == Event("node.exited", name, "failed")
<1>3. e1.name = "stage.error" /\ e2.name = "node.exited" /\ e3.name = "node.exited"
      /\ e2.status = "none" /\ e3.status = "failed"
  BY DEF Event
<1>4. events \in {Known(e1) \o Known(e2), Known(e1) \o Known(e3), Known(e3)}
  BY DEF EventsOf
<1> HIDE DEF e1, e2, e3, events
<1>5. Known(e1) \in Said /\ Known(e2) \in Said /\ Known(e3) \in Said
  BY <1>3, KnownIsTrue
<1>6. Known(e1) \o Known(e2) \in Said /\ Known(e1) \o Known(e3) \in Said
  BY <1>5, ConcatProperties
<1>7. events \in Said
  BY <1>4, <1>5, <1>6
<1>8. RunSound(change) /\ run.ended <= change.ended
  BY <1>2 DEF TraceInv, RunSound
<1> QED BY <1>1, <1>2, <1>7, <1>8, EmitKeeps

\* The status the request ends with is not an event.
LEMMA SetFinalStatusKeeps ==
  ASSUME TraceInv, NEW status, SetFinalStatus(status) PROVE TraceInv'
<1>1. UNCHANGED <<wire, tab>>
  BY DEF SetFinalStatus
<1>2. /\ DOMAIN run' = RunFields /\ run'.at = "finalizing" /\ run'.node = run.node
      /\ run'.past = run.past /\ run'.ended = run.ended
  BY DEF SetFinalStatus, TraceInv, RunSound, RunFields
<1>3. RunSound(run)'
  BY <1>2 DEF TraceInv, RunSound
<1> QED BY <1>1, <1>2, <1>3, SilentKeeps

\* The end is announced by a run that has come to it.
LEMMA CompleteKeeps == ASSUME TraceInv, Complete PROVE TraceInv'
<1> DEFINE e == Event("processing.complete", "none", run.result)
           change == [run EXCEPT !.at = "over", !.ended = @ + 1]
<1>1. Emit(change, Known(e))
  BY DEF Complete
<1>2. /\ DOMAIN change = RunFields /\ change.at = "over" /\ change.node = run.node
      /\ change.past = run.past /\ change.ended = run.ended + 1
  BY DEF TraceInv, RunSound, RunFields
<1>3. e.name = "processing.complete" /\ run.ended \in Nat
  BY DEF Event, TraceInv, RunSound
<1> HIDE DEF change, e
<1>4. Known(e) \in Seq(TrueEvents(change.past, change.ended))
  BY <1>2, <1>3, KnownIsTrue
<1>5. RunSound(change) /\ run.ended <= change.ended
  BY <1>2, <1>3 DEF TraceInv, RunSound
<1> QED BY <1>1, <1>2, <1>4, <1>5, EmitKeeps

\* A run that dies leaves what has exited as it is.
LEMMA RunDiesKeeps == ASSUME TraceInv, RunDies PROVE TraceInv'
<1>1. UNCHANGED <<wire, tab>>
  BY DEF RunDies
<1>2. /\ DOMAIN run' = RunFields /\ run'.at = "idle" /\ run'.node = run.node
      /\ run'.past = run.past /\ run'.ended = run.ended
  BY DEF RunDies, TraceInv, RunSound, RunFields
<1>3. RunSound(run)'
  BY <1>2 DEF TraceInv, RunSound
<1> QED BY <1>1, <1>2, <1>3, SilentKeeps

\* A pasted text counts as what the nodes before it would have read.
LEMMA RunAgainKeeps ==
  ASSUME TraceInv, NEW node \in 1..LastNode, RunAgain(node) PROVE TraceInv'
<1> DEFINE before == {TraceNodes[i] : i \in 1..(node - 1)}
           past == run.past \cup before
<1>1. UNCHANGED <<wire, tab>>
  BY DEF RunAgain
<1>2. run' = [run EXCEPT !.at = "idle", !.node = node, !.past = past]
  BY DEF RunAgain
<1>3. run.past \subseteq past /\ past \subseteq StageNames
  <2>1. before \subseteq StageNames
    BY LengthIsNat, NodeName
  <2> QED BY <2>1 DEF TraceInv, RunSound
<1>4. \A i \in 1..LastNode : i < node => TraceNodes[i] \in past
  BY LengthIsNat
<1> HIDE DEF past
<1>5. /\ DOMAIN run' = RunFields /\ run'.at = "idle" /\ run'.node = node
      /\ run'.past = past /\ run'.ended = run.ended
  BY <1>2 DEF TraceInv, RunSound, RunFields
<1>6. RunSound(run)'
  BY <1>3, <1>4, <1>5, LengthIsNat DEF TraceInv, RunSound
<1> QED BY <1>1, <1>3, <1>5, <1>6, SilentKeeps

\* Opening, connecting, losing the connection and leaving: the trace is cleared
\* or left as it is, and nothing more is on the way than was.
LEMMA ConnectionKeeps ==
  ASSUME TraceInv, Open \/ Opened \/ ConnectionLost \/ LeavePage PROVE TraceInv'
<1>1. UNCHANGED run /\ wire' \in {wire, <<>>}
  BY DEF Open, Opened, ConnectionLost, LeavePage, Tab
<1>2. wire' \in Seq(TrueEvents(run.past, run.ended))
  BY <1>1, EmptySeq DEF TraceInv
<1>3. TabSound(tab)
  BY DEF TraceInv
<1>4. /\ DOMAIN AllPending = StageNames
      /\ \A n \in StageNames : AllPending[n] = "pending"
  BY DEF AllPending
<1>5. TabSound(tab')
  <2>1. CASE Open
    <3>1. /\ DOMAIN tab' = TabFields /\ tab'.shown = AllPending /\ tab'.final = "none"
      BY <2>1, <1>3 DEF Open, Tab, TabSound, TabFields
    <3> QED BY <3>1, <1>4 DEF TabSound
  <2>2. CASE Opened \/ ConnectionLost
    <3>1. /\ DOMAIN tab' = TabFields /\ tab'.shown = tab.shown /\ tab'.final = tab.final
          /\ tab'.settled = tab.settled
      BY <2>2, <1>3 DEF Opened, ConnectionLost, Tab, TabSound, TabFields
    <3> QED BY <3>1, <1>3 DEF TabSound
  <2>3. CASE LeavePage
    <3>1. /\ DOMAIN tab' = TabFields /\ tab'.shown = AllPending /\ tab'.final = "none"
      BY <2>3 DEF LeavePage, Tab, Closed, TabFields
    <3> QED BY <3>1, <1>4 DEF TabSound
  <2> QED BY <2>1, <2>2, <2>3
<1> QED BY <1>1, <1>2, <1>5, PageKeeps

\* The trace believes an event of success, and nothing else, that a node is done.
LEMMA ShownBelieves ==
  ASSUME NEW shown, DOMAIN shown = StageNames, NEW e
  PROVE  /\ DOMAIN Shown(shown, e) = StageNames
         /\ \A n \in StageNames :
              Shown(shown, e)[n] = "success" =>
                 \/ shown[n] = "success"
                 \/ n = e.node /\ e.name = "node.exited" /\ e.status = "success"
<1>1. CASE e.node \notin StageNames
  BY <1>1 DEF Shown
<1>2. CASE e.node \in StageNames
  <2> DEFINE state == CASE e.name = "node.entered" -> "in-progress"
                        [] e.name = "node.exited"  -> IF e.status = "success" THEN "success"
                                                      ELSE "failed"
                        [] e.name = "stage.error"  -> "failed"
                        [] OTHER                   -> shown[e.node]
  <2>1. Shown(shown, e) = [shown EXCEPT ![e.node] = state]
    BY <1>2 DEF Shown
  <2>2. state = "success" =>
           \/ shown[e.node] = "success"
           \/ e.name = "node.exited" /\ e.status = "success"
    OBVIOUS
  <2> HIDE DEF state
  <2> QED BY <1>2, <2>1, <2>2
<1> QED BY <1>1, <1>2

\* What the page reads off the wire is true, and what it draws follows.
LEMMA ReceiveKeeps == ASSUME TraceInv, Receive PROVE TraceInv'
<1> DEFINE e == Head(wire)
           Said == TrueEvents(run.past, run.ended)
<1>1. wire \in Seq(Said) /\ wire # <<>> /\ UNCHANGED run /\ TabSound(tab)
  BY DEF TraceInv, Receive, Tab
<1>2. e \in Said /\ Tail(wire) \in Seq(Said)
  BY <1>1, HeadTailProperties
<1>3. /\ e.name = "node.exited" /\ e.status = "success" => e.node \in run.past
      /\ e.name = "processing.complete" => run.ended > 0
  BY <1>2 DEF TrueEvents
<1>4. CASE e.name = "processing.complete"
  <2>1. wire' = <<>> /\ tab' = [tab EXCEPT !.final = e.status, !.conn = "disconnected"]
    BY <1>4 DEF Receive, Tab
  <2> HIDE DEF e
  <2>2. /\ DOMAIN tab' = TabFields /\ tab'.shown = tab.shown /\ tab'.settled = tab.settled
    BY <2>1, <1>1 DEF TabSound, TabFields
  <2>3. TabSound(tab')
    BY <1>1, <1>3, <1>4, <2>2 DEF TabSound
  <2>4. wire' \in Seq(Said)
    BY <2>1
  <2> QED BY <1>1, <2>3, <2>4, PageKeeps
<1>5. CASE e.name # "processing.complete"
  <2> DEFINE shown == Shown(tab.shown, e)
             resumed == tab.resumed \/ e.name = "request.resumed"
  <2>1. wire' = Tail(wire) /\ tab' = [tab EXCEPT !.shown = shown, !.resumed = resumed]
    BY <1>5 DEF Receive, Tab
  <2>2. /\ DOMAIN shown = StageNames
        /\ \A n \in StageNames :
              shown[n] = "success" =>
                 \/ tab.shown[n] = "success"
                 \/ n = e.node /\ e.name = "node.exited" /\ e.status = "success"
    BY <1>1, ShownBelieves DEF TabSound
  <2> HIDE DEF shown, resumed, e
  <2>3. /\ DOMAIN tab' = TabFields /\ tab'.shown = shown /\ tab'.settled = tab.settled
        /\ tab'.final = tab.final
    BY <2>1, <1>1 DEF TabSound, TabFields
  <2>4. TabSound(tab')
    BY <1>1, <1>3, <2>2, <2>3 DEF TabSound
  <2>5. wire' \in Seq(Said)
    BY <1>2, <2>1
  <2> QED BY <1>1, <2>4, <2>5, PageKeeps
<1> QED BY <1>4, <1>5

\* A snapshot fills in nodes before the checkpoint, which have exited, or says
\* that the request is settled.
LEMMA SnapshotKeeps == ASSUME TraceInv, Snapshot PROVE TraceInv'
<1> DEFINE now == [node |-> IF run.status = "failed" THEN 0 ELSE run.node, status |-> run.status]
           shown == [n \in StageNames |->
                       IF n \in CompletedNodes(now) /\ tab.shown[n] = "pending"
                       THEN "success" ELSE tab.shown[n]]
           settles == now.status \in SettledStatuses
           settled == tab.settled \/ settles
           final == IF settles /\ tab.final = "none" THEN now.status ELSE tab.final
<1>1. UNCHANGED <<run, wire>> /\ TabSound(tab) /\ RunSound(run)
  BY DEF TraceInv, Snapshot, Tab
<1>2. tab' = [tab EXCEPT !.snapshot = now, !.shown = shown, !.settled = settled, !.final = final]
  <2>1. tab' = [tab EXCEPT
             !.snapshot = now,
             !.shown = [n \in StageNames |->
                          IF n \in CompletedNodes(now) /\ @[n] = "pending" THEN "success" ELSE @[n]],
             !.settled = @ \/ now.status \in SettledStatuses,
             !.final = IF now.status \in SettledStatuses /\ @ = "none" THEN now.status ELSE @]
    BY Zenon DEF Snapshot, Tab
  <2> QED BY <2>1, Zenon
<1>3. ~settles => CompletedNodes(now) \subseteq run.past
  <2> SUFFICES ASSUME ~settles PROVE CompletedNodes(now) \subseteq run.past
    OBVIOUS
  <2>1. CASE now.node \in 1..LastNode
    <3>1. now.node = run.node
      BY <2>1
    <3>2. CompletedNodes(now) = {TraceNodes[i] : i \in 1..(now.node - 1)}
      BY <2>1 DEF CompletedNodes
    <3> QED BY <1>1, <2>1, <3>1, <3>2, LengthIsNat DEF RunSound
  <2>2. CASE now.node \notin 1..LastNode
    BY <2>2 DEF CompletedNodes
  <2> QED BY <2>1, <2>2
<1>4. /\ DOMAIN shown = StageNames
      /\ \A n \in StageNames : shown[n] = "success" => tab.shown[n] = "success"
                                                       \/ n \in CompletedNodes(now)
  OBVIOUS
<1>5. settles => settled
  OBVIOUS
<1>6. tab.settled => settled
  OBVIOUS
<1>7. final # "none" => settles \/ tab.final # "none"
  OBVIOUS
<1> HIDE DEF shown, now, settled, final, settles
<1>8. /\ DOMAIN tab' = TabFields /\ tab'.shown = shown /\ tab'.settled = settled
      /\ tab'.final = final
  BY <1>1, <1>2 DEF TabSound, TabFields
<1>9. TabSound(tab')
  BY <1>1, <1>3, <1>4, <1>5, <1>6, <1>7, <1>8 DEF TabSound
<1>10. wire' \in Seq(TrueEvents(run.past, run.ended))
  BY <1>1 DEF TraceInv
<1> QED BY <1>1, <1>9, <1>10, PageKeeps

\* Nothing is drawn and nothing has happened yet.
LEMMA TraceInitHolds == ASSUME TraceInit PROVE TraceInv
<1>1. RunSound(run)
  BY LengthIsNat DEF TraceInit, RunSound, RunFields
<1>2. wire \in Seq(TrueEvents(run.past, run.ended))
  BY DEF TraceInit
<1>3. TabSound(tab)
  BY DEF TraceInit, Closed, AllPending, TabSound, TabFields
<1> QED BY <1>1, <1>2, <1>3 DEF TraceInv

\* Every step of the engine and of the page keeps the invariant.
LEMMA TraceStepKeeps == ASSUME TraceInv, [TraceNext]_traceVars PROVE TraceInv'
<1>1. CASE BeginTrace \/ EnterNode \/ InvokeTool
  BY <1>1, BeginTraceKeeps, EnterNodeKeeps, InvokeToolKeeps
<1>2. CASE NodeReturns \/ ExitNode \/ CheckpointNode
  BY <1>2, NodeReturnsKeeps, ExitNodeKeeps, CheckpointNodeKeeps
<1>3. CASE \E ending \in Endings : NodeFails(ending)
  BY <1>3, NodeFailsKeeps
<1>4. CASE \E status \in SettledStatuses : SetFinalStatus(status)
  BY <1>4, SetFinalStatusKeeps
<1>5. CASE Complete \/ RunDies
  BY <1>5, CompleteKeeps, RunDiesKeeps
<1>6. CASE \E node \in 1..LastNode : RunAgain(node)
  BY <1>6, RunAgainKeeps
<1>7. CASE Open \/ Opened \/ ConnectionLost \/ LeavePage
  BY <1>7, ConnectionKeeps
<1>8. CASE Receive \/ Snapshot
  BY <1>8, ReceiveKeeps, SnapshotKeeps
<1>9. CASE UNCHANGED traceVars
  BY <1>9 DEF traceVars, TraceInv, RunSound, TabSound
<1> QED BY <1>1, <1>2, <1>3, <1>4, <1>5, <1>6, <1>7, <1>8, <1>9 DEF TraceNext

\* There are no more names than nodes, so a bar that counts all of them as ended
\* has no node left over.
LEMMA FullBar ==
  ASSUME NEW S \in SUBSET StageNames, Cardinality(S) = LastNode
  PROVE  S = StageNames
<1>1. LastNode \in Nat
  BY LengthIsNat
<1> DEFINE f == [i \in 1..LastNode |-> TraceNodes[i]]
<1>2. f \in Surjection(1..LastNode, StageNames)
  BY DEF Surjection, StageNames, LastNode
<1>3. IsFiniteSet(1..LastNode) /\ Cardinality(1..LastNode) = LastNode
  BY <1>1, FS_Interval
<1>4. IsFiniteSet(StageNames) /\ Cardinality(StageNames) <= LastNode
  BY <1>2, <1>3, FS_Surjection
<1>5. Cardinality(StageNames) \in Nat
  BY <1>4, FS_CardinalityType
<1>6. Cardinality(S) = Cardinality(StageNames) => S = StageNames
  BY <1>4, FS_Subset
<1>7. Cardinality(S) <= Cardinality(StageNames)
  BY <1>4, FS_Subset
<1> QED BY <1>1, <1>4, <1>5, <1>6, <1>7

\* The page's trace never shows a node as done that has not exited with success,
\* nor an output for a request no run has ended, whatever is lost, late or
\* overtaken, unless a snapshot has said that the request is settled
\* (useSSEEvents, EventsService, GraphEngine), for any pipeline and any number of
\* runs, events and reconnects.
THEOREM TraceIsTrue == TraceSpec => []TraceTellsTruth
<1>1. TraceInv => TraceTellsTruth
  <2> SUFFICES ASSUME TraceInv PROVE TraceTellsTruth
    OBVIOUS
  <2>1. \A n \in StageNames : tab.shown[n] = "success" => n \in run.past \/ tab.settled
    BY DEF TraceInv, TabSound
  <2>2. "output" \in Page => run.ended > 0 \/ tab.settled
    BY DEF TraceInv, TabSound, Page
  <2>3. ASSUME Progress = LastNode, \A n \in StageNames : tab.shown[n] # "failed"
        PROVE  run.past = StageNames \/ tab.settled
    <3> DEFINE S == {n \in StageNames : tab.shown[n] \in {"success", "failed"}}
    <3>1. S = StageNames
      BY <2>3, FullBar DEF Progress
    <3>2. \A n \in StageNames : tab.shown[n] = "success"
      BY <2>3, <3>1
    <3> QED BY <2>1, <3>2 DEF TraceInv, RunSound
  <2> QED BY <2>1, <2>2, <2>3 DEF TraceTellsTruth
<1>2. TraceInit => TraceInv
  BY TraceInitHolds
<1>3. TraceInv /\ [TraceNext]_traceVars => TraceInv'
  BY TraceStepKeeps
<1> QED BY <1>1, <1>2, <1>3, PTL DEF TraceSpec
=============================================================================
