----------------------------- MODULE PageProofs -----------------------------
(***************************************************************************)
(* Proofs about the pages of the web client and the services behind them:  *)
(* for any number of calls, edits, colleagues and questions, an answer is  *)
(* taken for what was asked, and what a page has shown is not taken back   *)
(* by a query that was under way. Each page has an inductive invariant of  *)
(* its own; the client is made of pages that share nothing, and a step of  *)
(* it is a step of each of them or leaves it as it is.                     *)
(***************************************************************************)
EXTENDS WebClient, ScreenProofs, WellFoundedInduction

(* --------------------------- the re-map screen ---------------------------- *)

\* What a re-map, and the detail that is shown, are made of.
PatchFields == {"line", "price", "at", "total", "estimate", "previous", "last"}
DetailFields == {"prices", "total", "touched", "failed"}

\* The shape of the detail that is shown, of the query, and of what was sent.
RemapShape ==
    /\ DOMAIN shown = DetailFields
    /\ refetch.at \in {"none", "asked", "read"} /\ DOMAIN refetch = {"at", "read"}
    /\ Latest \in Nat /\ DOMAIN patches = 1..Latest
    /\ \A i \in 1..Latest : /\ DOMAIN patches[i] = PatchFields
                            /\ DOMAIN patches[i].previous = DetailFields

\* While the re-map issued last is out, its estimate stands. Once all are
\* answered and it was the last, a query is on its way to the truth: it is asked
\* for, it has read what the server has now, or it is done.
RemapInv ==
    /\ RemapShape
    /\ Latest > 0 /\ patches[Latest].at # "settled" /\ ~shown.touched =>
          shown.total = patches[Latest].estimate
    /\ Latest > 0 /\ Settled /\ patches[Latest].last =>
          \/ refetch.at = "asked"
          \/ refetch.at = "read" /\ refetch.read = priced
          \/ refetch.at = "none" /\ (shown.failed \/ (shown.prices = priced /\ shown.total = TotalOf(priced)))

\* Nothing was re-mapped yet.
LEMMA RemapStarts == RemapInit => RemapInv
  BY EmptySeq DEF RemapInit, RemapInv, RemapShape, NoFetch, Latest, DetailFields

\* A confirmation is the latest, and its estimate is shown.
LEMMA ConfirmKeeps == ASSUME RemapInv, Confirm PROVE RemapInv'
<1>1. PICK estimate : /\ Show(estimate)
                      /\ patches' = Append(patches, [line |-> drawer.line, price |-> drawer.picked,
                                                     at |-> "sent", total |-> 0, estimate |-> estimate.total,
                                                     previous |-> shown, last |-> TRUE])
                      /\ refetch' = NoFetch
  BY Zenon DEF Confirm
<1> DEFINE new == [line |-> drawer.line, price |-> drawer.picked, at |-> "sent", total |-> 0,
                   estimate |-> estimate.total, previous |-> shown, last |-> TRUE]
<1>2. /\ DOMAIN new = PatchFields /\ new.previous = shown /\ new.at = "sent"
      /\ new.estimate = estimate.total
  BY DEF PatchFields
<1> HIDE DEF new
<1>3. /\ Latest' = Latest + 1 /\ DOMAIN patches' = 1..(Latest + 1)
      /\ patches'[Latest + 1] = new /\ \A i \in 1..Latest : patches'[i] = patches[i]
  BY <1>1 DEF new, RemapInv, RemapShape, Latest
<1>4. /\ DOMAIN shown' = DetailFields /\ shown'.total = estimate.total
      /\ DOMAIN refetch' = {"at", "read"} /\ refetch'.at = "none"
  BY <1>1 DEF Show, DetailFields, NoFetch
<1>5. RemapShape'
  <2>1. \A i \in 1..Latest' : DOMAIN patches'[i] = PatchFields /\ DOMAIN patches'[i].previous = DetailFields
    BY <1>2, <1>3 DEF RemapInv, RemapShape
  <2> QED BY <1>3, <1>4, <2>1 DEF RemapInv, RemapShape
<1>6. ~Settled' /\ (shown.total = patches[Latest].estimate)'
  BY <1>2, <1>3, <1>4 DEF Settled, RemapInv, RemapShape
<1> QED BY <1>5, <1>6 DEF RemapInv

\* The server decides on one that is not answered yet.
LEMMA ServerKeeps ==
    ASSUME RemapInv, NEW i \in 1..Latest, Apply(i) \/ Refuse(i)
    PROVE  RemapInv'
<1>0. PICK at \in {"applied", "refused"} : \E total :
        patches' = [patches EXCEPT ![i].at = at, ![i].total = total]
  <2>1. CASE Apply(i)
    BY <2>1 DEF Apply
  <2>2. CASE Refuse(i)
    <3>1. patches' = [patches EXCEPT ![i].at = "refused"]
      BY <2>2 DEF Refuse
    <3>2. [patches EXCEPT ![i].at = "refused"]
            = [patches EXCEPT ![i].at = "refused", ![i].total = patches[i].total]
      BY DEF RemapInv, RemapShape, PatchFields
    <3> QED BY <3>1, <3>2
  <2> QED BY <2>1, <2>2
<1>1. PICK total : patches' = [patches EXCEPT ![i].at = at, ![i].total = total]
  BY <1>0
<1>2. UNCHANGED <<shown, refetch>> /\ patches[i].at = "sent"
  BY DEF Apply, Refuse
<1>3. /\ Latest' = Latest /\ DOMAIN patches' = 1..Latest
      /\ \A j \in 1..Latest : /\ DOMAIN patches'[j] = PatchFields
                              /\ patches'[j].previous = patches[j].previous
                              /\ patches'[j].estimate = patches[j].estimate
                              /\ j # i => patches'[j] = patches[j]
      /\ patches'[i].at = at
  BY <1>1 DEF RemapInv, RemapShape, PatchFields, Latest
<1>4. RemapShape'
  BY <1>2, <1>3 DEF RemapInv, RemapShape
<1>5. ~Settled'
  BY <1>3 DEF Settled
<1>6. /\ Latest' > 0 /\ patches'[Latest'].at # "settled" /\ ~shown'.touched
        => shown'.total = patches'[Latest'].estimate
  BY <1>2, <1>3 DEF RemapInv, RemapShape
<1> QED BY <1>4, <1>5, <1>6 DEF RemapInv

\* An answer writes to the detail only for the latest, whose query is then asked.
LEMMA AnswerKeeps ==
    ASSUME RemapInv, NEW i \in 1..Latest, Succeed(i) \/ Fail(i)
    PROVE  RemapInv'
<1>1. /\ Settle(i) /\ DOMAIN shown' = DetailFields
      /\ i # Latest => shown' = shown
  BY DEF Succeed, Fail, IsCurrent, ReconcileTotals, RemapInv, RemapShape
<1> DEFINE done == [SettledPatch EXCEPT !.last = TRUE]
<1>2. /\ DOMAIN done = PatchFields /\ done.at = "settled" /\ done.last = TRUE
      /\ DOMAIN done.previous = DetailFields
  BY DEF SettledPatch, NoDetail, PatchFields, DetailFields
<1>3. patches' = [j \in 1..Latest |-> IF j = i THEN done ELSE [patches[j] EXCEPT !.last = FALSE]]
  BY <1>1 DEF Settle
<1> HIDE DEF done
<1>4. \A j \in 1..Latest :
        /\ j = i => patches'[j] = done
        /\ j # i => /\ DOMAIN patches'[j] = PatchFields /\ patches'[j].previous = patches[j].previous
                    /\ patches'[j].estimate = patches[j].estimate /\ patches'[j].at = patches[j].at
                    /\ patches'[j].last = FALSE
  BY <1>3 DEF RemapInv, RemapShape, PatchFields
<1>5. Latest' = Latest /\ DOMAIN patches' = 1..Latest
  <2>1. patches' \in Seq({patches'[j] : j \in 1..Latest})
    BY <1>3 DEF RemapInv, RemapShape
  <2> QED BY <1>3, <2>1 DEF RemapInv, RemapShape, Latest
<1>6. refetch'.at \in {"none", "asked", "read"} /\ DOMAIN refetch' = {"at", "read"}
  BY <1>1 DEF Settle, RemapInv, RemapShape, NoFetch
<1>7. RemapShape'
  BY <1>1, <1>2, <1>4, <1>5, <1>6 DEF RemapInv, RemapShape
<1>8. CASE i = Latest
  <2>1. refetch'.at = "asked"
    BY <1>1, <1>8 DEF Settle, IsCurrent, NoFetch
  <2> QED BY <1>2, <1>4, <1>5, <1>7, <1>8, <2>1 DEF RemapInv
<1>9. CASE i # Latest
  <2>1. patches'[Latest'].last = FALSE
    BY <1>4, <1>5, <1>9 DEF RemapInv, RemapShape
  <2>2. /\ patches'[Latest'].at = patches[Latest].at /\ patches'[Latest'].estimate = patches[Latest].estimate
        /\ shown' = shown
    BY <1>1, <1>4, <1>5, <1>9 DEF RemapInv, RemapShape
  <2> QED BY <1>5, <1>7, <2>1, <2>2 DEF RemapInv
<1> QED BY <1>8, <1>9

\* The query of the detail and its answer.
LEMMA RefetchKeeps ==
    ASSUME RemapInv, Focus \/ ReadDetail \/ ShowDetail \/ RefetchFails
    PROVE  RemapInv'
<1>1. UNCHANGED <<priced, patches>> /\ Latest' = Latest /\ (Settled' <=> Settled)
  BY DEF Focus, ReadDetail, ShowDetail, RefetchFails, Latest, Settled
<1>2. CASE Focus
  BY <1>1, <1>2 DEF Focus, RemapInv, RemapShape, NoFetch
<1>3. CASE ReadDetail
  BY <1>1, <1>3 DEF ReadDetail, RemapInv, RemapShape
<1>4. CASE ShowDetail
  BY <1>1, <1>4 DEF ShowDetail, RemapInv, RemapShape, NoFetch, DetailFields
<1>5. CASE RefetchFails
  BY <1>1, <1>5 DEF RefetchFails, RemapInv, RemapShape, NoFetch, DetailFields
<1> QED BY <1>2, <1>3, <1>4, <1>5

\* Whatever the screen, the server or a refetch do.
LEMMA RemapStep == RemapInv /\ [RemapNext]_remapVars => RemapInv'
<1> SUFFICES ASSUME RemapInv, [RemapNext]_remapVars PROVE RemapInv'
  OBVIOUS
<1>1. CASE UNCHANGED <<priced, shown, patches, refetch>>
  BY <1>1 DEF RemapInv, RemapShape, Latest, Settled
<1>2. CASE UNCHANGED remapVars
  BY <1>1, <1>2 DEF remapVars
<1>3. CASE \/ \E l \in RemapLines : OpenDrawer(l)
           \/ \E mode \in {"candidates", "search"} : SwitchMode(mode)
           \/ \E hits \in Searches : ChangeQuery(hits)
           \/ CloseDrawer \/ \E p \in RemapPrices : Pick(p)
  BY <1>1, <1>3 DEF OpenDrawer, SwitchMode, ChangeQuery, CloseDrawer, Pick, Drawer
<1> QED BY <1>2, <1>3, ConfirmKeeps, ServerKeeps, AnswerKeeps, RefetchKeeps DEF RemapNext

\* When the last answer is in and was the last sent, its estimate or the truth is shown.
LEMMA RemapInvGives == RemapInv => TotalFollowsLatest
  BY DEF RemapInv, RemapShape, TotalFollowsLatest

(* ------------------------------ the dialogs ------------------------------- *)

\* What a dialog is made of.
DialogFields == {"open", "since", "filled", "error", "heeds"}

\* The shape of the page, its dialog and the submissions.
DialogShape ==
    /\ DOMAIN desk = {"kind", "shown", "done"}
    /\ DOMAIN dialog = DialogFields
    /\ dialog.open \in BOOLEAN /\ dialog.error \in BOOLEAN
    /\ Len(sent) \in Nat /\ DOMAIN sent = Submissions /\ dialog.since \in 0..Len(sent)
    /\ \A i \in Submissions : /\ DOMAIN sent[i] = {"at", "heard"}
                              /\ sent[i].heard \in BOOLEAN

\* A decline dialog that is closed shows and waits for nothing. One that waits
\* does so for what it sent itself, and an error is the answer to that.
DialogInv ==
    /\ DialogShape
    /\ desk.kind = "decline" =>
        /\ ~dialog.open => ~dialog.error /\ dialog.heeds = 0
        /\ dialog.heeds # 0 => dialog.heeds \in Submissions /\ dialog.heeds > dialog.since
    /\ LateAnswerSpares

\* No dialog is open.
LEMMA DialogStarts == DialogInit => DialogInv
  BY EmptySeq DEF DialogInit, DialogInv, DialogShape, NoDialog, DialogFields, Submissions, LateAnswerSpares

\* A dialog is opened for what will be sent from now on.
LEMMA OpenKeeps == ASSUME DialogInv, OpenDecline \/ OpenPaste PROVE DialogInv'
<1>1. /\ dialog' = [dialog EXCEPT !.open = TRUE, !.since = Len(sent)] /\ ~dialog.open
      /\ UNCHANGED <<desk, sent>>
  BY DEF OpenDecline, OpenPaste, FreshDialog
<1>2. /\ DOMAIN dialog' = DialogFields /\ dialog'.open = TRUE
      /\ dialog'.error = dialog.error /\ dialog'.heeds = dialog.heeds /\ dialog'.since = Len(sent)
  BY <1>1 DEF DialogInv, DialogShape, DialogFields
<1>3. DialogShape'
  BY <1>1, <1>2 DEF DialogInv, DialogShape, Submissions
<1> QED BY <1>1, <1>2, <1>3 DEF DialogInv, LateAnswerSpares, Submissions

\* What is sent is waited for.
LEMMA SubmitsKeep == ASSUME DialogInv, ConfirmDecline \/ SubmitPaste PROVE DialogInv'
<1> DEFINE new == [at |-> "sent", heard |-> FALSE]
<1>1. /\ dialog.open /\ sent' = Append(sent, new) /\ desk' = desk
      /\ \/ dialog' = [dialog EXCEPT !.heeds = Len(sent) + 1]
         \/ /\ desk.kind = "paste"
            /\ dialog' = [[dialog EXCEPT !.error = FALSE] EXCEPT !.heeds = Len(sent) + 1]
  BY DEF ConfirmDecline, SubmitPaste, Submit
<1>2. DOMAIN new = {"at", "heard"} /\ new.heard \in BOOLEAN
  OBVIOUS
<1> HIDE DEF new
<1>3. /\ Len(sent)' = Len(sent) + 1 /\ DOMAIN sent' = 1..(Len(sent) + 1)
      /\ sent'[Len(sent) + 1] = new /\ \A i \in Submissions : sent'[i] = sent[i]
  BY <1>1 DEF new, DialogInv, DialogShape, Submissions
<1>4. /\ DOMAIN dialog' = DialogFields /\ dialog'.open = TRUE
      /\ dialog'.heeds = Len(sent) + 1 /\ dialog'.since = dialog.since
      /\ dialog'.error \in BOOLEAN
      /\ desk.kind = "decline" => dialog'.error = dialog.error
  BY <1>1 DEF DialogInv, DialogShape, DialogFields
<1>5. \A i \in Submissions' : DOMAIN sent'[i] = {"at", "heard"} /\ sent'[i].heard \in BOOLEAN
  BY <1>2, <1>3 DEF DialogInv, DialogShape, Submissions
<1>6. DialogShape'
  <2>1. /\ Len(sent') \in Nat /\ DOMAIN sent' = Submissions'
        /\ dialog'.since \in 0..Len(sent')
    BY <1>3, <1>4 DEF DialogInv, DialogShape, Submissions
  <2>2. DOMAIN desk' = {"kind", "shown", "done"}
    BY <1>1 DEF DialogInv, DialogShape
  <2> QED BY <1>4, <1>5, <2>1, <2>2 DEF DialogShape
<1> QED BY <1>1, <1>3, <1>4, <1>6 DEF DialogInv, DialogShape, LateAnswerSpares, Submissions

\* The dialog changes and nothing else does; a session may end.
LEMMA DialogOnly ==
    ASSUME DialogInv, desk'.kind = desk.kind, DOMAIN desk' = {"kind", "shown", "done"}, sent' = sent,
           DOMAIN dialog' = DialogFields, dialog'.open \in BOOLEAN, dialog'.error \in BOOLEAN,
           dialog'.since \in 0..Len(sent),
           desk.kind = "decline" =>
               \/ ~dialog'.open /\ ~dialog'.error /\ dialog'.heeds = 0
               \/ /\ dialog'.open <=> dialog.open
                  /\ dialog'.error <=> dialog.error
                  /\ dialog'.heeds = dialog.heeds /\ dialog'.since = dialog.since
    PROVE  DialogInv'
<1>1. DialogShape'
  BY DEF DialogInv, DialogShape, Submissions
<1> QED BY <1>1 DEF DialogInv, LateAnswerSpares, Submissions

\* A session that ends leaves a closed dialog.
LEMMA CloseKeeps ==
    ASSUME DialogInv, AbandonDecline \/ ClosePaste \/ LeaveDesk \/ ComeBack \/ \E some \in BOOLEAN : FillIn(some)
    PROVE  DialogInv'
<1>1. /\ DOMAIN NoDialog = DialogFields /\ NoDialog.open = FALSE /\ NoDialog.error = FALSE
      /\ NoDialog.since = 0 /\ NoDialog.heeds = 0
  BY DEF NoDialog, DialogFields
<1>2. 0 \in 0..Len(sent)
  BY DEF DialogInv, DialogShape
<1>3. CASE AbandonDecline
  BY <1>1, <1>2, <1>3, DialogOnly DEF AbandonDecline, DialogInv, DialogShape
<1>4. CASE ClosePaste
  <2>1. dialog' = [NoDialog EXCEPT !.heeds = dialog.heeds] /\ UNCHANGED <<desk, sent>> /\ desk.kind = "paste"
    BY <1>4 DEF ClosePaste
  <2>2. DOMAIN dialog' = DialogFields /\ dialog'.open = FALSE /\ dialog'.error = FALSE /\ dialog'.since = 0
    BY <1>1, <2>1 DEF DialogFields
  <2> QED BY <1>2, <2>1, <2>2, DialogOnly DEF DialogInv, DialogShape
<1>5. CASE LeaveDesk
  BY <1>1, <1>2, <1>5, DialogOnly DEF LeaveDesk, DialogInv, DialogShape
<1>6. CASE ComeBack
  <2>1. /\ UNCHANGED <<dialog, sent>> /\ desk'.kind = desk.kind
        /\ DOMAIN desk' = {"kind", "shown", "done"}
    BY <1>6 DEF ComeBack, DialogInv, DialogShape
  <2> QED BY <2>1, DialogOnly DEF DialogInv, DialogShape
<1>7. CASE \E some \in BOOLEAN : FillIn(some)
  <2>1. PICK some \in BOOLEAN : dialog' = [dialog EXCEPT !.filled = some] /\ UNCHANGED <<desk, sent>>
    BY <1>7 DEF FillIn
  <2>2. /\ DOMAIN dialog' = DialogFields /\ dialog'.open = dialog.open /\ dialog'.error = dialog.error
        /\ dialog'.heeds = dialog.heeds /\ dialog'.since = dialog.since
    BY <2>1 DEF DialogInv, DialogShape, DialogFields
  <2> QED BY <2>1, <2>2, DialogOnly DEF DialogInv, DialogShape
<1> QED BY <1>3, <1>4, <1>5, <1>6, <1>7

\* The server decides on a submission nobody has heard of yet.
LEMMA DecideKeeps == ASSUME DialogInv, NEW i \in Submissions, Decide(i) PROVE DialogInv'
<1>1. PICK at : sent' = [sent EXCEPT ![i].at = at]
  BY DEF Decide
<1>2. UNCHANGED <<desk, dialog>> /\ sent[i].at = "sent"
  BY DEF Decide
<1>3. /\ Len(sent') = Len(sent) /\ DOMAIN sent' = Submissions /\ Submissions' = Submissions
      /\ \A j \in Submissions : /\ DOMAIN sent'[j] = {"at", "heard"} /\ sent'[j].heard = sent[j].heard
                                /\ j # i => sent'[j] = sent[j]
  BY <1>1 DEF DialogInv, DialogShape, Submissions
<1>4. DialogShape'
  BY <1>2, <1>3 DEF DialogInv, DialogShape
<1> QED BY <1>2, <1>3, <1>4 DEF DialogInv, LateAnswerSpares

\* An answer is heard: it ends the session, or its error is shown to the session
\* that waits for it.
LEMMA DialogHears ==
    ASSUME DialogInv, NEW i \in Submissions,
           HearDeclined(i) \/ HearNotDeclined(i) \/ HearPasted(i) \/ HearNotPasted(i)
    PROVE  DialogInv'
<1>1. sent' = [sent EXCEPT ![i].heard = TRUE]
  BY DEF HearDeclined, HearNotDeclined, HearPasted, HearNotPasted, Hear
<1>2. /\ Len(sent') = Len(sent) /\ DOMAIN sent' = Submissions /\ Submissions' = Submissions
      /\ \A j \in Submissions : /\ DOMAIN sent'[j] = {"at", "heard"} /\ sent'[j].heard \in BOOLEAN
                                /\ sent'[j].at = sent[j].at
                                /\ j # i => sent'[j] = sent[j]
      /\ sent'[i].heard = TRUE
  <2> DEFINE new == [sent[i] EXCEPT !.heard = TRUE]
  <2>1. DOMAIN new = {"at", "heard"} /\ new.at = sent[i].at /\ new.heard = TRUE
    BY DEF DialogInv, DialogShape
  <2> HIDE DEF new
  <2>2. sent' = [sent EXCEPT ![i] = new]
    BY <1>1 DEF new
  <2>3. /\ Len(sent') = Len(sent) /\ DOMAIN sent' = Submissions
        /\ \A j \in Submissions : sent'[j] = IF j = i THEN new ELSE sent[j]
    BY <2>2 DEF DialogInv, DialogShape, Submissions
  <2> QED BY <2>1, <2>3 DEF DialogInv, DialogShape, Submissions
<1>3. /\ DOMAIN NoDialog = DialogFields /\ NoDialog.open = FALSE /\ NoDialog.error = FALSE
      /\ NoDialog.since = 0 /\ NoDialog.heeds = 0
  BY DEF NoDialog, DialogFields
<1>4. desk'.kind = desk.kind /\ DOMAIN desk' = {"kind", "shown", "done"}
  BY DEF HearDeclined, HearNotDeclined, HearPasted, HearNotPasted, DialogInv, DialogShape
<1>5. \/ dialog' = NoDialog
      \/ dialog' = dialog
      \/ /\ dialog.heeds = i /\ sent[i].at = "refused"
         /\ dialog' = [dialog EXCEPT !.error = TRUE]
  BY DEF HearDeclined, HearNotDeclined, HearPasted, HearNotPasted, Hear, Heeds
<1>6. CASE dialog' = NoDialog
  <2>1. dialog'.since \in 0..Len(sent') /\ dialog'.open = FALSE /\ dialog'.error = FALSE
    BY <1>2, <1>3, <1>6 DEF DialogInv, DialogShape
  <2>2. DialogShape'
    BY <1>2, <1>3, <1>4, <1>6, <2>1 DEF DialogInv, DialogShape
  <2> QED BY <1>3, <1>6, <2>1, <2>2 DEF DialogInv, LateAnswerSpares
<1>7. CASE dialog' = dialog
  <2>1. DialogShape'
    BY <1>2, <1>4, <1>7 DEF DialogInv, DialogShape
  <2>2. LateAnswerSpares'
    <3> SUFFICES ASSUME desk.kind = "decline", dialog.error
                 PROVE  \E j \in Submissions : j > dialog.since /\ sent'[j].at = "refused" /\ sent'[j].heard
      BY <1>2, <1>4, <1>7 DEF LateAnswerSpares
    <3>1. PICK j \in Submissions : j > dialog.since /\ sent[j].at = "refused" /\ sent[j].heard
      BY DEF DialogInv, LateAnswerSpares
    <3> QED BY <1>2, <3>1
  <2> QED BY <1>2, <1>4, <1>7, <2>1, <2>2 DEF DialogInv, DialogShape
<1>8. CASE dialog.heeds = i /\ sent[i].at = "refused" /\ dialog' = [dialog EXCEPT !.error = TRUE]
  <2>1. /\ DOMAIN dialog' = DialogFields /\ dialog'.open = dialog.open /\ dialog'.error = TRUE
        /\ dialog'.heeds = dialog.heeds /\ dialog'.since = dialog.since
    BY <1>8 DEF DialogInv, DialogShape, DialogFields
  <2>2. DialogShape'
    BY <1>2, <1>4, <2>1 DEF DialogInv, DialogShape
  <2>3. i # 0
    BY DEF Submissions, DialogInv, DialogShape
  <2>4. desk.kind = "decline" => dialog.open /\ i > dialog.since
    BY <1>8, <2>3 DEF DialogInv, DialogShape
  <2> QED BY <1>2, <1>4, <1>8, <2>1, <2>2, <2>4 DEF DialogInv, LateAnswerSpares
<1> QED BY <1>5, <1>6, <1>7, <1>8

\* Whatever the page or the server do.
LEMMA DialogStep == DialogInv /\ [DialogNext]_dialogVars => DialogInv'
<1>1. DialogInv /\ UNCHANGED dialogVars => DialogInv'
  BY DEF dialogVars, DialogInv, DialogShape, LateAnswerSpares, Submissions
<1> QED BY <1>1, OpenKeeps, SubmitsKeep, CloseKeeps, DecideKeeps, DialogHears DEF DialogNext

(* ------------------------------- the inbox -------------------------------- *)

\* What has become of a submission, on the server and for the page.
Submitted == [at : {"sent", "stored", "refused", "committed"}, heard : {"not yet", "inbox", "away", "error"}]

\* The shape of the submissions, the page and the list.
InboxShape ==
    /\ modal.page \in {"inbox", "away"} /\ DOMAIN modal = {"page", "form", "waits"}
    /\ posts \in Seq(Submitted)
    /\ DOMAIN list = {"rows", "query"} /\ DOMAIN list.query = {"at", "rows", "after"}
    /\ list.query.at \in {"none", "asked", "read"}

\* A row is one the server has committed or the page has heard of. What a query
\* that is under way will not bring is asked after its answer, or was answered
\* to a page that was gone.
InboxInv ==
    /\ InboxShape
    /\ \A i \in list.rows :
        /\ i \in Posts
        /\ posts[i].at = "committed" \/ posts[i].heard # "not yet"
        /\ list.query.at = "asked" =>
             posts[i].at = "committed" \/ posts[i].heard = "away" \/ i \in list.query.after
        /\ list.query.at = "read" =>
             i \in list.query.rows \/ posts[i].heard = "away" \/ i \in list.query.after
    /\ list.query.at = "read" => list.query.rows \subseteq Committed

\* The list is empty.
LEMMA InboxStarts == InboxInit => InboxInv
  BY EmptySeq DEF InboxInit, InboxInv, InboxShape, NoQuery, Posts, Committed

\* The form is filled in, or the page is left or entered.
LEMMA ModalOnly ==
    ASSUME InboxInv, UNCHANGED <<posts, list>>, DOMAIN modal' = {"page", "form", "waits"},
           modal'.page \in {"inbox", "away"}
    PROVE  InboxInv'
  BY DEF InboxInv, InboxShape, Posts, Committed

\* One submission changes.
LEMMA PostChanges ==
    ASSUME InboxInv, NEW i \in Posts, NEW new \in Submitted, posts' = [posts EXCEPT ![i] = new]
    PROVE  /\ posts' \in Seq(Submitted) /\ Posts' = Posts
           /\ \A j \in Posts : j # i => posts'[j] = posts[j]
           /\ posts'[i] = new
<1>1. posts \in Seq(Submitted)
  BY DEF InboxInv, InboxShape
<1>2. posts' \in Seq(Submitted)
  BY <1>1, ExceptSeq DEF Posts
<1>3. Len(posts') = Len(posts)
  BY <1>1, ExceptSeq DEF Posts
<1>4. DOMAIN posts = Posts /\ Len(posts) \in Nat
  BY <1>1, LenProperties DEF Posts
<1>5. \A j \in Posts : j # i => posts'[j] = posts[j]
  BY <1>4
<1>6. posts'[i] = new
  BY <1>4
<1> QED BY <1>2, <1>3, <1>5, <1>6 DEF Posts

\* A submission is what the shape says.
LEMMA PostOf == ASSUME InboxInv, NEW i \in Posts PROVE posts[i] \in Submitted
<1>1. posts \in Seq(Submitted)
  BY DEF InboxInv, InboxShape
<1> QED BY <1>1, ElementOfSeq DEF Posts

\* A submission is made.
LEMMA ProcessKeeps == ASSUME InboxInv, Process PROVE InboxInv'
<1> DEFINE new == [at |-> "sent", heard |-> "not yet"]
<1>1. /\ modal' = [modal EXCEPT !.form.error = FALSE, !.waits = Len(posts) + 1]
      /\ posts' = Append(posts, new) /\ list' = list
  BY DEF Process
<1>2. new \in Submitted
  BY DEF Submitted
<1> HIDE DEF new
<1>3. posts \in Seq(Submitted)
  BY DEF InboxInv, InboxShape
<1>4. posts' \in Seq(Submitted) /\ \A i \in Posts : i \in Posts' /\ posts'[i] = posts[i]
  BY <1>1, <1>2, <1>3, LenProperties DEF Posts
<1>5. modal'.page = modal.page /\ DOMAIN modal' = {"page", "form", "waits"}
  BY <1>1 DEF InboxInv, InboxShape
<1>6. Committed \subseteq Committed'
  BY <1>4 DEF Committed
<1>7. InboxShape'
  BY <1>1, <1>4, <1>5 DEF InboxInv, InboxShape
<1> QED BY <1>1, <1>4, <1>6, <1>7 DEF InboxInv

\* The server stores, commits or refuses; an error is heard.
LEMMA PostStepKeeps ==
    ASSUME InboxInv, NEW i \in Posts, StoreRequest(i) \/ CommitRequest(i) \/ HearError(i)
    PROVE  InboxInv'
<1>1. PICK new : /\ posts' = [posts EXCEPT ![i] = new] /\ new \in Submitted
                 /\ posts[i].at = "committed" => new.at = "committed"
                 /\ \/ new.heard = posts[i].heard
                    \/ posts[i].heard = "not yet" /\ new.heard = "error"
  <2>1. CASE StoreRequest(i)
    <3>1. PICK at \in {"stored", "refused"} : posts' = [posts EXCEPT ![i].at = at]
      BY <2>1 DEF StoreRequest
    <3>2. LET new == [posts[i] EXCEPT !.at = at]
          IN  posts' = [posts EXCEPT ![i] = new] /\ new \in Submitted /\ new.heard = posts[i].heard
      BY <3>1, PostOf DEF Submitted
    <3> QED BY <2>1, <3>2 DEF StoreRequest
  <2>2. CASE CommitRequest(i)
    <3>2. LET new == [posts[i] EXCEPT !.at = "committed"]
          IN  /\ posts' = [posts EXCEPT ![i] = new] /\ new \in Submitted
              /\ new.heard = posts[i].heard /\ new.at = "committed"
      BY <2>2, PostOf DEF CommitRequest, Submitted
    <3> QED BY <3>2
  <2>3. CASE HearError(i)
    <3>2. LET new == [posts[i] EXCEPT !.heard = "error"]
          IN  /\ posts' = [posts EXCEPT ![i] = new] /\ new \in Submitted
              /\ new.heard = "error" /\ new.at = posts[i].at
      BY <2>3, PostOf DEF HearError, Submitted
    <3> QED BY <2>3, <3>2 DEF HearError
  <2> QED BY <2>1, <2>2, <2>3
<1>2. /\ list' = list /\ DOMAIN modal' = {"page", "form", "waits"} /\ modal'.page \in {"inbox", "away"}
  BY DEF StoreRequest, CommitRequest, HearError, InboxInv, InboxShape
<1>3. /\ posts' \in Seq(Submitted) /\ Posts' = Posts
      /\ \A j \in Posts : j # i => posts'[j] = posts[j]
      /\ posts'[i] = new
  BY <1>1, PostChanges
<1>4. Committed \subseteq Committed'
  BY <1>1, <1>3 DEF Committed
<1>5. \A j \in Posts : /\ posts[j].at = "committed" => posts'[j].at = "committed"
                       /\ posts[j].heard # "not yet" => posts'[j].heard = posts[j].heard
                       /\ posts[j].heard = "away" => posts'[j].heard = "away"
  BY <1>1, <1>3
<1>6. InboxShape'
  BY <1>2, <1>3 DEF InboxInv, InboxShape
<1> QED BY <1>2, <1>3, <1>4, <1>5, <1>6 DEF InboxInv

\* A success adds its row, and a list that is shown is asked for again.
LEMMA SuccessKeeps == ASSUME InboxInv, NEW i \in Posts, HearSuccess(i) PROVE InboxInv'
<1> DEFINE new == [posts[i] EXCEPT !.heard = modal.page]
           query == IF modal.page = "inbox" THEN Invalidate(Heard \cup {i}) ELSE list.query
<1>1. /\ posts' = [posts EXCEPT ![i] = new] /\ posts[i].heard = "not yet"
      /\ list' = [rows |-> list.rows \cup {i}, query |-> query]
      /\ modal' = [page |-> "away", form |-> EmptyModal, waits |-> 0]
  BY DEF HearSuccess, OptimisticRow
<1>2. new \in Submitted /\ new.at = posts[i].at /\ new.heard = modal.page
  <2>1. modal.page \in {"inbox", "away"}
    BY DEF InboxInv, InboxShape
  <2> QED BY <2>1, PostOf DEF Submitted
<1>3. /\ DOMAIN query = {"at", "rows", "after"} /\ query.at \in {"none", "asked", "read"}
      /\ modal.page = "inbox" => query.at = "asked" /\ query.after = Heard \cup {i}
      /\ modal.page # "inbox" => query = list.query
  BY DEF Invalidate, Ask, NoQuery, InboxInv, InboxShape
<1> HIDE DEF new, query
<1>4. /\ posts' \in Seq(Submitted) /\ Posts' = Posts
      /\ \A j \in Posts : j # i => posts'[j] = posts[j]
      /\ posts'[i] = new
  BY <1>1, <1>2, PostChanges
<1>5. list'.rows = list.rows \cup {i} /\ list'.query = query /\ Committed' = Committed
  BY <1>1, <1>2, <1>4 DEF Committed
<1>6. InboxShape'
  BY <1>1, <1>3, <1>4, <1>5 DEF InboxInv, InboxShape
<1>7. CASE modal.page = "inbox"
  <2>1. \A j \in list.rows : j \in Posts /\ (posts[j].at = "committed" \/ j \in Heard)
    BY DEF InboxInv, Heard
  <2>2. query.at = "asked" /\ query.after = Heard \cup {i}
    BY <1>3, <1>7
  <2>3. \A j \in list'.rows :
          /\ j \in Posts' /\ (posts'[j].at = "committed" \/ j \in Heard \cup {i})
          /\ posts'[j].at = "committed" \/ posts'[j].heard # "not yet"
    BY <1>2, <1>4, <1>5, <1>7, <2>1 DEF Heard
  <2> QED BY <1>5, <1>6, <2>2, <2>3 DEF InboxInv
<1>8. CASE modal.page # "inbox"
  <2>1. new.heard = "away"
    BY <1>2, <1>8 DEF InboxInv, InboxShape
  <2> QED BY <1>2, <1>3, <1>4, <1>5, <1>6, <1>8, <2>1 DEF InboxInv, InboxShape
<1> QED BY <1>7, <1>8

\* The list is asked for, read and shown.
LEMMA ListKeeps ==
    ASSUME InboxInv, AskList \/ ReadList \/ ShowList \/ ListFails
    PROVE  InboxInv'
<1>1. UNCHANGED <<modal, posts>> /\ Posts' = Posts /\ Committed' = Committed
  BY DEF AskList, ReadList, ShowList, ListFails, Posts, Committed
<1>2. CASE AskList
  <2>1. /\ list'.rows = list.rows /\ DOMAIN list' = {"rows", "query"}
        /\ DOMAIN list'.query = {"at", "rows", "after"} /\ list'.query.at = "asked" /\ list'.query.after = Heard
    BY <1>2 DEF AskList, Ask, NoQuery, InboxInv, InboxShape
  <2> QED BY <1>1, <2>1 DEF InboxInv, InboxShape, Heard
<1>3. CASE ReadList
  <2>1. /\ list'.rows = list.rows /\ DOMAIN list' = {"rows", "query"}
        /\ DOMAIN list'.query = {"at", "rows", "after"} /\ list'.query.at = "read"
        /\ list'.query.rows = Committed /\ list'.query.after = list.query.after
        /\ list.query.at = "asked"
    BY <1>3 DEF ReadList, InboxInv, InboxShape
  <2> QED BY <1>1, <2>1 DEF InboxInv, InboxShape, Committed
<1>4. CASE ShowList
  <2>1. /\ list'.rows = list.query.rows /\ DOMAIN list' = {"rows", "query"}
        /\ DOMAIN list'.query = {"at", "rows", "after"} /\ list'.query.at = "none"
        /\ list.query.at = "read"
    BY <1>4 DEF ShowList, NoQuery
  <2> QED BY <1>1, <2>1 DEF InboxInv, InboxShape, Committed
<1>5. CASE ListFails
  <2>1. /\ list'.rows = list.rows /\ DOMAIN list' = {"rows", "query"}
        /\ DOMAIN list'.query = {"at", "rows", "after"} /\ list'.query.at = "none"
    BY <1>5 DEF ListFails, NoQuery, InboxInv, InboxShape
  <2> QED BY <1>1, <2>1 DEF InboxInv, InboxShape
<1> QED BY <1>2, <1>3, <1>4, <1>5

\* Whatever the page, the list or the server do.
LEMMA InboxStep == InboxInv /\ [InboxNext]_inboxVars => InboxInv'
<1> SUFFICES ASSUME InboxInv, [InboxNext]_inboxVars PROVE InboxInv'
  OBVIOUS
<1>1. CASE UNCHANGED inboxVars
  BY <1>1, ModalOnly DEF inboxVars, InboxInv, InboxShape
<1>2. CASE \/ OpenModal \/ CloseModal \/ LeaveInbox \/ EnterInbox
           \/ \E mode \in {"upload", "email"} : SetMode(mode)
           \/ \E f \in InboxFiles : AddFile(f) \/ RemoveFile(f)
           \/ \E some \in BOOLEAN : WriteText(some)
  <2>1. /\ UNCHANGED <<posts, list>>
        /\ \/ \E filled : modal' = [modal EXCEPT !.form = filled]
           \/ modal' = [page |-> "away", form |-> EmptyModal, waits |-> 0]
           \/ modal' = [modal EXCEPT !.page = "inbox"]
    BY <1>2 DEF OpenModal, CloseModal, LeaveInbox, EnterInbox, SetMode, AddFile, RemoveFile, WriteText, Form
  <2>2. DOMAIN modal' = {"page", "form", "waits"} /\ modal'.page \in {"inbox", "away"}
    <3>1. DOMAIN modal = {"page", "form", "waits"} /\ modal.page \in {"inbox", "away"}
      BY DEF InboxInv, InboxShape
    <3>2. CASE \E filled : modal' = [modal EXCEPT !.form = filled]
      BY <3>1, <3>2
    <3>3. CASE modal' = [page |-> "away", form |-> EmptyModal, waits |-> 0]
      BY <3>3
    <3>4. CASE modal' = [modal EXCEPT !.page = "inbox"]
      BY <3>1, <3>4
    <3> QED BY <2>1, <3>2, <3>3, <3>4
  <2> QED BY <2>1, <2>2, ModalOnly
<1> QED BY <1>1, <1>2, ProcessKeeps, PostStepKeeps, SuccessKeeps, ListKeeps DEF InboxNext

\* Rows go only when a list is shown.
LEMMA RowsGoByQuery ==
    ASSUME InboxInv, [InboxNext]_inboxVars
    PROVE  \A i \in list.rows \ list'.rows : posts[i].heard = "away" \/ i \in list.query.after
<1>1. CASE ShowList
  BY <1>1 DEF ShowList, InboxInv
<1>2. CASE ~ShowList
  <2>1. list.rows \subseteq list'.rows
    <3>1. CASE UNCHANGED list
      BY <3>1
    <3>2. CASE AskList \/ ReadList \/ ListFails
      <4>1. DOMAIN list = {"rows", "query"}
        BY DEF InboxInv, InboxShape
      <4>2. PICK query : list' = [list EXCEPT !.query = query]
        BY <3>2 DEF AskList, ReadList, ListFails
      <4> QED BY <4>1, <4>2
    <3>3. CASE \E i \in Posts : HearSuccess(i)
      <4>1. PICK i, query : i \in Posts /\ list' = [rows |-> list.rows \cup {i}, query |-> query]
        BY <3>3 DEF HearSuccess, OptimisticRow
      <4> QED BY <4>1
    <3> QED
      BY <1>2, <3>1, <3>2, <3>3
      DEF InboxNext, inboxVars, OpenModal, CloseModal, LeaveInbox, EnterInbox, SetMode, AddFile,
          RemoveFile, WriteText, Form, Process, StoreRequest, CommitRequest, HearError
  <2> QED BY <2>1
<1> QED BY <1>1, <1>2

(* ---------------------------- the quote screen ---------------------------- *)

\* What a row of the quote is, and a run of a query for it.
Stages == {"unknown", "draft", "approved", "ready", "sent"}
DealRows == [rev : Nat, status : Stages]
Fetches == [at : {"asked", "read"}, saw : DealRows]

\* A query shows nothing newer than the row, runs at most once, and what a run
\* of it has read is no older than what it shows.
QueryInv(query) ==
    /\ DOMAIN query = {"data", "failed", "fetches"}
    /\ query.data \in DealRows /\ ~Precedes(deal.row, query.data)
    /\ query.fetches = <<>> \/ \E f \in Fetches :
        /\ query.fetches = <<f>>
        /\ f.at = "read" => ~Precedes(deal.row, f.saw) /\ ~Precedes(f.saw, query.data)

\* Only an approved row is held.
DealInv ==
    /\ DOMAIN deal = {"row", "holder", "email"}
    /\ deal.row \in DealRows
    /\ deal.holder # Nobody => deal.row.status = "approved"

\* The invariant of the quote's screen.
WatchInv == DealInv /\ QueryInv(detail) /\ QueryInv(register)

\* What is no older than what is no older is no older.
LEMMA NoOlder ==
    ASSUME NEW a \in DealRows, NEW b \in DealRows, NEW c \in DealRows, ~Precedes(a, b), ~Precedes(b, c)
    PROVE  ~Precedes(a, c)
<1>1. /\ a.rev \in Nat /\ b.rev \in Nat /\ c.rev \in Nat
      /\ Stage(a) \in 0..3 /\ Stage(b) \in 0..3 /\ Stage(c) \in 0..3
  BY DEF DealRows, Stages, Stage
<1> QED BY <1>1 DEF Precedes

\* Nothing precedes itself.
LEMMA NoOlderThanItself == ASSUME NEW a \in DealRows PROVE ~Precedes(a, a)
<1>1. a.rev \in Nat /\ Stage(a) \in 0..3
  BY DEF DealRows, Stages, Stage
<1> QED BY <1>1 DEF Precedes

\* No quote, and neither page has been opened.
LEMMA WatchStarts == ScreenInit => WatchInv
<1> SUFFICES ASSUME ScreenInit PROVE WatchInv
  OBVIOUS
<1>1. /\ DOMAIN deal = {"row", "holder", "email"} /\ deal.row = NoDeal /\ deal.holder = Nobody
  BY DEF ScreenInit
<1>2. NoDeal \in DealRows /\ Nothing \in DealRows /\ ~Precedes(NoDeal, Nothing)
  BY DEF NoDeal, Nothing, DealRows, Stages, Precedes, Stage
<1>3. DealInv
  BY <1>1, <1>2 DEF DealInv
<1>4. DOMAIN Cold = {"data", "failed", "fetches"} /\ Cold.data = Nothing /\ Cold.fetches = <<>>
  BY DEF Cold
<1>5. detail = Cold /\ register = Cold
  BY DEF ScreenInit
<1> QED BY <1>1, <1>2, <1>3, <1>4, <1>5 DEF WatchInv, QueryInv

\* The row moves on, and neither query does.
LEMMA RowMoves ==
    ASSUME WatchInv, DealInv', ~Precedes(deal'.row, deal.row), UNCHANGED <<detail, register>>
    PROVE  WatchInv'
<1>1. ASSUME NEW q, QueryInv(q), q' = q PROVE QueryInv(q)'
  <2>1. deal.row \in DealRows /\ deal'.row \in DealRows
    BY DEF WatchInv, DealInv
  <2>2. q.data \in DealRows /\ ~Precedes(deal'.row, q.data)
    BY <1>1, <2>1, NoOlder DEF QueryInv
  <2>3. \A f \in Fetches : ~Precedes(deal.row, f.saw) => ~Precedes(deal'.row, f.saw)
    BY <2>1, NoOlder DEF Fetches
  <2> QED BY <1>1, <2>2, <2>3 DEF QueryInv
<1> QED BY <1>1 DEF WatchInv

\* Pricing writes a newer row that nobody holds.
LEMMA RepriceMoves == ASSUME WatchInv, Reprice PROVE WatchInv'
<1> DEFINE row == [rev |-> deal.row.rev + 1, status |-> "draft"]
<1>1. deal' = [deal EXCEPT !.row = row, !.holder = Nobody] /\ UNCHANGED <<detail, register>>
  BY DEF Reprice, WatchInv, DealInv
<1>2. deal.row \in DealRows
  BY DEF WatchInv, DealInv
<1>3. row \in DealRows /\ ~Precedes(row, deal.row)
  BY <1>2 DEF DealRows, Stages, Precedes
<1> HIDE DEF row
<1>4. DOMAIN deal' = {"row", "holder", "email"} /\ deal'.row = row /\ deal'.holder = Nobody
  BY <1>1 DEF WatchInv, DealInv
<1> QED BY <1>1, <1>3, <1>4, RowMoves DEF DealInv

\* The row keeps its quote and takes a status: the newer ones of RowSteps.
RowSteps(row, status) ==
    \/ status = row.status
    \/ row.status \in {"draft", "approved"} /\ status \in {"draft", "approved", "ready"}
    \/ row.status = "ready" /\ status = "sent"

\* A status that may follow is no step back.
LEMMA RowStepsForward ==
    ASSUME NEW row \in DealRows, NEW status \in Stages, RowSteps(row, status)
    PROVE  LET new == [row EXCEPT !.status = status]
           IN  new \in DealRows /\ new.status = status /\ ~Precedes(new, row)
  BY DEF DealRows, Stages, RowSteps, Precedes, Stage

\* A status is written, and nobody holds the row unless it is approved.
LEMMA StatusMoves ==
    ASSUME WatchInv, NEW status \in Stages, RowSteps(deal.row, status), NEW by,
           deal' = [deal EXCEPT !.row = [deal.row EXCEPT !.status = status], !.holder = by],
           by # Nobody => status = "approved",
           UNCHANGED <<detail, register>>
    PROVE  WatchInv'
<1> DEFINE row == [deal.row EXCEPT !.status = status]
<1>1. row \in DealRows /\ row.status = status /\ ~Precedes(row, deal.row)
  BY RowStepsForward DEF WatchInv, DealInv
<1> HIDE DEF row
<1>2. DOMAIN deal' = {"row", "holder", "email"} /\ deal'.row = row /\ deal'.holder = by
  BY DEF row, WatchInv, DealInv
<1> QED BY <1>1, <1>2, RowMoves DEF DealInv

\* A colleague approves, finishes or sends.
LEMMA ColleagueMoves == ASSUME WatchInv, ColleagueActs PROVE WatchInv'
<1>1. DOMAIN deal = {"row", "holder", "email"} /\ deal.row \in DealRows /\ Nobody # Colleague
  BY DEF WatchInv, DealInv, Nobody, Colleague, Holder
<1>2. UNCHANGED <<detail, register>>
  BY DEF ColleagueActs
<1>3. CASE deal.row.status = "draft" /\ deal' = [deal EXCEPT !.row.status = "approved", !.holder = Colleague]
  BY <1>1, <1>2, <1>3, StatusMoves DEF RowSteps, Stages
<1>4. CASE /\ deal.holder = Colleague
           /\ \E to \in {"ready", "draft"} : deal' = [deal EXCEPT !.row.status = to, !.holder = Nobody]
  <2>1. PICK to \in {"ready", "draft"} : deal' = [deal EXCEPT !.row.status = to, !.holder = Nobody]
    BY <1>4
  <2>2. deal.row.status = "approved"
    BY <1>1, <1>4 DEF WatchInv, DealInv
  <2> QED BY <1>2, <2>1, <2>2, StatusMoves DEF RowSteps, Stages
<1>5. CASE deal.row.status = "ready" /\ deal' = [deal EXCEPT !.row.status = "sent"]
  <2>1. deal' = [deal EXCEPT !.row = [deal.row EXCEPT !.status = "sent"], !.holder = deal.holder]
    BY <1>1, <1>5
  <2>2. deal.holder = Nobody
    BY <1>5 DEF WatchInv, DealInv
  <2> QED BY <1>2, <1>5, <2>1, <2>2, StatusMoves DEF RowSteps, Stages
<1> QED BY <1>3, <1>4, <1>5, Zenon DEF ColleagueActs

\* A call leaves the row as it is: it keeps its holder, or lets go of it.
LEMMA ServesAsIs ==
    ASSUME WatchInv, NEW i, NEW at, at # "claimed", Serve(i, deal.row, at)
    PROVE  WatchInv'
<1>1. DOMAIN deal = {"row", "holder", "email"} /\ deal.row \in DealRows
  BY DEF WatchInv, DealInv
<1>2. PICK by \in {Nobody, deal.holder} : deal' = [deal EXCEPT !.row = deal.row, !.holder = by]
  BY DEF Serve
<1>3. deal.row = [deal.row EXCEPT !.status = deal.row.status] /\ deal.row.status \in Stages
  BY <1>1 DEF DealRows
<1>4. by # Nobody => deal.row.status = "approved"
  BY <1>2 DEF WatchInv, DealInv
<1>5. UNCHANGED <<detail, register>>
  BY DEF Serve
<1> QED BY <1>2, <1>3, <1>4, <1>5, StatusMoves DEF RowSteps

\* A call of the page is served.
LEMMA ServeMoves ==
    ASSUME WatchInv, NEW i, ServeApprove(i) \/ FinishApprove(i) \/ ServeSend(i) \/ ServePdf(i)
    PROVE  WatchInv'
<1>1. DOMAIN deal = {"row", "holder", "email"} /\ deal.row \in DealRows
  BY DEF WatchInv, DealInv
<1>2. CASE \E at \in {"ok", "error"} : Serve(i, deal.row, at)
  BY <1>2, ServesAsIs
<1>3. CASE ServeApprove(i)
  <2>1. CASE deal.row.status = "draft" /\ Serve(i, [deal.row EXCEPT !.status = "approved"], "claimed")
    <3>1. deal' = [deal EXCEPT !.row = [deal.row EXCEPT !.status = "approved"], !.holder = Holder("page", i)]
      BY <2>1 DEF Serve
    <3>2. UNCHANGED <<detail, register>>
      BY <2>1 DEF Serve
    <3> QED BY <2>1, <3>1, <3>2, StatusMoves DEF RowSteps, Stages
  <2> QED BY <1>2, <1>3, <2>1 DEF ServeApprove
<1>4. CASE FinishApprove(i)
  <2>1. CASE deal.holder # Holder("page", i)
    <3>1. UNCHANGED <<deal, detail, register>>
      BY <1>4, <2>1 DEF FinishApprove
    <3> QED BY <3>1 DEF WatchInv, DealInv, QueryInv
  <2>2. CASE deal.holder = Holder("page", i)
    <3>1. Nobody # Holder("page", i)
      BY DEF Nobody, Holder
    <3>2. deal.row.status = "approved"
      BY <2>2, <3>1 DEF WatchInv, DealInv
    <3>3. PICK to \in {"ready", "draft"}, at \in {"ok", "error"} :
            Serve(i, [deal.row EXCEPT !.status = to], at)
      BY <1>4, <2>2 DEF FinishApprove
    <3>4. quoteCalls[i].at = "claimed"
      BY <1>4 DEF FinishApprove, CallAt
    <3>5. /\ deal' = [deal EXCEPT !.row = [deal.row EXCEPT !.status = to], !.holder = Nobody]
          /\ UNCHANGED <<detail, register>>
      BY <3>3, <3>4 DEF Serve
    <3> QED BY <3>2, <3>5, StatusMoves DEF RowSteps, Stages
  <2> QED BY <2>1, <2>2
<1>5. CASE ServeSend(i)
  <2>1. CASE /\ deal.row.status \in {"sent", "ready"}
             /\ \E at \in {"ok", "error"} : Serve(i, [deal.row EXCEPT !.status = "sent"], at)
    <3>1. PICK at \in {"ok", "error"} : Serve(i, [deal.row EXCEPT !.status = "sent"], at)
      BY <2>1
    <3>2. deal.holder = Nobody
      BY <2>1 DEF WatchInv, DealInv
    <3>3. /\ deal' = [deal EXCEPT !.row = [deal.row EXCEPT !.status = "sent"], !.holder = Nobody]
          /\ UNCHANGED <<detail, register>>
      BY <1>1, <3>1, <3>2 DEF Serve
    <3> QED BY <2>1, <3>3, StatusMoves DEF RowSteps, Stages
  <2> QED BY <1>2, <1>5, <2>1 DEF ServeSend
<1>6. CASE ServePdf(i)
  BY <1>2, <1>6 DEF ServePdf
<1> QED BY <1>3, <1>4, <1>5, <1>6

\* A query is asked: what was under way is cancelled.
LEMMA QueryAsked ==
    ASSUME NEW query, QueryInv(query)
    PROVE  LET new == [query EXCEPT !.fetches = Asked]
           IN  QueryInv(new) /\ new.data = query.data
<1> DEFINE f == [at |-> "asked", saw |-> Nothing]
           new == [query EXCEPT !.fetches = Asked]
<1>1. f \in Fetches /\ f.at = "asked"
  BY DEF Fetches, DealRows, Stages, Nothing
<1>2. DOMAIN new = {"data", "failed", "fetches"} /\ new.data = query.data /\ new.fetches = <<f>>
  BY DEF QueryInv, Asked
<1> HIDE DEF f, new
<1>3. QueryInv(new)
  BY <1>1, <1>2 DEF QueryInv
<1> QED BY <1>2, <1>3 DEF new

\* Of the one fetch there is nothing is left when it is over.
LEMMA OneIsOver ==
    ASSUME NEW query, QueryInv(query), NEW i \in DOMAIN query.fetches
    PROVE  /\ i = 1 /\ query.fetches[1] \in Fetches /\ query.fetches = <<query.fetches[1]>>
           /\ DOMAIN Without(query, i) = {"data", "failed", "fetches"}
           /\ Without(query, i).data = query.data /\ Without(query, i).fetches = <<>>
<1>1. query.fetches # <<>>
  BY EmptySeq
<1>2. PICK f \in Fetches : query.fetches = <<f>>
  BY <1>1 DEF QueryInv
<1>3. i = 1 /\ query.fetches[1] = f /\ Len(query.fetches) = 1
  BY <1>2
<1>4. SubSeq(query.fetches, 1, 0) = <<>> /\ SubSeq(query.fetches, 2, 1) = <<>>
  BY SubSeqEmpty
<1>5. SubSeq(query.fetches, 1, i - 1) \o SubSeq(query.fetches, i + 1, Len(query.fetches)) = <<>>
  <2>1. <<>> \o <<>> = <<>>
    BY EmptySeq, ConcatEmptySeq
  <2> QED BY <1>3, <1>4, <2>1
<1> QED BY <1>2, <1>3, <1>5 DEF Without, QueryInv

\* A fetch reads the row, lands, or fails: what is shown never goes back.
LEMMA FetchForward ==
    ASSUME DealInv, NEW query, QueryInv(query), NEW i \in DOMAIN query.fetches, NEW next,
           \/ query.fetches[i].at = "asked" /\ next \in {ReadBy(query, i), Failed(query, i)}
           \/ query.fetches[i].at = "read" /\ next = Landed(query, i)
    PROVE  QueryInv(next) /\ ~Precedes(next.data, query.data)
<1> DEFINE f == query.fetches[1]
<1>1. /\ i = 1 /\ f \in Fetches /\ query.fetches = <<f>>
      /\ DOMAIN query = {"data", "failed", "fetches"} /\ query.data \in DealRows /\ ~Precedes(deal.row, query.data)
      /\ f.at = "read" => ~Precedes(deal.row, f.saw) /\ ~Precedes(f.saw, query.data)
  <2>1. i = 1 /\ f \in Fetches /\ query.fetches = <<f>>
    BY OneIsOver
  <2>2. query.fetches # <<>>
    BY EmptySeq
  <2>3. PICK g \in Fetches : /\ query.fetches = <<g>>
                             /\ g.at = "read" => ~Precedes(deal.row, g.saw) /\ ~Precedes(g.saw, query.data)
    BY <2>2 DEF QueryInv
  <2>4. g = f
    BY <2>3
  <2> QED BY <2>1, <2>3, <2>4 DEF QueryInv
<1>2. /\ DOMAIN Without(query, i) = {"data", "failed", "fetches"}
      /\ Without(query, i).data = query.data /\ Without(query, i).fetches = <<>>
  BY OneIsOver
<1>3. ~Precedes(query.data, query.data)
  BY <1>1, NoOlderThanItself
<1>4. CASE next = ReadBy(query, i)
  <2> DEFINE g == [at |-> "read", saw |-> deal.row]
  <2>1. g \in Fetches /\ g.saw = deal.row /\ ~Precedes(deal.row, deal.row)
    BY NoOlderThanItself DEF DealInv, Fetches
  <2>2. next = [query EXCEPT !.fetches = [query.fetches EXCEPT ![1] = g]]
    BY <1>1, <1>4 DEF ReadBy
  <2> HIDE DEF g
  <2>3. [query.fetches EXCEPT ![1] = g] = <<g>>
    BY <1>1
  <2>4. DOMAIN next = {"data", "failed", "fetches"} /\ next.data = query.data /\ next.fetches = <<g>>
    BY <1>1, <2>2, <2>3
  <2> QED BY <1>1, <1>3, <2>1, <2>4 DEF QueryInv
<1>5. CASE next = Failed(query, i)
  <2>1. DOMAIN next = {"data", "failed", "fetches"} /\ next.data = query.data /\ next.fetches = <<>>
    BY <1>2, <1>5 DEF Failed
  <2> QED BY <1>1, <1>3, <2>1 DEF QueryInv
<1>6. CASE f.at = "read" /\ next = Landed(query, i)
  <2>1. DOMAIN next = {"data", "failed", "fetches"} /\ next.data = f.saw /\ next.fetches = <<>>
    BY <1>1, <1>2, <1>6 DEF Landed
  <2>2. f.saw \in DealRows
    BY <1>1 DEF Fetches
  <2> QED BY <1>1, <1>6, <2>1, <2>2 DEF QueryInv
<1> QED BY <1>1, <1>4, <1>5, <1>6

\* A query that stands, or is asked again, takes nothing back.
LEMMA StandsOrAsked ==
    ASSUME DealInv, NEW query, QueryInv(query), NEW next,
           next \in {query, [query EXCEPT !.fetches = Asked]}
    PROVE  QueryInv(next) /\ ~Precedes(next.data, query.data)
  BY QueryAsked, NoOlderThanItself DEF QueryInv

\* A step that leaves the row alone.
LEMMA QueriesForward ==
    ASSUME WatchInv, UNCHANGED deal,
           \/ detail' \in {detail, [detail EXCEPT !.fetches = Asked]}
           \/ \E i \in DOMAIN detail.fetches :
                \/ detail.fetches[i].at = "asked" /\ detail' \in {ReadBy(detail, i), Failed(detail, i)}
                \/ detail.fetches[i].at = "read" /\ detail' = Landed(detail, i),
           \/ register' \in {register, [register EXCEPT !.fetches = Asked]}
           \/ \E i \in DOMAIN register.fetches :
                \/ register.fetches[i].at = "asked" /\ register' \in {ReadBy(register, i), Failed(register, i)}
                \/ register.fetches[i].at = "read" /\ register' = Landed(register, i)
    PROVE  WatchInv' /\ ~Precedes(detail'.data, detail.data) /\ ~Precedes(register'.data, register.data)
<1>1. DealInv /\ DealInv' /\ QueryInv(detail) /\ QueryInv(register)
  BY DEF WatchInv, DealInv
<1> DEFINE detailNow == detail'
           registerNow == register'
<1>2. QueryInv(detailNow) /\ ~Precedes(detailNow.data, detail.data)
  BY <1>1, FetchForward, StandsOrAsked
<1>3. QueryInv(registerNow) /\ ~Precedes(registerNow.data, register.data)
  BY <1>1, FetchForward, StandsOrAsked
<1>4. QueryInv(detail)' /\ QueryInv(register)'
  BY <1>2, <1>3 DEF QueryInv
<1> QED BY <1>1, <1>2, <1>3, <1>4 DEF WatchInv

\* The calls, the queries, the pages and the buttons.
LEMMA WatchStep ==
    ASSUME WatchInv, [ScreenNext]_screenVars
    PROVE  WatchInv' /\ ~Precedes(detail'.data, detail.data) /\ ~Precedes(register'.data, register.data)
<1>1. CASE \/ Reprice \/ ColleagueActs
           \/ \E i \in DOMAIN quoteCalls : ServeApprove(i) \/ FinishApprove(i) \/ ServeSend(i) \/ ServePdf(i)
  <2>1. WatchInv'
    BY <1>1, RepriceMoves, ColleagueMoves, ServeMoves
  <2>2. UNCHANGED <<detail, register>>
    BY <1>1 DEF Reprice, ColleagueActs, ServeApprove, FinishApprove, ServeSend, ServePdf, Serve
  <2>3. detail.data \in DealRows /\ register.data \in DealRows
    BY DEF WatchInv, QueryInv
  <2> QED BY <2>1, <2>2, <2>3, NoOlderThanItself
<1>2. CASE UNCHANGED screenVars
  BY <1>2, QueriesForward DEF screenVars
<1>3. CASE \E i \in DOMAIN quoteCalls : HearAnswer(i)
  <2>1. /\ UNCHANGED deal
        /\ detail' \in {detail, [detail EXCEPT !.fetches = Asked]}
        /\ register' \in {register, [register EXCEPT !.fetches = Asked]}
    BY <1>3 DEF HearAnswer, InvalidateQuery
  <2> QED BY <2>1, QueriesForward
<1>4. CASE AskDetail \/ \E i \in DOMAIN detail.fetches : FetchDetail(i)
  <2>1. /\ UNCHANGED <<deal, register>>
        /\ \/ detail' = [detail EXCEPT !.fetches = Asked]
           \/ \E i \in DOMAIN detail.fetches :
                \/ detail.fetches[i].at = "asked" /\ detail' \in {ReadBy(detail, i), Failed(detail, i)}
                \/ detail.fetches[i].at = "read" /\ detail' = Landed(detail, i)
    BY <1>4 DEF AskDetail, FetchDetail, DetailTo, Refetch
  <2> QED BY <2>1, QueriesForward
<1>5. CASE AskRegister \/ \E i \in DOMAIN register.fetches : FetchRegister(i)
  <2>1. /\ UNCHANGED <<deal, detail>>
        /\ \/ register' = [register EXCEPT !.fetches = Asked]
           \/ \E i \in DOMAIN register.fetches :
                \/ register.fetches[i].at = "asked" /\ register' \in {ReadBy(register, i), Failed(register, i)}
                \/ register.fetches[i].at = "read" /\ register' = Landed(register, i)
    BY <1>5 DEF AskRegister, FetchRegister, RegisterTo, Refetch
  <2> QED BY <2>1, QueriesForward
<1>6. CASE UNCHANGED <<deal, detail, register>>
  BY <1>6, QueriesForward
<1> QED
  BY <1>1, <1>2, <1>3, <1>4, <1>5, <1>6
  DEF ScreenNext, OpenRegister, OpenQuote, LeaveQuotes, Search, Press, TurnPage

(* ----------------------------- organizations ------------------------------ *)

\* What the browser and a call are made of.
BrowserFields ==
    {"page", "chosen", "raw", "header", "stored", "known", "onboarded", "shown", "fresh", "form"}
OrgCallFields == {"kind", "header", "chosen", "text", "at", "org", "read"}

\* A choice of a seeded organization is in the header and in the list.
BrowserInv ==
    /\ DOMAIN browser = BrowserFields
    /\ browser.chosen \in SeededOrgs =>
         browser.header = browser.chosen /\ browser.raw = browser.chosen /\ browser.chosen \in browser.known

\* A call made under such a choice carries it, and was served as it; a list that
\* was read has the seeded organizations.
OrgCallInv(call) ==
    /\ DOMAIN call = OrgCallFields
    /\ call.chosen \in SeededOrgs => call.header = call.chosen /\ (call.org # Null => call.org = call.chosen)
    /\ call.kind = "orgs" => call.at # "serving" /\ (call.at = "answered" => SeededOrgs \subseteq call.read)

\* The seeded organizations are there for good.
OrgInv ==
    /\ BrowserInv
    /\ Len(orgCalls) \in Nat /\ DOMAIN orgCalls = OrgCalls
    /\ \A i \in OrgCalls : OrgCallInv(orgCalls[i])
    /\ SeededOrgs \subseteq orgs

\* A page that was just loaded has chosen nothing.
LEMMA LoadedChoice == ASSUME NEW o PROVE DOMAIN Loaded(o) = BrowserFields /\ Loaded(o).chosen = Null
  BY DEF Loaded, BrowserFields

\* No calls yet.
LEMMA OrgStarts == OrgInit => OrgInv
  BY LoadedChoice, EmptySeq, OrgAssumption DEF OrgInit, OrgInv, BrowserInv, OrgCalls

\* The calls stand, and what the browser has chosen it names.
LEMMA BrowserMoves ==
    ASSUME OrgInv, BrowserInv', UNCHANGED <<orgCalls, orgs>>
    PROVE  OrgInv'
  BY DEF OrgInv, OrgCalls, OrgCallInv

\* A call in the place of another.
LEMMA CallsMove ==
    ASSUME OrgInv, BrowserInv', UNCHANGED orgs, NEW calls, orgCalls' = calls,
           DOMAIN calls = OrgCalls, Len(calls) = Len(orgCalls),
           \A i \in OrgCalls : OrgCallInv(calls[i])
    PROVE  OrgInv'
  BY DEF OrgInv, OrgCalls, OrgCallInv

\* What is over was chosen by nobody.
LEMMA OverIsFine ==
    ASSUME NEW call, DOMAIN call = OrgCallFields
    PROVE  OrgCallInv(OrgCallOver(call))
<1>1. /\ DOMAIN OrgCallOver(call) = OrgCallFields /\ OrgCallOver(call).chosen = Null
      /\ OrgCallOver(call).at = "over"
  BY DEF OrgCallOver, OrgCallFields
<1> QED BY <1>1, OrgAssumption DEF OrgCallInv

\* Lists that are under way are over.
LEMMA CancelIsFine ==
    ASSUME NEW calls, DOMAIN calls = OrgCalls, \A i \in OrgCalls : OrgCallInv(calls[i])
    PROVE  /\ DOMAIN ListCancelled(calls) = OrgCalls
           /\ \A i \in OrgCalls : OrgCallInv(ListCancelled(calls)[i])
  BY OverIsFine DEF ListCancelled, OrgCallInv

\* A function on the places of the calls is as long as they are.
LEMMA AsLong ==
    ASSUME OrgInv, NEW calls, calls = [i \in OrgCalls |-> calls[i]]
    PROVE  Len(calls) = Len(orgCalls)
<1>1. Len(orgCalls) \in Nat
  BY DEF OrgInv
<1> DEFINE S == {calls[i] : i \in OrgCalls}
<1>2. calls \in Seq(S)
  BY <1>1, IsASeq DEF OrgCalls
<1>3. DOMAIN calls = 1..Len(calls) /\ Len(calls) \in Nat
  BY <1>2, LenProperties
<1>4. DOMAIN calls = 1..Len(orgCalls)
  BY DEF OrgCalls
<1> QED BY <1>1, <1>3, <1>4

\* The browser changes what has no part in the choice.
LEMMA ChoiceStands ==
    ASSUME OrgInv, NEW b, DOMAIN b = BrowserFields, b.chosen = browser.chosen,
           b.header = browser.header, b.raw = browser.raw,
           b.known = browser.known \/ SeededOrgs \subseteq b.known,
           browser' = b
    PROVE  BrowserInv'
  BY DEF OrgInv, BrowserInv

\* An organization that is on the list is chosen, or the one just onboarded.
LEMMA SelectedIsNamed ==
    ASSUME NEW b, DOMAIN b = BrowserFields, NEW o, o \in b.known \/ o \notin SeededOrgs
    PROVE  /\ DOMAIN Selected(b, o) = BrowserFields
           /\ Selected(b, o).header = o /\ Selected(b, o).raw = o /\ Selected(b, o).chosen = o
           /\ Selected(b, o).known = b.known
  BY DEF Selected, BrowserFields

\* The provider and its pages, without a call.
LEMMA PagesKeep ==
    ASSUME OrgInv, Render \/ OpenBranding \/ CloseBranding
    PROVE  OrgInv'
<1>1. DOMAIN browser = BrowserFields
  BY DEF OrgInv, BrowserInv
<1>2. UNCHANGED <<orgCalls, orgs>>
  BY DEF Render, OpenBranding, CloseBranding, Browse
<1>3. CASE Render
  <2> DEFINE b == [browser EXCEPT !.header = Validated, !.stored = Validated]
  <2>1. browser' = b
    BY <1>3 DEF Render, Browse
  <2>2. /\ DOMAIN b = BrowserFields /\ b.chosen = browser.chosen /\ b.header = Validated
        /\ b.raw = browser.raw /\ b.known = browser.known
    BY <1>1 DEF BrowserFields
  <2>3. browser.chosen \in SeededOrgs => Validated = browser.chosen
    BY DEF OrgInv, BrowserInv, Validated
  <2> HIDE DEF b
  <2>4. BrowserInv'
    BY <2>1, <2>2, <2>3 DEF OrgInv, BrowserInv
  <2> QED BY <1>2, <2>4, BrowserMoves
<1>4. CASE OpenBranding
  <2> DEFINE b == [browser EXCEPT !.page = "branding", !.form = browser.shown]
  <2>1. browser' = b
    BY <1>4 DEF OpenBranding, Browse
  <2>2. /\ DOMAIN b = BrowserFields /\ b.chosen = browser.chosen /\ b.header = browser.header
        /\ b.raw = browser.raw /\ b.known = browser.known
    BY <1>1 DEF BrowserFields
  <2> HIDE DEF b
  <2> QED BY <1>2, <2>1, <2>2, ChoiceStands, BrowserMoves
<1>5. CASE CloseBranding
  <2> DEFINE b == [browser EXCEPT !.page = "settings", !.form = Null]
  <2>1. browser' = b
    BY <1>5 DEF CloseBranding, Browse
  <2>2. /\ DOMAIN b = BrowserFields /\ b.chosen = browser.chosen /\ b.header = browser.header
        /\ b.raw = browser.raw /\ b.known = browser.known
    BY <1>1 DEF BrowserFields
  <2> HIDE DEF b
  <2> QED BY <1>2, <2>1, <2>2, ChoiceStands, BrowserMoves
<1> QED BY <1>3, <1>4, <1>5

\* Another organization is chosen.
LEMMA SwitchKeeps == ASSUME OrgInv, NEW o, SwitchOrg(o) PROVE OrgInv'
<1>1. browser' = Selected(browser, o) /\ orgCalls' = ListCancelled(orgCalls) /\ UNCHANGED orgs /\ o \in browser.known
  BY DEF SwitchOrg
<1>2. BrowserInv'
  BY <1>1, SelectedIsNamed DEF OrgInv, BrowserInv
<1> DEFINE calls == ListCancelled(orgCalls)
<1>3. DOMAIN calls = OrgCalls /\ \A i \in OrgCalls : OrgCallInv(calls[i])
  BY CancelIsFine DEF OrgInv
<1>4. Len(calls) = Len(orgCalls)
  <2>1. calls = [i \in OrgCalls |-> calls[i]]
    BY DEF ListCancelled, OrgInv
  <2> QED BY <2>1, AsLong
<1> HIDE DEF calls
<1> QED BY <1>1, <1>2, <1>3, <1>4, CallsMove DEF calls

\* The page is loaded again: the choice is forgotten, answers are lost.
LEMMA ReloadKeeps == ASSUME OrgInv, Reload PROVE OrgInv'
<1> DEFINE calls ==
      [i \in OrgCalls |-> IF orgCalls[i].at = "answered" THEN OrgCallOver(orgCalls[i]) ELSE orgCalls[i]]
<1>1. browser' = Loaded(browser.stored) /\ orgCalls' = calls /\ UNCHANGED orgs
  BY DEF Reload
<1>2. BrowserInv'
  BY <1>1, LoadedChoice, OrgAssumption DEF BrowserInv
<1>3. DOMAIN calls = OrgCalls /\ \A i \in OrgCalls : OrgCallInv(calls[i])
  BY OverIsFine DEF OrgInv, OrgCallInv
<1>4. Len(calls) = Len(orgCalls)
  BY AsLong
<1> HIDE DEF calls
<1> QED BY <1>1, <1>2, <1>3, <1>4, CallsMove

\* A call carries the header as it is.
LEMMA OrgCallKeeps ==
    ASSUME OrgInv, NEW kind, NEW text, OrgCall(kind, text)
    PROVE  OrgInv'
<1> DEFINE new == [kind |-> kind, header |-> browser.header, chosen |-> browser.chosen,
                   text |-> text, at |-> "sent", org |-> Null, read |-> Null]
<1>1. orgCalls' = Append(orgCalls, new) /\ UNCHANGED <<browser, orgs>>
  BY DEF OrgCall
<1>2. OrgCallInv(new)
  BY DEF OrgCallInv, OrgCallFields, OrgInv, BrowserInv
<1> HIDE DEF new
<1>3. /\ Len(orgCalls') = Len(orgCalls) + 1 /\ DOMAIN orgCalls' = 1..(Len(orgCalls) + 1)
      /\ orgCalls'[Len(orgCalls) + 1] = new /\ \A i \in OrgCalls : orgCalls'[i] = orgCalls[i]
  BY <1>1 DEF OrgInv, OrgCalls
<1>4. Len(orgCalls) \in Nat
  BY DEF OrgInv
<1>5. \A i \in OrgCalls' : OrgCallInv(orgCalls'[i])
  <2> SUFFICES ASSUME NEW i \in OrgCalls' PROVE OrgCallInv(orgCalls'[i])
    OBVIOUS
  <2>1. CASE i \in OrgCalls
    BY <1>3, <2>1 DEF OrgInv
  <2>2. CASE i = Len(orgCalls) + 1
    BY <1>2, <1>3, <2>2
  <2> QED BY <1>3, <1>4, <2>1, <2>2 DEF OrgCalls
<1>6. BrowserInv'
  BY <1>1 DEF OrgInv, BrowserInv
<1>7. \A i \in OrgCalls' : OrgCallInv(orgCalls[i])'
  BY <1>5 DEF OrgCallInv
<1> QED BY <1>1, <1>3, <1>4, <1>6, <1>7 DEF OrgInv, OrgCalls

\* One call changes on the server.
LEMMA OneCallMoves ==
    ASSUME OrgInv, NEW i \in OrgCalls, NEW call, OrgCallInv(call),
           orgCalls' = [orgCalls EXCEPT ![i] = call], UNCHANGED <<browser, orgs>>
    PROVE  OrgInv'
<1> DEFINE calls == [orgCalls EXCEPT ![i] = call]
<1>1. DOMAIN calls = OrgCalls /\ \A j \in OrgCalls : OrgCallInv(calls[j])
  BY DEF OrgInv
<1>2. calls = [j \in OrgCalls |-> calls[j]]
  BY DEF OrgInv
<1>3. Len(calls) = Len(orgCalls)
  BY <1>2, AsLong
<1>4. BrowserInv'
  BY DEF OrgInv, BrowserInv
<1> HIDE DEF calls
<1> QED BY <1>1, <1>3, <1>4, CallsMove DEF calls

\* The API resolves a header, reads, saves, refuses, commits.
LEMMA ApiKeeps ==
    ASSUME OrgInv, NEW i \in OrgCalls,
           ServeOrgCall(i) \/ SaveBranding(i) \/ RefuseOrgCall(i) \/ CommitOrg(i)
    PROVE  OrgInv'
<1>1. OrgCallInv(orgCalls[i]) /\ DOMAIN orgCalls[i] = OrgCallFields
  BY DEF OrgInv, OrgCallInv
<1>2. CASE ServeOrgCall(i)
  <2> DEFINE o == OrgOfHeader(orgCalls[i].header)
             read == CASE orgCalls[i].kind = "orgs" -> orgs
                       [] orgCalls[i].kind = "onboard" -> Null
                       [] OTHER -> BrandingOf(o)
             at == IF orgCalls[i].kind \in {"patch", "logo"} THEN "serving" ELSE "answered"
  <2>0. orgCalls' = [orgCalls EXCEPT ![i].org = o, ![i].read = read, ![i].at = at]
    BY <1>2, Zenon DEF ServeOrgCall
  <2>1. /\ o = OrgOfHeader(orgCalls[i].header)
        /\ orgCalls[i].kind = "orgs" => read = orgs /\ at # "serving"
    OBVIOUS
  <2> HIDE DEF o, read, at
  <2> DEFINE call == [orgCalls[i] EXCEPT !.org = o, !.read = read, !.at = at]
  <2>2. /\ DOMAIN call = OrgCallFields /\ call.org = o /\ call.read = read /\ call.at = at
        /\ call.chosen = orgCalls[i].chosen /\ call.header = orgCalls[i].header /\ call.kind = orgCalls[i].kind
    BY <1>1 DEF OrgCallFields
  <2>3. orgCalls' = [orgCalls EXCEPT ![i] = call]
    BY <2>0 DEF OrgInv
  <2>4. orgCalls[i].header \in SeededOrgs => o = orgCalls[i].header
    BY <2>1 DEF OrgOfHeader
  <2> HIDE DEF call
  <2>5. OrgCallInv(call)
    BY <1>1, <2>1, <2>2, <2>4 DEF OrgCallInv, OrgInv
  <2>6. UNCHANGED <<browser, orgs>>
    BY <1>2 DEF ServeOrgCall
  <2> QED BY <2>3, <2>5, <2>6, OneCallMoves
<1>3. CASE SaveBranding(i)
  <2> DEFINE call == [orgCalls[i] EXCEPT !.at = "answered"]
  <2>1. /\ DOMAIN call = OrgCallFields /\ call.org = orgCalls[i].org /\ call.read = orgCalls[i].read
        /\ call.chosen = orgCalls[i].chosen /\ call.header = orgCalls[i].header /\ call.kind = orgCalls[i].kind
    BY <1>1 DEF OrgCallFields
  <2>2. orgCalls' = [orgCalls EXCEPT ![i] = call] /\ UNCHANGED <<browser, orgs>>
    BY <1>3 DEF SaveBranding, OrgInv
  <2>3. orgCalls[i].kind # "orgs"
    BY <1>1, <1>3 DEF SaveBranding, OrgCallInv
  <2> HIDE DEF call
  <2>4. OrgCallInv(call)
    BY <1>1, <2>1, <2>3 DEF OrgCallInv
  <2> QED BY <2>2, <2>4, OneCallMoves
<1>4. CASE RefuseOrgCall(i)
  <2>1. orgCalls' = [orgCalls EXCEPT ![i] = OrgCallOver(orgCalls[i])] /\ UNCHANGED <<browser, orgs>>
    BY <1>4 DEF RefuseOrgCall, OrgInv
  <2> QED BY <1>1, <2>1, OverIsFine, OneCallMoves
<1>5. CASE CommitOrg(i)
  BY <1>5 DEF CommitOrg, OrgInv, BrowserInv, OrgCalls, OrgCallInv
<1> QED BY <1>2, <1>3, <1>4, <1>5

\* An answer is heard, and the browser takes what has no part in the choice, a
\* list, or the organization just onboarded.
LEMMA HearKeeps ==
    ASSUME OrgInv, NEW i \in OrgCalls, NEW kind, NEW b, HearOrgCall(i, kind, b),
           browser' = b => BrowserInv'
    PROVE  OrgInv'
<1> DEFINE heard == [orgCalls EXCEPT ![i] = OrgCallOver(orgCalls[i])]
           calls == IF kind = "onboard" THEN ListCancelled(heard) ELSE heard
<1>1. orgCalls' = calls /\ browser' = b /\ UNCHANGED orgs
  BY DEF HearOrgCall, OrgInv
<1>2. OrgCallInv(orgCalls[i]) /\ DOMAIN orgCalls[i] = OrgCallFields
  BY DEF OrgInv, OrgCallInv
<1>3. DOMAIN heard = OrgCalls /\ \A j \in OrgCalls : OrgCallInv(heard[j])
  BY <1>2, OverIsFine DEF OrgInv
<1> HIDE DEF heard
<1>4. DOMAIN calls = OrgCalls /\ \A j \in OrgCalls : OrgCallInv(calls[j])
  BY <1>3, CancelIsFine
<1>5. calls = [j \in OrgCalls |-> calls[j]]
  BY DEF ListCancelled, heard, OrgInv
<1>6. Len(calls) = Len(orgCalls)
  BY <1>5, AsLong
<1> HIDE DEF calls
<1> QED BY <1>1, <1>4, <1>6, CallsMove

\* The answers to a page that lists or adds organizations.
LEMMA AnswersKeep ==
    ASSUME OrgInv, NEW i \in OrgCalls,
           HearOrgs(i) \/ HearOnboarded(i) \/ HearBranding(i) \/ HearBrandingSaved(i)
    PROVE  OrgInv'
<1>1. DOMAIN browser = BrowserFields
  BY DEF OrgInv, BrowserInv
<1>2. CASE HearOrgs(i)
  <2> DEFINE b == [browser EXCEPT !.known = orgCalls[i].read]
             c == [Selected(b, NewOrg) EXCEPT !.onboarded = FALSE, !.page = "branding", !.form = b.shown]
  <2>1. SeededOrgs \subseteq orgCalls[i].read
    BY <1>2 DEF HearOrgs, HearOrgCall, OrgInv, OrgCallInv
  <2>2. PICK next \in {b, [b EXCEPT !.onboarded = FALSE], c} : HearOrgCall(i, "orgs", next)
    BY <1>2 DEF HearOrgs
  <2>3. /\ DOMAIN b = BrowserFields /\ b.chosen = browser.chosen /\ b.header = browser.header
        /\ b.raw = browser.raw /\ b.known = orgCalls[i].read
    BY <1>1 DEF BrowserFields
  <2> HIDE DEF b
  <2>4. CASE next = b
    BY <2>1, <2>2, <2>3, <2>4, ChoiceStands, HearKeeps
  <2>5. CASE next = [b EXCEPT !.onboarded = FALSE]
    <3>1. /\ DOMAIN next = BrowserFields /\ next.chosen = browser.chosen /\ next.header = browser.header
          /\ next.raw = browser.raw /\ next.known = orgCalls[i].read
      BY <2>3, <2>5 DEF BrowserFields
    <3> QED BY <2>1, <2>2, <3>1, ChoiceStands, HearKeeps
  <2>6. CASE next = c
    <3>1. DOMAIN Selected(b, NewOrg) = BrowserFields /\ Selected(b, NewOrg).chosen = NewOrg
      BY <2>3, OrgAssumption, SelectedIsNamed
    <3>2. DOMAIN c = BrowserFields /\ c.chosen = NewOrg
      BY <3>1 DEF BrowserFields
    <3>3. browser' = next => BrowserInv'
      BY <2>6, <3>2, OrgAssumption DEF BrowserInv
    <3> QED BY <2>2, <3>3, HearKeeps
  <2> QED BY <2>2, <2>4, <2>5, <2>6
<1>3. CASE HearOnboarded(i)
  <2> DEFINE b == [browser EXCEPT !.onboarded = TRUE]
  <2>1. HearOrgCall(i, "onboard", b)
    BY <1>3 DEF HearOnboarded
  <2>2. /\ DOMAIN b = BrowserFields /\ b.chosen = browser.chosen /\ b.header = browser.header
        /\ b.raw = browser.raw /\ b.known = browser.known
    BY <1>1 DEF BrowserFields
  <2> HIDE DEF b
  <2> QED BY <2>1, <2>2, ChoiceStands, HearKeeps
<1>4. CASE HearBranding(i)
  <2>1. PICK text, filled :
          HearOrgCall(i, "branding", [browser EXCEPT !.shown = text, !.fresh = TRUE, !.form = filled])
    BY <1>4 DEF HearBranding
  <2> DEFINE b == [browser EXCEPT !.shown = text, !.fresh = TRUE, !.form = filled]
  <2>2. /\ DOMAIN b = BrowserFields /\ b.chosen = browser.chosen /\ b.header = browser.header
        /\ b.raw = browser.raw /\ b.known = browser.known
    BY <1>1 DEF BrowserFields
  <2>3. HearOrgCall(i, "branding", b)
    BY <2>1
  <2> HIDE DEF b
  <2> QED BY <2>2, <2>3, ChoiceStands, HearKeeps
<1>5. CASE HearBrandingSaved(i)
  <2> DEFINE b == [browser EXCEPT !.fresh = FALSE]
  <2>1. PICK kind \in {"patch", "logo"} : HearOrgCall(i, kind, b)
    BY <1>5 DEF HearBrandingSaved
  <2>2. /\ DOMAIN b = BrowserFields /\ b.chosen = browser.chosen /\ b.header = browser.header
        /\ b.raw = browser.raw /\ b.known = browser.known
    BY <1>1 DEF BrowserFields
  <2> HIDE DEF b
  <2> QED BY <2>1, <2>2, ChoiceStands, HearKeeps
<1> QED BY <1>2, <1>3, <1>4, <1>5

\* Whatever the browser or the server do.
LEMMA OrgStep == OrgInv /\ [OrgNext]_orgVars => OrgInv'
<1> SUFFICES ASSUME OrgInv, [OrgNext]_orgVars PROVE OrgInv'
  OBVIOUS
<1>1. CASE UNCHANGED orgVars
  BY <1>1, BrowserMoves DEF orgVars, OrgInv, BrowserInv
<1>2. CASE AskOrgs \/ Onboard \/ AskBranding \/ SaveForm \/ PickLogo
  <2>1. \E kind, text : OrgCall(kind, text)
    BY <1>2 DEF AskOrgs, Onboard, AskBranding, SaveForm, PickLogo
  <2> QED BY <2>1, OrgCallKeeps
<1>3. CASE \E o \in SeededOrgs \cup {NewOrg} : SwitchOrg(o)
  BY <1>3, SwitchKeeps
<1> QED BY <1>1, <1>2, <1>3, PagesKeep, ReloadKeeps, ApiKeeps, AnswersKeep DEF OrgNext

\* A seeded organization that is chosen is the one served.
LEMMA OrgInvGives == OrgInv => ListedOrgIsServed
  BY DEF OrgInv, OrgCallInv, ListedOrgIsServed

(* ------------------------------- rule files ------------------------------- *)

\* What a call of the service is made of.
LoadFields == {"at", "kind", "path", "mtime", "content", "answer", "verdict", "seen", "failed", "switched"}

\* A call that is under way, and one that has looked at the time of its file.
Active(load) == load.at \in {"called", "looked", "reading", "read"}
Stamped(load) == load.at \in {"looked", "reading", "read"}

\* The two files and their times.
FileInv ==
    /\ DOMAIN ruleFile = RulePaths
    /\ \A path \in RulePaths : DOMAIN ruleFile[path] = {"content", "mtime"} /\ ruleFile[path].mtime \in Nat

\* What was read at the time it is stamped with, or later, is not newer than the
\* file, and the file itself if it is as new.
NoNewer(content, mtime, file) == mtime <= file.mtime /\ (mtime = file.mtime => content = file.content)

\* The cache is not newer than the file it was read from.
CacheInv ==
    /\ DOMAIN ruleCache = {"content", "mtime", "path"}
    /\ ruleCache.mtime \in Nat /\ ruleCache.path \in RulePaths /\ crossed \in BOOLEAN
    /\ ~crossed /\ ruleCache.content # "none" =>
         NoNewer(ruleCache.content, ruleCache.mtime, ruleFile[ruleCache.path])

\* A call has seen what its file holds since it began. What it finds in the cache
\* under a time no older than the one it looked at, it has seen.
LoadInv(load) ==
    /\ DOMAIN load = LoadFields /\ load.path \in RulePaths /\ load.mtime \in Nat
    /\ load.switched \in BOOLEAN /\ load.failed \in BOOLEAN
    /\ Active(load) => ruleFile[load.path].content \in load.seen
    /\ Stamped(load) => load.mtime <= ruleFile[load.path].mtime
    /\ load.at = "read" => load.content \in load.seen /\ NoNewer(load.content, load.mtime, ruleFile[load.path])
    /\ Active(load) /\ load.kind # "reload" /\ ~load.switched => load.path = ruleCache.path
    /\ Stamped(load) /\ load.kind # "reload" /\ ~load.switched /\ ~crossed
         /\ ruleCache.content # "none" /\ load.mtime <= ruleCache.mtime => ruleCache.content \in load.seen
    /\ load.at = "answered" /\ ~load.failed /\ ~load.switched /\ ~crossed => load.answer \in load.seen

\* What one call has read under a time no older than another's, the other has seen.
Seen(load, other) ==
    load.at = "read" /\ Stamped(other) /\ other.path = load.path /\ other.mtime <= load.mtime =>
        load.content \in other.seen

\* The invariant of the two services.
RuleInv ==
    /\ FileInv /\ CacheInv
    /\ DOMAIN loads = Readers
    /\ \A r \in Readers : LoadInv(loads[r])
    /\ \A q, r \in Readers : Seen(loads[q], loads[r])

\* Nobody has called, nothing is cached.
LEMMA RuleStarts == RuleInit => RuleInv
<1> SUFFICES ASSUME RuleInit PROVE RuleInv
  OBVIOUS
<1>1. FileInv
  BY DEF RuleInit, FileInv, RulePaths
<1>2. CacheInv
  BY DEF RuleInit, CacheInv, RulePaths
<1>3. /\ DOMAIN NoLoad = LoadFields /\ NoLoad.at = "idle" /\ NoLoad.path = "main" /\ NoLoad.mtime = 0
      /\ NoLoad.switched = FALSE /\ NoLoad.failed = FALSE
  BY DEF NoLoad, LoadFields
<1>4. LoadInv(NoLoad)
  <2>1. NoLoad.path \in RulePaths /\ NoLoad.mtime \in Nat
    BY <1>3 DEF RulePaths
  <2>3. NoLoad.switched \in BOOLEAN /\ NoLoad.failed \in BOOLEAN
    BY <1>3, Zenon
  <2>2. ~Active(NoLoad) /\ ~Stamped(NoLoad) /\ NoLoad.at \notin {"read", "answered"}
    BY <1>3 DEF Active, Stamped
  <2> QED BY <1>3, <2>1, <2>2, <2>3 DEF LoadInv
<1>5. DOMAIN loads = Readers /\ \A r \in Readers : loads[r] = NoLoad
  BY DEF RuleInit
<1> QED BY <1>1, <1>2, <1>3, <1>4, <1>5 DEF RuleInv, Seen

\* One call moves, and neither the files nor the cache do.
LEMMA OneLoad ==
    ASSUME RuleInv, NEW r \in Readers, NEW new, loads' = [loads EXCEPT ![r] = new],
           UNCHANGED <<ruleFile, ruleCache, crossed>>, LoadInv(new), Seen(new, new),
           \A q \in Readers : Seen(loads[q], new) /\ Seen(new, loads[q])
    PROVE  RuleInv'
<1>1. DOMAIN loads' = Readers /\ \A q \in Readers : loads'[q] = IF q = r THEN new ELSE loads[q]
  BY DEF RuleInv
<1>2. \A q \in Readers : LoadInv(loads'[q])
  BY <1>1 DEF RuleInv
<1>3. \A q \in Readers : LoadInv(loads[q])'
  BY <1>2 DEF LoadInv
<1>4. \A p, q \in Readers : Seen(loads'[p], loads'[q])
  BY <1>1 DEF RuleInv
<1>5. \A p, q \in Readers : Seen(loads[p], loads[q])'
  BY <1>4 DEF Seen
<1>6. FileInv' /\ CacheInv'
  BY DEF RuleInv, FileInv, CacheInv, NoNewer
<1> QED BY <1>1, <1>3, <1>5, <1>6 DEF RuleInv

\* A call that has not looked, or is over without an answer that counts, is
\* bound to nothing but its file.
LEMMA QuietLoad ==
    ASSUME NEW new, DOMAIN new = LoadFields, new.path \in RulePaths, new.mtime \in Nat,
           new.switched \in BOOLEAN, new.failed \in BOOLEAN,
           \/ /\ new.at = "called" /\ ruleFile[new.path].content \in new.seen
              /\ new.kind # "reload" => new.path = ruleCache.path \/ new.switched
           \/ new.at = "refused"
           \/ new.at = "answered" /\ (~new.failed /\ ~new.switched /\ ~crossed => new.answer \in new.seen)
    PROVE  LoadInv(new) /\ Seen(new, new) /\ \A load : Seen(load, new) /\ Seen(new, load)
<1>1. ~Stamped(new) /\ new.at # "read"
  BY DEF Stamped
<1> QED BY <1>1 DEF LoadInv, Seen, Active

\* A call begins, alone or in the place of a refused reload.
LEMMA CallBegins ==
    ASSUME RuleInv, NEW r \in Readers, NEW kind, NEW path \in RulePaths,
           kind = "reload" \/ path = ruleCache.path,
           loads' = [loads EXCEPT ![r] = [NoLoad EXCEPT !.at = "called", !.kind = kind, !.path = path,
                                                        !.seen = {ruleFile[path].content}]],
           UNCHANGED <<ruleFile, ruleCache, crossed>>
    PROVE  RuleInv'
<1> DEFINE new == [NoLoad EXCEPT !.at = "called", !.kind = kind, !.path = path,
                                 !.seen = {ruleFile[path].content}]
<1>1. /\ DOMAIN new = LoadFields /\ new.at = "called" /\ new.kind = kind /\ new.path = path /\ new.mtime = 0
      /\ new.switched = FALSE /\ new.failed = FALSE /\ new.seen = {ruleFile[path].content}
  BY DEF NoLoad, LoadFields
<1> HIDE DEF new
<1>2. /\ new.mtime \in Nat /\ new.path \in RulePaths
      /\ ruleFile[new.path].content \in new.seen /\ (new.kind # "reload" => new.path = ruleCache.path)
  BY <1>1
<1>3. new.switched \in BOOLEAN /\ new.failed \in BOOLEAN
  BY <1>1, Zenon
<1>4. LoadInv(new) /\ Seen(new, new) /\ \A load : Seen(load, new) /\ Seen(new, load)
  BY <1>1, <1>2, <1>3, QuietLoad
<1> QED BY <1>4, OneLoad DEF new

\* A call is answered.
LEMMA CallEnds ==
    ASSUME RuleInv, NEW r \in Readers, NEW load, NEW content,
           DOMAIN load = LoadFields, load.path \in RulePaths, load.mtime \in Nat,
           load.switched \in BOOLEAN, load.failed \in BOOLEAN,
           ~load.failed /\ ~load.switched /\ ~crossed => content \in load.seen,
           loads' = [loads EXCEPT ![r] = AnswerWith(load, content)],
           UNCHANGED <<ruleFile, ruleCache, crossed>>
    PROVE  RuleInv'
<1> DEFINE new == AnswerWith(load, content)
<1>1. /\ DOMAIN new = LoadFields /\ new.at = "answered" /\ new.answer = content
      /\ new.path = load.path /\ new.mtime = load.mtime /\ new.seen = load.seen
      /\ new.switched = load.switched /\ new.failed = load.failed
  BY DEF AnswerWith, LoadFields
<1> HIDE DEF new
<1>2. LoadInv(new) /\ Seen(new, new) /\ \A other : Seen(other, new) /\ Seen(new, other)
  BY <1>1, QuietLoad
<1> QED BY <1>2, OneLoad DEF new

\* A call that cannot read its file.
LEMMA FailsKeeps == ASSUME RuleInv, NEW r \in Readers, LoadFails(r) PROVE RuleInv'
<1> DEFINE load == loads[r]
<1>1. /\ DOMAIN load = LoadFields /\ load.path \in RulePaths /\ load.mtime \in Nat
      /\ load.switched \in BOOLEAN /\ load.failed \in BOOLEAN
  BY DEF RuleInv, LoadInv
<1>2. UNCHANGED <<ruleFile, ruleCache, crossed>>
  BY DEF LoadFails
<1>3. CASE load.kind = "reload" /\ service = "policy"
  <2> DEFINE new == [load EXCEPT !.at = "refused"]
  <2>1. loads' = [loads EXCEPT ![r] = new]
    BY <1>3 DEF LoadFails, Refusal
  <2>2. /\ DOMAIN new = LoadFields /\ new.at = "refused" /\ new.path = load.path /\ new.mtime = load.mtime
        /\ new.switched = load.switched /\ new.failed = load.failed
    BY <1>1 DEF LoadFields
  <2> HIDE DEF new
  <2>3. LoadInv(new) /\ Seen(new, new) /\ \A other : Seen(other, new) /\ Seen(new, other)
    BY <1>1, <2>2, QuietLoad
  <2> QED BY <1>2, <2>1, <2>3, OneLoad
<1>4. CASE load.kind = "reload" /\ service # "policy"
  <2>1. loads' = [loads EXCEPT ![r] = [NoLoad EXCEPT !.at = "called", !.kind = "get", !.path = ruleCache.path,
                                                     !.seen = {ruleFile[ruleCache.path].content}]]
    BY <1>4 DEF LoadFails, Refusal
  <2>2. ruleCache.path \in RulePaths
    BY DEF RuleInv, CacheInv
  <2> QED BY <1>2, <2>1, <2>2, CallBegins
<1>5. CASE load.kind # "reload"
  <2> DEFINE failed == [load EXCEPT !.failed = TRUE]
             content == IF ruleCache.content = "none" THEN "defaults" ELSE ruleCache.content
  <2>1. loads' = [loads EXCEPT ![r] = AnswerWith(failed, content)]
    BY <1>5 DEF LoadFails, Fallback
  <2>2. /\ DOMAIN failed = LoadFields /\ failed.path = load.path /\ failed.mtime = load.mtime
        /\ failed.switched = load.switched /\ failed.failed = TRUE
    BY <1>1 DEF LoadFields
  <2> HIDE DEF failed, content
  <2> QED BY <1>1, <1>2, <2>1, <2>2, CallEnds
<1> QED BY <1>3, <1>4, <1>5

\* A call looks at the time of its file: what anyone has read or cached under a
\* time as new is the file.
LEMMA StatKeeps == ASSUME RuleInv, NEW r \in Readers, StatFile(r) PROVE RuleInv'
<1> DEFINE load == loads[r]
           file == ruleFile[load.path]
           new == [load EXCEPT !.at = "looked", !.mtime = file.mtime]
<1>1. LoadInv(load) /\ load.at = "called" /\ FileInv /\ CacheInv
  BY DEF RuleInv, StatFile
<1>2. CASE LoadFails(r)
  BY <1>2, FailsKeeps
<1>3. CASE ~LoadFails(r)
  <2>1. loads' = [loads EXCEPT ![r] = new] /\ UNCHANGED <<ruleFile, ruleCache, crossed>>
    <3>1. /\ loads' = [loads EXCEPT ![r].at = "looked", ![r].mtime = file.mtime]
          /\ UNCHANGED <<ruleFile, ruleCache, crossed>>
      BY <1>3 DEF StatFile
    <3> QED BY <3>1 DEF RuleInv
  <2>2. /\ DOMAIN new = LoadFields /\ new.at = "looked" /\ new.mtime = file.mtime /\ new.path = load.path
        /\ new.kind = load.kind /\ new.seen = load.seen /\ new.switched = load.switched /\ new.failed = load.failed
    BY <1>1 DEF LoadInv, LoadFields
  <2>3. load.path \in RulePaths /\ file.mtime \in Nat /\ file.content \in load.seen
    BY <1>1 DEF LoadInv, FileInv, Active
  <2> HIDE DEF new
  <2>4. LoadInv(new)
    <3>1. new.kind # "reload" /\ ~new.switched => new.path = ruleCache.path
      BY <1>1, <2>2 DEF LoadInv, Active
    <3>2. ~crossed /\ new.path = ruleCache.path /\ ruleCache.content # "none" /\ new.mtime <= ruleCache.mtime
            => ruleCache.content \in new.seen
      BY <1>1, <2>2, <2>3 DEF CacheInv, NoNewer
    <3> QED BY <1>1, <2>2, <2>3, <3>1, <3>2 DEF LoadInv, Active, Stamped
  <2>5. ASSUME NEW q \in Readers PROVE Seen(loads[q], new) /\ Seen(new, loads[q])
    <3>1. LoadInv(loads[q])
      BY DEF RuleInv
    <3> QED BY <2>2, <2>3, <3>1 DEF Seen, LoadInv, NoNewer
  <2>6. Seen(new, new)
    BY <2>2 DEF Seen
  <2> QED BY <2>1, <2>4, <2>5, <2>6, OneLoad
<1> QED BY <1>2, <1>3

\* The time meets the cache, and the cache answers if it is no older.
LEMMA CompareKeeps == ASSUME RuleInv, NEW r \in Readers, Compare(r) PROVE RuleInv'
<1> DEFINE load == loads[r]
           new == [load EXCEPT !.at = "reading"]
<1>1. LoadInv(load) /\ load.at = "looked" /\ CacheInv /\ UNCHANGED <<ruleFile, ruleCache, crossed>>
  BY DEF RuleInv, Compare
<1>2. CASE loads' = [loads EXCEPT ![r] = new]
  <2>1. /\ DOMAIN new = LoadFields /\ new.at = "reading" /\ new.mtime = load.mtime /\ new.path = load.path
        /\ new.kind = load.kind /\ new.seen = load.seen /\ new.switched = load.switched /\ new.failed = load.failed
    BY <1>1 DEF LoadInv, LoadFields
  <2> HIDE DEF new
  <2>2. LoadInv(new)
    BY <1>1, <2>1 DEF LoadInv, Active, Stamped
  <2>3. ASSUME NEW q \in Readers PROVE Seen(loads[q], new) /\ Seen(new, loads[q])
    <3>1. Seen(loads[q], load)
      BY DEF RuleInv
    <3> QED BY <1>1, <2>1, <3>1 DEF Seen, Stamped
  <2>4. Seen(new, new)
    BY <2>1 DEF Seen
  <2> QED BY <1>1, <1>2, <2>2, <2>3, <2>4, OneLoad
<1>3. CASE loads' # [loads EXCEPT ![r] = new]
  <2>1. /\ load.kind # "reload" /\ ruleCache.content # "none" /\ ~(load.mtime > ruleCache.mtime)
        /\ loads' = [loads EXCEPT ![r] = AnswerWith(load, ruleCache.content)]
    BY <1>3 DEF Compare
  <2>2. load.mtime <= ruleCache.mtime
    BY <1>1, <2>1 DEF LoadInv, CacheInv
  <2>3. ~load.failed /\ ~load.switched /\ ~crossed => ruleCache.content \in load.seen
    BY <1>1, <2>1, <2>2 DEF LoadInv, Stamped
  <2> QED BY <1>1, <2>1, <2>3, CallEnds DEF LoadInv
<1> QED BY <1>2, <1>3

\* The file is read: whoever is under way with it has seen that.
LEMMA ReadKeeps == ASSUME RuleInv, NEW r \in Readers, ReadFile(r) PROVE RuleInv'
<1> DEFINE load == loads[r]
           file == ruleFile[load.path]
           new == [load EXCEPT !.at = "read", !.content = file.content]
<1>1. LoadInv(load) /\ load.at = "reading" /\ FileInv /\ UNCHANGED <<ruleFile, ruleCache, crossed>>
  BY DEF RuleInv, ReadFile
<1>2. loads' = [loads EXCEPT ![r] = new]
  BY DEF ReadFile, RuleInv
<1>3. /\ DOMAIN new = LoadFields /\ new.at = "read" /\ new.content = file.content /\ new.mtime = load.mtime
      /\ new.path = load.path /\ new.kind = load.kind /\ new.seen = load.seen
      /\ new.switched = load.switched /\ new.failed = load.failed
  BY <1>1 DEF LoadInv, LoadFields
<1>4. load.path \in RulePaths /\ file.content \in load.seen /\ load.mtime <= file.mtime
  BY <1>1 DEF LoadInv, Active, Stamped
<1> HIDE DEF new
<1>5. LoadInv(new)
  BY <1>1, <1>3, <1>4 DEF LoadInv, Active, Stamped, NoNewer
<1>6. ASSUME NEW q \in Readers PROVE Seen(loads[q], new) /\ Seen(new, loads[q])
  <2>1. Seen(loads[q], load) /\ LoadInv(loads[q])
    BY DEF RuleInv
  <2>2. Stamped(loads[q]) /\ loads[q].path = load.path => file.content \in loads[q].seen
    BY <2>1 DEF LoadInv, Active, Stamped
  <2> QED BY <1>1, <1>3, <2>1, <2>2 DEF Seen, Stamped
<1>7. Seen(new, new)
  BY <1>3, <1>4 DEF Seen
<1> QED BY <1>1, <1>2, <1>5, <1>6, <1>7, OneLoad

\* What was read is stored under the time its call had looked at.
LEMMA InstallKeeps == ASSUME RuleInv, NEW r \in Readers, Install(r) PROVE RuleInv'
<1> DEFINE load == loads[r]
<1>1. LoadInv(load) /\ load.at = "read" /\ FileInv /\ CacheInv
  BY DEF RuleInv, Install
<1>2. CASE LoadFails(r)
  BY <1>2, FailsKeeps
<1>3. CASE ~LoadFails(r)
  <2> DEFINE path == IF load.kind = "reload" THEN load.path ELSE ruleCache.path
             switch == path # ruleCache.path
             moved(q) == [loads[q] EXCEPT !.switched = @ \/ switch]
             new == AnswerWith(load, load.content)
  <2>1. /\ ruleCache' = [content |-> load.content, mtime |-> load.mtime, path |-> path]
        /\ loads' = [q \in Readers |-> IF q = r THEN new ELSE moved(q)]
        /\ crossed' = (crossed \/ load.path # path) /\ ruleFile' = ruleFile
    BY <1>3 DEF Install, Stamp
  <2>2. path \in RulePaths /\ switch \in BOOLEAN /\ switch = (path # ruleCache.path)
    BY <1>1 DEF LoadInv, CacheInv
  <2>3. /\ DOMAIN new = LoadFields /\ new.at = "answered" /\ new.answer = load.content
        /\ new.path = load.path /\ new.mtime = load.mtime /\ new.seen = load.seen
        /\ new.switched = load.switched /\ new.failed = load.failed
    BY <1>1 DEF AnswerWith, LoadInv, LoadFields
  <2>4. ~crossed' => ~crossed /\ load.path = path
    BY <1>1, <2>1 DEF CacheInv
  <2> HIDE DEF path, switch, new
  <2>5. FileInv'
    BY <1>1, <2>1 DEF FileInv
  <2>6. CacheInv'
    <3>1. crossed' \in BOOLEAN
      BY <2>1, Zenon
    <3>2. ~crossed' => NoNewer(load.content, load.mtime, ruleFile[path])
      BY <1>1, <2>4 DEF LoadInv
    <3>3. load.mtime \in Nat
      BY <1>1 DEF LoadInv
    <3> QED BY <2>1, <2>2, <3>1, <3>2, <3>3 DEF CacheInv, NoNewer
  <2>7. DOMAIN loads' = Readers /\ loads'[r] = new /\ \A q \in Readers : q # r => loads'[q] = moved(q)
    BY <2>1
  \* Another call keeps what it knows of the cache: what was stored, it has
  \* seen, unless it was stored for another path.
  <2>8. ASSUME NEW q \in Readers, NEW held, held = moved(q)
        PROVE  LoadInv(held)' /\ \A other : (Seen(other, loads[q]) => Seen(other, held))
                                            /\ (Seen(loads[q], other) => Seen(held, other))
    <3> DEFINE old == loads[q]
    <3>1. LoadInv(old) /\ Seen(load, old)
      BY DEF RuleInv
    <3>2. /\ DOMAIN held = LoadFields /\ held.switched = (old.switched \/ switch) /\ held.at = old.at
          /\ held.kind = old.kind /\ held.path = old.path /\ held.mtime = old.mtime /\ held.content = old.content
          /\ held.seen = old.seen /\ held.answer = old.answer /\ held.failed = old.failed
      BY <2>8, <3>1 DEF LoadInv, LoadFields
    <3> HIDE DEF moved
    <3>3. held.switched \in BOOLEAN /\ held.failed \in BOOLEAN
      <4>1. old.switched \in BOOLEAN /\ old.failed \in BOOLEAN
        BY <3>1 DEF LoadInv
      <4> QED BY <2>2, <3>2, <4>1, Zenon
    <3>4. ~held.switched => ~old.switched /\ path = ruleCache.path
      BY <2>2, <3>1, <3>2 DEF LoadInv
    <3>5. /\ Active(old) => ruleFile'[old.path].content \in old.seen
          /\ Stamped(old) => old.mtime <= ruleFile'[old.path].mtime
          /\ old.at = "read" => old.content \in old.seen /\ NoNewer(old.content, old.mtime, ruleFile'[old.path])
          /\ old.path \in RulePaths /\ old.mtime \in Nat
      BY <2>1, <3>1 DEF LoadInv
    <3>6. Active(old) /\ old.kind # "reload" /\ ~held.switched => old.path = ruleCache'.path
      BY <2>1, <3>1, <3>4 DEF LoadInv
    <3>7. Stamped(old) /\ old.kind # "reload" /\ ~held.switched /\ ~crossed' /\ old.mtime <= ruleCache'.mtime
            => ruleCache'.content \in old.seen
      BY <1>1, <2>1, <2>4, <3>1, <3>6 DEF Seen, Stamped, Active
    <3>8. old.at = "answered" /\ ~old.failed /\ ~held.switched /\ ~crossed' => old.answer \in old.seen
      BY <2>4, <3>1, <3>4 DEF LoadInv
    <3>9. LoadInv(held)'
      BY <3>2, <3>3, <3>5, <3>6, <3>7, <3>8 DEF LoadInv, Active, Stamped
    <3> QED BY <3>2, <3>9 DEF Seen, Stamped
  <2>9. /\ \A one : one = new => LoadInv(one)'
        /\ \A other : Seen(other, new) /\ Seen(new, other)
    <3>1. SUFFICES ASSUME NEW one, one = new PROVE LoadInv(one)' /\ \A other : Seen(other, one) /\ Seen(one, other)
      OBVIOUS
    <3>2. ~crossed' => ~crossed
      BY <2>4
    <3> QED BY <1>1, <2>1, <2>3, <3>1, <3>2 DEF LoadInv, Seen, Active, Stamped
  <2> HIDE DEF moved
  <2>10. \A q \in Readers : LoadInv(loads[q])'
    <3> SUFFICES ASSUME NEW q \in Readers, NEW other, other = loads'[q] PROVE LoadInv(other)'
      BY DEF LoadInv
    <3> QED BY <2>7, <2>8, <2>9
  <2>11. \A p, q \in Readers : Seen(loads'[p], loads'[q])
    <3> SUFFICES ASSUME NEW p \in Readers, NEW q \in Readers PROVE Seen(loads'[p], loads'[q])
      OBVIOUS
    <3>1. CASE p = r \/ q = r
      BY <2>7, <2>9, <3>1
    <3>2. CASE p # r /\ q # r
      <4>1. Seen(loads[p], loads[q])
        BY DEF RuleInv
      <4> QED BY <2>7, <2>8, <3>2, <4>1
    <3> QED BY <3>1, <3>2
  <2>12. \A p, q \in Readers : Seen(loads[p], loads[q])'
    BY <2>11 DEF Seen
  <2> QED BY <2>5, <2>6, <2>7, <2>10, <2>12 DEF RuleInv
<1> QED BY <1>2, <1>3

\* An edit: the calls under way see it, and its time is later than any before.
LEMMA EditKeeps == ASSUME RuleInv, NEW path \in RulePaths, NEW content, EditFile(path, content) PROVE RuleInv'
<1> DEFINE edited(load) == IF load.at \in {"called", "looked", "reading", "read"} /\ load.path = path
                           THEN [load EXCEPT !.seen = @ \union {content}] ELSE load
           file == [content |-> content, mtime |-> ruleFile[path].mtime + 1]
<1>1. FileInv /\ CacheInv /\ DOMAIN loads = Readers
  BY DEF RuleInv
<1>2. /\ ruleFile' = [ruleFile EXCEPT ![path] = file]
      /\ loads' = [q \in Readers |-> edited(loads[q])]
      /\ UNCHANGED <<ruleCache, crossed>>
  BY DEF EditFile
<1>3. /\ DOMAIN ruleFile' = RulePaths
      /\ \A other \in RulePaths : ruleFile'[other] = IF other = path THEN file ELSE ruleFile[other]
  BY <1>1, <1>2 DEF FileInv
<1>4. /\ DOMAIN file = {"content", "mtime"} /\ file.content = content
      /\ file.mtime = ruleFile[path].mtime + 1 /\ ruleFile[path].mtime \in Nat /\ file.mtime \in Nat
  BY <1>1 DEF FileInv
<1> HIDE DEF file
<1>5. FileInv'
  BY <1>1, <1>3, <1>4 DEF FileInv
<1>6. ASSUME NEW c, NEW m \in Nat, NEW other \in RulePaths, NoNewer(c, m, ruleFile[other])
      PROVE  NoNewer(c, m, ruleFile'[other])
  BY <1>3, <1>4, <1>6 DEF NoNewer
<1>7. CacheInv'
  BY <1>1, <1>2, <1>6 DEF CacheInv
<1>8. ASSUME NEW q \in Readers, NEW new, new = edited(loads[q])
      PROVE  LoadInv(new)' /\ \A other : (Seen(other, loads[q]) => Seen(other, new))
                                         /\ (Seen(loads[q], other) => Seen(new, other))
  <2> DEFINE old == loads[q]
  <2>1. LoadInv(old)
    BY DEF RuleInv
  <2>2. /\ DOMAIN new = LoadFields /\ new.at = old.at /\ new.kind = old.kind /\ new.path = old.path
        /\ new.mtime = old.mtime /\ new.content = old.content /\ new.answer = old.answer
        /\ new.failed = old.failed /\ new.switched = old.switched
        /\ new.seen = IF Active(old) /\ old.path = path THEN old.seen \union {content} ELSE old.seen
    BY <1>8, <2>1 DEF LoadInv, LoadFields, Active
  <2>3. old.seen \subseteq new.seen
    BY <2>2
  <2>4. old.path \in RulePaths /\ old.mtime \in Nat
    BY <2>1 DEF LoadInv
  <2>5. Active(old) => ruleFile'[old.path].content \in new.seen
    BY <1>3, <1>4, <2>1, <2>2, <2>4 DEF LoadInv
  <2>6. Stamped(old) => old.mtime <= ruleFile'[old.path].mtime
    BY <1>1, <1>3, <1>4, <2>1, <2>4 DEF LoadInv, FileInv
  <2>7. old.at = "read" => old.content \in new.seen /\ NoNewer(old.content, old.mtime, ruleFile'[old.path])
    BY <1>6, <2>1, <2>3, <2>4 DEF LoadInv
  <2>8. LoadInv(new)'
    BY <1>2, <2>1, <2>2, <2>3, <2>5, <2>6, <2>7 DEF LoadInv, Active, Stamped
  <2>9. \A other : (Seen(other, old) => Seen(other, new)) /\ (Seen(old, other) => Seen(new, other))
    BY <2>2, <2>3 DEF Seen, Stamped
  <2> QED BY <2>8, <2>9
<1>9. \A q \in Readers : loads'[q] = edited(loads[q])
  BY <1>2
<1> HIDE DEF edited
<1>10. \A q \in Readers : LoadInv(loads[q])'
  <2> SUFFICES ASSUME NEW q \in Readers, NEW new, new = loads'[q] PROVE LoadInv(new)'
    BY DEF LoadInv
  <2> QED BY <1>8, <1>9
<1>11. \A p, q \in Readers : Seen(loads'[p], loads'[q])
  BY <1>8, <1>9 DEF RuleInv
<1>12. \A p, q \in Readers : Seen(loads[p], loads[q])'
  BY <1>11 DEF Seen
<1>13. DOMAIN loads' = Readers
  BY <1>2
<1> QED BY <1>5, <1>7, <1>10, <1>12, <1>13 DEF RuleInv

\* The calls that begin.
LEMMA RuleCallKeeps == ASSUME RuleInv, NEW r \in Readers, PolicyCall(r) \/ PricingCall(r) PROVE RuleInv'
<1>1. PICK kind \in {"get", "evaluate", "reload"}, path \in RulePaths : RuleCall(r, kind, path)
  <2>1. ruleCache.path \in RulePaths
    BY DEF RuleInv, CacheInv
  <2> QED BY <2>1 DEF PolicyCall, PricingCall
<1>2. /\ kind = "reload" \/ path = ruleCache.path
      /\ loads' = [loads EXCEPT ![r] = [NoLoad EXCEPT !.at = "called", !.kind = kind, !.path = path,
                                                      !.seen = {ruleFile[path].content}]]
      /\ UNCHANGED <<ruleFile, ruleCache, crossed>>
  BY <1>1 DEF RuleCall
<1> QED BY <1>2, CallBegins

\* Whatever the services or an operator do.
LEMMA RuleStep == RuleInv /\ [RuleNext]_ruleVars => RuleInv'
<1> SUFFICES ASSUME RuleInv, [RuleNext]_ruleVars PROVE RuleInv'
  OBVIOUS
<1>1. ASSUME NEW r \in Readers, PolicyCall(r) \/ PricingCall(r) PROVE RuleInv'
  BY <1>1, RuleCallKeeps
<1>2. ASSUME NEW r \in Readers, StatFile(r) \/ Compare(r) \/ ReadFile(r) \/ Install(r) PROVE RuleInv'
  BY <1>2, StatKeeps, CompareKeeps, ReadKeeps, InstallKeeps
<1>3. ASSUME NEW path \in RulePaths, NEW content, EditFile(path, content) PROVE RuleInv'
  BY <1>3, EditKeeps
<1>4. CASE UNCHANGED ruleVars
  BY <1>4 DEF ruleVars, RuleInv, FileInv, CacheInv, LoadInv, NoNewer, Seen, Active, Stamped
<1> QED BY <1>1, <1>2, <1>3, <1>4 DEF RuleNext

\* An answer is among what its call has seen.
LEMMA RuleInvGives == RuleInv => AnswersAsOfCall
  BY DEF RuleInv, LoadInv, AnswersAsOfCall

(* -------------------------- the copilot's panel --------------------------- *)

\* What the loop has heard: calls, answers of tools that say something, texts.
AgentMessages ==
    {m \in [from : {"call", "tool", "text"}, id : {<<>>} \cup (Nat \X Nat), tool : AgentTools \cup {"none"},
            output : {"none", "result", "failure"}, said : BOOLEAN] :
        /\ m.from = "tool" => m.output # "none"
        /\ m.from = "text" => m.tool = "none"}

\* A call that an answer is missing for is open.
CallsHeard(messages, open) ==
    \A i \in DOMAIN messages : messages[i].from = "call" =>
        \/ \E call \in open : call.id = messages[i].id
        \/ \E j \in DOMAIN messages : j > i /\ messages[j].from = "tool" /\ messages[j].id = messages[i].id

\* A call of the loop is answered or open.
AgentInv ==
    /\ DOMAIN agent = {"at", "question", "steps", "messages", "open"}
    /\ agent.at \in {"none", "asked", "thinking", "calling", "done"} /\ agent.steps \in Nat
    /\ agent.messages \in Seq(AgentMessages) /\ agent.open \subseteq AgentMessages
    /\ agent.at # "calling" => agent.open = {}
    /\ CallsHeard(agent.messages, agent.open)

\* What is asked is the text in the box.
PanelInv ==
    /\ DOMAIN askPanel = {"text", "pending", "outcome"}
    /\ agent.at # "none" => askPanel.pending /\ agent.question = askPanel.text

\* The invariant of the panel and its agent.
AskInv == AgentInv /\ PanelInv /\ AnswerIsOfQuestion

\* No question is under way.
LEMMA QuietAgent == ASSUME agent' = NoAgent PROVE AgentInv' /\ agent'.at = "none"
<1>1. /\ DOMAIN NoAgent = {"at", "question", "steps", "messages", "open"} /\ NoAgent.at = "none"
      /\ NoAgent.steps = 0 /\ NoAgent.messages = <<>> /\ NoAgent.open = {}
  BY DEF NoAgent
<1>2. NoAgent.messages \in Seq(AgentMessages) /\ DOMAIN NoAgent.messages = {}
  BY <1>1, EmptySeq
<1> QED BY <1>1, <1>2 DEF AgentInv, CallsHeard

\* Nothing has been asked.
LEMMA AskStarts == AskInit => AskInv
<1> SUFFICES ASSUME AskInit PROVE AskInv
  OBVIOUS
<1>1. /\ DOMAIN NoAgent = {"at", "question", "steps", "messages", "open"} /\ NoAgent.at = "none"
      /\ NoAgent.steps = 0 /\ NoAgent.messages = <<>> /\ NoAgent.open = {}
  BY DEF NoAgent
<1>2. NoAgent.messages \in Seq(AgentMessages) /\ DOMAIN NoAgent.messages = {}
  BY <1>1, EmptySeq
<1>3. AgentInv
  <2>1. agent = NoAgent
    BY DEF AskInit
  <2>2. NoAgent.steps \in Nat /\ NoAgent.open \subseteq AgentMessages
    BY <1>1
  <2>3. CallsHeard(NoAgent.messages, NoAgent.open)
    BY <1>2 DEF CallsHeard
  <2> QED BY <1>1, <1>2, <2>1, <2>2, <2>3 DEF AgentInv
<1>4. PanelInv
  BY <1>1 DEF AskInit, PanelInv
<1>5. AnswerIsOfQuestion
  <2>1. askPanel.outcome = NoOutcome /\ NoOutcome.kind = "none"
    BY DEF AskInit, NoOutcome
  <2> QED BY <2>1 DEF AnswerIsOfQuestion
<1> QED BY <1>3, <1>4, <1>5 DEF AskInv

\* No step of a trace is whole without its output.
Whole(trace) == \A i \in DOMAIN trace : trace[i].tool # "none" => trace[i].output # "none"

\* The question is settled: what is shown is of the text in the box, which has
\* stood there since it was asked.
LEMMA SettleKeeps ==
    ASSUME AskInv, agent.at # "none", NEW kind, NEW trace, SettleAnswer(kind, trace), Whole(trace)
    PROVE  AskInv'
<1> DEFINE outcome == [kind |-> kind, of |-> agent.question, trace |-> trace]
           box == [askPanel EXCEPT !.pending = FALSE, !.outcome = outcome]
<1>1. askPanel' = box /\ agent' = NoAgent
  BY DEF SettleAnswer
<1>2. DOMAIN box = {"text", "pending", "outcome"} /\ box.text = askPanel.text /\ box.outcome = outcome
  BY DEF AskInv, PanelInv
<1>3. outcome.of = askPanel.text /\ outcome.trace = trace
  BY DEF AskInv, PanelInv
<1> HIDE DEF outcome, box
<1>4. AgentInv' /\ PanelInv'
  BY <1>1, <1>2, QuietAgent DEF PanelInv
<1>5. AnswerIsOfQuestion'
  BY <1>1, <1>2, <1>3 DEF AnswerIsOfQuestion, Whole
<1> QED BY <1>4, <1>5 DEF AskInv

\* The agent moves and the panel does not.
LEMMA AgentMoves ==
    ASSUME AskInv, agent.at # "none", NEW new, agent' = new, new.question = agent.question, UNCHANGED askPanel,
           DOMAIN new = {"at", "question", "steps", "messages", "open"},
           new.at \in {"asked", "thinking", "calling", "done"}, new.steps \in Nat,
           new.messages \in Seq(AgentMessages), new.open \subseteq AgentMessages,
           new.at # "calling" => new.open = {}, CallsHeard(new.messages, new.open)
    PROVE  AskInv'
<1>1. AgentInv'
  BY DEF AgentInv
<1>2. PanelInv' /\ AnswerIsOfQuestion'
  BY DEF AskInv, PanelInv, AnswerIsOfQuestion
<1> QED BY <1>1, <1>2 DEF AskInv

\* What is appended does not unhear what was heard.
LEMMA HeardStays ==
    ASSUME NEW messages \in Seq(AgentMessages), NEW more \in Seq(AgentMessages), NEW open, NEW left,
           CallsHeard(messages, open),
           \A call \in open : \/ call \in left
                              \/ \E j \in 1 .. Len(more) : more[j].from = "tool" /\ more[j].id = call.id,
           \A j \in 1 .. Len(more) : more[j].from = "call" => more[j] \in left
    PROVE  messages \o more \in Seq(AgentMessages) /\ CallsHeard(messages \o more, left)
<1> DEFINE all == messages \o more
           n == Len(messages)
<1>1. /\ all \in Seq(AgentMessages) /\ Len(all) = n + Len(more)
      /\ \A i \in 1 .. n : all[i] = messages[i]
      /\ \A i \in 1 .. Len(more) : all[n + i] = more[i]
  BY ConcatProperties
<1>2. /\ DOMAIN all = 1 .. Len(all) /\ DOMAIN messages = 1 .. n
      /\ n \in Nat /\ Len(more) \in Nat /\ Len(all) \in Nat
  BY <1>1, LenProperties
<1> HIDE DEF all
<1>3. ASSUME NEW i \in 1 .. Len(all), all[i].from = "call"
      PROVE  \/ \E call \in left : call.id = all[i].id
             \/ \E j \in 1 .. Len(all) : j > i /\ all[j].from = "tool" /\ all[j].id = all[i].id
  <2>1. CASE i <= n
    <3>1. i \in 1 .. n /\ all[i] = messages[i]
      BY <1>1, <2>1
    <3>2. CASE \E j \in 1 .. n : j > i /\ messages[j].from = "tool" /\ messages[j].id = messages[i].id
      <4>1. PICK j \in 1 .. n : j > i /\ messages[j].from = "tool" /\ messages[j].id = messages[i].id
        BY <3>2
      <4>2. j \in 1 .. Len(all) /\ all[j] = messages[j]
        BY <1>1, <1>2
      <4> QED BY <3>1, <4>1, <4>2
    <3>3. CASE \E call \in open : call.id = messages[i].id
      <4>1. PICK call \in open : call.id = messages[i].id
        BY <3>3
      <4>2. CASE call \in left
        BY <3>1, <4>1, <4>2
      <4>3. CASE \E j \in 1 .. Len(more) : more[j].from = "tool" /\ more[j].id = call.id
        <5>1. PICK j \in 1 .. Len(more) : more[j].from = "tool" /\ more[j].id = call.id
          BY <4>3
        <5>2. n + j \in 1 .. Len(all) /\ n + j > i /\ all[n + j] = more[j]
          BY <1>1, <1>2, <3>1
        <5> QED BY <3>1, <4>1, <5>1, <5>2
      <4> QED BY <4>2, <4>3
    <3> QED BY <1>2, <1>3, <3>1, <3>2, <3>3 DEF CallsHeard
  <2>2. CASE i > n
    <3>1. PICK k \in 1 .. Len(more) : i = n + k
      <4>1. i - n \in 1 .. Len(more) /\ i = n + (i - n)
        BY <1>1, <1>2, <2>2
      <4> QED BY <4>1
    <3>2. all[i] \in left
      BY <1>1, <1>3, <3>1
    <3> QED BY <3>2
  <2> QED BY <1>2, <2>1, <2>2
<1>4. CallsHeard(all, left)
  BY <1>2, <1>3 DEF CallsHeard
<1> QED BY <1>1, <1>4 DEF all

\* A set of positions has a last one, which Max returns.
LEMMA LastPosition ==
    ASSUME NEW n \in Nat, NEW S \in SUBSET (1 .. n), S # {}
    PROVE  Max(S) \in S
<1> DEFINE P == {n - j : j \in S}
<1>1. P \subseteq Nat /\ P # {}
  <2>1. \A j \in S : n - j \in Nat
    OBVIOUS
  <2>2. PICK j \in S : TRUE
    OBVIOUS
  <2>3. n - j \in P
    OBVIOUS
  <2> QED BY <2>1, <2>3
<1> HIDE DEF P
<1>2. PICK m \in P : \A y \in P : ~(<<y, m>> \in OpToRel(<, Nat))
  BY <1>1, NatLessThanWellFounded, WFMin
<1>3. \A x, y \in Nat : x < y => <<x, y>> \in OpToRel(<, Nat)
  BY DEF OpToRel
<1>4. \A y \in P : ~(y < m)
  BY <1>1, <1>2, <1>3, Zenon
<1>5. PICK j \in S : m = n - j
  BY DEF P
<1>6. \A y \in S : j >= y
  <2> SUFFICES ASSUME NEW y \in S PROVE j >= y
    OBVIOUS
  <2>1. ~(n - y < n - j)
    BY <1>4, <1>5 DEF P
  <2>2. y \in Int /\ j \in Int
    OBVIOUS
  <2> QED BY <2>1, <2>2
<1>7. \E x \in S : \A y \in S : x >= y
  BY <1>6
<1> QED BY <1>7 DEF Max

\* When no call is open, every step of the trace that a call made holds what its
\* tool answered.
LEMMA TraceIsWhole ==
    ASSUME NEW messages \in Seq(AgentMessages), CallsHeard(messages, {})
    PROVE  Whole(Trace(messages))
<1> DEFINE heard(i) == {j \in DOMAIN messages : /\ j > i /\ messages[j].from = "tool"
                                                /\ messages[j].id = messages[i].id}
<1>1. DOMAIN messages = 1 .. Len(messages) /\ Len(messages) \in Nat
  BY LenProperties
<1> SUFFICES ASSUME NEW i \in DOMAIN Trace(messages), Trace(messages)[i].tool # "none"
             PROVE  Trace(messages)[i].output # "none"
  BY DEF Whole
<1>2. /\ i \in DOMAIN messages /\ messages[i].from \in {"call", "text"}
      /\ Trace(messages)[i] = [tool |-> messages[i].tool,
                               output |-> IF messages[i].from = "text" \/ heard(i) = {} THEN "none"
                                          ELSE messages[Max(heard(i))].output]
  BY DEF Trace
<1>3. messages[i] \in AgentMessages
  BY <1>1, <1>2, ElementOfSeq
<1>4. messages[i].tool # "none"
  BY <1>2
<1>5. messages[i].from = "call"
  BY <1>2, <1>3, <1>4 DEF AgentMessages
<1>6. heard(i) # {} /\ heard(i) \in SUBSET (1 .. Len(messages))
  BY <1>1, <1>2, <1>5 DEF CallsHeard
<1>7. Max(heard(i)) \in heard(i)
  BY <1>1, <1>6, LastPosition
<1>8. PICK j \in DOMAIN messages : j = Max(heard(i)) /\ messages[j].from = "tool"
  BY <1>7
<1>9. messages[j] \in AgentMessages
  BY <1>1, <1>8, ElementOfSeq
<1>10. messages[j].output # "none"
  BY <1>8, <1>9 DEF AgentMessages
<1> QED BY <1>2, <1>5, <1>6, <1>8, <1>10

\* One message more, an answer that closes a call or a text.
LEMMA OneMore ==
    ASSUME NEW messages \in Seq(AgentMessages), NEW m \in AgentMessages, NEW open, NEW left,
           CallsHeard(messages, open), m.from # "call",
           \A call \in open : call \in left \/ (m.from = "tool" /\ m.id = call.id)
    PROVE  Append(messages, m) \in Seq(AgentMessages) /\ CallsHeard(Append(messages, m), left)
<1>1. PICK more : more = <<m>>
  OBVIOUS
<1>2. more \in Seq(AgentMessages) /\ Len(more) = 1 /\ more[1] = m
  BY <1>1
<1>3. Append(messages, m) = messages \o more
  BY <1>1, AppendIsConcat, Zenon
<1>4. \A call \in open : \/ call \in left
                         \/ \E j \in 1 .. Len(more) : more[j].from = "tool" /\ more[j].id = call.id
  BY <1>2
<1>5. \A j \in 1 .. Len(more) : more[j].from = "call" => more[j] \in left
  BY <1>2
<1> QED BY <1>2, <1>3, <1>4, <1>5, HeardStays

\* The box is open only while nothing is asked.
LEMMA TypeKeeps == ASSUME AskInv, NEW text, TypeQuestion(text) PROVE AskInv'
<1> DEFINE box == [askPanel EXCEPT !.text = text, !.outcome = Cleared(askPanel.outcome)]
<1>1. askPanel' = box /\ agent' = agent /\ agent.at = "none"
  BY DEF TypeQuestion, AskInv, PanelInv
<1>2. DOMAIN box = {"text", "pending", "outcome"} /\ box.outcome = NoOutcome
  BY DEF AskInv, PanelInv, Cleared
<1>3. NoOutcome.kind = "none"
  BY DEF NoOutcome
<1> HIDE DEF box
<1>4. AgentInv'
  BY <1>1 DEF AskInv, AgentInv
<1> QED BY <1>1, <1>2, <1>3, <1>4 DEF AskInv, PanelInv, AnswerIsOfQuestion

\* A question is asked of the text in the box.
LEMMA QuestionKeeps == ASSUME AskInv, SubmitQuestion PROVE AskInv'
<1> DEFINE box == [askPanel EXCEPT !.pending = TRUE, !.outcome = NoOutcome]
           new == [NoAgent EXCEPT !.at = "asked", !.question = askPanel.text]
<1>1. askPanel' = box /\ agent' = new
  BY DEF SubmitQuestion
<1>2. /\ DOMAIN box = {"text", "pending", "outcome"} /\ box.outcome = NoOutcome /\ box.pending = TRUE
      /\ box.text = askPanel.text
  BY DEF AskInv, PanelInv
<1>3. NoOutcome.kind = "none"
  BY DEF NoOutcome
<1>4. /\ DOMAIN new = {"at", "question", "steps", "messages", "open"} /\ new.at = "asked"
      /\ new.question = askPanel.text /\ new.steps = 0 /\ new.messages = <<>> /\ new.open = {}
  BY DEF NoAgent
<1> HIDE DEF box, new
<1>5. new.messages \in Seq(AgentMessages) /\ DOMAIN new.messages = {}
  BY <1>4, EmptySeq
<1>6. AgentInv'
  BY <1>1, <1>4, <1>5 DEF AgentInv, CallsHeard
<1> QED BY <1>1, <1>2, <1>3, <1>4, <1>6 DEF AskInv, PanelInv, AnswerIsOfQuestion

\* The agent is built, with nothing heard.
LEMMA BuildKeeps == ASSUME AskInv, BuildAgent PROVE AskInv'
<1> DEFINE new == [agent EXCEPT !.at = "thinking"]
<1>1. agent' = new /\ UNCHANGED askPanel /\ agent.at = "asked"
  BY DEF BuildAgent
<1>2. /\ DOMAIN new = {"at", "question", "steps", "messages", "open"} /\ new.at = "thinking"
      /\ new.question = agent.question /\ new.steps = agent.steps /\ new.messages = agent.messages
      /\ new.open = agent.open
  BY DEF AskInv, AgentInv
<1> HIDE DEF new
<1>3. /\ new.steps \in Nat /\ new.messages \in Seq(AgentMessages) /\ new.open \subseteq AgentMessages
      /\ new.open = {} /\ CallsHeard(new.messages, new.open)
  BY <1>1, <1>2 DEF AskInv, AgentInv
<1> QED BY <1>1, <1>2, <1>3, AgentMoves

\* What is heard of a message.
LEMMA MessageIs ==
    ASSUME NEW from, NEW id, NEW tool, NEW output, NEW said \in BOOLEAN,
           from \in {"call", "tool", "text"}, id \in {<<>>} \cup (Nat \X Nat), tool \in AgentTools \cup {"none"},
           output \in {"none", "result", "failure"}, from = "tool" => output # "none", from = "text" => tool = "none"
    PROVE  [Message(from, id, tool, output) EXCEPT !.said = said] \in AgentMessages
  BY DEF Message, AgentMessages

\* A turn of the model leaves its calls open, or none.
LEMMA ThinkKeeps == ASSUME AskInv, Think PROVE AskInv'
<1>1. /\ UNCHANGED askPanel /\ agent.at = "thinking" /\ agent.open = {} /\ agent.steps \in Nat
      /\ agent.messages \in Seq(AgentMessages) /\ CallsHeard(agent.messages, {})
      /\ DOMAIN agent = {"at", "question", "steps", "messages", "open"}
  BY DEF Think, AskInv, AgentInv
<1>2. ASSUME NEW n \in 1 .. MaxTurnCalls, NEW tools \in [1 .. n -> AgentTools], NEW calls,
             calls = [i \in 1 .. n |-> Message("call", <<agent.steps, i>>, tools[i], "none")],
             agent' = [agent EXCEPT !.at = "calling", !.steps = @ + 1, !.messages = @ \o calls, !.open = Range(calls)]
      PROVE  AskInv'
  <2>1. n \in Nat
    OBVIOUS
  <2>2. ASSUME NEW i \in 1 .. n
        PROVE  calls[i] \in AgentMessages
    <3>1. tools[i] \in AgentTools /\ <<agent.steps, i>> \in Nat \X Nat
      BY <1>1, <2>1
    <3>2. Message("call", <<agent.steps, i>>, tools[i], "none") \in AgentMessages
      BY <3>1 DEF Message, AgentMessages
    <3> QED BY <1>2, <3>2
  <2>3. DOMAIN calls = 1 .. n
    BY <1>2
  <2>4. calls \in Seq(AgentMessages) /\ Len(calls) = n
    <3>1. calls = [i \in 1 .. n |-> calls[i]]
      BY <1>2, <2>3
    <3>2. calls \in Seq(AgentMessages)
      BY <2>1, <2>2, <3>1, IsASeq
    <3> QED BY <2>1, <2>3, <3>2, LenProperties
  <2>5. /\ Range(calls) \subseteq AgentMessages
        /\ \A i \in 1 .. Len(calls) : calls[i] \in Range(calls)
    BY <2>2, <2>3, <2>4 DEF Range
  <2>6. /\ agent.messages \o calls \in Seq(AgentMessages)
        /\ CallsHeard(agent.messages \o calls, Range(calls))
    BY <1>1, <2>4, <2>5, HeardStays
  <2> DEFINE new == [agent EXCEPT !.at = "calling", !.steps = @ + 1, !.messages = @ \o calls, !.open = Range(calls)]
  <2>7. /\ DOMAIN new = {"at", "question", "steps", "messages", "open"} /\ new.at = "calling"
        /\ new.question = agent.question /\ new.steps = agent.steps + 1
        /\ new.messages = agent.messages \o calls /\ new.open = Range(calls)
    BY <1>1
  <2>8. agent' = new
    BY <1>2
  <2> HIDE DEF new
  <2>9. new.steps \in Nat
    BY <1>1, <2>7
  <2> QED BY <1>1, <2>5, <2>6, <2>7, <2>8, <2>9, AgentMoves
<1>3. ASSUME NEW said \in BOOLEAN, NEW text, text = [Message("text", <<>>, "none", "none") EXCEPT !.said = said],
             agent' = [agent EXCEPT !.at = "done", !.steps = @ + 1, !.messages = Append(@, text)]
      PROVE  AskInv'
  <2>1. text \in AgentMessages /\ text.from = "text"
    <3>1. text \in AgentMessages
      BY <1>3, MessageIs
    <3> QED BY <1>3, <3>1 DEF Message
  <2>3. /\ Append(agent.messages, text) \in Seq(AgentMessages)
        /\ CallsHeard(Append(agent.messages, text), {})
    BY <1>1, <2>1, OneMore
  <2> DEFINE new == [agent EXCEPT !.at = "done", !.steps = @ + 1, !.messages = Append(@, text)]
  <2>5. /\ DOMAIN new = {"at", "question", "steps", "messages", "open"} /\ new.at = "done"
        /\ new.question = agent.question /\ new.steps = agent.steps + 1
        /\ new.messages = Append(agent.messages, text) /\ new.open = {}
    BY <1>1
  <2>6. agent' = new
    BY <1>3
  <2> HIDE DEF new
  <2>7. new.steps \in Nat
    BY <1>1, <2>5
  <2> QED BY <1>1, <2>3, <2>5, <2>6, <2>7, AgentMoves
<1> QED BY <1>2, <1>3 DEF Think

\* The answer of a tool closes its call.
LEMMA ToolKeeps ==
    ASSUME AskInv, NEW call \in agent.open, NEW fault, NEW unaudited, UseTool(call, fault, unaudited)
    PROVE  AskInv'
<1>1. /\ agent.at = "calling" /\ agent.open \subseteq AgentMessages /\ agent.steps \in Nat
      /\ agent.messages \in Seq(AgentMessages) /\ CallsHeard(agent.messages, agent.open)
      /\ DOMAIN agent = {"at", "question", "steps", "messages", "open"}
  BY DEF UseTool, AskInv, AgentInv
<1>2. CASE SettleAnswer("error", <<>>)
  <2>1. Whole(<<>>)
    BY DEF Whole
  <2> QED BY <1>1, <1>2, <2>1, SettleKeeps
<1>3. CASE ~SettleAnswer("error", <<>>)
  <2> DEFINE left == agent.open \ {call}
  <2>1. PICK output \in {"result", "failure"} :
            /\ agent' = [agent EXCEPT !.messages = Append(@, Message("tool", call.id, call.tool, output)),
                                      !.open = left,
                                      !.steps = IF left = {} THEN @ + 1 ELSE @,
                                      !.at = IF left = {} THEN "thinking" ELSE "calling"]
            /\ UNCHANGED askPanel
    BY <1>3 DEF UseTool
  <2> DEFINE answer == Message("tool", call.id, call.tool, output)
             new == [agent EXCEPT !.messages = Append(@, answer), !.open = left,
                                  !.steps = IF left = {} THEN @ + 1 ELSE @,
                                  !.at = IF left = {} THEN "thinking" ELSE "calling"]
  <2>2. answer \in AgentMessages /\ answer.from = "tool" /\ answer.id = call.id
    BY <1>1 DEF Message, AgentMessages
  <2>3. agent' = new /\ UNCHANGED askPanel
    BY <2>1
  <2> HIDE DEF answer
  <2>4. /\ DOMAIN new = {"at", "question", "steps", "messages", "open"}
        /\ new.at \in {"thinking", "calling"} /\ (new.at # "calling" => left = {})
        /\ new.question = agent.question /\ new.steps \in Nat
        /\ new.messages = Append(agent.messages, answer) /\ new.open = left
    BY <1>1
  <2> HIDE DEF new
  <2>6. /\ Append(agent.messages, answer) \in Seq(AgentMessages)
        /\ CallsHeard(Append(agent.messages, answer), left)
    BY <1>1, <2>2, OneMore
  <2>8. left \subseteq AgentMessages
    BY <1>1
  <2> QED BY <1>1, <2>3, <2>4, <2>6, <2>8, AgentMoves
<1> QED BY <1>2, <1>3

\* A question settled without a trace, or with that of a loop that is done.
LEMMA EndKeeps == ASSUME AskInv, Replay \/ Disabled \/ HitLimit \/ GiveUpAsk \/ Finish PROVE AskInv'
<1>1. agent.at # "none"
  BY DEF Replay, Disabled, HitLimit, GiveUpAsk, Finish
<1>2. Whole(<<>>)
  BY DEF Whole
<1>3. CASE Replay \/ Disabled \/ HitLimit \/ GiveUpAsk
  <2>1. PICK kind \in {"answer", "error", "phrase"} : SettleAnswer(kind, <<>>)
    BY <1>3 DEF Replay, Disabled, HitLimit, GiveUpAsk
  <2> QED BY <1>1, <1>2, <2>1, SettleKeeps
<1>4. CASE Finish
  <2>1. PICK kind \in {"answer", "blank"} : SettleAnswer(kind, Trace(agent.messages))
    BY <1>4 DEF Finish
  <2>2. agent.messages \in Seq(AgentMessages) /\ CallsHeard(agent.messages, {})
    BY <1>4 DEF Finish, AskInv, AgentInv
  <2> QED BY <1>1, <2>1, <2>2, TraceIsWhole, SettleKeeps
<1> QED BY <1>3, <1>4

\* Whatever the panel or the agent do.
LEMMA AskStep == AskInv /\ [AskNext]_askVars => AskInv'
<1> SUFFICES ASSUME AskInv, [AskNext]_askVars PROVE AskInv'
  OBVIOUS
<1>1. ASSUME NEW text, TypeQuestion(text) PROVE AskInv'
  BY <1>1, TypeKeeps
<1>2. CASE SubmitQuestion \/ BuildAgent \/ Think
  BY <1>2, QuestionKeeps, BuildKeeps, ThinkKeeps
<1>3. CASE Replay \/ Disabled \/ HitLimit \/ GiveUpAsk \/ Finish
  BY <1>3, EndKeeps
<1>4. ASSUME NEW call \in agent.open, NEW fault, NEW unaudited, UseTool(call, fault, unaudited) PROVE AskInv'
  BY <1>4, ToolKeeps
<1>5. CASE UNCHANGED askVars
  BY <1>5 DEF askVars, AskInv, AgentInv, PanelInv, AnswerIsOfQuestion, CallsHeard
<1> QED BY <1>1, <1>2, <1>3, <1>4, <1>5 DEF AskNext

(* ------------------------------ the client ----------------------------- *)

\* A step of the client is a step of each page, or leaves the page as it is.
LEMMA PagesStep ==
    [ScreensNext]_screensVars =>
        /\ [TraceNext]_traceVars /\ [ClarifyNext]_clarifyVars /\ [RemapNext]_remapVars
        /\ [InboxNext]_inboxVars /\ [DialogNext]_dialogVars /\ [AdminNext]_adminVars
        /\ [OrgNext]_orgVars /\ [RuleNext]_ruleVars /\ [AskNext]_askVars /\ [ScreenNext]_screenVars
<1> SUFFICES ASSUME [ScreensNext]_screensVars
             PROVE  /\ [TraceNext]_traceVars /\ [ClarifyNext]_clarifyVars /\ [RemapNext]_remapVars
                    /\ [InboxNext]_inboxVars /\ [DialogNext]_dialogVars /\ [AdminNext]_adminVars
                    /\ [OrgNext]_orgVars /\ [RuleNext]_ruleVars /\ [AskNext]_askVars
                    /\ [ScreenNext]_screenVars
  OBVIOUS
<1>1. CASE UNCHANGED screensVars
  BY <1>1 DEF screensVars
<1>2. CASE ScreensNext
  BY <1>2 DEF ScreensNext, OthersRest, Still
<1> QED BY <1>1, <1>2

\* The pages that pass answers on, each with the calls that are under way.
AnswersInv == RemapInv /\ DialogInv /\ OrgInv /\ RuleInv /\ AskInv

\* Every page keeps its invariant, whichever is followed.
LEMMA AnswersStep == AnswersInv /\ [ScreensNext]_screensVars => AnswersInv'
  BY PagesStep, RemapStep, DialogStep, OrgStep, RuleStep, AskStep DEF AnswersInv

\* An answer is taken for what was asked, also when something else was asked, or
\* chosen, or edited, before it came: by the re-map screen, the decline dialog
\* (of a refusal), the copilot's panel, calls made for a chosen organization and
\* calls that read a rule file (lineItems.ts, DeclineModal.tsx, AskCopilotPanel.tsx,
\* OrgContext.tsx, policy.service.ts, pricing.service.ts).
THEOREM AnswersAlwaysFit == ScreensSpec => []AnswersFitWhatWasAsked
<1>1. ScreensInit => AnswersInv
  BY RemapStarts, DialogStarts, OrgStarts, RuleStarts, AskStarts DEF ScreensInit, AnswersInv
<1>2. AnswersInv => AnswersFitWhatWasAsked
  BY RemapInvGives, OrgInvGives, RuleInvGives
  DEF AnswersInv, AnswersFitWhatWasAsked, DialogInv, AskInv
<1>3. ScreensSpec => []AnswersInv
  BY <1>1, AnswersStep, PTL DEF ScreensSpec
<1> QED BY <1>2, <1>3, PTL

\* What the inbox and the quote's pages have shown is not taken back by a query
\* that was under way when the page learned better (requests.ts, quotes.ts).
THEOREM ScreensNeverGoBack == ScreensSpec => ScreensMoveForward
<1> DEFINE Kept == \A i \in list.rows \ list'.rows : posts[i].heard = "away" \/ i \in list.query.after
           Forward == ~Precedes(detail'.data, detail.data) /\ ~Precedes(register'.data, register.data)
<1>1. ScreensInit => InboxInv /\ WatchInv
  BY InboxStarts, WatchStarts DEF ScreensInit
<1>2. InboxInv /\ WatchInv /\ [ScreensNext]_screensVars => (InboxInv /\ WatchInv)' /\ Kept /\ Forward
  BY PagesStep, InboxStep, RowsGoByQuery, WatchStep
<1>3. ScreensSpec => [](InboxInv /\ WatchInv)
  BY <1>1, <1>2, PTL DEF ScreensSpec
<1>4. ScreensSpec => [][Kept]_inboxVars /\ [][Forward]_<<detail, register>>
  BY <1>2, <1>3, PTL DEF ScreensSpec
<1> QED BY <1>4 DEF ScreensMoveForward, StalePollNeverWins, ShownMovesForward

\* What is proved of the trace, the letter and the rule where each stands alone
\* holds of them in the client (useSSEEvents.ts, RulesPanel.tsx,
\* ClarificationView.tsx).
THEOREM PagesHoldTogether ==
    ScreensSpec => []TraceTellsTruth /\ []RuleStaysValid /\ SentIsFinal
<1>1. ScreensInit => TraceInit /\ AdminInit /\ ClarifyInit
  BY DEF ScreensInit
<1>2. ScreensSpec => TraceSpec /\ AdminSpec /\ ClarifySpec
  BY <1>1, PagesStep, PTL DEF ScreensSpec, TraceSpec, AdminSpec, ClarifySpec
<1> QED BY <1>2, TraceIsTrue, OnlyCrossingSpoilsRule, SentLettersAreFinal, PTL
=============================================================================
