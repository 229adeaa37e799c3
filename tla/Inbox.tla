-------------------------------- MODULE Inbox --------------------------------
(* The inbox: the modal that submits a request, the row the page adds before  *)
(* the server lists it, and the query that polls the list. The API answers a  *)
(* creation before its transaction commits, so a list read right behind the   *)
(* answer may still lack the request.                                         *)
EXTENDS Naturals, Sequences, FiniteSets

CONSTANTS
    InboxFiles,         \* files at hand, by name and size
    GoodFiles,          \* those with an accepted extension and size
    MaxPosts            \* bound: submissions

ASSUME InboxAssumption == GoodFiles \subseteq InboxFiles /\ MaxPosts \in Nat

VARIABLES
    modal,              \* the page and its modal
    posts,              \* the submissions
    list                \* the cached list of requests and the query that fills it

inboxVars == <<modal, posts, list>>

EmptyModal == [open |-> FALSE, mode |-> "upload", files |-> {}, text |-> FALSE, error |-> FALSE]
NoQuery == [at |-> "none", rows |-> {}, after |-> {}]

InboxInit ==
    /\ modal = [page |-> "inbox", form |-> EmptyModal, waits |-> 0]
    /\ posts = <<>>
    /\ list = [rows |-> {}, query |-> NoQuery]

Posts == 1..Len(posts)
Heard == {i \in Posts : posts[i].heard # "not yet"}
Committed == {i \in Posts : posts[i].at = "committed"}

Form(change) == modal' = [modal EXCEPT !.form = change] /\ UNCHANGED <<posts, list>>
FormOpen == modal.page = "inbox" /\ modal.form.open /\ Len(posts) < MaxPosts

-----------------------------------------------------------------------------
(* ------------------------------ the modal ------------------------------ *)

OpenModal ==
    /\ modal.page = "inbox" /\ ~modal.form.open
    /\ Form([modal.form EXCEPT !.open = TRUE])

\* handleClose: the backdrop, Escape, the cross or Cancel; a submission under
\* way goes on and keeps the button dead when the modal is opened again.
CloseModal == modal.page = "inbox" /\ modal.form.open /\ Form(EmptyModal)

SetMode(mode) == FormOpen /\ modal.form.mode # mode /\ Form([modal.form EXCEPT !.mode = mode])

\* A file chosen or dropped twice is kept once; a bad one is kept with its error.
AddFile(f) == FormOpen /\ modal.form.mode = "upload" /\ Form([modal.form EXCEPT !.files = @ \cup {f}])
RemoveFile(f) == FormOpen /\ modal.form.mode = "upload" /\ Form([modal.form EXCEPT !.files = @ \ {f}])
WriteText(some) == FormOpen /\ modal.form.mode = "email" /\ Form([modal.form EXCEPT !.text = some])

\* validateFile: only what has an accepted extension and size is submitted.
ValidFiles == modal.form.files \cap GoodFiles

CanProcess == IF modal.form.mode = "upload" THEN ValidFiles # {} ELSE modal.form.text

\* handleProcess: POST /requests with the valid files or the text.
Process ==
    /\ FormOpen /\ CanProcess /\ modal.waits = 0
    /\ modal' = [modal EXCEPT !.form.error = FALSE, !.waits = Len(posts) + 1]
    /\ posts' = Append(posts, [at |-> "sent", heard |-> "not yet"])
    /\ UNCHANGED list

-----------------------------------------------------------------------------
(* ------------------------------- the API ------------------------------- *)

\* The handler has returned and the answer is on its way; COMMIT comes behind it.
StoreRequest(i) ==
    /\ posts[i].at = "sent"
    /\ \E at \in {"stored", "refused"} : posts' = [posts EXCEPT ![i].at = at]
    /\ UNCHANGED <<modal, list>>

CommitRequest(i) ==
    /\ posts[i].at = "stored"
    /\ posts' = [posts EXCEPT ![i].at = "committed"]
    /\ UNCHANGED <<modal, list>>

-----------------------------------------------------------------------------
(* ------------------------- answers and the list ------------------------ *)

\* fetchRequests, asked by the page.
Ask(heard) == [NoQuery EXCEPT !.at = "asked", !.after = heard]

\* Mutant: a list query under way is left to answer in place of a new one.
InvalidateLazily(heard) == IF list.query.at # "none" THEN list.query ELSE Ask(heard)

\* invalidateQueries on a mounted list: what is under way is cancelled and the
\* list is asked for again.
Invalidate(heard) == Ask(heard)

\* buildOptimisticSummary on top of the cached list, once.
OptimisticRow(i) == list.rows \cup {i}

\* The row, then the page of the new request, wherever the person is meanwhile.
\* A list that no page shows is only marked stale. (The server's ids are UUIDs:
\* the branch for others is dead.)
HearSuccess(i) ==
    /\ posts[i].heard = "not yet" /\ posts[i].at \in {"stored", "committed"}
    /\ posts' = [posts EXCEPT ![i].heard = modal.page]
    /\ list' = [rows |-> OptimisticRow(i),
                query |-> IF modal.page = "inbox" THEN Invalidate(Heard \cup {i}) ELSE list.query]
    /\ modal' = [page |-> "away", form |-> EmptyModal, waits |-> 0]

\* A refusal, or an answer that never came: the banner, in whatever modal the
\* page shows by then.
HearError(i) ==
    /\ posts[i].heard = "not yet" /\ posts[i].at # "sent"
    /\ posts' = [posts EXCEPT ![i].heard = "error"]
    /\ modal' = [modal EXCEPT !.waits = IF @ = i THEN 0 ELSE @,
                              !.form.error = @ \/ (modal.waits = i /\ modal.page = "inbox")]
    /\ UNCHANGED list

\* Every five seconds, on coming back to the page or to the window.
AskList ==
    /\ modal.page = "inbox" /\ list.query.at = "none"
    /\ list' = [list EXCEPT !.query = Ask(Heard)]
    /\ UNCHANGED <<modal, posts>>

ReadList ==
    /\ list.query.at = "asked"
    /\ list' = [list EXCEPT !.query.at = "read", !.query.rows = Committed]
    /\ UNCHANGED <<modal, posts>>

ShowList ==
    /\ list.query.at = "read"
    /\ list' = [rows |-> list.query.rows, query |-> NoQuery]
    /\ UNCHANGED <<modal, posts>>

ListFails ==
    /\ list.query.at = "asked"
    /\ list' = [list EXCEPT !.query = NoQuery]
    /\ UNCHANGED <<modal, posts>>

\* Another page: the modal and what waits for an answer in it are gone.
LeaveInbox ==
    /\ modal.page = "inbox"
    /\ modal' = [page |-> "away", form |-> EmptyModal, waits |-> 0]
    /\ UNCHANGED <<posts, list>>

EnterInbox ==
    /\ modal.page = "away"
    /\ modal' = [modal EXCEPT !.page = "inbox"]
    /\ UNCHANGED <<posts, list>>

InboxNext ==
    \/ OpenModal \/ CloseModal \/ Process
    \/ \E mode \in {"upload", "email"} : SetMode(mode)
    \/ \E f \in InboxFiles : AddFile(f) \/ RemoveFile(f)
    \/ \E some \in BOOLEAN : WriteText(some)
    \/ \E i \in Posts : StoreRequest(i) \/ CommitRequest(i) \/ HearSuccess(i) \/ HearError(i)
    \/ AskList \/ ReadList \/ ShowList \/ ListFails \/ LeaveInbox \/ EnterInbox

-----------------------------------------------------------------------------
(* ------------------------------ properties ----------------------------- *)

\* A poll that was under way when a submission was answered never takes the new
\* row away again: a row the page has added only disappears by a list asked for
\* after the answer (and read before the COMMIT behind it), unless the person
\* had left the inbox before the answer came.
StalePollNeverWins ==
    [][\A i \in list.rows \ list'.rows : posts[i].heard = "away" \/ i \in list.query.after]_inboxVars
=============================================================================
