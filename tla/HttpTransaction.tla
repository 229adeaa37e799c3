--------------------------- MODULE HttpTransaction ---------------------------
(* One HTTP call, from the connection it takes out of the pg pool to the      *)
(* connection it gives back: RlsContextMiddleware opens a transaction before  *)
(* the handler runs, the response's 'finish' and 'close' events end it, and   *)
(* the tasks a handler deferred run behind the commit. Handlers that read     *)
(* through a repository take a second connection from the same pool, and a    *)
(* re-map, in a transaction of its own, a third.                              *)
EXTENDS Naturals, Sequences, FiniteSetsExt

CONSTANTS
    HttpCalls,          \* concurrent calls
    PoolSizes,          \* sizes of the pg pool to look at (the default is 10)
    Files,              \* bound: files in one upload
    MaxDbFaults         \* bound: statements the database refuses

VARIABLES
    http,               \* the calls
    pool                \* how many connections the pool may open

httpVars == <<http, pool>>

Kinds == {"read", "act", "remap", "create", "stream"}

NoCall ==
    [at |-> "idle", kind |-> "read", conns |-> 0, wire |-> <<>>, tx |-> "none", answer |-> "none",
     client |-> "waiting", rows |-> 0, stored |-> 0, tasks |-> <<>>, ran |-> <<>>, faults |-> 0]

HttpInit ==
    /\ http = [c \in HttpCalls |-> NoCall]
    /\ pool \in PoolSizes

Free == pool - MapThenSumSet(LAMBDA c : http[c].conns, HttpCalls)

Faults == Cardinality({c \in HttpCalls : http[c].faults > 0})

\* Connections a handler holds beside its call's: a repository's, or those of the
\* re-map's transaction and of the read of the rules it makes meanwhile.
Borrowed(at) ==
    IF at = "ruling" THEN 2 ELSE IF at \in {"querying", "pricing", "priced"} THEN 1 ELSE 0

Call(c, change) == http' = [http EXCEPT ![c] = change] /\ UNCHANGED pool

-----------------------------------------------------------------------------
(* --------------------------- the middleware ---------------------------- *)

\* forRoutes('*'): every route passes through the middleware.
Arrive(c, kind) ==
    /\ http[c].at = "idle"
    /\ Call(c, [http[c] EXCEPT !.at = "connecting", !.kind = kind])

\* queryRunner.connect(): waits, without a timeout, for a free connection.
Connect(c) ==
    /\ http[c].at = "connecting" /\ Free > 0
    /\ Call(c, [http[c] EXCEPT !.at = "starting", !.conns = 1])

StartTransaction(c) ==
    /\ http[c].at = "starting"
    /\ Call(c, [http[c] EXCEPT !.at = "resolving", !.tx = "open"])

\* START TRANSACTION stands before the try: when it throws, nobody releases.
StartFails(c) ==
    /\ http[c].at = "starting" /\ Faults < MaxDbFaults
    /\ Call(c, [http[c] EXCEPT !.at = "ended", !.answer = "error", !.faults = 1])

\* The organization comes from the token, or from the demo header when it names
\* a known or a demo-enabled organization; set_config binds it to the
\* transaction, and the two listeners are registered.
ResolveOrg(c) ==
    /\ http[c].at = "resolving"
    /\ Call(c, [http[c] EXCEPT !.at = "handling"])

\* Mutant: the catch block forgets the release.
RefuseContextForgotten(c) ==
    /\ http[c].at = "resolving"
    /\ Call(c, [http[c] EXCEPT !.at = "ended", !.answer = "error"])

\* validateToken or set_config throws: the catch block awaits the ROLLBACK and
\* the release, and hands the error on. No listener has been registered.
RefuseContext(c) ==
    /\ http[c].at = "resolving"
    /\ Call(c, [http[c] EXCEPT !.at = "refused", !.wire = <<"ROLLBACK">>])

\* Mutant: the status code is not looked at, so an answered error commits.
OnFinishIgnoringStatus(call, answer) == <<"COMMIT", "ROLLBACK">>

\* response.on('finish'): an error, thrown or answered, rolls back; anything
\* else commits. 'close' follows at once and finds the connection unreleased,
\* so its ROLLBACK stands in the client's queue right behind.
OnFinish(call, answer) ==
    IF answer = "error" THEN <<"ROLLBACK", "ROLLBACK">> ELSE <<"COMMIT", "ROLLBACK">>

Reply(c, call, answer) ==
    Call(c, IF call.client # "waiting"
            THEN [call EXCEPT !.at = "ended"]
            ELSE [call EXCEPT !.at = "ended", !.answer = answer, !.wire = OnFinish(call, answer)])

\* response.on('close') without a 'finish': the client went away. The handler
\* is not told; it goes on.
Leave(c) ==
    /\ http[c].client = "waiting"
    /\ http[c].at \in {"handling", "querying", "written", "handled", "streaming",
                       "chosen", "pricing", "ruling", "priced"}
    /\ Call(c, [http[c] EXCEPT !.client = "gone", !.wire = <<"ROLLBACK">>,
                               !.at = IF @ = "streaming" THEN "ended" ELSE @])

\* A client that leaves earlier is not noticed: 'close' has come and gone when
\* the listeners are registered, and the answer to nobody never emits 'finish'.
LeaveEarly(c) ==
    /\ http[c].client = "waiting" /\ http[c].at \in {"connecting", "starting", "resolving"}
    /\ Call(c, [http[c] EXCEPT !.client = "missed"])

\* The client's queue is worked off in order. After COMMIT the finish listener
\* goes on, after ROLLBACK whichever listener sent it: the connection is
\* released if it was not, and only a commit reaches the tasks.
TxAfter(call, statement) ==
    IF call.tx # "open" THEN call.tx ELSE IF statement = "COMMIT" THEN "committed" ELSE "undone"

Execute(c) ==
    LET call == http[c] IN
    /\ call.wire # <<>>
    /\ Call(c, [call EXCEPT
                  !.wire = Tail(@),
                  !.tx = TxAfter(call, Head(call.wire)),
                  !.conns = IF call.tx = "open" THEN @ - 1 ELSE @,
                  !.at = IF @ = "refused" THEN "ended" ELSE @,
                  !.answer = IF call.at = "refused" THEN "error" ELSE @])

\* The server refuses the COMMIT: logged, and the ROLLBACK behind it releases.
\* With the connection itself lost both fail, and it is never released.
CommitFails(c, lost) ==
    LET call == http[c] IN
    /\ call.wire # <<>> /\ Head(call.wire) = "COMMIT" /\ call.tx = "open" /\ Faults < MaxDbFaults
    /\ Call(c, [call EXCEPT !.faults = 1, !.wire = IF lost THEN <<>> ELSE Tail(@),
                            !.tx = IF lost THEN "undone" ELSE @])

\* for (const task of afterCommit): one after the other; one that fails is
\* logged and the rest still run.
RunTask(c) ==
    LET call == http[c] IN
    /\ call.tx = "committed" /\ call.tasks # <<>>
    /\ Call(c, [call EXCEPT !.tasks = Tail(@), !.ran = Append(@, Head(call.tasks))])

-----------------------------------------------------------------------------
(* ---------------------- guard, handlers and filter --------------------- *)

\* AuthGuard, validation and every exception of a handler end in
\* HttpExceptionFilter, which answers with a status of at least 400. What the
\* handler borrowed is returned on the way, a re-map's transaction rolled back.
Throw(c) ==
    /\ http[c].at \in {"handling", "querying", "written", "chosen", "pricing", "ruling", "priced"}
    /\ http[c].kind # "create"
    /\ Reply(c, [http[c] EXCEPT !.conns = @ - Borrowed(http[c].at)], "error")

\* AbstractModelAction without a transaction uses its own repository, and the
\* repository another connection, also without a timeout.
Borrow(c) ==
    /\ http[c].at = "handling" /\ http[c].kind # "create" /\ Free > 0
    /\ Call(c, [http[c] EXCEPT !.at = "querying", !.conns = @ + 1])

Handled(c, at) == Call(c, [http[c] EXCEPT !.at = at, !.conns = @ - 1])

\* list, history, getOne and the download read a page or a row.
ReadRequests(c) == http[c].at = "querying" /\ http[c].kind = "read" /\ Handled(c, "handled")

\* resume, paste, decline and remapLineItem load the request and check whose it is.
ActOnRequest(c) ==
    /\ http[c].at = "querying" /\ http[c].kind \in {"act", "remap"}
    /\ Handled(c, IF http[c].kind = "act" THEN "written" ELSE "chosen")

\* The line and its product have been read and accepted: remap() updates and
\* re-computes in dataSource.transaction, on a connection of its own. With no
\* line to price no rules are needed.
BeginRemap(c) ==
    /\ http[c].at = "chosen" /\ Free > 0
    /\ \E at \in {"pricing", "priced"} : Call(c, [http[c] EXCEPT !.at = at, !.conns = @ + 1])

\* getRuleSetForOrg is not given the transaction's manager: a third connection,
\* taken while the other two are held.
BorrowForRules(c) ==
    /\ http[c].at = "pricing" /\ Free > 0
    /\ Call(c, [http[c] EXCEPT !.at = "ruling", !.conns = @ + 1])
ReadRules(c) == http[c].at = "ruling" /\ Handled(c, "priced")

EndRemap(c) == http[c].at = "priced" /\ Handled(c, "written")

\* The writes of resume, paste and decline, and the line that a committed re-map
\* reads again, through repositories that take and return a connection.
WriteOwn(c) ==
    /\ http[c].at = "written" /\ Free > 0
    /\ Call(c, [http[c] EXCEPT !.at = "handled"])

\* events() answers with a stream that ends when the client leaves.
Subscribe(c) == http[c].at = "querying" /\ http[c].kind = "stream" /\ Handled(c, "streaming")

\* createRequest writes through the transaction's manager: the request row,
\* then for each file its bytes, then the row that names them. The bytes are
\* not part of the transaction. A manager whose runner was released throws.
StoreFile(c) ==
    LET call == http[c] IN
    /\ call.at = "handling" /\ call.kind = "create" /\ call.tx = "open"
    /\ call.stored = call.rows /\ call.stored < Files
    /\ Call(c, [call EXCEPT !.stored = @ + 1])

CreateAttachment(c) ==
    LET call == http[c] IN
    /\ call.at = "handling" /\ call.kind = "create" /\ call.tx = "open"
    /\ call.rows < call.stored
    /\ Call(c, [call EXCEPT !.rows = @ + 1])

\* afterCommit.push(emitReceived, enqueue); catalog imports push one task for
\* every product they saved.
Defer(c) ==
    LET call == http[c] IN
    /\ call.at = "handling" /\ call.kind = "create" /\ call.tx = "open"
    /\ call.rows = call.stored
    /\ Call(c, [call EXCEPT !.at = "handled", !.tasks = <<"received", "enqueue">>])

\* A refused file, a missing input, a store or a row that fails.
CreateFails(c) ==
    /\ http[c].at = "handling" /\ http[c].kind = "create"
    /\ Reply(c, http[c], "error")

\* The manager of a call whose client left throws once its runner is released.
RunnerGone(c) ==
    /\ http[c].at = "handling" /\ http[c].kind = "create" /\ http[c].tx # "open"
    /\ Reply(c, http[c], "error")

Answer(c) == http[c].at = "handled" /\ Reply(c, http[c], "ok")

-----------------------------------------------------------------------------

\* What goes on by itself once a call has come in.
HttpStep(c) ==
    \/ Connect(c) \/ StartTransaction(c) \/ ResolveOrg(c) \/ Borrow(c)
    \/ ReadRequests(c) \/ ActOnRequest(c) \/ WriteOwn(c) \/ Subscribe(c)
    \/ BeginRemap(c) \/ BorrowForRules(c) \/ ReadRules(c) \/ EndRemap(c)
    \/ StoreFile(c) \/ CreateAttachment(c) \/ Defer(c) \/ RunnerGone(c)
    \/ Answer(c) \/ Execute(c) \/ RunTask(c)

HttpNext ==
    \E c \in HttpCalls :
        \/ \E k \in Kinds : Arrive(c, k)
        \/ HttpStep(c)
        \/ StartFails(c) \/ RefuseContext(c) \/ Leave(c) \/ LeaveEarly(c) \/ Throw(c) \/ CreateFails(c)
        \/ \E lost \in BOOLEAN : CommitFails(c, lost)

\* A statement sent is executed, a handler runs on, a freed connection goes to
\* a call that waits for it (pg-pool hands them out first come, first served).
HttpFairness == \A c \in HttpCalls : SF_httpVars(HttpStep(c))

-----------------------------------------------------------------------------
(* ------------------------------ properties ----------------------------- *)

\* The answer decides, and the close listener's ROLLBACK never wins over the
\* COMMIT it follows: what is committed was answered with success and is whole,
\* with the bytes of every attachment in the store; deferred tasks run in order
\* behind a commit, and never for a call that was rolled back.
CommitFollowsAnswer ==
    \A c \in HttpCalls :
        /\ http[c].tx = "committed" => http[c].answer = "ok" /\ http[c].rows <= http[c].stored
        /\ http[c].ran # <<>> => http[c].tx = "committed"
        /\ http[c].answer = "ok" /\ http[c].wire = <<>> /\ http[c].faults = 0 => http[c].tx = "committed"

\* What a call may hold while it waits for one more.
HeldWaiting(c) == IF http[c].kind = "remap" THEN 2 ELSE 1

\* While the calls cannot hold all connections and wait for more, no call waits
\* for ever on the others, and each gives its own back, also when the client
\* leaves or the handler throws. Exempt are a client that left before the
\* listeners were registered, whose connection is lost, and pools that calls
\* waiting for one more can exhaust: a re-map counts for two there, any other
\* call for one, so that five re-maps fill the default pool of ten.
ConnectionsReturn ==
    \A c \in HttpCalls :
        http[c].at = "connecting" ~>
            \/ http[c].conns = 0 /\ http[c].at = "ended"
            \/ http[c].at = "streaming" \/ http[c].client = "missed"
            \/ Faults > 0 \/ MapThenSumSet(HeldWaiting, HttpCalls) >= pool
=============================================================================
