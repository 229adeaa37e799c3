----------------------------- MODULE QuoteScreen -----------------------------
(* The two pages a quote is watched on: its own, with the buttons that        *)
(* approve, send and download it, and the register that lists all quotes.     *)
(* Both show what the last query brought; the quote itself moves on under     *)
(* them, by their calls, by colleagues and by pricing.                        *)
EXTENDS Naturals, Sequences

CONSTANTS
    Emails,             \* has the customer an address: a subset of BOOLEAN
    MaxPricings,        \* bound: quotes made for the request
    MaxQuoteCalls       \* bound: calls of the page

VARIABLES
    deal,               \* the quotes row, and whose approval holds it
    quotePage,          \* the open page, its buttons and banners
    detail, register,   \* the two cached queries
    quoteCalls          \* calls of the page at the server

screenVars == <<deal, quotePage, detail, register, quoteCalls>>

NoDeal == [rev |-> 0, status |-> "draft"]

\* Whose approval holds the row: nobody's, a colleague's, or a call of the page.
Holder(by, call) == [by |-> by, call |-> call]
Nobody == Holder("nobody", 0)
Colleague == Holder("colleague", 0)

Nothing == [rev |-> 0, status |-> "unknown"]     \* a query without data
Cold == [data |-> Nothing, failed |-> FALSE, fetches |-> <<>>]
ClosedPage ==
    [open |-> "none", search |-> "", wrong |-> {}, pending |-> {}]

ScreenInit ==
    /\ deal \in [row : {NoDeal}, holder : {Nobody}, email : Emails]
    /\ quotePage = ClosedPage
    /\ detail = Cold /\ register = Cold
    /\ quoteCalls = <<>>

-----------------------------------------------------------------------------
(* ------------------------------- the server ---------------------------- *)

\* A run or a re-map replaces the row, whatever its status.
Reprice ==
    /\ deal.row.rev < MaxPricings
    /\ deal' = [deal EXCEPT !.row = [rev |-> @.rev + 1, status |-> "draft"], !.holder = Nobody]
    /\ UNCHANGED <<quotePage, detail, register, quoteCalls>>

\* What a colleague's approval or sending does to the row.
ColleagueActs ==
    /\ deal.row.rev > 0
    /\ \/ /\ deal.row.status = "draft"
          /\ deal' = [deal EXCEPT !.row.status = "approved", !.holder = Colleague]
       \/ /\ deal.holder = Colleague
          /\ \E to \in {"ready", "draft"} :
               deal' = [deal EXCEPT !.row.status = to, !.holder = Nobody]
       \/ /\ deal.row.status = "ready" /\ deal.email
          /\ deal' = [deal EXCEPT !.row.status = "sent"]
    /\ UNCHANGED <<quotePage, detail, register, quoteCalls>>

CallAt(i, op, at) == i \in DOMAIN quoteCalls /\ quoteCalls[i].op = op /\ quoteCalls[i].at = at

\* The call moves on; the row is as the second argument says.
Serve(i, row, at) ==
    /\ deal' = [deal EXCEPT !.row = row,
                            !.holder = IF at = "claimed" THEN Holder("page", i)
                                       ELSE IF quoteCalls[i].at = "claimed" THEN Nobody ELSE @]
    /\ quoteCalls' = [quoteCalls EXCEPT ![i].at = at]
    /\ UNCHANGED <<quotePage, detail, register>>

\* POST quote: a draft is claimed; one that is approved or ready is answered as
\* it is, none and a sent one are 409.
ServeApprove(i) ==
    /\ CallAt(i, "approve", "called")
    /\ IF deal.row.rev = 0 \/ deal.row.status = "sent" THEN Serve(i, deal.row, "error")
       ELSE IF deal.row.status = "draft"
            THEN Serve(i, [deal.row EXCEPT !.status = "approved"], "claimed")
       ELSE Serve(i, deal.row, "ok")

\* The PDF is there, or the claim is taken back (424); a quote that was replaced
\* meanwhile cannot be rendered.
FinishApprove(i) ==
    /\ CallAt(i, "approve", "claimed")
    /\ IF deal.holder # Holder("page", i)
       THEN /\ quoteCalls' = [quoteCalls EXCEPT ![i].at = "error"]
            /\ UNCHANGED <<deal, quotePage, detail, register>>
       ELSE \/ Serve(i, [deal.row EXCEPT !.status = "ready"], "ok")
            \/ Serve(i, [deal.row EXCEPT !.status = "draft"], "error")

\* POST send: a sent quote is answered as it is, a ready one goes out or not;
\* it also goes out when only the answer is lost. 409 before it is ready, 400
\* without an address.
ServeSend(i) ==
    /\ CallAt(i, "send", "called")
    /\ \/ /\ deal.row.status = "sent" \/ (deal.row.status = "ready" /\ deal.email)
          /\ \E at \in {"ok", "error"} : Serve(i, [deal.row EXCEPT !.status = "sent"], at)
       \/ deal.row.status # "sent" /\ Serve(i, deal.row, "error")

\* GET pdf: the PDF of the row there is now, under whatever name the page gives
\* it. 404 before it is ready, 502 when the store fails.
ServePdf(i) ==
    /\ CallAt(i, "download", "called")
    /\ \/ deal.row.status \in {"ready", "sent"} /\ Serve(i, deal.row, "ok")
       \/ Serve(i, deal.row, "error")

-----------------------------------------------------------------------------
(* ------------------------------- the queries --------------------------- *)

Asked == <<[at |-> "asked", saw |-> Nothing]>>

\* Mutant: what is under way is not cancelled.
InvalidateBeside(query, watched) ==
    IF watched THEN [query EXCEPT !.fetches = @ \o Asked] ELSE query

\* invalidateQueries: a query that a page watches is asked again, and what is
\* under way is cancelled; another is only marked stale.
InvalidateQuery(query, watched) ==
    IF watched THEN [query EXCEPT !.fetches = Asked] ELSE query

Watched(name) == quotePage.open = name

\* Opening the page or coming back to it asks if what there is has grown stale;
\* the register also every five seconds, and both on "try again". A query that
\* is under way is not asked twice.
Refetch(query) == [query EXCEPT !.fetches = Asked]

Without(query, i) ==
    [query EXCEPT !.fetches = SubSeq(@, 1, i - 1) \o SubSeq(@, i + 1, Len(@))]

\* A step of one of the two queries, whose cached value becomes "next".
DetailTo(next) == detail' = next /\ UNCHANGED <<deal, quotePage, register, quoteCalls>>
RegisterTo(next) == register' = next /\ UNCHANGED <<deal, quotePage, detail, quoteCalls>>

AskDetail == Watched("quote") /\ detail.fetches = <<>> /\ DetailTo(Refetch(detail))
AskRegister == Watched("list") /\ register.fetches = <<>> /\ RegisterTo(Refetch(register))

\* fetchRequest, fetchQuotes: the server reads, the answer lands or, after one
\* retry, the query fails and keeps what it had. (The quote's page then hides the
\* document and keeps its buttons; the register minds only if it has no data.)
ReadBy(query, i) == [query EXCEPT !.fetches[i] = [at |-> "read", saw |-> deal.row]]
Landed(query, i) == [Without(query, i) EXCEPT !.data = query.fetches[i].saw, !.failed = FALSE]
Failed(query, i) == [Without(query, i) EXCEPT !.failed = query.data = Nothing]

FetchDetail(i) ==
    \/ detail.fetches[i].at = "asked" /\ (DetailTo(ReadBy(detail, i)) \/ DetailTo(Failed(detail, i)))
    \/ detail.fetches[i].at = "read" /\ DetailTo(Landed(detail, i))

FetchRegister(i) ==
    \/ register.fetches[i].at = "asked" /\ (RegisterTo(ReadBy(register, i)) \/ RegisterTo(Failed(register, i)))
    \/ register.fetches[i].at = "read" /\ RegisterTo(Landed(register, i))

-----------------------------------------------------------------------------
(* -------------------------------- the pages ---------------------------- *)

TurnPage(next) == quotePage' = next /\ UNCHANGED <<deal, detail, register, quoteCalls>>

\* The quote on its page, if there is one.
Quoted == Watched("quote") /\ detail.data.rev > 0
IsReady == detail.data.status \in {"ready", "sent"}
CanSendEmail == detail.data.status = "ready" /\ deal.email

\* What the register shows below its figures; a search hides rows that the
\* number and the customer do not match.
RegisterShows ==
    IF register.failed THEN "error"
    ELSE IF register.data = Nothing THEN "loading"
    ELSE IF register.data.rev = 0 \/ quotePage.search = "miss" THEN "empty"
    ELSE "row"

\* A page is entered with what the cache has; its query asks again if that is
\* old (AskDetail, AskRegister). Title and buttons go with the page, calls and
\* queries under way do not.
OpenRegister == ~Watched("list") /\ TurnPage([ClosedPage EXCEPT !.open = "list"])
OpenQuote == /\ ~Watched("quote") /\ Watched("list") => RegisterShows = "row"
             /\ TurnPage([ClosedPage EXCEPT !.open = "quote"])
LeaveQuotes == quotePage.open # "none" /\ TurnPage(ClosedPage)

Search(text) ==
    Watched("list") /\ quotePage.search # text /\ TurnPage([quotePage EXCEPT !.search = text])

\* A button calls; pressing it again forgets the banner of the attempt before.
Press(op) ==
    /\ Quoted /\ Len(quoteCalls) < MaxQuoteCalls
    /\ CASE op = "approve"  -> ~IsReady /\ op \notin quotePage.pending
         [] op = "send"     -> CanSendEmail /\ op \notin quotePage.pending
         [] op = "download" -> IsReady
    /\ quoteCalls' = Append(quoteCalls, [op |-> op, at |-> "called"])
    /\ quotePage' = [quotePage EXCEPT !.pending = @ \union ({op} \ {"download"}),
                                      !.wrong = IF op = "download" THEN @ ELSE @ \ {op}]
    /\ UNCHANGED <<deal, detail, register>>

\* onSuccess asks for the request and the register anew, also when the page that
\* called is gone, and gives the button back without waiting for them.
HearAnswer(i) ==
    LET call == quoteCalls[i]
        ok   == call.at = "ok"
    IN  /\ call.at \in {"ok", "error"}
        /\ quoteCalls' = [quoteCalls EXCEPT ![i] = [op |-> "over", at |-> "over"]]
        /\ quotePage' = IF Watched("quote") /\ (call.op = "download" \/ call.op \in quotePage.pending)
                        THEN [quotePage EXCEPT !.pending = @ \ {call.op},
                                               !.wrong = IF ok THEN @ \ {call.op} ELSE @ \union {call.op}]
                        ELSE quotePage
        /\ IF ok /\ call.op # "download"
           THEN /\ detail' = InvalidateQuery(detail, Watched("quote"))
                /\ register' = InvalidateQuery(register, Watched("list"))
           ELSE UNCHANGED <<detail, register>>
        /\ UNCHANGED deal

ScreenNext ==
    \/ Reprice \/ ColleagueActs
    \/ \E i \in DOMAIN quoteCalls :
         ServeApprove(i) \/ FinishApprove(i) \/ ServeSend(i) \/ ServePdf(i) \/ HearAnswer(i)
    \/ AskDetail \/ AskRegister
    \/ \E i \in DOMAIN detail.fetches : FetchDetail(i)
    \/ \E i \in DOMAIN register.fetches : FetchRegister(i)
    \/ OpenRegister \/ OpenQuote \/ LeaveQuotes
    \/ \E text \in {"", "miss"} : Search(text)
    \/ \E op \in {"approve", "send", "download"} : Press(op)

-----------------------------------------------------------------------------
(* ------------------------------ properties ----------------------------- *)

Stage(row) ==
    CASE row.status = "unknown" -> 0 [] row.status \in {"draft", "approved"} -> 1
      [] row.status = "ready" -> 2   [] row.status = "sent" -> 3

Precedes(new, old) ==
    \/ new.rev < old.rev
    \/ new.rev = old.rev /\ Stage(new) < Stage(old)

\* Once a page has shown a quote ready or sent it never offers to approve or to
\* send that quote again, whatever queries were under way when it was answered:
\* what a page shows goes back neither to an older quote nor to an earlier state
\* of the same one (useApproveQuote, useSendQuote, the five-second poll).
ShownMovesForward ==
    [][~Precedes(detail'.data, detail.data) /\ ~Precedes(register'.data, register.data)]_<<detail, register>>
=============================================================================
