----------------------------- MODULE RemapScreen -----------------------------
(* The review screen while a person re-maps lines one after the other: the    *)
(* drawer, the PATCH each confirmation sends, and the cached request that     *)
(* shows a running total before the server has answered. A drawer may be      *)
(* closed and another opened while a PATCH is under way; calls reach the      *)
(* server, and answers the screen, in any order.                              *)
EXTENDS Naturals, Sequences, FiniteSetsExt

CONSTANTS
    RemapLines,         \* lines of the request, all of them on the quote
    RemapPrices,        \* the products on offer, by what they cost
    Ranked,             \* the ranked candidates of each line
    Searches,           \* what a query may bring
    MaxRemaps           \* bound: confirmations

VARIABLES
    priced,             \* the server's price of each line
    shown,              \* the cached detail: prices and total
    drawer,             \* the open drawer
    patches,            \* the re-maps issued, by sequence number
    refetch             \* the background query of the detail

remapVars == <<priced, shown, drawer, patches, refetch>>

TotalOf(prices) == MapThenSumSet(LAMBDA l : prices[l], RemapLines)

NoDetail == [prices |-> [l \in RemapLines |-> 0], total |-> 0, touched |-> FALSE, failed |-> FALSE]
NoDrawer == [line |-> "none", mode |-> "candidates", hits |-> {}, picked |-> 0, waits |-> 0]
NoFetch == [at |-> "none", read |-> "nothing"]

RemapInit ==
    /\ priced = [l \in RemapLines |-> Min(RemapPrices)]
    /\ shown = [prices |-> priced, total |-> TotalOf(priced), touched |-> FALSE, failed |-> FALSE]
    /\ drawer = NoDrawer
    /\ patches = <<>>
    /\ refetch = NoFetch

Latest == Len(patches)

\* Mutant: every answer may write to the cache.
IsCurrentAlways(i) == TRUE

\* remapSeqByRequest: only the re-map issued last may.
IsCurrent(i) == i = Latest

Show(detail) == shown' = [prices |-> detail.prices, total |-> detail.total,
                          touched |-> FALSE, failed |-> FALSE]

-----------------------------------------------------------------------------
(* ------------------------------ the drawer ----------------------------- *)

\* A line without candidates opens straight into the search.
OpenDrawer(l) ==
    /\ drawer.line = "none" /\ Latest < MaxRemaps
    /\ drawer' = [NoDrawer EXCEPT !.line = l, !.mode = IF Ranked[l] = {} THEN "search" ELSE "candidates"]
    /\ UNCHANGED <<priced, shown, patches, refetch>>

\* Bound: a drawer that could not confirm any more is not browsed.
Browsing == drawer.line # "none" /\ Latest < MaxRemaps

Drawer(change) == drawer' = change /\ UNCHANGED <<priced, shown, patches, refetch>>

\* Switching tabs forgets the choice.
SwitchMode(mode) ==
    /\ Browsing
    /\ Drawer([drawer EXCEPT !.mode = mode, !.picked = 0])

\* Typing another query brings other hits (none while it is fetched) and keeps
\* the choice, which may now be out of sight.
ChangeQuery(hits) ==
    /\ Browsing /\ drawer.mode = "search"
    /\ Drawer([drawer EXCEPT !.hits = hits])

Listed == IF drawer.mode = "candidates" THEN Ranked[drawer.line] ELSE drawer.hits

Pick(price) ==
    /\ Browsing /\ price \in Listed
    /\ Drawer([drawer EXCEPT !.picked = price])

\* Escape, Cancel or the backdrop: the drawer goes, its PATCH goes on.
CloseDrawer == drawer.line # "none" /\ Drawer(NoDrawer)

\* withOptimisticTotal: the line at its new price, the discount as it stands.
WithOptimisticTotal(detail, l, price) ==
    [prices |-> [detail.prices EXCEPT ![l] = price], total |-> detail.total - detail.prices[l] + price]

\* confirm and onMutate: cancel a running query, remember the detail as it is
\* (an earlier estimate included), take the next number, show the estimate. A
\* choice that is in neither list any more has no price to estimate with.
Confirm ==
    LET estimate == IF drawer.picked \in Ranked[drawer.line] \cup drawer.hits
                    THEN WithOptimisticTotal(shown, drawer.line, drawer.picked)
                    ELSE shown
    IN
    /\ drawer.line # "none" /\ drawer.picked # 0 /\ drawer.waits = 0 /\ Latest < MaxRemaps
    /\ Show(estimate)
    /\ patches' = Append(patches, [line |-> drawer.line, price |-> drawer.picked, at |-> "sent", total |-> 0,
                                   estimate |-> estimate.total, previous |-> shown, last |-> TRUE])
    /\ drawer' = [drawer EXCEPT !.waits = Latest + 1]
    /\ refetch' = NoFetch
    /\ UNCHANGED priced

-----------------------------------------------------------------------------
(* --------------------------- server and answers ------------------------ *)

\* The PATCH re-prices the line and answers with the totals.
Apply(i) ==
    /\ patches[i].at = "sent"
    /\ priced' = [priced EXCEPT ![patches[i].line] = patches[i].price]
    /\ patches' = [patches EXCEPT ![i].at = "applied", ![i].total = TotalOf(priced')]
    /\ UNCHANGED <<shown, drawer, refetch>>

Refuse(i) ==
    /\ patches[i].at = "sent"
    /\ patches' = [patches EXCEPT ![i].at = "refused"]
    /\ UNCHANGED <<priced, shown, drawer, refetch>>

\* Only the drawer that sent the PATCH and is still open hears of it.
DrawerHears(i, ok) ==
    drawer' = IF drawer.waits # i THEN drawer ELSE IF ok THEN NoDrawer ELSE [drawer EXCEPT !.waits = 0]

\* What is left of an answered re-map; TLC keeps nothing else of it.
SettledPatch == [line |-> "none", price |-> 0, at |-> "settled", total |-> 0, estimate |-> 0,
                 previous |-> NoDetail, last |-> FALSE]

Settle(i) ==
    /\ patches' = [j \in 1..Latest |->
                     IF j = i THEN [SettledPatch EXCEPT !.last = TRUE]
                     ELSE [patches[j] EXCEPT !.last = FALSE]]
    /\ refetch' = IF IsCurrent(i) THEN [NoFetch EXCEPT !.at = "asked"] ELSE refetch
    /\ UNCHANGED priced

\* reconcileTotals: the confirmed totals over the estimate, not the lines.
ReconcileTotals(total) == [shown EXCEPT !.total = total]

\* onSuccess, and onSettled, which asks for the detail again.
Succeed(i) ==
    /\ patches[i].at = "applied"
    /\ shown' = IF IsCurrent(i) THEN ReconcileTotals(patches[i].total) ELSE shown
    /\ DrawerHears(i, TRUE) /\ Settle(i)

\* onError goes back to the detail before the estimate.
Fail(i) ==
    /\ patches[i].at = "refused"
    /\ shown' = IF IsCurrent(i) THEN patches[i].previous ELSE shown
    /\ DrawerHears(i, FALSE) /\ Settle(i)

\* A window that gets the focus asks for a stale detail too.
Focus ==
    /\ refetch.at = "none"
    /\ refetch' = [NoFetch EXCEPT !.at = "asked"]
    /\ UNCHANGED <<priced, shown, drawer, patches>>

ReadDetail ==
    /\ refetch.at = "asked"
    /\ refetch' = [at |-> "read", read |-> priced]
    /\ UNCHANGED <<priced, shown, drawer, patches>>

ShowDetail ==
    /\ refetch.at = "read"
    /\ shown' = [prices |-> refetch.read, total |-> TotalOf(refetch.read), touched |-> TRUE, failed |-> FALSE]
    /\ refetch' = NoFetch
    /\ UNCHANGED <<priced, drawer, patches>>

\* The query and its one retry fail: the cache stays as it is.
RefetchFails ==
    /\ refetch.at = "asked"
    /\ refetch' = NoFetch
    /\ shown' = [shown EXCEPT !.failed = TRUE]
    /\ UNCHANGED <<priced, drawer, patches>>

RemapNext ==
    \/ \E l \in RemapLines : OpenDrawer(l)
    \/ \E mode \in {"candidates", "search"} : SwitchMode(mode)
    \/ \E hits \in Searches : ChangeQuery(hits)
    \/ CloseDrawer \/ Confirm
    \/ \E p \in RemapPrices : Pick(p)
    \/ \E i \in 1..Latest : Apply(i) \/ Refuse(i) \/ Succeed(i) \/ Fail(i)
    \/ Focus \/ ReadDetail \/ ShowDetail \/ RefetchFails

-----------------------------------------------------------------------------
(* ------------------------------ properties ----------------------------- *)

Settled == \A i \in 1..Latest : patches[i].at = "settled"

\* A late answer never takes the total away from under a newer re-map: as long
\* as the one issued last is under way, and no query has answered since, the
\* total is its estimate. And once everything is answered, the one issued last
\* also last, and its query has come through, the screen shows what the server
\* has, whatever was refused, rolled back or superseded on the way.
TotalFollowsLatest ==
    /\ Latest > 0 /\ patches[Latest].at # "settled" /\ ~shown.touched =>
          shown.total = patches[Latest].estimate
    /\ Latest > 0 /\ Settled /\ patches[Latest].last /\ refetch.at = "none" /\ ~shown.failed =>
          shown.prices = priced /\ shown.total = TotalOf(priced)
=============================================================================
