---------------------------- MODULE Organizations ----------------------------
(* The demo organizations: the browser chooses one and names it in a header   *)
(* of every call, the API resolves the header to an organization it knows,    *)
(* and the administration edits that organization's branding.                 *)
EXTENDS Naturals, Sequences

CONSTANTS
    Null,
    SeededOrgs,         \* the organizations there are
    DefaultOrg,         \* the one a call without a usable header gets
    NewOrg,             \* the one that may be onboarded
    MaxOrgCalls         \* bound: calls

ASSUME OrgAssumption ==
    DefaultOrg \in SeededOrgs /\ NewOrg \notin SeededOrgs /\ Null \notin SeededOrgs

VARIABLES
    browser,            \* the page, the choice of organization, what is cached
    orgCalls,           \* the calls
    orgs,               \* the organizations committed
    branding            \* the branding row of each organization, or Null

orgVars == <<browser, orgCalls, orgs, branding>>

AllOrgs == SeededOrgs \cup {NewOrg}

\* chosen: the choice made since the page was loaded. raw: the choice in the
\* provider's state, header: the one the calls carry, stored: in localStorage.
\* onboarded: the new organization, while the list is asked for again. shown:
\* whose branding is cached; form: whose values the form holds.
Loaded(stored) ==
    [page |-> "settings", chosen |-> Null, raw |-> stored, header |-> stored, stored |-> stored,
     known |-> {}, onboarded |-> FALSE, shown |-> Null, fresh |-> FALSE, form |-> Null]

OrgInit ==
    /\ browser = Loaded(Null)
    /\ orgCalls = <<>>
    /\ orgs = SeededOrgs
    /\ branding = [o \in AllOrgs |-> Null]

OrgCalls == 1..Len(orgCalls)
Ready == browser.known # {}
Asking(kind) == \E i \in OrgCalls : orgCalls[i].kind = kind /\ orgCalls[i].at # "over"

\* What is over: only who served it.
OrgCallOver(call) ==
    [call EXCEPT !.at = "over", !.header = Null, !.chosen = Null, !.text = Null, !.read = Null]

Browse(change) == browser' = change /\ UNCHANGED <<orgCalls, orgs, branding>>

-----------------------------------------------------------------------------
(* ----------------------------- the provider ---------------------------- *)

\* applyDemoOrgHeader: every call carries the header as it is at that moment.
OrgCall(kind, text) ==
    /\ Len(orgCalls) < MaxOrgCalls
    /\ orgCalls' = Append(orgCalls, [kind |-> kind, header |-> browser.header, chosen |-> browser.chosen,
                                     text |-> text, at |-> "sent", org |-> Null, read |-> Null])
    /\ UNCHANGED <<browser, orgs, branding>>

\* No page but the provider's until the list has come.
AskOrgs == ~Asking("orgs") /\ OrgCall("orgs", Null)

\* The selection counts only while the list has it.
Validated == IF browser.raw \in browser.known THEN browser.raw ELSE Null

\* Each render of the provider brings header and storage in line.
Render ==
    /\ Ready /\ browser.header # Validated
    /\ Browse([browser EXCEPT !.header = Validated, !.stored = Validated])

\* Mutant: the header waits for the next render.
SelectedOnRender(b, o) == [b EXCEPT !.raw = o, !.stored = o, !.chosen = o, !.fresh = FALSE]

\* invalidateQueries: a list that is under way is asked for anew.
ListCancelled(calls) ==
    [i \in DOMAIN calls |-> IF calls[i].kind = "orgs" THEN OrgCallOver(calls[i]) ELSE calls[i]]

\* setSelectedOrgId: the header first, then every cached query is stale.
Selected(b, o) == [b EXCEPT !.header = o, !.raw = o, !.stored = o, !.chosen = o, !.fresh = FALSE]

SwitchOrg(o) ==
    /\ Ready /\ browser.page = "settings" /\ o \in browser.known /\ o # browser.raw
    /\ browser' = Selected(browser, o)
    /\ orgCalls' = ListCancelled(orgCalls)
    /\ UNCHANGED <<orgs, branding>>

Reload ==
    /\ browser' = Loaded(browser.stored)
    /\ orgCalls' = [i \in OrgCalls |-> IF orgCalls[i].at = "answered" THEN OrgCallOver(orgCalls[i]) ELSE orgCalls[i]]
    /\ UNCHANGED <<orgs, branding>>

-----------------------------------------------------------------------------
(* ------------------------------- the API ------------------------------- *)

\* A seeded organization by its id, any other if a committed row allows it,
\* the default organization for everything else.
OrgOfHeader(header) ==
    IF header \in SeededOrgs \/ header \in orgs THEN header ELSE DefaultOrg

\* findOrCreateBranding.
BrandingOf(o) == IF branding[o] = Null THEN [text |-> o, logo |-> "none"] ELSE branding[o]

\* The middleware resolves the organization; then the handler reads.
ServeOrgCall(i) ==
    /\ orgCalls[i].at = "sent"
    /\ LET o == OrgOfHeader(orgCalls[i].header)
           read == CASE orgCalls[i].kind = "orgs" -> orgs
                     [] orgCalls[i].kind = "onboard" -> Null
                     [] OTHER -> BrandingOf(o)
       IN orgCalls' = [orgCalls EXCEPT ![i].org = o, ![i].read = read,
              ![i].at = IF orgCalls[i].kind \in {"patch", "logo"} THEN "serving" ELSE "answered"]
    /\ UNCHANGED <<browser, orgs, branding>>

\* save() of the row as read with the patch over it: it writes what differs
\* from the row as save() finds it, so the fields another call has changed
\* since the read go back, unless save() looked before that call committed.
SaveBranding(i) ==
    /\ orgCalls[i].at = "serving"
    /\ LET o == orgCalls[i].org
           own(row) == IF orgCalls[i].kind = "patch" THEN [row EXCEPT !.text = orgCalls[i].text]
                       ELSE [row EXCEPT !.logo = orgCalls[i].text]
       IN \E row \in {orgCalls[i].read, BrandingOf(o)} : branding' = [branding EXCEPT ![o] = own(row)]
    /\ orgCalls' = [orgCalls EXCEPT ![i].at = "answered"]
    /\ UNCHANGED <<browser, orgs>>

\* The object store, the check of the image or the transaction fails.
RefuseOrgCall(i) ==
    /\ orgCalls[i].at \in {"sent", "serving"} /\ orgCalls[i].kind \in {"patch", "logo", "onboard"}
    /\ orgCalls' = [orgCalls EXCEPT ![i] = OrgCallOver(@)]
    /\ UNCHANGED <<browser, orgs, branding>>

\* COMMIT comes behind the answer: the new organization is there from now on.
CommitOrg(i) ==
    /\ orgCalls[i].kind = "onboard" /\ orgCalls[i].org # Null /\ NewOrg \notin orgs
    /\ orgs' = orgs \cup {NewOrg}
    /\ UNCHANGED <<browser, orgCalls, branding>>

-----------------------------------------------------------------------------
(* ------------------------------ the answers ---------------------------- *)

HearOrgCall(i, kind, change) ==
    /\ orgCalls[i].at = "answered" /\ orgCalls[i].kind = kind
    /\ LET heard == [orgCalls EXCEPT ![i] = OrgCallOver(@)]
       IN orgCalls' = IF kind = "onboard" THEN ListCancelled(heard) ELSE heard
    /\ browser' = change
    /\ UNCHANGED <<orgs, branding>>

\* The list; whoever waited for it to select the organization just onboarded
\* does so, listed or not, and goes to the administration.
HearOrgs(i) ==
    LET b == [browser EXCEPT !.known = orgCalls[i].read]
    IN HearOrgCall(i, "orgs",
           IF ~b.onboarded THEN b
           ELSE IF b.page # "settings" THEN [b EXCEPT !.onboarded = FALSE]
           ELSE [Selected(b, NewOrg) EXCEPT !.onboarded = FALSE, !.page = "branding", !.form = b.shown])

Onboard ==
    /\ Ready /\ browser.page = "settings" /\ NewOrg \notin orgs
    /\ ~Asking("onboard") /\ OrgCall("onboard", Null)

\* onSuccess returns the invalidation of the list, so the callback that selects
\* the organization waits for it.
HearOnboarded(i) == HearOrgCall(i, "onboard", [browser EXCEPT !.onboarded = TRUE])

\* The form takes its values when it is mounted: from what is cached, if
\* anything is, be it stale.
OpenBranding ==
    /\ Ready /\ browser.page = "settings"
    /\ Browse([browser EXCEPT !.page = "branding", !.form = browser.shown])

CloseBranding ==
    /\ browser.page = "branding"
    /\ Browse([browser EXCEPT !.page = "settings", !.form = Null])

AskBranding ==
    /\ Ready /\ browser.page = "branding" /\ ~browser.fresh /\ ~Asking("branding")
    /\ OrgCall("branding", Null)

HearBranding(i) ==
    LET text == orgCalls[i].read.text
    IN HearOrgCall(i, "branding", [browser EXCEPT !.shown = text, !.fresh = TRUE,
           !.form = IF @ = Null /\ browser.page = "branding" THEN text ELSE @])

\* "Guardar": every field of the form.
SaveForm ==
    /\ browser.page = "branding" /\ browser.form # Null /\ ~Asking("patch")
    /\ OrgCall("patch", browser.form)

\* The logo has a call of its own, made as soon as a file is picked.
PickLogo ==
    /\ browser.page = "branding" /\ browser.form # Null /\ ~Asking("logo")
    /\ \E logo \in {"png", "jpg"} : OrgCall("logo", logo)

HearBrandingSaved(i) ==
    \E kind \in {"patch", "logo"} : HearOrgCall(i, kind, [browser EXCEPT !.fresh = FALSE])

OrgNext ==
    \/ AskOrgs \/ Render \/ Reload \/ Onboard \/ OpenBranding \/ CloseBranding
    \/ AskBranding \/ SaveForm \/ PickLogo
    \/ \E o \in SeededOrgs \cup {NewOrg} : SwitchOrg(o)
    \/ \E i \in OrgCalls : ServeOrgCall(i) \/ SaveBranding(i) \/ RefuseOrgCall(i) \/ CommitOrg(i)
    \/ \E i \in OrgCalls : HearOrgs(i) \/ HearOnboarded(i) \/ HearBranding(i) \/ HearBrandingSaved(i)

-----------------------------------------------------------------------------
(* ------------------------------ properties ----------------------------- *)

\* A call made after a seeded organization was chosen, and before another was,
\* is served as that organization: the header is there before anything is asked
\* again, and no list that comes late takes the choice back.
ListedOrgIsServed ==
    \A i \in OrgCalls :
        orgCalls[i].chosen \in SeededOrgs /\ orgCalls[i].org # Null => orgCalls[i].org = orgCalls[i].chosen
=============================================================================
