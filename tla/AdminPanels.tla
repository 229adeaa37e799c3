----------------------------- MODULE AdminPanels -----------------------------
(* The administration tabs for products and pricing rules, in the browsers of *)
(* several admins, and the rules service behind them: a PATCH, of a form or   *)
(* of another caller of the API, is checked against the row as it was read    *)
(* and then writes the fields it carries, over whatever the row is by then.   *)
EXTENDS Naturals, Sequences

CONSTANTS
    TabsOf,             \* the tabs each admin goes to
    Takes,              \* the configs the schema of each <<vertical, rule type>> takes
    PatchBodies,        \* the bodies that callers of the API other than the page send
    MaxSaves            \* bound: calls of all admins together

VARIABLES
    panel,              \* the tab each admin has open
    rule,               \* the row of one pricing rule
    saves,              \* the calls
    patchesCrossed      \* history: was a field of the schema written over another than was checked?

Admins == DOMAIN TabsOf
Verticals == {schema[1] : schema \in DOMAIN Takes}
RuleTypes == {schema[2] : schema \in DOMAIN Takes}
Configs == UNION {Takes[schema] : schema \in DOMAIN Takes}

NoVertical == "none"            \* null, which the column takes and no engine reads
Rows == [vertical : Verticals \cup {NoVertical}, type : RuleTypes, config : Configs, active : BOOLEAN]
RowFields == {"vertical", "type", "config", "active"}
SchemaFields == {"vertical", "type", "config"}

\* Every field of a PATCH is optional, and those it has are checked one by one.
ASSUME PatchAssumption ==
    /\ \A b \in PatchBodies :
          /\ DOMAIN b \subseteq RowFields
          /\ \E row \in Rows : \A f \in DOMAIN b : b[f] = row[f]
    /\ NoVertical \notin Verticals

adminVars == <<panel, rule, saves, patchesCrossed>>

Mutations == {"create", "update", "remove", "import"}
Malformed == "malformed"        \* not a JSON object, not a number

\* last: of each kind of call the last one this tab made and has not heard of, or 0.
EmptyTab(tab) ==
    [tab |-> tab, form |-> "closed", confirm |-> FALSE, last |-> [m \in Mutations |-> 0]]

\* validatePricingRuleConfig: the vertical has a schema for the type, and that one
\* takes the config.
ValidConfig(row) ==
    /\ <<row.vertical, row.type>> \in DOMAIN Takes
    /\ row.config \in Takes[<<row.vertical, row.type>>]

AdminInit ==
    /\ rule \in {row \in Rows : row.active /\ ValidConfig(row)}
    /\ panel = [a \in Admins |-> EmptyTab("branding")]
    /\ saves = <<>>
    /\ patchesCrossed = FALSE

Saves == 1..Len(saves)
Waits(a, m) == panel[a].last[m] # 0

ChangeTab(a, change) == panel' = [panel EXCEPT ![a] = change] /\ UNCHANGED <<rule, saves, patchesCrossed>>

-----------------------------------------------------------------------------
(* ------------------------------- the tab ------------------------------- *)

Uncovered(a) == panel[a].tab # "branding" /\ panel[a].form = "closed" /\ ~panel[a].confirm

\* What a product's form says is of no interest here.
Content(a, draft) == IF panel[a].tab = "rules" THEN draft ELSE <<>>

OpenNew(a) ==
    /\ Uncovered(a)
    /\ ChangeTab(a, [panel[a] EXCEPT !.form = "create"])

OpenEdit(a) ==
    /\ Uncovered(a)
    /\ ChangeTab(a, [panel[a] EXCEPT !.form = "edit"])

FormClosed(a) == [panel[a] EXCEPT !.form = "closed"]

CloseForm(a) == panel[a].form # "closed" /\ ChangeTab(a, FormClosed(a))

\* What a form may hold: it starts from the row as the list had it, and a person
\* chooses a vertical and a type and types the JSON of a config.
Drafts == [vertical : Verticals, type : RuleTypes, config : Configs \cup {Malformed}, active : {TRUE}]

\* One pending flag for both mutations.
CanSubmit(a) == panel[a].form # "closed" /\ ~Waits(a, "create") /\ ~Waits(a, "update")

\* The form sends only numbers that are numbers and JSON that is an object.
WellFormed(draft) == draft.config # Malformed

SendCall(a, of, patch) ==
    /\ Len(saves) < MaxSaves
    /\ saves' = Append(saves, [by |-> a, tab |-> panel[a].tab, of |-> of, patch |-> patch,
                               at |-> "sent", beside |-> <<>>])
    /\ panel' = [panel EXCEPT ![a].last[of] = Len(saves) + 1]
    /\ UNCHANGED <<rule, patchesCrossed>>

\* The payload of a form is the whole row.
SubmitForm(a, draft) ==
    /\ CanSubmit(a) /\ WellFormed(draft)
    /\ SendCall(a, IF panel[a].form = "create" THEN "create" ELSE "update", Content(a, draft))

AskRemoval(a) ==
    /\ Uncovered(a)
    /\ ChangeTab(a, [panel[a] EXCEPT !.confirm = TRUE])

CancelRemoval(a) ==
    /\ panel[a].confirm
    /\ ChangeTab(a, [panel[a] EXCEPT !.confirm = FALSE])

\* The button is not disabled meanwhile: the call may be made twice.
ConfirmRemoval(a) ==
    /\ panel[a].confirm
    /\ SendCall(a, "remove", [active |-> FALSE])

ImportFile(a) ==
    /\ Uncovered(a) /\ panel[a].tab = "products"
    /\ SendCall(a, "import", <<>>)

\* Another tab: what is under way goes on unheard, and blocks nothing on return.
SwitchTab(a, tab) ==
    /\ panel[a].tab # tab
    /\ ChangeTab(a, EmptyTab(tab))

\* A PATCH with any of the fields, by an admin who does not use the page: no tab
\* hears of it.
Api == "api"
PatchRule(body) ==
    /\ Len(saves) < MaxSaves
    /\ saves' = Append(saves, [by |-> Api, tab |-> "rules", of |-> "update", patch |-> body,
                               at |-> "sent", beside |-> <<>>])
    /\ UNCHANGED <<panel, rule, patchesCrossed>>

-----------------------------------------------------------------------------
(* ----------------------------- the service ----------------------------- *)

Merge(patch, row) == [f \in DOMAIN row |-> IF f \in DOMAIN patch THEN patch[f] ELSE row[f]]

\* What is checked: null for the vertical stands for the one the row has.
Effective(patch, row) ==
    [Merge(patch, row) EXCEPT !.vertical = IF @ = NoVertical THEN row.vertical ELSE @]

\* What is heard, or answered to nobody's tab, is of no further interest.
Over == [by |-> "", tab |-> "", of |-> "", patch |-> <<>>, at |-> "over", beside |-> <<>>]

\* What is decided carries nothing any more.
Decided(i, at) ==
    [saves EXCEPT ![i] = IF @.by = Api THEN Over
                         ELSE [@ EXCEPT !.at = at, !.patch = <<>>, !.tab = "", !.beside = <<>>]]

\* Products, and rules that are created, only meet a check of what they carry.
CheckWhole(i) ==
    /\ saves[i].at = "sent" /\ (saves[i].tab = "products" \/ saves[i].of = "create")
    /\ \E at \in {"done", "refused"} :
          /\ saves[i].tab = "rules" /\ ~ValidConfig(saves[i].patch) => at = "refused"
          /\ saves' = Decided(i, at)
    /\ UNCHANGED <<panel, rule, patchesCrossed>>

OnRule(i) == saves[i].tab = "rules" /\ saves[i].of \in {"update", "remove"}

\* Of the fields that choose and fill the schema, those a patch takes from the row.
Beside(patch, row) == [f \in SchemaFields \ DOMAIN patch |-> row[f]]

\* Mutant: only a patch with a config is checked.
CheckPatchOfConfig(i) ==
    /\ saves[i].at = "sent" /\ OnRule(i)
    /\ saves' = IF "config" \in DOMAIN saves[i].patch => ValidConfig(Effective(saves[i].patch, rule))
                THEN [saves EXCEPT ![i].at = "checked", ![i].beside = Beside(saves[i].patch, rule)]
                ELSE Decided(i, "refused")
    /\ UNCHANGED <<panel, rule, patchesCrossed>>

\* update, and deactivate through it: the patch over the row as it reads now
\* must be valid.
CheckPatch(i) ==
    /\ saves[i].at = "sent" /\ OnRule(i)
    /\ saves' = IF ValidConfig(Effective(saves[i].patch, rule))
                THEN [saves EXCEPT ![i].at = "checked", ![i].beside = Beside(saves[i].patch, rule)]
                ELSE Decided(i, "refused")
    /\ UNCHANGED <<panel, rule, patchesCrossed>>

\* UPDATE sets the fields of the patch; the transaction may also fail.
WritePatch(i) ==
    /\ saves[i].at = "checked"
    /\ \/ LET patch == saves[i].patch
          IN /\ rule' = Merge(patch, rule)
             /\ patchesCrossed' = IF DOMAIN patch \cap SchemaFields = {} THEN patchesCrossed
                                  ELSE Beside(patch, rule) # saves[i].beside
             /\ saves' = Decided(i, "done")
       \/ saves' = Decided(i, "refused") /\ UNCHANGED <<rule, patchesCrossed>>
    /\ UNCHANGED panel

-----------------------------------------------------------------------------
(* ------------------------------ the answers ---------------------------- *)

HearCall(i, change) ==
    LET a == saves[i].by
        m == saves[i].of
    IN /\ saves' = [saves EXCEPT ![i] = Over]
       /\ panel' = IF panel[a].last[m] = i THEN [panel EXCEPT ![a] = [change EXCEPT !.last[m] = 0]]
                   ELSE panel
       /\ UNCHANGED <<rule, patchesCrossed>>

\* The answer to the last call of its kind closes the form that is open, be it
\* another one by now.
HearSaved(i) ==
    /\ saves[i].at = "done" /\ saves[i].of \in {"create", "update"}
    /\ HearCall(i, FormClosed(saves[i].by))

HearRemoved(i) ==
    /\ saves[i].at = "done" /\ saves[i].of = "remove"
    /\ HearCall(i, [panel[saves[i].by] EXCEPT !.confirm = FALSE])

HearImported(i) ==
    /\ saves[i].at = "done" /\ saves[i].of = "import"
    /\ HearCall(i, panel[saves[i].by])

\* The form shows the failure of the last call until there is another call; the
\* dialog shows nothing and stays.
HearRefused(i) == saves[i].at = "refused" /\ HearCall(i, panel[saves[i].by])

AdminNext ==
    \/ \E a \in Admins :
          \/ OpenNew(a) \/ OpenEdit(a) \/ CloseForm(a) \/ ImportFile(a)
          \/ AskRemoval(a) \/ CancelRemoval(a) \/ ConfirmRemoval(a)
          \/ \E draft \in Drafts : SubmitForm(a, draft)
          \/ \E tab \in TabsOf[a] : SwitchTab(a, tab)
    \/ \E body \in PatchBodies : PatchRule(body)
    \/ \E i \in Saves : CheckWhole(i) \/ CheckPatch(i) \/ WritePatch(i)
    \/ \E i \in Saves : HearSaved(i) \/ HearRemoved(i) \/ HearImported(i) \/ HearRefused(i)

-----------------------------------------------------------------------------
(* ------------------------------ properties ----------------------------- *)

\* The pricing engines read a rule with the schema of its vertical and type. A
\* PATCH is checked against a row that another PATCH may change before it is
\* written: a rule of a vertical is stored with a config its schema does not take
\* only by two that cross, the later one carrying some of vertical, type and
\* config, and the earlier one having changed another of them since the later was
\* checked. The next PATCH of those fields that is written over what it was checked
\* against ends it, and forms, which send the whole row, never cross.
RuleStaysValid == ~patchesCrossed => rule.vertical = NoVertical \/ ValidConfig(rule)
=============================================================================
