------------------------------ MODULE MCScreens ------------------------------
(* Instances for TLC of the pages of the web client.                          *)
EXTENDS WebClient

\* What the pages start from

MCTraceNodes == <<"parse", "extract", "match">>
MCRanked == [l1 |-> {1, 3}, l2 |-> {}]
MCSearches == {{}, {3}}
MCTabsOf == ("m1" :> {"rules", "products"})
MCTakes == (<<"avac", "t">> :> {"t1", "t2"}) @@ (<<"avac", "u">> :> {"u1"}) @@ (<<"caix", "t">> :> {"t2"})
MCPatchBodies ==
    {[type |-> "u"], [type |-> "t"], [config |-> "u1"], [config |-> "t2"], [vertical |-> "caix"],
     [vertical |-> NoVertical], [type |-> "u", config |-> "u1"]}

Arg(name, value) == [name |-> name, value |-> value]
Rule(name, left, op, right) ==
    [name |-> name, active |-> TRUE, condition |-> [left |-> left, op |-> op, right |-> right]]

MCPolicyOf ==
    ("pa" :> [autoApproveThreshold |-> 10, maxLineItems |-> 2, restrictedCategories |-> {},
              rules |-> <<Rule("large", Arg("total", 0), ">", Arg("autoApproveThreshold", 0)),
                          Rule("long", Arg("lineItems", 0), ">=", Arg("maxLineItems", 0))>>])
    @@ ("pb" :> [autoApproveThreshold |-> 5, maxLineItems |-> 9, restrictedCategories |-> {"c"},
                 rules |-> <<Rule("small", Arg("total", 0), "<=", Arg("number", 8)),
                             Rule("unknown", Arg("word", 0), "<", Arg("number", 8))>>])
MCPricingOf ==
    ("qa" :> [marginFloor |-> 15, maxDiscount |-> 20,
              quantityBreaks |-> {[minQty |-> 2, maxQty |-> 0, discount |-> 5]}])
    @@ ("qb" :> [marginFloor |-> 10, maxDiscount |-> 0, quantityBreaks |-> {}])
MCRuleOrder ==
    [total |-> 8, lineItems |-> 3, categories |-> {"c"}, quantity |-> 3, margin |-> 12, discount |-> 1]

-----------------------------------------------------------------------------
\* Where a page can start in several states, it does so when it is looked at.
MCScreensInit ==
    /\ ScreensInit
    /\ part = "dialog" \/ desk.kind = "decline"
    /\ part = "admin" \/ rule.config = "t1"
    /\ \/ part = "rules"
       \/ service = "policy" /\ ruleFile["main"].content = "pa" /\ ruleFile["other"].content = "missing"
    /\ part = "ask" \/ askMode = "live"

MCScreensSpec == MCScreensInit /\ [][ScreensNext]_screensVars

\* The others stand as they started, which is the same whatever the one that is
\* followed does: its own variables tell the states apart.
PartView ==
    <<part, CASE part = "trace" -> traceVars
              [] part = "letter" -> clarifyVars
              [] part = "remap" -> remapVars
              [] part = "inbox" -> inboxVars
              [] part = "dialog" -> dialogVars
              [] part = "admin" -> adminVars
              [] part = "org" -> orgVars
              [] part = "rules" -> ruleVars
              [] part = "ask" -> askVars
              [] part = "quote" -> screenVars>>
=============================================================================
