------------------------------ MODULE RuleFiles ------------------------------
(* The policy and pricing rules an operator edits on disk, each behind a      *)
(* service that caches the parsed file by its modification time. Every file   *)
(* access is awaited, so calls interleave between a look at the file and the  *)
(* use of what it said.                                                       *)
EXTENDS Naturals, FiniteSets, Sequences, SequencesExt, FiniteSetsExt

CONSTANTS
    Readers,            \* requests under way
    PolicyOf,           \* content of a valid policy file -> its rules
    PricingOf,          \* content of a valid pricing file -> its rules
    RuleOrder,          \* the order evaluated
    MaxRuleEdits,       \* bound: edits of files
    MaxRuleCalls        \* bound: calls of the service

VARIABLES
    service,            \* the service looked at: "policy" or "pricing"
    ruleFile,           \* path -> [content, mtime]
    ruleCache,          \* cachedConfig, lastMtime and configPath
    loads,              \* the calls under way
    crossed,            \* history: a load of another path came in after a switch
    ruleCalls

ruleVars == <<service, ruleFile, ruleCache, loads, crossed, ruleCalls>>

RulePaths == {"main", "other"}
Valid(content) == IF service = "policy" THEN content \in DOMAIN PolicyOf
                                        ELSE content \in DOMAIN PricingOf
Contents == DOMAIN PolicyOf \union DOMAIN PricingOf \union {"malformed", "missing"}

NoLoad == [at |-> "idle", kind |-> "none", path |-> "main", mtime |-> 0, content |-> "none",
           answer |-> "none", verdict |-> <<>>, seen |-> {}, failed |-> FALSE, switched |-> FALSE]

RuleInit ==
    /\ service \in {"policy", "pricing"}
    /\ ruleFile \in [RulePaths -> [content: Contents, mtime: {1}]]
    /\ Valid(ruleFile["main"].content)
    /\ ruleFile["other"].content = "missing" \/ Valid(ruleFile["other"].content)
    /\ ruleCache = [content |-> "none", mtime |-> 0, path |-> "main"]
    /\ loads = [r \in Readers |-> NoLoad]
    /\ crossed = FALSE /\ ruleCalls = 0

-----------------------------------------------------------------------------
(* --------------------------- evaluating rules -------------------------- *)

\* DEFAULT_RULES of the two services.
PolicyDefaults == [autoApproveThreshold |-> 5000, maxLineItems |-> 100,
                   restrictedCategories |-> {}, rules |-> <<>>]
PricingDefaults ==
    [marginFloor |-> 15, maxDiscount |-> 25,
     quantityBreaks |-> {[minQty |-> 1, maxQty |-> 0, discount |-> 0],
                         [minQty |-> 11, maxQty |-> 50, discount |-> 5],
                         [minQty |-> 51, maxQty |-> 100, discount |-> 10],
                         [minQty |-> 101, maxQty |-> 0, discount |-> 15]}]

\* evaluateCondition: names stand for the order's and the rules' numbers; a
\* condition without an operator or with a word it does not know is false.
Holds(condition, order, rules) ==
    LET number(x) == CASE x.name = "total" -> order.total
                       [] x.name = "lineItems" -> order.lineItems
                       [] x.name = "autoApproveThreshold" -> rules.autoApproveThreshold
                       [] x.name = "maxLineItems" -> rules.maxLineItems
                       [] OTHER -> x.value
        left == number(condition.left)
        right == number(condition.right)
    IN  /\ condition.left.name # "word" /\ condition.right.name # "word"
        /\ \/ condition.op \in {"<=", ">="} /\ left = right
           \/ condition.op \in {"<=", "<"} /\ left < right
           \/ condition.op \in {">=", ">"} /\ left > right

PolicyVerdict(rules, order) ==
    LET tooLong == IF order.lineItems > rules.maxLineItems THEN {"max_line_items"} ELSE {}
        restricted == order.categories \intersect rules.restrictedCategories
        triggers(rule) == rule.active /\ Holds(rule.condition, order, rules)
    IN  [approved |-> tooLong = {} /\ restricted = {},
         autoApprovable |-> order.total <= rules.autoApproveThreshold,
         triggered |-> SelectSeq(rules.rules, triggers)]

\* The breaks raise the discount after the limits were checked.
PriceVerdict(rules, order) ==
    LET breaches == (IF order.margin < rules.marginFloor THEN {"margin_floor"} ELSE {})
                    \union (IF order.discount > rules.maxDiscount THEN {"max_discount"} ELSE {})
        reached == {b \in rules.quantityBreaks : /\ order.quantity >= b.minQty
                                                 /\ b.maxQty = 0 \/ order.quantity <= b.maxQty}
        effective == Max({b.discount : b \in reached} \union {order.discount})
    IN  [approved |-> breaches = {}, discount |-> effective,
         margin |-> order.margin - (effective - order.discount), breaches |-> breaches]

Verdict(content) ==
    IF service = "policy"
    THEN PolicyVerdict(IF content = "defaults" THEN PolicyDefaults ELSE PolicyOf[content], RuleOrder)
    ELSE PriceVerdict(IF content = "defaults" THEN PricingDefaults ELSE PricingOf[content], RuleOrder)

-----------------------------------------------------------------------------
(* ----------------------------- loading files --------------------------- *)

\* A call answers; "get" and "evaluate" with the rules at hand, if need be stale.
AnswerWith(load, content) ==
    [load EXCEPT !.at = "answered", !.answer = content,
                 !.verdict = IF load.kind = "evaluate" THEN <<Verdict(content)>> ELSE <<>>]

\* getRules and evaluate take the configured path; reload may name another.
RuleCall(r, kind, path) ==
    /\ loads[r].at \in {"idle", "answered", "refused"} /\ ruleCalls < MaxRuleCalls
    /\ kind = "reload" \/ path = ruleCache.path
    /\ loads' = [loads EXCEPT ![r] = [NoLoad EXCEPT !.at = "called", !.kind = kind, !.path = path,
                                                    !.seen = {ruleFile[path].content}]]
    /\ ruleCalls' = ruleCalls + 1
    /\ UNCHANGED <<service, ruleFile, ruleCache, crossed>>

\* POST /policy/reload takes no path; POST /pricing/reload takes the caller's,
\* inside the rules directory.
PolicyCall(r) ==
    /\ service = "policy"
    /\ \E kind \in {"get", "evaluate", "reload"} : RuleCall(r, kind, ruleCache.path)

PricingCall(r) ==
    /\ service = "pricing"
    /\ \/ \E kind \in {"get", "evaluate", "reload"} : RuleCall(r, kind, ruleCache.path)
       \/ \E path \in RulePaths : RuleCall(r, "reload", path)

\* A failed read: the cached rules, or the defaults where there are none.
Fallback(r) == AnswerWith([loads[r] EXCEPT !.failed = TRUE],
                      IF ruleCache.content = "none" THEN "defaults" ELSE ruleCache.content)

\* A failed reload is refused; the pricing controller adds the rules in force
\* to the refusal, and asks getRules for them.
Refusal(r) ==
    IF service = "policy" THEN [loads[r] EXCEPT !.at = "refused"]
    ELSE [NoLoad EXCEPT !.at = "called", !.kind = "get", !.path = ruleCache.path,
                        !.seen = {ruleFile[ruleCache.path].content}]

LoadFails(r) == /\ loads' = [loads EXCEPT ![r] = IF loads[r].kind = "reload" THEN Refusal(r) ELSE Fallback(r)]
           /\ UNCHANGED <<service, ruleFile, ruleCache, crossed, ruleCalls>>

StatFile(r) ==
    /\ loads[r].at = "called"
    /\ IF ruleFile[loads[r].path].content = "missing" THEN LoadFails(r)
       ELSE /\ loads' = [loads EXCEPT ![r].at = "looked", ![r].mtime = ruleFile[loads[r].path].mtime]
            /\ UNCHANGED <<service, ruleFile, ruleCache, crossed, ruleCalls>>

\* What the stat said meets the cache as it is by then.
Compare(r) ==
    /\ loads[r].at = "looked"
    /\ LET stale == loads[r].mtime > ruleCache.mtime \/ ruleCache.content = "none"
       IN  loads' = [loads EXCEPT ![r] = IF loads[r].kind = "reload" \/ stale
                                         THEN [loads[r] EXCEPT !.at = "reading"]
                                         ELSE AnswerWith(loads[r], ruleCache.content)]
    /\ UNCHANGED <<service, ruleFile, ruleCache, crossed, ruleCalls>>

ReadFile(r) ==
    /\ loads[r].at = "reading"
    /\ loads' = [loads EXCEPT ![r].at = "read", ![r].content = ruleFile[loads[r].path].content]
    /\ UNCHANGED <<service, ruleFile, ruleCache, crossed, ruleCalls>>

\* Mutant: the cache is stamped with the file's time at the moment of storing.
StampAtInstall(load) == ruleFile[load.path].mtime

\* lastMtime is the time read before the content was.
Stamp(load) == load.mtime

\* Parsing and storing: only a reload moves configPath.
Install(r) ==
    /\ loads[r].at = "read"
    /\ IF ~Valid(loads[r].content) THEN LoadFails(r)
       ELSE LET load == loads[r]
                path == IF load.kind = "reload" THEN load.path ELSE ruleCache.path
                switch == path # ruleCache.path
            IN  /\ ruleCache' = [content |-> load.content, mtime |-> Stamp(load), path |-> path]
                /\ loads' = [q \in Readers |->
                                IF q = r THEN AnswerWith(load, load.content)
                                ELSE [loads[q] EXCEPT !.switched = @ \/ switch]]
                /\ crossed' = (crossed \/ load.path # path)
                /\ UNCHANGED <<service, ruleFile, ruleCalls>>

\* An operator saves a file.
EditFile(path, content) ==
    /\ ruleFile["main"].mtime + ruleFile["other"].mtime < MaxRuleEdits + 2
    /\ content \in {"malformed", "missing"} \/ Valid(content)
    /\ ruleFile' = [ruleFile EXCEPT ![path] = [content |-> content, mtime |-> @.mtime + 1]]
    /\ loads' = [r \in Readers |->
                    IF loads[r].at \in {"called", "looked", "reading", "read"} /\ loads[r].path = path
                    THEN [loads[r] EXCEPT !.seen = @ \union {content}] ELSE loads[r]]
    /\ UNCHANGED <<service, ruleCache, crossed, ruleCalls>>

RuleNext ==
    \/ \E r \in Readers : \/ PolicyCall(r) \/ PricingCall(r)
                          \/ StatFile(r) \/ Compare(r) \/ ReadFile(r) \/ Install(r)
    \/ \E path \in RulePaths, content \in Contents : EditFile(path, content)

-----------------------------------------------------------------------------
(* ----------------------------- properties ------------------------------ *)

\* A call that could read its file answers with rules the file held at some
\* moment of the call, however the other calls and the edits interleave: the
\* cache never passes for newer than what it holds. Left out are calls during
\* which a reload moved the path, and what follows when a load of the old path
\* came in after such a move (policy.service.ts:113, 120-126).
AnswersAsOfCall ==
    \A r \in Readers :
        loads[r].at = "answered" /\ ~loads[r].failed /\ ~loads[r].switched /\ ~crossed
            => loads[r].answer \in loads[r].seen
=============================================================================
