---------------------------- MODULE QuotePromise ----------------------------
(***************************************************************************)
(* What approving and sending quotes promises, without approvers, senders, *)
(* clocks or an e-mail provider: the quote a request carries now, how far  *)
(* it got, and the e-mails the customer received.                          *)
(***************************************************************************)
EXTENDS Naturals

CONSTANT Ids        \* quote ids, 1..n in the order they are created

VARIABLES
    quote,          \* the live quote, 0 when there is none
    stage,          \* "draft" / "approved" / "ready" / "sent"
    made,           \* the last id that was given to a quote
    published,      \* quotes whose PDF was made available for sending
    mailed          \* [Ids -> number of e-mails the customer received]

vars == <<quote, stage, made, published, mailed>>

Init ==
    /\ quote = 0
    /\ stage = "draft"
    /\ made = 0
    /\ published = {}
    /\ mailed = [q \in Ids |-> 0]

\* Pricing puts a fresh draft in the place of whatever was there.
Replace ==
    /\ made + 1 \in Ids
    /\ made' = made + 1
    /\ quote' = made + 1
    /\ stage' = "draft"
    /\ UNCHANGED <<published, mailed>>

Drop ==
    /\ quote' = 0
    /\ stage' = "draft"
    /\ UNCHANGED <<made, published, mailed>>

Approve ==
    /\ quote # 0 /\ stage = "draft"
    /\ stage' = "approved"
    /\ UNCHANGED <<quote, made, published, mailed>>

\* An approval that could not be carried out is taken back.
Withdraw ==
    /\ quote # 0 /\ stage = "approved"
    /\ stage' = "draft"
    /\ UNCHANGED <<quote, made, published, mailed>>

Publish ==
    /\ quote # 0 /\ stage = "approved"
    /\ stage' = "ready"
    /\ published' = published \cup {quote}
    /\ UNCHANGED <<quote, made, mailed>>

\* A published quote reaches the customer at most once, also when it was
\* replaced while the e-mail was on its way.
Mail(q) ==
    /\ q \in published
    /\ mailed[q] = 0
    /\ mailed' = [mailed EXCEPT ![q] = 1]
    /\ UNCHANGED <<quote, stage, made, published>>

Conclude ==
    /\ quote # 0 /\ stage = "ready" /\ mailed[quote] = 1
    /\ stage' = "sent"
    /\ UNCHANGED <<quote, made, published, mailed>>

Next ==
    \/ Replace \/ Drop \/ Approve \/ Withdraw \/ Publish \/ Conclude
    \/ \E q \in Ids : Mail(q)

Spec == Init /\ [][Next]_vars
=============================================================================
