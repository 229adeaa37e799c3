------------------------ MODULE HttpTransactionProofs ------------------------
(***************************************************************************)
(* Proofs about HttpTransaction, for any number of calls, any pool, any    *)
(* number of files and of statements that the database refuses.            *)
(***************************************************************************)
EXTENDS HttpTransaction, SequenceTheorems, TLAPS

\* The calls alone; liveness under HttpFairness is model-checked.
HttpSpec == HttpInit /\ [][HttpNext]_httpVars

(* --------------------------- what a call can be ------------------------ *)

\* Between the listeners and the answer.
Handling ==
    {"handling", "querying", "written", "handled", "streaming",
     "chosen", "pricing", "ruling", "priced"}

\* What can still wait in the client's queue.
RollbackOnce == <<"ROLLBACK">>
CommitFirst == <<"COMMIT", "ROLLBACK">>
RollbackTwice == <<"ROLLBACK", "ROLLBACK">>
Wires == {<<>>, RollbackOnce, CommitFirst, RollbackTwice}
Tasks == {"received", "enqueue"}

CallType ==
    [at : {"idle", "connecting", "starting", "resolving", "refused", "ended"} \cup Handling,
     kind : Kinds, conns : Nat, wire : Wires, tx : {"none", "open", "committed", "undone"},
     answer : {"none", "ok", "error"}, client : {"waiting", "gone", "missed"},
     rows : Nat, stored : Nat, tasks : Seq(Tasks), ran : Seq(Tasks), faults : {0, 1}]

\* The connection of the call itself, from its connect to the end of its
\* transaction.
Kept(call) == IF call.at = "starting" \/ call.tx = "open" THEN 1 ELSE 0

\* A call has the connections of its transaction and of its handler, exactly so
\* unless the database refused a statement, and then those at least.
ConnsInv(call) ==
    /\ call.conns >= Kept(call) + Borrowed(call.at)
    /\ call.faults = 0 => call.conns = Kept(call) + Borrowed(call.at)

\* Until the listeners act, nothing is under way behind the handler: its
\* transaction is open and no statement waits. So the first statement an
\* answer sends is the first the transaction sees. Behind it, or behind a client
\* seen to leave, an open transaction has a statement to end it under way.
QuietInv(call) ==
    /\ call.at \in {"idle", "connecting", "starting"} =>
          call.tx = "none" /\ call.wire = <<>> /\ call.answer = "none"
    /\ call.at = "resolving" => call.tx = "open" /\ call.wire = <<>> /\ call.answer = "none"
    /\ call.at = "refused" => call.wire = RollbackOnce /\ call.tx = "open" /\ call.answer = "none"
    /\ call.at \in Handling => call.answer = "none" /\ call.faults = 0
    /\ call.at \in Handling /\ call.client # "gone" => call.tx = "open" /\ call.wire = <<>>
    /\ call.at # "ended" => call.faults = 0
    /\ call.client = "gone" => call.at \in Handling \cup {"ended"}
    /\ call.client = "gone" => call.answer = "none" /\ call.wire \in {<<>>, RollbackOnce}
    /\ call.tx = "open" /\ (call.at = "ended" \/ call.client = "gone") /\ call.client # "missed" =>
          call.wire # <<>>

\* What an answer of success has led to so far.
AnsweredInv(call) ==
    /\ call.answer = "ok" =>
          \/ call.wire = CommitFirst /\ call.tx = "open" /\ call.faults = 0
          \/ call.wire \in {<<>>, RollbackOnce} /\ call.tx = "committed"
          \/ call.wire \in {<<>>, RollbackOnce} /\ call.faults = 1
    /\ call.wire = CommitFirst => call.answer = "ok"

CommitInv(call) ==
    /\ call.rows <= call.stored
    /\ call.tx = "committed" => call.answer = "ok"
    /\ call.ran # <<>> => call.tx = "committed"

CallInv(call) ==
    call \in CallType /\ ConnsInv(call) /\ QuietInv(call) /\ AnsweredInv(call) /\ CommitInv(call)

HttpInv == http \in [HttpCalls -> CallType] /\ \A c \in HttpCalls : CallInv(http[c])

\* A step concerns one call.
LEMMA OneCallChanges ==
  ASSUME HttpInv, NEW c \in HttpCalls, NEW change, CallInv(change), Call(c, change)
  PROVE  HttpInv'
  BY DEF HttpInv, Call, CallInv

\* The four contents of the queue, statement by statement.
LEMMA WireSteps ==
  /\ \A wire \in Wires \ {<<>>} :
        Tail(wire) \in {<<>>, RollbackOnce} /\ Head(wire) \in {"COMMIT", "ROLLBACK"}
  /\ \A wire \in Wires \ {<<>>} : Tail(wire) \in Wires
  /\ \A wire \in Wires \ {<<>>} : Head(wire) = "COMMIT" <=> wire = CommitFirst
  /\ Tail(CommitFirst) = RollbackOnce /\ Tail(RollbackOnce) = <<>>
  /\ CommitFirst \notin {<<>>, RollbackOnce, RollbackTwice}
  /\ RollbackOnce # <<>> /\ RollbackTwice # <<>>
<1>1. /\ Head(CommitFirst) = "COMMIT"
      /\ Head(RollbackTwice) = "ROLLBACK" /\ Head(RollbackOnce) = "ROLLBACK"
  BY DEF CommitFirst, RollbackTwice, RollbackOnce
<1>2. /\ Tail(CommitFirst) = RollbackOnce /\ Tail(RollbackTwice) = RollbackOnce
      /\ Tail(RollbackOnce) = <<>>
  BY DEF CommitFirst, RollbackTwice, RollbackOnce
<1>3. /\ CommitFirst # <<>> /\ RollbackTwice # <<>> /\ RollbackOnce # <<>>
      /\ CommitFirst # RollbackOnce /\ CommitFirst # RollbackTwice
  BY DEF CommitFirst, RollbackTwice, RollbackOnce
<1>4. QED
  BY <1>1, <1>2, <1>3 DEF Wires

\* Deferred tasks are taken from the front and noted at the back.
LEMMA TaskSteps ==
  /\ <<"received", "enqueue">> \in Seq(Tasks)
  /\ \A tasks \in Seq(Tasks) \ {<<>>} : Head(tasks) \in Tasks /\ Tail(tasks) \in Seq(Tasks)
  /\ \A ran \in Seq(Tasks), task \in Tasks :
        Append(ran, task) \in Seq(Tasks) /\ Append(ran, task) # <<>>
  BY AppendProperties DEF Tasks

\* A handler goes on, taking or returning what it borrows at the new place.
LEMMA HandlerMoves ==
  ASSUME HttpInv, NEW c \in HttpCalls, http[c].at \in Handling, NEW at \in Handling,
         Call(c, [http[c] EXCEPT
                    !.at = at, !.conns = http[c].conns + Borrowed(at) - Borrowed(http[c].at)])
  PROVE  HttpInv'
<1> DEFINE call == http[c]
           n == call.conns + Borrowed(at) - Borrowed(call.at)
           new == [call EXCEPT !.at = at, !.conns = n]
<1>1. CallInv(call) /\ call \in CallType
  BY DEF HttpInv, CallInv
<1>2. /\ new.at = at /\ new.kind = call.kind /\ new.conns = n
      /\ new.wire = call.wire /\ new.tx = call.tx /\ new.answer = call.answer
      /\ new.client = call.client /\ new.rows = call.rows /\ new.stored = call.stored
      /\ new.tasks = call.tasks /\ new.ran = call.ran /\ new.faults = call.faults
  BY <1>1 DEF CallType
<1>3. Kept(new) = Kept(call) /\ Kept(call) \in {0, 1} /\ Borrowed(at) \in 0 .. 2
  BY <1>2 DEF Kept, Handling, Borrowed
<1>4. call.faults = 0 /\ call.conns = Kept(call) + Borrowed(call.at) /\ call.conns \in Nat
  BY <1>1 DEF CallInv, QuietInv, ConnsInv, CallType
<1>5. n = Kept(new) + Borrowed(at) /\ n \in Nat
  BY <1>3, <1>4 DEF Borrowed
<1>6. new \in CallType
  BY <1>1, <1>5 DEF CallType
<1>7. ConnsInv(new)
  BY <1>2, <1>3, <1>5 DEF ConnsInv
<1>8. QuietInv(new)
  BY <1>1, <1>2 DEF CallInv, QuietInv, Handling
<1>9. AnsweredInv(new) /\ CommitInv(new)
  BY <1>1, <1>2 DEF CallInv, AnsweredInv, CommitInv
<1>10. QED
  BY <1>6, <1>7, <1>8, <1>9, OneCallChanges DEF CallInv

\* A handler ends: it returns what it borrowed, and tells a client that is there.
LEMMA HandlerEnds ==
  ASSUME HttpInv, NEW c \in HttpCalls, http[c].at \in Handling, NEW answer \in {"ok", "error"},
         Reply(c, [http[c] EXCEPT !.conns = http[c].conns - Borrowed(http[c].at)], answer)
  PROVE  HttpInv'
<1> DEFINE call == http[c]
           given == [call EXCEPT !.conns = call.conns - Borrowed(call.at)]
<1>1. CallInv(call) /\ call \in CallType
  BY DEF HttpInv, CallInv
<1>2. call.faults = 0 /\ call.conns = Kept(call) + Borrowed(call.at) /\ call.answer = "none"
  BY <1>1 DEF CallInv, QuietInv, ConnsInv
<1>3. /\ Kept(call) = IF call.tx = "open" THEN 1 ELSE 0
      /\ Borrowed(call.at) \in 0 .. 2 /\ Borrowed("ended") = 0
  BY DEF Kept, Handling, Borrowed
<1>4. given.conns = Kept(call) /\ given.conns \in Nat /\ given.client = call.client
  <2>1. given.conns = call.conns - Borrowed(call.at) /\ given.client = call.client
    BY <1>1 DEF CallType
  <2>2. Kept(call) \in {0, 1}
    BY <1>3
  <2>3. QED
    BY <1>2, <1>3, <2>1, <2>2
<1>5. CASE call.client # "waiting"
  <2> DEFINE new == [given EXCEPT !.at = "ended"]
  <2>1. Call(c, new)
    BY <1>4, <1>5 DEF Reply
  <2>2. /\ new.at = "ended" /\ new.kind = call.kind /\ new.conns = Kept(call)
        /\ new.wire = call.wire /\ new.tx = call.tx /\ new.answer = call.answer
        /\ new.client = call.client /\ new.rows = call.rows /\ new.stored = call.stored
        /\ new.tasks = call.tasks /\ new.ran = call.ran /\ new.faults = call.faults
    BY <1>1, <1>4 DEF CallType
  <2>3. new \in CallType
    BY <1>1, <1>4 DEF CallType
  <2>4. ConnsInv(new)
    BY <1>2, <1>3, <2>2 DEF ConnsInv, Kept
  <2>5. QuietInv(new)
    BY <1>1, <1>5, <2>2 DEF CallInv, QuietInv, CallType, Handling
  <2>6. AnsweredInv(new) /\ CommitInv(new)
    BY <1>1, <2>2 DEF CallInv, AnsweredInv, CommitInv
  <2>7. QED
    BY <2>1, <2>3, <2>4, <2>5, <2>6, OneCallChanges DEF CallInv
<1>6. CASE call.client = "waiting"
  <2> DEFINE wire == IF answer = "error" THEN RollbackTwice ELSE CommitFirst
             new == [given EXCEPT !.at = "ended", !.answer = answer, !.wire = wire]
  <2>1. Call(c, new)
    BY <1>4, <1>6 DEF Reply, OnFinish, RollbackTwice, CommitFirst
  <2>2. /\ new.at = "ended" /\ new.kind = call.kind /\ new.conns = Kept(call)
        /\ new.wire = wire /\ new.tx = call.tx /\ new.answer = answer
        /\ new.client = call.client /\ new.rows = call.rows /\ new.stored = call.stored
        /\ new.tasks = call.tasks /\ new.ran = call.ran /\ new.faults = call.faults
    BY <1>1, <1>4 DEF CallType
  <2>3. new \in CallType
    BY <1>1, <1>4 DEF CallType, Wires
  <2>4. ConnsInv(new)
    BY <1>2, <1>3, <2>2 DEF ConnsInv, Kept
  <2>5. call.tx = "open"
    BY <1>1, <1>6 DEF CallInv, QuietInv
  <2>6. QuietInv(new)
    BY <1>2, <1>6, <2>2, WireSteps DEF QuietInv, Handling
  <2>7. AnsweredInv(new) /\ CommitInv(new)
    BY <1>1, <1>2, <2>2, <2>5, WireSteps DEF CallInv, AnsweredInv, CommitInv
  <2>8. QED
    BY <2>1, <2>3, <2>4, <2>6, <2>7, OneCallChanges DEF CallInv
<1>7. QED
  BY <1>5, <1>6

\* No step of the middleware, the handler, the client or the database breaks it.
LEMMA HttpStepInv == HttpInv /\ [HttpNext]_httpVars => HttpInv'
<1> SUFFICES ASSUME HttpInv, [HttpNext]_httpVars PROVE HttpInv'
  OBVIOUS
<1>1. ASSUME NEW c \in HttpCalls, NEW k \in Kinds, Arrive(c, k)
      PROVE  HttpInv'
  <2> DEFINE call == http[c]
  <2>1. CallInv(call) /\ call \in CallType
    BY DEF HttpInv, CallInv
  <2>2. call.at = "idle"
    BY <1>1 DEF Arrive
  <2> DEFINE new == [call EXCEPT !.at = "connecting", !.kind = k]
  <2>3. Call(c, new)
    BY <1>1, <2>1, <2>2 DEF Arrive
  <2>4. /\ new.at = "connecting" /\ new.kind = k /\ new.conns = call.conns
        /\ new.wire = call.wire /\ new.tx = call.tx /\ new.answer = call.answer
        /\ new.client = call.client /\ new.rows = call.rows /\ new.stored = call.stored
        /\ new.tasks = call.tasks /\ new.ran = call.ran /\ new.faults = call.faults
    BY <2>1 DEF CallType
  <2>5. new \in CallType
    BY <2>1, <2>2 DEF CallType, Handling
  <2>6. ConnsInv(new)
    BY <2>1, <2>2, <2>4 DEF CallInv, ConnsInv, Kept, Borrowed, QuietInv, CallType, Handling
  <2>7. QuietInv(new)
    BY <2>1, <2>2, <2>4, WireSteps DEF CallInv, QuietInv, AnsweredInv, Handling
  <2>8. AnsweredInv(new)
    BY <2>1, <2>2, <2>4, WireSteps DEF CallInv, QuietInv, AnsweredInv, CallType, Handling
  <2>9. CommitInv(new)
    BY <2>1, <2>2, <2>4, WireSteps
    DEF CallInv, QuietInv, AnsweredInv, CommitInv, CallType, Handling
  <2>10. QED
    BY <2>3, <2>5, <2>6, <2>7, <2>8, <2>9, OneCallChanges DEF CallInv
<1>2. ASSUME NEW c \in HttpCalls, Connect(c)
      PROVE  HttpInv'
  <2> DEFINE call == http[c]
  <2>1. CallInv(call) /\ call \in CallType
    BY DEF HttpInv, CallInv
  <2>2. call.at = "connecting"
    BY <1>2 DEF Connect
  <2> DEFINE new == [call EXCEPT !.at = "starting", !.conns = 1]
  <2>3. Call(c, new)
    BY <1>2, <2>1, <2>2 DEF Connect
  <2>4. /\ new.at = "starting" /\ new.kind = call.kind /\ new.conns = 1
        /\ new.wire = call.wire /\ new.tx = call.tx /\ new.answer = call.answer
        /\ new.client = call.client /\ new.rows = call.rows /\ new.stored = call.stored
        /\ new.tasks = call.tasks /\ new.ran = call.ran /\ new.faults = call.faults
    BY <2>1 DEF CallType
  <2>5. new \in CallType
    BY <2>1, <2>2 DEF CallType, Handling
  <2>6. ConnsInv(new)
    BY <2>1, <2>2, <2>4 DEF CallInv, ConnsInv, Kept, Borrowed, QuietInv, CallType, Handling
  <2>7. QuietInv(new)
    BY <2>1, <2>2, <2>4, WireSteps DEF CallInv, QuietInv, AnsweredInv, Handling
  <2>8. AnsweredInv(new)
    BY <2>1, <2>2, <2>4, WireSteps DEF CallInv, QuietInv, AnsweredInv, CallType, Handling
  <2>9. CommitInv(new)
    BY <2>1, <2>2, <2>4, WireSteps
    DEF CallInv, QuietInv, AnsweredInv, CommitInv, CallType, Handling
  <2>10. QED
    BY <2>3, <2>5, <2>6, <2>7, <2>8, <2>9, OneCallChanges DEF CallInv
<1>3. ASSUME NEW c \in HttpCalls, StartTransaction(c)
      PROVE  HttpInv'
  <2> DEFINE call == http[c]
  <2>1. CallInv(call) /\ call \in CallType
    BY DEF HttpInv, CallInv
  <2>2. call.at = "starting"
    BY <1>3 DEF StartTransaction
  <2> DEFINE new == [call EXCEPT !.at = "resolving", !.tx = "open"]
  <2>3. Call(c, new)
    BY <1>3, <2>1, <2>2 DEF StartTransaction
  <2>4. /\ new.at = "resolving" /\ new.kind = call.kind /\ new.conns = call.conns
        /\ new.wire = call.wire /\ new.tx = "open" /\ new.answer = call.answer
        /\ new.client = call.client /\ new.rows = call.rows /\ new.stored = call.stored
        /\ new.tasks = call.tasks /\ new.ran = call.ran /\ new.faults = call.faults
    BY <2>1 DEF CallType
  <2>5. new \in CallType
    BY <2>1, <2>2 DEF CallType, Handling
  <2>6. ConnsInv(new)
    BY <2>1, <2>2, <2>4 DEF CallInv, ConnsInv, Kept, Borrowed, QuietInv, CallType, Handling
  <2>7. QuietInv(new)
    BY <2>1, <2>2, <2>4, WireSteps DEF CallInv, QuietInv, AnsweredInv, Handling
  <2>8. AnsweredInv(new)
    BY <2>1, <2>2, <2>4, WireSteps DEF CallInv, QuietInv, AnsweredInv, CallType, Handling
  <2>9. CommitInv(new)
    BY <2>1, <2>2, <2>4, WireSteps
    DEF CallInv, QuietInv, AnsweredInv, CommitInv, CallType, Handling
  <2>10. QED
    BY <2>3, <2>5, <2>6, <2>7, <2>8, <2>9, OneCallChanges DEF CallInv
<1>4. ASSUME NEW c \in HttpCalls, StartFails(c)
      PROVE  HttpInv'
  <2> DEFINE call == http[c]
  <2>1. CallInv(call) /\ call \in CallType
    BY DEF HttpInv, CallInv
  <2>2. call.at = "starting"
    BY <1>4 DEF StartFails
  <2> DEFINE new == [call EXCEPT !.at = "ended", !.answer = "error", !.faults = 1]
  <2>3. Call(c, new)
    BY <1>4, <2>1, <2>2 DEF StartFails
  <2>4. /\ new.at = "ended" /\ new.kind = call.kind /\ new.conns = call.conns
        /\ new.wire = call.wire /\ new.tx = call.tx /\ new.answer = "error"
        /\ new.client = call.client /\ new.rows = call.rows /\ new.stored = call.stored
        /\ new.tasks = call.tasks /\ new.ran = call.ran /\ new.faults = 1
    BY <2>1 DEF CallType
  <2>5. new \in CallType
    BY <2>1, <2>2 DEF CallType, Handling
  <2>6. ConnsInv(new)
    BY <2>1, <2>2, <2>4 DEF CallInv, ConnsInv, Kept, Borrowed, QuietInv, CallType, Handling
  <2>7. QuietInv(new)
    BY <2>1, <2>2, <2>4, WireSteps DEF CallInv, QuietInv, AnsweredInv, Handling
  <2>8. AnsweredInv(new)
    BY <2>1, <2>2, <2>4, WireSteps DEF CallInv, QuietInv, AnsweredInv, CallType, Handling
  <2>9. CommitInv(new)
    BY <2>1, <2>2, <2>4, WireSteps
    DEF CallInv, QuietInv, AnsweredInv, CommitInv, CallType, Handling
  <2>10. QED
    BY <2>3, <2>5, <2>6, <2>7, <2>8, <2>9, OneCallChanges DEF CallInv
<1>5. ASSUME NEW c \in HttpCalls, ResolveOrg(c)
      PROVE  HttpInv'
  <2> DEFINE call == http[c]
  <2>1. CallInv(call) /\ call \in CallType
    BY DEF HttpInv, CallInv
  <2>2. call.at = "resolving"
    BY <1>5 DEF ResolveOrg
  <2> DEFINE new == [call EXCEPT !.at = "handling"]
  <2>3. Call(c, new)
    BY <1>5, <2>1, <2>2 DEF ResolveOrg
  <2>4. /\ new.at = "handling" /\ new.kind = call.kind /\ new.conns = call.conns
        /\ new.wire = call.wire /\ new.tx = call.tx /\ new.answer = call.answer
        /\ new.client = call.client /\ new.rows = call.rows /\ new.stored = call.stored
        /\ new.tasks = call.tasks /\ new.ran = call.ran /\ new.faults = call.faults
    BY <2>1 DEF CallType
  <2>5. new \in CallType
    BY <2>1, <2>2 DEF CallType, Handling
  <2>6. ConnsInv(new)
    BY <2>1, <2>2, <2>4 DEF CallInv, ConnsInv, Kept, Borrowed, QuietInv, CallType, Handling
  <2>7. QuietInv(new)
    BY <2>1, <2>2, <2>4, WireSteps DEF CallInv, QuietInv, AnsweredInv, Handling
  <2>8. AnsweredInv(new)
    BY <2>1, <2>2, <2>4, WireSteps DEF CallInv, QuietInv, AnsweredInv, CallType, Handling
  <2>9. CommitInv(new)
    BY <2>1, <2>2, <2>4, WireSteps
    DEF CallInv, QuietInv, AnsweredInv, CommitInv, CallType, Handling
  <2>10. QED
    BY <2>3, <2>5, <2>6, <2>7, <2>8, <2>9, OneCallChanges DEF CallInv
<1>6. ASSUME NEW c \in HttpCalls, RefuseContext(c)
      PROVE  HttpInv'
  <2> DEFINE call == http[c]
  <2>1. CallInv(call) /\ call \in CallType
    BY DEF HttpInv, CallInv
  <2>2. call.at = "resolving"
    BY <1>6 DEF RefuseContext
  <2> DEFINE new == [call EXCEPT !.at = "refused", !.wire = RollbackOnce]
  <2>3. Call(c, new)
    BY <1>6, <2>1, <2>2 DEF RefuseContext, RollbackOnce
  <2>4. /\ new.at = "refused" /\ new.kind = call.kind /\ new.conns = call.conns
        /\ new.wire = RollbackOnce /\ new.tx = call.tx /\ new.answer = call.answer
        /\ new.client = call.client /\ new.rows = call.rows /\ new.stored = call.stored
        /\ new.tasks = call.tasks /\ new.ran = call.ran /\ new.faults = call.faults
    BY <2>1 DEF CallType
  <2>5. new \in CallType
    BY <2>1, <2>2, WireSteps DEF CallType, Wires, Handling
  <2>6. ConnsInv(new)
    BY <2>1, <2>2, <2>4, WireSteps DEF CallInv, ConnsInv, Kept, Borrowed, QuietInv, CallType, Handling
  <2>7. QuietInv(new)
    BY <2>1, <2>2, <2>4 DEF CallInv, QuietInv, AnsweredInv, Handling
  <2>8. AnsweredInv(new)
    BY <2>1, <2>2, <2>4, WireSteps DEF CallInv, QuietInv, AnsweredInv, CallType, Handling
  <2>9. CommitInv(new)
    BY <2>1, <2>2, <2>4, WireSteps
    DEF CallInv, QuietInv, AnsweredInv, CommitInv, CallType, Handling
  <2>10. QED
    BY <2>3, <2>5, <2>6, <2>7, <2>8, <2>9, OneCallChanges DEF CallInv
<1>7. ASSUME NEW c \in HttpCalls, Leave(c)
      PROVE  HttpInv'
  <2> DEFINE call == http[c]
  <2>1. CallInv(call) /\ call \in CallType
    BY DEF HttpInv, CallInv
  <2>2. call.client = "waiting" /\ call.at \in Handling
    BY <1>7 DEF Leave, Handling
  <2>3. CASE call.at = "streaming"
    <3> DEFINE new == [call EXCEPT !.client = "gone", !.wire = RollbackOnce, !.at = "ended"]
    <3>1. Call(c, new)
      BY <1>7, <2>1, <2>2, <2>3 DEF Leave, RollbackOnce
    <3>2. /\ new.at = "ended" /\ new.kind = call.kind /\ new.conns = call.conns
          /\ new.wire = RollbackOnce /\ new.tx = call.tx /\ new.answer = call.answer
          /\ new.client = "gone" /\ new.rows = call.rows /\ new.stored = call.stored
          /\ new.tasks = call.tasks /\ new.ran = call.ran /\ new.faults = call.faults
      BY <2>1 DEF CallType
    <3>3. new \in CallType
      BY <2>1, <2>2, <2>3, WireSteps DEF CallType, Wires, Handling
    <3>4. ConnsInv(new)
      BY <2>1, <2>2, <2>3, <3>2, WireSteps DEF CallInv, ConnsInv, Kept, Borrowed, QuietInv, CallType, Handling
    <3>5. QuietInv(new)
      BY <2>1, <2>2, <2>3, <3>2, WireSteps DEF CallInv, QuietInv, AnsweredInv, Handling
    <3>6. AnsweredInv(new)
      BY <2>1, <2>2, <2>3, <3>2, WireSteps
      DEF CallInv, QuietInv, AnsweredInv, CallType, Handling
    <3>7. CommitInv(new)
      BY <2>1, <2>2, <2>3, <3>2, WireSteps
      DEF CallInv, QuietInv, AnsweredInv, CommitInv, CallType, Handling
    <3>8. QED
      BY <3>1, <3>3, <3>4, <3>5, <3>6, <3>7, OneCallChanges DEF CallInv
  <2>4. CASE call.at # "streaming"
    <3> DEFINE new == [call EXCEPT !.client = "gone", !.wire = RollbackOnce]
    <3>1. Call(c, new)
      BY <1>7, <2>1, <2>2, <2>4 DEF Leave, RollbackOnce
    <3>2. /\ new.at = call.at /\ new.kind = call.kind /\ new.conns = call.conns
          /\ new.wire = RollbackOnce /\ new.tx = call.tx /\ new.answer = call.answer
          /\ new.client = "gone" /\ new.rows = call.rows /\ new.stored = call.stored
          /\ new.tasks = call.tasks /\ new.ran = call.ran /\ new.faults = call.faults
      BY <2>1 DEF CallType
    <3>3. new \in CallType
      BY <2>1, <2>2, <2>4, WireSteps DEF CallType, Wires
    <3>4. ConnsInv(new)
      BY <2>1, <2>2, <2>4, <3>2, WireSteps DEF CallInv, ConnsInv, Kept, Borrowed, QuietInv, CallType, Handling
    <3>5. QuietInv(new)
      BY <2>1, <2>2, <2>4, <3>2, WireSteps DEF CallInv, QuietInv, AnsweredInv, Handling
    <3>6. AnsweredInv(new)
      BY <2>1, <2>2, <2>4, <3>2, WireSteps
      DEF CallInv, QuietInv, AnsweredInv, CallType, Handling
    <3>7. CommitInv(new)
      BY <2>1, <2>2, <2>4, <3>2, WireSteps
      DEF CallInv, QuietInv, AnsweredInv, CommitInv, CallType, Handling
    <3>8. QED
      BY <3>1, <3>3, <3>4, <3>5, <3>6, <3>7, OneCallChanges DEF CallInv
  <2>5. QED
    BY <2>2, <2>3, <2>4
<1>8. ASSUME NEW c \in HttpCalls, LeaveEarly(c)
      PROVE  HttpInv'
  <2> DEFINE call == http[c]
  <2>1. CallInv(call) /\ call \in CallType
    BY DEF HttpInv, CallInv
  <2>2. call.client = "waiting" /\ call.at \in {"connecting", "starting", "resolving"}
    BY <1>8 DEF LeaveEarly
  <2> DEFINE new == [call EXCEPT !.client = "missed"]
  <2>3. Call(c, new)
    BY <1>8, <2>1, <2>2 DEF LeaveEarly
  <2>4. /\ new.at = call.at /\ new.kind = call.kind /\ new.conns = call.conns
        /\ new.wire = call.wire /\ new.tx = call.tx /\ new.answer = call.answer
        /\ new.client = "missed" /\ new.rows = call.rows /\ new.stored = call.stored
        /\ new.tasks = call.tasks /\ new.ran = call.ran /\ new.faults = call.faults
    BY <2>1 DEF CallType
  <2>5. new \in CallType
    BY <2>1, <2>2 DEF CallType
  <2>6. ConnsInv(new)
    BY <2>1, <2>2, <2>4 DEF CallInv, ConnsInv, Kept, Borrowed, QuietInv, CallType, Handling
  <2>7. QuietInv(new)
    BY <2>1, <2>2, <2>4, WireSteps DEF CallInv, QuietInv, AnsweredInv, Handling
  <2>8. AnsweredInv(new)
    BY <2>1, <2>2, <2>4, WireSteps DEF CallInv, QuietInv, AnsweredInv, CallType, Handling
  <2>9. CommitInv(new)
    BY <2>1, <2>2, <2>4, WireSteps
    DEF CallInv, QuietInv, AnsweredInv, CommitInv, CallType, Handling
  <2>10. QED
    BY <2>3, <2>5, <2>6, <2>7, <2>8, <2>9, OneCallChanges DEF CallInv
<1>9. ASSUME NEW c \in HttpCalls, Execute(c)
      PROVE  HttpInv'
  <2> DEFINE call == http[c]
  <2>1. CallInv(call) /\ call \in CallType
    BY DEF HttpInv, CallInv
  <2>2. call.wire # <<>>
    BY <1>9 DEF Execute
  <2>3. CASE call.at = "refused"
    <3> DEFINE new == [call EXCEPT !.wire = <<>>, !.tx = "undone", !.conns = call.conns - 1,
                                   !.at = "ended", !.answer = "error"]
    <3>1. /\ call.wire = RollbackOnce /\ call.tx = "open" /\ Tail(call.wire) = <<>>
         /\ Head(call.wire) # "COMMIT"
      BY <2>1, <2>2, <2>3, WireSteps DEF CallInv, QuietInv, CallType
    <3>2. Call(c, new)
      BY <1>9, <2>1, <2>2, <2>3, <3>1 DEF Execute, TxAfter
    <3>3. /\ new.at = "ended" /\ new.kind = call.kind /\ new.conns = call.conns - 1
          /\ new.wire = <<>> /\ new.tx = "undone" /\ new.answer = "error"
          /\ new.client = call.client /\ new.rows = call.rows /\ new.stored = call.stored
          /\ new.tasks = call.tasks /\ new.ran = call.ran /\ new.faults = call.faults
      BY <2>1 DEF CallType
    <3>4. call.conns - 1 \in Nat
      BY <2>1, <2>2, <2>3, <3>1 DEF CallInv, CallType, ConnsInv, Kept, Borrowed
    <3>5. new \in CallType
      BY <2>1, <2>2, <2>3, <3>1, <3>4, WireSteps DEF CallType, Wires, Handling
    <3>6. ConnsInv(new)
      BY <2>1, <2>2, <2>3, <3>1, <3>3, WireSteps
      DEF CallInv, ConnsInv, Kept, Borrowed, QuietInv, CallType, Handling
    <3>7. QuietInv(new)
      BY <2>1, <2>2, <2>3, <3>1, <3>3 DEF CallInv, QuietInv, AnsweredInv, Handling
    <3>8. AnsweredInv(new)
      BY <2>1, <2>2, <2>3, <3>1, <3>3, WireSteps
      DEF CallInv, QuietInv, AnsweredInv, CallType, Handling
    <3>9. CommitInv(new)
      BY <2>1, <2>2, <2>3, <3>1, <3>3, WireSteps
      DEF CallInv, QuietInv, AnsweredInv, CommitInv, CallType, Handling
    <3>10. QED
      BY <3>2, <3>4, <3>5, <3>6, <3>7, <3>8, <3>9, OneCallChanges DEF CallInv
  <2>4. CASE call.at # "refused" /\ call.tx = "open" /\ Head(call.wire) = "COMMIT"
    <3> DEFINE new == [call EXCEPT !.wire = Tail(call.wire), !.tx = "committed", !.conns =
                                   call.conns - 1]
    <3>1. Call(c, new)
      BY <1>9, <2>1, <2>2, <2>4 DEF Execute, TxAfter
    <3>2. /\ new.at = call.at /\ new.kind = call.kind /\ new.conns = call.conns - 1
          /\ new.wire = Tail(call.wire) /\ new.tx = "committed" /\ new.answer = call.answer
          /\ new.client = call.client /\ new.rows = call.rows /\ new.stored = call.stored
          /\ new.tasks = call.tasks /\ new.ran = call.ran /\ new.faults = call.faults
      BY <2>1 DEF CallType
    <3>3. call.conns - 1 \in Nat
      BY <2>1, <2>2, <2>4 DEF CallInv, CallType, ConnsInv, Kept, Borrowed
    <3>4. new \in CallType
      BY <2>1, <2>2, <2>4, <3>3, WireSteps DEF CallType
    <3>5. ConnsInv(new)
      BY <2>1, <2>2, <2>4, <3>2, WireSteps DEF CallInv, ConnsInv, Kept, Borrowed, QuietInv, CallType, Handling
    <3>6. QuietInv(new)
      BY <2>1, <2>2, <2>4, <3>2, WireSteps DEF CallInv, QuietInv, AnsweredInv, Handling
    <3>7. AnsweredInv(new)
      BY <2>1, <2>2, <2>4, <3>2, WireSteps
      DEF CallInv, QuietInv, AnsweredInv, CallType, Handling
    <3>8. CommitInv(new)
      BY <2>1, <2>2, <2>4, <3>2, WireSteps
      DEF CallInv, QuietInv, AnsweredInv, CommitInv, CallType, Handling
    <3>9. QED
      BY <3>1, <3>3, <3>4, <3>5, <3>6, <3>7, <3>8, OneCallChanges DEF CallInv
  <2>5. CASE call.at # "refused" /\ call.tx = "open" /\ Head(call.wire) # "COMMIT"
    <3> DEFINE new == [call EXCEPT !.wire = Tail(call.wire), !.tx = "undone", !.conns =
                                   call.conns - 1]
    <3>1. Call(c, new)
      BY <1>9, <2>1, <2>2, <2>5 DEF Execute, TxAfter
    <3>2. /\ new.at = call.at /\ new.kind = call.kind /\ new.conns = call.conns - 1
          /\ new.wire = Tail(call.wire) /\ new.tx = "undone" /\ new.answer = call.answer
          /\ new.client = call.client /\ new.rows = call.rows /\ new.stored = call.stored
          /\ new.tasks = call.tasks /\ new.ran = call.ran /\ new.faults = call.faults
      BY <2>1 DEF CallType
    <3>3. call.conns - 1 \in Nat
      BY <2>1, <2>2, <2>5 DEF CallInv, CallType, ConnsInv, Kept, Borrowed
    <3>4. new \in CallType
      BY <2>1, <2>2, <2>5, <3>3, WireSteps DEF CallType
    <3>5. ConnsInv(new)
      BY <2>1, <2>2, <2>5, <3>2, WireSteps DEF CallInv, ConnsInv, Kept, Borrowed, QuietInv, CallType, Handling
    <3>6. QuietInv(new)
      BY <2>1, <2>2, <2>5, <3>2, WireSteps DEF CallInv, QuietInv, AnsweredInv, Handling
    <3>7. AnsweredInv(new)
      BY <2>1, <2>2, <2>5, <3>2, WireSteps
      DEF CallInv, QuietInv, AnsweredInv, CallType, Handling
    <3>8. CommitInv(new)
      BY <2>1, <2>2, <2>5, <3>2, WireSteps
      DEF CallInv, QuietInv, AnsweredInv, CommitInv, CallType, Handling
    <3>9. QED
      BY <3>1, <3>3, <3>4, <3>5, <3>6, <3>7, <3>8, OneCallChanges DEF CallInv
  <2>6. CASE call.at # "refused" /\ call.tx # "open"
    <3> DEFINE new == [call EXCEPT !.wire = Tail(call.wire)]
    <3>1. Call(c, new)
      BY <1>9, <2>1, <2>2, <2>6 DEF Execute, TxAfter
    <3>2. /\ new.at = call.at /\ new.kind = call.kind /\ new.conns = call.conns
          /\ new.wire = Tail(call.wire) /\ new.tx = call.tx /\ new.answer = call.answer
          /\ new.client = call.client /\ new.rows = call.rows /\ new.stored = call.stored
          /\ new.tasks = call.tasks /\ new.ran = call.ran /\ new.faults = call.faults
      BY <2>1 DEF CallType
    <3>3. new \in CallType
      BY <2>1, <2>2, <2>6, WireSteps DEF CallType
    <3>4. ConnsInv(new)
      BY <2>1, <2>2, <2>6, <3>2, WireSteps DEF CallInv, ConnsInv, Kept, Borrowed, QuietInv, CallType, Handling
    <3>5. QuietInv(new)
      BY <2>1, <2>2, <2>6, <3>2, WireSteps DEF CallInv, QuietInv, AnsweredInv, Handling
    <3>6. AnsweredInv(new)
      BY <2>1, <2>2, <2>6, <3>2, WireSteps
      DEF CallInv, QuietInv, AnsweredInv, CallType, Handling
    <3>7. CommitInv(new)
      BY <2>1, <2>2, <2>6, <3>2, WireSteps
      DEF CallInv, QuietInv, AnsweredInv, CommitInv, CallType, Handling
    <3>8. QED
      BY <3>1, <3>3, <3>4, <3>5, <3>6, <3>7, OneCallChanges DEF CallInv
  <2>7. QED
    BY <2>2, <2>3, <2>4, <2>5, <2>6
<1>10. ASSUME NEW c \in HttpCalls, NEW lost \in BOOLEAN, CommitFails(c, lost)
      PROVE  HttpInv'
  <2> DEFINE call == http[c]
  <2>1. CallInv(call) /\ call \in CallType
    BY DEF HttpInv, CallInv
  <2>2. call.wire # <<>> /\ Head(call.wire) = "COMMIT" /\ call.tx = "open"
    BY <1>10 DEF CommitFails
  <2>3. CASE lost
    <3> DEFINE new == [call EXCEPT !.faults = 1, !.wire = <<>>, !.tx = "undone"]
    <3>1. Call(c, new)
      BY <1>10, <2>1, <2>2, <2>3 DEF CommitFails
    <3>2. /\ new.at = call.at /\ new.kind = call.kind /\ new.conns = call.conns
          /\ new.wire = <<>> /\ new.tx = "undone" /\ new.answer = call.answer
          /\ new.client = call.client /\ new.rows = call.rows /\ new.stored = call.stored
          /\ new.tasks = call.tasks /\ new.ran = call.ran /\ new.faults = 1
      BY <2>1 DEF CallType
    <3>3. new \in CallType
      BY <2>1, <2>2, <2>3, WireSteps DEF CallType, Wires
    <3>4. ConnsInv(new)
      BY <2>1, <2>2, <2>3, <3>2, WireSteps DEF CallInv, ConnsInv, Kept, Borrowed, QuietInv, CallType, Handling
    <3>5. QuietInv(new)
      BY <2>1, <2>2, <2>3, <3>2, WireSteps
      DEF CallInv, QuietInv, AnsweredInv, CallType, Handling
    <3>6. AnsweredInv(new)
      BY <2>1, <2>2, <2>3, <3>2, WireSteps
      DEF CallInv, QuietInv, AnsweredInv, CallType, Handling
    <3>7. CommitInv(new)
      BY <2>1, <2>2, <2>3, <3>2, WireSteps
      DEF CallInv, QuietInv, AnsweredInv, CommitInv, CallType, Handling
    <3>8. QED
      BY <3>1, <3>3, <3>4, <3>5, <3>6, <3>7, OneCallChanges DEF CallInv
  <2>4. CASE ~lost
    <3> DEFINE new == [call EXCEPT !.faults = 1, !.wire = Tail(call.wire)]
    <3>1. Call(c, new)
      BY <1>10, <2>1, <2>2, <2>4 DEF CommitFails
    <3>2. /\ new.at = call.at /\ new.kind = call.kind /\ new.conns = call.conns
          /\ new.wire = Tail(call.wire) /\ new.tx = call.tx /\ new.answer = call.answer
          /\ new.client = call.client /\ new.rows = call.rows /\ new.stored = call.stored
          /\ new.tasks = call.tasks /\ new.ran = call.ran /\ new.faults = 1
      BY <2>1 DEF CallType
    <3>3. new \in CallType
      BY <2>1, <2>2, <2>4, WireSteps DEF CallType
    <3>4. ConnsInv(new)
      BY <2>1, <2>2, <2>4, <3>2, WireSteps DEF CallInv, ConnsInv, Kept, Borrowed, QuietInv, CallType, Handling
    <3>5. QuietInv(new)
      BY <2>1, <2>2, <2>4, <3>2, WireSteps
      DEF CallInv, QuietInv, AnsweredInv, CallType, Handling
    <3>6. AnsweredInv(new)
      BY <2>1, <2>2, <2>4, <3>2, WireSteps
      DEF CallInv, QuietInv, AnsweredInv, CallType, Handling
    <3>7. CommitInv(new)
      BY <2>1, <2>2, <2>4, <3>2, WireSteps
      DEF CallInv, QuietInv, AnsweredInv, CommitInv, CallType, Handling
    <3>8. QED
      BY <3>1, <3>3, <3>4, <3>5, <3>6, <3>7, OneCallChanges DEF CallInv
  <2>5. QED
    BY <2>2, <2>3, <2>4
<1>11. ASSUME NEW c \in HttpCalls, RunTask(c)
      PROVE  HttpInv'
  <2> DEFINE call == http[c]
  <2>1. CallInv(call) /\ call \in CallType
    BY DEF HttpInv, CallInv
  <2>2. call.tx = "committed" /\ call.tasks # <<>>
    BY <1>11 DEF RunTask
  <2> DEFINE new == [call EXCEPT !.tasks = Tail(call.tasks), !.ran = Append(call.ran,
                                 Head(call.tasks))]
  <2>3. Call(c, new)
    BY <1>11, <2>1, <2>2 DEF RunTask
  <2>4. /\ new.at = call.at /\ new.kind = call.kind /\ new.conns = call.conns
        /\ new.wire = call.wire /\ new.tx = call.tx /\ new.answer = call.answer
        /\ new.client = call.client /\ new.rows = call.rows /\ new.stored = call.stored
        /\ new.tasks = Tail(call.tasks) /\ new.ran = Append(call.ran, Head(call.tasks)) /\ new.faults = call.faults
    BY <2>1 DEF CallType
  <2>5. Tail(call.tasks) \in Seq(Tasks) /\ Append(call.ran, Head(call.tasks)) \in Seq(Tasks)
    BY <2>1, <2>2, TaskSteps DEF CallInv, CallType, ConnsInv, Kept, Borrowed
  <2>6. new \in CallType
    BY <2>1, <2>2, <2>5 DEF CallType
  <2>7. ConnsInv(new)
    BY <2>1, <2>2, <2>4 DEF CallInv, ConnsInv, Kept, Borrowed, QuietInv, CallType, Handling
  <2>8. QuietInv(new)
    BY <2>1, <2>2, <2>4, WireSteps DEF CallInv, QuietInv, AnsweredInv, Handling
  <2>9. AnsweredInv(new)
    BY <2>1, <2>2, <2>4, WireSteps DEF CallInv, QuietInv, AnsweredInv, CallType, Handling
  <2>10. CommitInv(new)
    BY <2>1, <2>2, <2>4, WireSteps, <2>5, TaskSteps
    DEF CallInv, QuietInv, AnsweredInv, CommitInv, CallType, Handling
  <2>11. QED
    BY <2>3, <2>5, <2>6, <2>7, <2>8, <2>9, <2>10, OneCallChanges DEF CallInv
<1>12. ASSUME NEW c \in HttpCalls, Throw(c)
      PROVE  HttpInv'
  <2>1. http[c].at \in {"handling", "querying", "written", "chosen", "pricing", "ruling", "priced"} /\ http[c].conns \in Nat /\ http[c] \in CallType
    BY <1>12 DEF Throw, HttpInv, CallType
  <2>2. http[c].at \in Handling
    BY <2>1 DEF Handling, Borrowed, CallType
  <2>3. Reply(c, [http[c] EXCEPT !.conns = http[c].conns - Borrowed(http[c].at)], "error")
    BY <1>12, <2>1, <2>2 DEF Throw
  <2>4. QED
    BY <2>2, <2>3, HandlerEnds
<1>13. ASSUME NEW c \in HttpCalls, Borrow(c)
      PROVE  HttpInv'
  <2>1. http[c].at = "handling" /\ http[c].conns \in Nat /\ http[c] \in CallType
    BY <1>13 DEF Borrow, HttpInv, CallType
  <2>2. http[c].conns + 1 = http[c].conns + Borrowed("querying") - Borrowed(http[c].at)
    BY <2>1 DEF Borrowed
  <2>3. Call(c, [http[c] EXCEPT !.at = "querying", !.conns = http[c].conns + 1])
    BY <1>13, <2>1 DEF Borrow, CallType
  <2>4. QED
    BY <2>1, <2>2, <2>3, HandlerMoves DEF Handling
<1>14. ASSUME NEW c \in HttpCalls, ReadRequests(c)
      PROVE  HttpInv'
  <2>1. http[c].at = "querying" /\ http[c].conns \in Nat /\ http[c] \in CallType
    BY <1>14 DEF ReadRequests, HttpInv, CallType
  <2>2. http[c].conns - 1 = http[c].conns + Borrowed("handled") - Borrowed(http[c].at)
    BY <2>1 DEF Borrowed
  <2>3. Call(c, [http[c] EXCEPT !.at = "handled", !.conns = http[c].conns - 1])
    BY <1>14, <2>1 DEF ReadRequests, Handled, CallType
  <2>4. QED
    BY <2>1, <2>2, <2>3, HandlerMoves DEF Handling
<1>15. ASSUME NEW c \in HttpCalls, ActOnRequest(c)
      PROVE  HttpInv'
  <2>1. http[c].at = "querying" /\ http[c].conns \in Nat
    BY <1>15 DEF ActOnRequest, HttpInv, CallType
  <2>2. PICK at \in {"written", "chosen"} :
            Call(c, [http[c] EXCEPT !.at = at, !.conns = http[c].conns - 1])
    BY <1>15 DEF ActOnRequest, Handled
  <2>3. http[c].conns - 1 = http[c].conns + Borrowed(at) - Borrowed(http[c].at)
    BY <2>1, <2>2 DEF Borrowed
  <2>4. QED
    BY <2>1, <2>2, <2>3, HandlerMoves DEF Handling
<1>16. ASSUME NEW c \in HttpCalls, WriteOwn(c)
      PROVE  HttpInv'
  <2>1. http[c].at = "written" /\ http[c].conns \in Nat /\ http[c] \in CallType
    BY <1>16 DEF WriteOwn, HttpInv, CallType
  <2>2. http[c].conns = http[c].conns + Borrowed("handled") - Borrowed(http[c].at)
    BY <2>1 DEF Borrowed
  <2>3. Call(c, [http[c] EXCEPT !.at = "handled", !.conns = http[c].conns])
    BY <1>16, <2>1 DEF WriteOwn, CallType
  <2>4. QED
    BY <2>1, <2>2, <2>3, HandlerMoves DEF Handling
<1>17. ASSUME NEW c \in HttpCalls, Subscribe(c)
      PROVE  HttpInv'
  <2>1. http[c].at = "querying" /\ http[c].conns \in Nat /\ http[c] \in CallType
    BY <1>17 DEF Subscribe, HttpInv, CallType
  <2>2. http[c].conns - 1 = http[c].conns + Borrowed("streaming") - Borrowed(http[c].at)
    BY <2>1 DEF Borrowed
  <2>3. Call(c, [http[c] EXCEPT !.at = "streaming", !.conns = http[c].conns - 1])
    BY <1>17, <2>1 DEF Subscribe, Handled, CallType
  <2>4. QED
    BY <2>1, <2>2, <2>3, HandlerMoves DEF Handling
<1>18. ASSUME NEW c \in HttpCalls, StoreFile(c)
      PROVE  HttpInv'
  <2> DEFINE call == http[c]
  <2>1. CallInv(call) /\ call \in CallType
    BY DEF HttpInv, CallInv
  <2>2. call.at = "handling" /\ call.tx = "open" /\ call.stored = call.rows
    BY <1>18 DEF StoreFile
  <2> DEFINE new == [call EXCEPT !.stored = call.stored + 1]
  <2>3. Call(c, new)
    BY <1>18, <2>1, <2>2 DEF StoreFile
  <2>4. /\ new.at = call.at /\ new.kind = call.kind /\ new.conns = call.conns
        /\ new.wire = call.wire /\ new.tx = call.tx /\ new.answer = call.answer
        /\ new.client = call.client /\ new.rows = call.rows /\ new.stored = call.stored + 1
        /\ new.tasks = call.tasks /\ new.ran = call.ran /\ new.faults = call.faults
    BY <2>1 DEF CallType
  <2>5. call.stored + 1 \in Nat
    BY <2>1, <2>2 DEF CallInv, CallType, ConnsInv, Kept, Borrowed
  <2>6. new \in CallType
    BY <2>1, <2>2, <2>5 DEF CallType
  <2>7. ConnsInv(new)
    BY <2>1, <2>2, <2>4 DEF CallInv, ConnsInv, Kept, Borrowed, QuietInv, CallType, Handling
  <2>8. QuietInv(new)
    BY <2>1, <2>2, <2>4, WireSteps DEF CallInv, QuietInv, AnsweredInv, Handling
  <2>9. AnsweredInv(new)
    BY <2>1, <2>2, <2>4, WireSteps DEF CallInv, QuietInv, AnsweredInv, CallType, Handling
  <2>10. CommitInv(new)
    BY <2>1, <2>2, <2>4, WireSteps
    DEF CallInv, QuietInv, AnsweredInv, CommitInv, CallType, Handling
  <2>11. QED
    BY <2>3, <2>5, <2>6, <2>7, <2>8, <2>9, <2>10, OneCallChanges DEF CallInv
<1>19. ASSUME NEW c \in HttpCalls, CreateAttachment(c)
      PROVE  HttpInv'
  <2> DEFINE call == http[c]
  <2>1. CallInv(call) /\ call \in CallType
    BY DEF HttpInv, CallInv
  <2>2. call.at = "handling" /\ call.tx = "open" /\ call.rows < call.stored
    BY <1>19 DEF CreateAttachment
  <2> DEFINE new == [call EXCEPT !.rows = call.rows + 1]
  <2>3. Call(c, new)
    BY <1>19, <2>1, <2>2 DEF CreateAttachment
  <2>4. /\ new.at = call.at /\ new.kind = call.kind /\ new.conns = call.conns
        /\ new.wire = call.wire /\ new.tx = call.tx /\ new.answer = call.answer
        /\ new.client = call.client /\ new.rows = call.rows + 1 /\ new.stored = call.stored
        /\ new.tasks = call.tasks /\ new.ran = call.ran /\ new.faults = call.faults
    BY <2>1 DEF CallType
  <2>5. call.rows + 1 \in Nat
    BY <2>1, <2>2 DEF CallInv, CallType, ConnsInv, Kept, Borrowed
  <2>6. new \in CallType
    BY <2>1, <2>2, <2>5 DEF CallType
  <2>7. ConnsInv(new)
    BY <2>1, <2>2, <2>4 DEF CallInv, ConnsInv, Kept, Borrowed, QuietInv, CallType, Handling
  <2>8. QuietInv(new)
    BY <2>1, <2>2, <2>4, WireSteps DEF CallInv, QuietInv, AnsweredInv, Handling
  <2>9. AnsweredInv(new)
    BY <2>1, <2>2, <2>4, WireSteps DEF CallInv, QuietInv, AnsweredInv, CallType, Handling
  <2>10. CommitInv(new)
    BY <2>1, <2>2, <2>4, WireSteps
    DEF CallInv, QuietInv, AnsweredInv, CommitInv, CallType, Handling
  <2>11. QED
    BY <2>3, <2>5, <2>6, <2>7, <2>8, <2>9, <2>10, OneCallChanges DEF CallInv
<1>20. ASSUME NEW c \in HttpCalls, Defer(c)
      PROVE  HttpInv'
  <2> DEFINE call == http[c]
  <2>1. CallInv(call) /\ call \in CallType
    BY DEF HttpInv, CallInv
  <2>2. call.at = "handling" /\ call.tx = "open"
    BY <1>20 DEF Defer
  <2> DEFINE new == [call EXCEPT !.at = "handled", !.tasks = <<"received", "enqueue">>]
  <2>3. Call(c, new)
    BY <1>20, <2>1, <2>2 DEF Defer
  <2>4. /\ new.at = "handled" /\ new.kind = call.kind /\ new.conns = call.conns
        /\ new.wire = call.wire /\ new.tx = call.tx /\ new.answer = call.answer
        /\ new.client = call.client /\ new.rows = call.rows /\ new.stored = call.stored
        /\ new.tasks = <<"received", "enqueue">> /\ new.ran = call.ran /\ new.faults = call.faults
    BY <2>1 DEF CallType
  <2>5. new \in CallType
    BY <2>1, <2>2, TaskSteps DEF CallType, Handling
  <2>6. ConnsInv(new)
    BY <2>1, <2>2, <2>4 DEF CallInv, ConnsInv, Kept, Borrowed, QuietInv, CallType, Handling
  <2>7. QuietInv(new)
    BY <2>1, <2>2, <2>4, WireSteps DEF CallInv, QuietInv, AnsweredInv, Handling
  <2>8. AnsweredInv(new)
    BY <2>1, <2>2, <2>4, WireSteps DEF CallInv, QuietInv, AnsweredInv, CallType, Handling
  <2>9. CommitInv(new)
    BY <2>1, <2>2, <2>4, WireSteps
    DEF CallInv, QuietInv, AnsweredInv, CommitInv, CallType, Handling
  <2>10. QED
    BY <2>3, <2>5, <2>6, <2>7, <2>8, <2>9, OneCallChanges DEF CallInv
<1>21. ASSUME NEW c \in HttpCalls, CreateFails(c)
      PROVE  HttpInv'
  <2>1. http[c].at = "handling" /\ http[c].conns \in Nat /\ http[c] \in CallType
    BY <1>21 DEF CreateFails, HttpInv, CallType
  <2>2. http[c].at \in Handling /\ http[c] = [http[c] EXCEPT !.conns = http[c].conns - Borrowed(http[c].at)]
    BY <2>1 DEF Handling, Borrowed, CallType
  <2>3. Reply(c, [http[c] EXCEPT !.conns = http[c].conns - Borrowed(http[c].at)], "error")
    BY <1>21, <2>1, <2>2 DEF CreateFails
  <2>4. QED
    BY <2>2, <2>3, HandlerEnds
<1>22. ASSUME NEW c \in HttpCalls, RunnerGone(c)
      PROVE  HttpInv'
  <2>1. http[c].at = "handling" /\ http[c].conns \in Nat /\ http[c] \in CallType
    BY <1>22 DEF RunnerGone, HttpInv, CallType
  <2>2. http[c].at \in Handling /\ http[c] = [http[c] EXCEPT !.conns = http[c].conns - Borrowed(http[c].at)]
    BY <2>1 DEF Handling, Borrowed, CallType
  <2>3. Reply(c, [http[c] EXCEPT !.conns = http[c].conns - Borrowed(http[c].at)], "error")
    BY <1>22, <2>1, <2>2 DEF RunnerGone
  <2>4. QED
    BY <2>2, <2>3, HandlerEnds
<1>23. ASSUME NEW c \in HttpCalls, Answer(c)
      PROVE  HttpInv'
  <2>1. http[c].at = "handled" /\ http[c].conns \in Nat /\ http[c] \in CallType
    BY <1>23 DEF Answer, HttpInv, CallType
  <2>2. http[c].at \in Handling /\ http[c] = [http[c] EXCEPT !.conns = http[c].conns - Borrowed(http[c].at)]
    BY <2>1 DEF Handling, Borrowed, CallType
  <2>3. Reply(c, [http[c] EXCEPT !.conns = http[c].conns - Borrowed(http[c].at)], "ok")
    BY <1>23, <2>1, <2>2 DEF Answer
  <2>4. QED
    BY <2>2, <2>3, HandlerEnds
<1>24. ASSUME NEW c \in HttpCalls, BeginRemap(c)
      PROVE  HttpInv'
  <2>1. http[c].at = "chosen" /\ http[c].conns \in Nat
    BY <1>24 DEF BeginRemap, HttpInv, CallType
  <2>2. PICK at \in {"pricing", "priced"} :
            Call(c, [http[c] EXCEPT !.at = at, !.conns = http[c].conns + 1])
    BY <1>24 DEF BeginRemap
  <2>3. http[c].conns + 1 = http[c].conns + Borrowed(at) - Borrowed(http[c].at)
    BY <2>1, <2>2 DEF Borrowed
  <2>4. QED
    BY <2>1, <2>2, <2>3, HandlerMoves DEF Handling
<1>25. ASSUME NEW c \in HttpCalls, BorrowForRules(c)
      PROVE  HttpInv'
  <2>1. http[c].at = "pricing" /\ http[c].conns \in Nat /\ http[c] \in CallType
    BY <1>25 DEF BorrowForRules, HttpInv, CallType
  <2>2. http[c].conns + 1 = http[c].conns + Borrowed("ruling") - Borrowed(http[c].at)
    BY <2>1 DEF Borrowed
  <2>3. Call(c, [http[c] EXCEPT !.at = "ruling", !.conns = http[c].conns + 1])
    BY <1>25, <2>1 DEF BorrowForRules, CallType
  <2>4. QED
    BY <2>1, <2>2, <2>3, HandlerMoves DEF Handling
<1>26. ASSUME NEW c \in HttpCalls, ReadRules(c)
      PROVE  HttpInv'
  <2>1. http[c].at = "ruling" /\ http[c].conns \in Nat /\ http[c] \in CallType
    BY <1>26 DEF ReadRules, HttpInv, CallType
  <2>2. http[c].conns - 1 = http[c].conns + Borrowed("priced") - Borrowed(http[c].at)
    BY <2>1 DEF Borrowed
  <2>3. Call(c, [http[c] EXCEPT !.at = "priced", !.conns = http[c].conns - 1])
    BY <1>26, <2>1 DEF ReadRules, Handled, CallType
  <2>4. QED
    BY <2>1, <2>2, <2>3, HandlerMoves DEF Handling
<1>27. ASSUME NEW c \in HttpCalls, EndRemap(c)
      PROVE  HttpInv'
  <2>1. http[c].at = "priced" /\ http[c].conns \in Nat /\ http[c] \in CallType
    BY <1>27 DEF EndRemap, HttpInv, CallType
  <2>2. http[c].conns - 1 = http[c].conns + Borrowed("written") - Borrowed(http[c].at)
    BY <2>1 DEF Borrowed
  <2>3. Call(c, [http[c] EXCEPT !.at = "written", !.conns = http[c].conns - 1])
    BY <1>27, <2>1 DEF EndRemap, Handled, CallType
  <2>4. QED
    BY <2>1, <2>2, <2>3, HandlerMoves DEF Handling
<1>28. CASE UNCHANGED httpVars
  BY <1>28 DEF HttpInv, httpVars
<1>29. QED
  BY <1>1, <1>2, <1>3, <1>4, <1>5, <1>6, <1>7, <1>8, <1>9, <1>10, <1>11, <1>12, <1>13,
     <1>14, <1>15, <1>16, <1>17, <1>18, <1>19, <1>20, <1>21, <1>22, <1>23, <1>24, <1>25,
     <1>26, <1>27, <1>28
  DEF HttpNext, HttpStep

\* A call that has not come in meets it.
LEMMA HttpInitInv == HttpInit => HttpInv
<1>1. NoCall \in CallType
  BY DEF NoCall, CallType, Wires, Kinds, Handling
<1>2. ConnsInv(NoCall) /\ QuietInv(NoCall) /\ AnsweredInv(NoCall) /\ CommitInv(NoCall)
  BY WireSteps DEF NoCall, ConnsInv, Kept, Borrowed, QuietInv, AnsweredInv, CommitInv, Handling
<1>3. QED
  BY <1>1, <1>2 DEF HttpInit, HttpInv, CallInv

\* No connection stays with a call that is over: one that has ended, with nothing
\* left to send, holds none, unless its client left before the listeners were
\* registered or the database refused a statement.
GivenBack ==
    \A c \in HttpCalls :
        http[c].at = "ended" /\ http[c].wire = <<>> =>
            http[c].conns = 0 \/ http[c].client = "missed" \/ http[c].faults > 0

\* A call has exactly the connections its transaction and its handler need, up to
\* three in a re-map, and its queue and its answer in step with them; when it is
\* over it has given all of them back.
THEOREM CallsStaySound == HttpSpec => [](HttpInv /\ GivenBack)
<1>1. HttpInv => GivenBack
  <2> SUFFICES ASSUME HttpInv, NEW c \in HttpCalls, http[c].at = "ended", http[c].wire = <<>>,
                      http[c].client # "missed", http[c].faults = 0
               PROVE  http[c].conns = 0
    BY DEF GivenBack, HttpInv, CallType
  <2>1. CallInv(http[c])
    BY DEF HttpInv
  <2>2. http[c].tx # "open"
    BY <2>1 DEF CallInv, QuietInv
  <2>3. QED
    BY <2>1, <2>2 DEF CallInv, ConnsInv, Kept, Borrowed
<1>2. QED
  BY <1>1, HttpInitInv, HttpStepInv, PTL DEF HttpSpec

\* What is committed was answered with success and is whole, deferred tasks run
\* behind a commit only, and an answer of success that met no fault is committed.
THEOREM CommitsFollowAnswers == HttpSpec => []CommitFollowsAnswer
<1>1. HttpInv => CommitFollowsAnswer
  <2> SUFFICES ASSUME HttpInv, NEW c \in HttpCalls PROVE
        /\ http[c].tx = "committed" => http[c].answer = "ok" /\ http[c].rows <= http[c].stored
        /\ http[c].ran # <<>> => http[c].tx = "committed"
        /\ http[c].answer = "ok" /\ http[c].wire = <<>> /\ http[c].faults = 0 => http[c].tx = "committed"
    BY DEF CommitFollowsAnswer
  <2>1. CallInv(http[c])
    BY DEF HttpInv
  <2>2. QED
    BY <2>1, WireSteps DEF CallInv, AnsweredInv, CommitInv
<1>2. QED
  BY <1>1, CallsStaySound, PTL
=============================================================================
