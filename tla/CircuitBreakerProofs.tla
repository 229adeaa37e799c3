------------------------ MODULE CircuitBreakerProofs ------------------------
(***************************************************************************)
(* Proofs about CircuitBreaker, for any number of concurrent calls, any    *)
(* threshold and any number of crashes and Redis errors.                   *)
(***************************************************************************)
EXTENDS CircuitBreaker, FiniteSetTheorems, TLAPS

(* --------------------------- type correctness -------------------------- *)

\* Where a call can be.
CallPc ==
    {"idle", "admitSave", "gate", "gateSave", "lock", "call", "probeCall", "success",
     "resetProbe", "resetCount", "resetSave", "failure", "reopenProbe", "reopenSave",
     "countInit", "count", "trip", "recheck", "recheckSave", "recheckLock"}

CallsTyped ==
    /\ pc \in [Callers -> CallPc]
    /\ isProbe \in [Callers -> BOOLEAN]
    /\ transient \in [Callers -> BOOLEAN]

KeysTyped ==
    /\ state \in {"CLOSED", "OPEN", "HALF_OPEN"}
    /\ cooled \in BOOLEAN
    /\ failures \in 0..Threshold
    /\ counter \in {"absent", "expiring", "lasting"}
    /\ probe \in BOOLEAN

EnvTyped ==
    /\ llm \in {"up", "down", "rejecting"}
    /\ strikes \in 0..Threshold
    /\ crashes \in Nat /\ redisFaults \in Nat

TypeOK == CallsTyped /\ KeysTyped /\ EnvTyped

\* The first state is typed.
LEMMA TypeInit == Init => TypeOK
<1> SUFFICES ASSUME Init PROVE TypeOK
  OBVIOUS
<1>1. CallsTyped
  BY DEF Init, CallsTyped, CallPc
<1>2. 0 \in 0..Threshold
  BY CircuitBreakerAssumption DEF CircuitBreakerAssumption
<1>3. KeysTyped /\ EnvTyped
  BY <1>2 DEF Init, KeysTyped, EnvTyped
<1>4. QED
  BY <1>1, <1>3 DEF TypeOK

\* A call that returns, or goes on, leaves its locals typed.
LEMMA CallTyped ==
  ASSUME CallsTyped, NEW c \in Callers, NEW label \in CallPc,
         Return(c) \/ Proceed(c, label)
  PROVE  CallsTyped'
  BY DEF CallsTyped, Return, Proceed, Goto, CallPc

\* No Redis command and no event of the world breaks a type.
LEMMA TypeStep == TypeOK /\ [Next]_vars => TypeOK'
<1> SUFFICES ASSUME TypeOK, [Next]_vars PROVE TypeOK'
  OBVIOUS
<1> USE CircuitBreakerAssumption
    DEF CircuitBreakerAssumption, TypeOK, CallsTyped, KeysTyped, EnvTyped, CallPc,
        keyVars, callVars, envVars, Return, Proceed, Goto, SaveHalfOpen, SaveOpen
<1>1. ASSUME NEW c \in Callers, Admit(c)
      PROVE  TypeOK'
  BY <1>1 DEF Admit
<1>2. ASSUME NEW c \in Callers, AdmitSave(c)
      PROVE  TypeOK'
  BY <1>2 DEF AdmitSave
<1>3. ASSUME NEW c \in Callers, Gate(c)
      PROVE  TypeOK'
  BY <1>3 DEF Gate
<1>4. ASSUME NEW c \in Callers, GateSave(c)
      PROVE  TypeOK'
  BY <1>4 DEF GateSave
<1>5. ASSUME NEW c \in Callers, AcquireProbe(c)
      PROVE  TypeOK'
  BY <1>5 DEF AcquireProbe
<1>6. ASSUME NEW c \in Callers, LlmAnswers(c)
      PROVE  TypeOK'
  BY <1>6 DEF LlmAnswers
<1>7. ASSUME NEW c \in Callers, LlmFails(c)
      PROVE  TypeOK'
  <2>1. CallsTyped'
    <3>1. CASE llm = "down" \/ isProbe[c]
      <4>1. /\ transient' = [transient EXCEPT ![c] = (llm = "down")]
            /\ isProbe' = [isProbe EXCEPT ![c] = FALSE]
            /\ pc' = [pc EXCEPT ![c] = "failure"]
        BY <1>7, <3>1 DEF LlmFails
      <4>2. QED
        BY <4>1
    <3>2. CASE ~(llm = "down" \/ isProbe[c])
      BY <1>7, <3>2, CallTyped DEF LlmFails
    <3>3. QED
      BY <3>1, <3>2
  <2>2. EnvTyped'
    BY <1>7 DEF LlmFails
  <2>3. QED
    BY <1>7, <2>1, <2>2 DEF LlmFails
<1>8. ASSUME NEW c \in Callers, RecordSuccess(c)
      PROVE  TypeOK'
  BY <1>8 DEF RecordSuccess
<1>9. ASSUME NEW c \in Callers, ResetProbe(c)
      PROVE  TypeOK'
  BY <1>9 DEF ResetProbe
<1>10. ASSUME NEW c \in Callers, ResetCount(c)
      PROVE  TypeOK'
  BY <1>10 DEF ResetCount
<1>11. ASSUME NEW c \in Callers, ResetSave(c)
      PROVE  TypeOK'
  BY <1>11 DEF ResetSave
<1>12. ASSUME NEW c \in Callers, RecordFailure(c)
      PROVE  TypeOK'
  BY <1>12 DEF RecordFailure
<1>13. ASSUME NEW c \in Callers, ReopenProbe(c)
      PROVE  TypeOK'
  BY <1>13 DEF ReopenProbe
<1>14. ASSUME NEW c \in Callers, ReopenSave(c)
      PROVE  TypeOK'
  BY <1>14 DEF ReopenSave
<1>15. ASSUME NEW c \in Callers, CountInit(c)
      PROVE  TypeOK'
  BY <1>15 DEF CountInit
<1>16. ASSUME NEW c \in Callers, Count(c)
      PROVE  TypeOK'
  BY <1>16 DEF Count, Incremented
<1>17. ASSUME NEW c \in Callers, CountFails(c)
      PROVE  TypeOK'
  BY <1>17 DEF CountFails
<1>18. ASSUME NEW c \in Callers, Trip(c)
      PROVE  TypeOK'
  BY <1>18 DEF Trip
<1>19. ASSUME NEW c \in Callers, Recheck(c)
      PROVE  TypeOK'
  BY <1>19 DEF Recheck
<1>20. ASSUME NEW c \in Callers, RecheckSave(c)
      PROVE  TypeOK'
  BY <1>20 DEF RecheckSave
<1>21. ASSUME NEW c \in Callers, RecheckLock(c)
      PROVE  TypeOK'
  BY <1>21 DEF RecheckLock
<1>22. ASSUME NEW c \in Callers, CallerDies(c)
      PROVE  TypeOK'
  BY <1>22 DEF CallerDies
<1>23. CASE CooldownElapses
  BY <1>23 DEF CooldownElapses
<1>24. CASE WindowExpires
  BY <1>24 DEF WindowExpires
<1>25. CASE ProbeExpires
  BY <1>25 DEF ProbeExpires
<1>26. CASE StateExpires
  BY <1>26 DEF StateExpires
<1>27. CASE LlmChanges
  BY <1>27 DEF LlmChanges
<1>28. CASE UNCHANGED vars
  BY <1>28 DEF vars
<1>29. QED
  BY <1>1, <1>2, <1>3, <1>4, <1>5, <1>6, <1>7, <1>8, <1>9, <1>10, <1>11, <1>12, <1>13,
     <1>14, <1>15, <1>16, <1>17, <1>18, <1>19, <1>20, <1>21, <1>22, <1>23, <1>24, <1>25,
     <1>26, <1>27, <1>28
  DEF Next, CallStep, TimeStep

(* ------------------------------- the count ----------------------------- *)

\* The breaker has no reason to trip yet.
Quiet == strikes < Threshold /\ redisFaults = 0

\* Calls that got an error and have not counted it yet.
Uncounted == {c \in Callers : pc[c] \in {"failure", "countInit", "count"}}

\* What calls do while the breaker is closed and stays so.
ClosedPc ==
    {"idle", "gate", "call", "success", "resetProbe", "resetCount", "resetSave",
     "failure", "countInit", "count", "recheck"}

\* Until there is a reason to trip, the breaker is CLOSED, nobody takes itself
\* for its probe, and the counter, with the failures that are about to be
\* counted, does not exceed the transient failures there were. The counter
\* alone would not do: two calls that fail together count one after the other.
CountInv ==
    Quiet =>
        /\ state = "CLOSED" /\ ~cooled
        /\ \A c \in Callers : pc[c] \in ClosedPc /\ ~isProbe[c]
        /\ failures + Cardinality(Uncounted) <= strikes

\* A set of calls is finite, and its size a number.
LEMMA UncountedFinite ==
  /\ IsFiniteSet(Uncounted) /\ Cardinality(Uncounted) \in Nat
  /\ IsFiniteSet(Uncounted') /\ Cardinality(Uncounted') \in Nat
<1>1. IsFiniteSet(Uncounted) /\ IsFiniteSet(Uncounted')
  BY CircuitBreakerAssumption, FS_Subset DEF CircuitBreakerAssumption, Uncounted
<1>2. QED
  BY <1>1, FS_CardinalityType

\* A call that fails adds one to those.
LEMMA UncountedGrows ==
  ASSUME NEW c \in Callers, c \notin Uncounted, Uncounted' = Uncounted \cup {c}
  PROVE  Cardinality(Uncounted') = Cardinality(Uncounted) + 1
  BY UncountedFinite, FS_AddElement

\* One that has counted, or dies, takes itself out.
LEMMA UncountedShrinks ==
  ASSUME NEW c \in Callers, Uncounted' = Uncounted \ {c}
  PROVE  /\ Cardinality(Uncounted') <= Cardinality(Uncounted)
         /\ c \in Uncounted => Cardinality(Uncounted') = Cardinality(Uncounted) - 1
         /\ Cardinality(Uncounted') \in Nat
<1>1. /\ IsFiniteSet(Uncounted \ {c})
      /\ Cardinality(Uncounted \ {c}) =
           IF c \in Uncounted THEN Cardinality(Uncounted) - 1 ELSE Cardinality(Uncounted)
  BY UncountedFinite, FS_RemoveElement
<1>2. QED
  BY <1>1, UncountedFinite, FS_CardinalityType

\* Where a call goes decides whether it still has to count.
LEMMA UncountedMoves ==
  ASSUME CallsTyped, NEW c \in Callers, NEW label \in CallPc, pc' = [pc EXCEPT ![c] = label]
  PROVE  /\ label \in {"failure", "countInit", "count"} => Uncounted' = Uncounted \cup {c}
         /\ label \notin {"failure", "countInit", "count"} => Uncounted' = Uncounted \ {c}
  BY DEF CallsTyped, Uncounted

\* A call that goes where nothing is left to count keeps the balance.
LEMMA StopsCounting ==
  ASSUME TypeOK, NEW c \in Callers, NEW label \in ClosedPc,
         label \notin {"failure", "countInit", "count"},
         pc' = [pc EXCEPT ![c] = label],
         \A d \in Callers : pc[d] \in ClosedPc /\ ~isProbe'[d],
         state' = "CLOSED", ~cooled',
         failures' \in Nat, failures' <= failures, strikes' = strikes,
         failures + Cardinality(Uncounted) <= strikes
  PROVE  /\ state' = "CLOSED" /\ ~cooled'
         /\ \A d \in Callers : pc'[d] \in ClosedPc /\ ~isProbe'[d]
         /\ failures' + Cardinality(Uncounted') <= strikes'
<1>1. Uncounted' = Uncounted \ {c}
  BY UncountedMoves DEF TypeOK, ClosedPc, CallPc
<1>2. failures' + Cardinality(Uncounted') <= strikes'
  <2>1. failures \in Nat /\ strikes \in Nat
    BY CircuitBreakerAssumption DEF CircuitBreakerAssumption, TypeOK, KeysTyped, EnvTyped
  <2>2. Cardinality(Uncounted') <= Cardinality(Uncounted)
    BY <1>1, UncountedShrinks
  <2>3. QED
    BY <2>1, <2>2, UncountedFinite
<1>3. QED
  BY <1>2 DEF TypeOK, CallsTyped

\* What has been a reason to trip stays one.
LEMMA ReasonsStay == TypeOK /\ [Next]_vars /\ Quiet' => Quiet
<1> SUFFICES ASSUME TypeOK, [Next]_vars PROVE strikes <= strikes' /\ redisFaults <= redisFaults'
  BY TypeStep, CircuitBreakerAssumption
  DEF CircuitBreakerAssumption, Quiet, TypeOK, EnvTyped
<1>1. strikes \in Nat /\ redisFaults \in Nat
  BY CircuitBreakerAssumption DEF CircuitBreakerAssumption, TypeOK, EnvTyped
<1>2. ASSUME NEW c \in Callers, LlmFails(c)
      PROVE  strikes <= strikes' /\ redisFaults <= redisFaults'
  BY <1>1, <1>2 DEF LlmFails
<1>3. ASSUME NEW c \in Callers, CountFails(c)
      PROVE  strikes <= strikes' /\ redisFaults <= redisFaults'
  BY <1>1, <1>3 DEF CountFails
<1>4. ASSUME NEW c \in Callers, CallStep(c) \/ CallerDies(c), ~LlmFails(c), ~CountFails(c)
      PROVE  UNCHANGED <<strikes, redisFaults>>
  BY <1>4
  DEF CallStep, envVars, Admit, AdmitSave, Gate, GateSave, AcquireProbe, LlmAnswers,
      RecordSuccess, ResetProbe, ResetCount, ResetSave, RecordFailure, ReopenProbe,
      ReopenSave, CountInit, Count, Trip, Recheck, RecheckSave, RecheckLock, CallerDies
<1>5. ASSUME TimeStep \/ LlmChanges \/ UNCHANGED vars
      PROVE  UNCHANGED <<strikes, redisFaults>>
  BY <1>5
  DEF TimeStep, envVars, vars, CooldownElapses, WindowExpires, ProbeExpires, StateExpires,
      LlmChanges
<1>6. QED
  BY <1>1, <1>2, <1>3, <1>4, <1>5 DEF Next

\* Who counts one failure is counted no more itself, so the sum never grows
\* but with the strikes.
LEMMA CountStep == TypeOK /\ CountInv /\ [Next]_vars => CountInv'
<1> DEFINE Counted ==
             /\ state = "CLOSED" /\ ~cooled
             /\ \A d \in Callers : pc[d] \in ClosedPc /\ ~isProbe[d]
             /\ failures + Cardinality(Uncounted) <= strikes
<1> SUFFICES ASSUME TypeOK, CountInv, [Next]_vars, Quiet' PROVE Counted'
  BY DEF CountInv
<1>b. /\ strikes \in Nat /\ redisFaults \in Nat /\ failures \in Nat /\ Threshold \in Nat
      /\ strikes < Threshold /\ strikes' < Threshold /\ redisFaults' = 0
      /\ failures' \in Nat /\ Cardinality(Uncounted) \in Nat /\ Cardinality(Uncounted') \in Nat
  BY TypeStep, ReasonsStay, UncountedFinite, CircuitBreakerAssumption
  DEF CircuitBreakerAssumption, TypeOK, KeysTyped, EnvTyped, Quiet
<1>a. Counted /\ TypeOK /\ CallsTyped
  BY ReasonsStay DEF CountInv, TypeOK
<1>c. pc' = pc => Uncounted' = Uncounted
  BY DEF Uncounted
<1> USE DEF keyVars, callVars, envVars, Return, Proceed, Goto, SaveHalfOpen, SaveOpen
<1>1. ASSUME NEW c \in Callers, Admit(c)
      PROVE  Counted'
  <2>1. pc' = [pc EXCEPT ![c] = "gate"]
    BY <1>1, <1>a DEF Admit, ClosedPc
  <2>2. /\ state' = "CLOSED" /\ ~cooled' /\ strikes' = strikes
        /\ failures' \in Nat /\ failures' <= failures
        /\ \A d \in Callers : ~isProbe'[d]
    BY <1>1, <1>a, <1>b DEF Admit, CallsTyped
  <2>3. QED
    BY <1>a, <1>b, <2>1, <2>2, StopsCounting DEF ClosedPc, CallPc
<1>2. ASSUME NEW c \in Callers, AdmitSave(c)
      PROVE  Counted'
  BY <1>2, <1>a DEF AdmitSave, ClosedPc
<1>3. ASSUME NEW c \in Callers, Gate(c)
      PROVE  Counted'
  <2>1. pc' = [pc EXCEPT ![c] = "call"]
    BY <1>3, <1>a DEF Gate, ClosedPc
  <2>2. /\ state' = "CLOSED" /\ ~cooled' /\ strikes' = strikes
        /\ failures' \in Nat /\ failures' <= failures
        /\ \A d \in Callers : ~isProbe'[d]
    BY <1>3, <1>a, <1>b DEF Gate, CallsTyped
  <2>3. QED
    BY <1>a, <1>b, <2>1, <2>2, StopsCounting DEF ClosedPc, CallPc
<1>4. ASSUME NEW c \in Callers, GateSave(c)
      PROVE  Counted'
  BY <1>4, <1>a DEF GateSave, ClosedPc
<1>5. ASSUME NEW c \in Callers, AcquireProbe(c)
      PROVE  Counted'
  BY <1>5, <1>a DEF AcquireProbe, ClosedPc
<1>6. ASSUME NEW c \in Callers, LlmAnswers(c)
      PROVE  Counted'
  <2>1. pc' = [pc EXCEPT ![c] = "success"]
    BY <1>6, <1>a DEF LlmAnswers, ClosedPc
  <2>2. /\ state' = "CLOSED" /\ ~cooled' /\ strikes' = strikes
        /\ failures' \in Nat /\ failures' <= failures
        /\ \A d \in Callers : ~isProbe'[d]
    BY <1>6, <1>a, <1>b DEF LlmAnswers, CallsTyped
  <2>3. QED
    BY <1>a, <1>b, <2>1, <2>2, StopsCounting DEF ClosedPc, CallPc
<1>7. ASSUME NEW c \in Callers, LlmFails(c)
      PROVE  Counted'
  <2>1. CASE llm = "down"
    <3>1. /\ pc' = [pc EXCEPT ![c] = "failure"] /\ c \notin Uncounted
          /\ strikes' = strikes + 1 /\ UNCHANGED keyVars
          /\ isProbe' = [isProbe EXCEPT ![c] = FALSE]
      BY <1>7, <1>a, <1>b, <2>1 DEF LlmFails, Calling, Uncounted
    <3>2. Cardinality(Uncounted') = Cardinality(Uncounted) + 1
      BY <1>a, <3>1, UncountedMoves, UncountedGrows DEF CallPc
    <3>3. QED
      BY <1>a, <3>1, <3>2, <1>b DEF ClosedPc, CallsTyped
  <2>2. CASE llm # "down"
    <3>1. Return(c) /\ UNCHANGED <<keyVars, strikes>>
      BY <1>7, <1>a, <2>2 DEF LlmFails
    <3>2. /\ pc' = [pc EXCEPT ![c] = "idle"]
          /\ state' = "CLOSED" /\ ~cooled' /\ strikes' = strikes /\ failures' <= failures
          /\ \A d \in Callers : ~isProbe'[d]
      BY <1>a, <1>b, <3>1 DEF CallsTyped
    <3>3. QED
      BY <1>a, <1>b, <3>2, StopsCounting DEF ClosedPc, CallPc
  <2>3. QED
    BY <2>1, <2>2
<1>8. ASSUME NEW c \in Callers, RecordSuccess(c)
      PROVE  Counted'
  <2>1. pc' = [pc EXCEPT ![c] = "resetProbe"]
    BY <1>8, <1>a DEF RecordSuccess, ClosedPc
  <2>2. /\ state' = "CLOSED" /\ ~cooled' /\ strikes' = strikes
        /\ failures' \in Nat /\ failures' <= failures
        /\ \A d \in Callers : ~isProbe'[d]
    BY <1>8, <1>a, <1>b DEF RecordSuccess, CallsTyped
  <2>3. QED
    BY <1>a, <1>b, <2>1, <2>2, StopsCounting DEF ClosedPc, CallPc
<1>9. ASSUME NEW c \in Callers, ResetProbe(c)
      PROVE  Counted'
  <2>1. pc' = [pc EXCEPT ![c] = "resetCount"]
    BY <1>9, <1>a DEF ResetProbe, ClosedPc
  <2>2. /\ state' = "CLOSED" /\ ~cooled' /\ strikes' = strikes
        /\ failures' \in Nat /\ failures' <= failures
        /\ \A d \in Callers : ~isProbe'[d]
    BY <1>9, <1>a, <1>b DEF ResetProbe, CallsTyped
  <2>3. QED
    BY <1>a, <1>b, <2>1, <2>2, StopsCounting DEF ClosedPc, CallPc
<1>10. ASSUME NEW c \in Callers, ResetCount(c)
      PROVE  Counted'
  <2>1. pc' = [pc EXCEPT ![c] = "resetSave"]
    BY <1>10, <1>a DEF ResetCount, ClosedPc
  <2>2. /\ state' = "CLOSED" /\ ~cooled' /\ strikes' = strikes
        /\ failures' \in Nat /\ failures' <= failures
        /\ \A d \in Callers : ~isProbe'[d]
    BY <1>10, <1>a, <1>b DEF ResetCount, CallsTyped
  <2>3. QED
    BY <1>a, <1>b, <2>1, <2>2, StopsCounting DEF ClosedPc, CallPc
<1>11. ASSUME NEW c \in Callers, ResetSave(c)
      PROVE  Counted'
  <2>1. pc' = [pc EXCEPT ![c] = "idle"]
    BY <1>11, <1>a DEF ResetSave, ClosedPc
  <2>2. /\ state' = "CLOSED" /\ ~cooled' /\ strikes' = strikes
        /\ failures' \in Nat /\ failures' <= failures
        /\ \A d \in Callers : ~isProbe'[d]
    BY <1>11, <1>a, <1>b DEF ResetSave, CallsTyped
  <2>3. QED
    BY <1>a, <1>b, <2>1, <2>2, StopsCounting DEF ClosedPc, CallPc
<1>12. ASSUME NEW c \in Callers, RecordFailure(c)
      PROVE  Counted'
  <2>1. pc' = [pc EXCEPT ![c] = "countInit"] /\ c \in Uncounted
    BY <1>12, <1>a DEF RecordFailure, Uncounted
  <2>2. Uncounted' = Uncounted
    <3>1. Uncounted' = Uncounted \cup {c}
      BY <1>a, <2>1, UncountedMoves DEF CallPc
    <3>2. QED
      BY <2>1, <3>1
  <2>3. QED
    BY <1>12, <1>a, <2>1, <2>2 DEF RecordFailure, ClosedPc, CallsTyped
<1>13. ASSUME NEW c \in Callers, ReopenProbe(c)
      PROVE  Counted'
  BY <1>13, <1>a DEF ReopenProbe, ClosedPc
<1>14. ASSUME NEW c \in Callers, ReopenSave(c)
      PROVE  Counted'
  BY <1>14, <1>a DEF ReopenSave, ClosedPc
<1>15. ASSUME NEW c \in Callers, CountInit(c)
      PROVE  Counted'
  <2>1. pc' = [pc EXCEPT ![c] = "count"] /\ c \in Uncounted
    BY <1>15, <1>a DEF CountInit, Uncounted
  <2>2. Uncounted' = Uncounted
    <3>1. Uncounted' = Uncounted \cup {c}
      BY <1>a, <2>1, UncountedMoves DEF CallPc
    <3>2. QED
      BY <2>1, <3>1
  <2>3. QED
    BY <1>15, <1>a, <2>1, <2>2 DEF CountInit, ClosedPc, CallsTyped
<1>16. ASSUME NEW c \in Callers, Count(c)
      PROVE  Counted'
  <2>1. c \in Uncounted
    BY <1>16 DEF Count, Uncounted
  <2>2. Cardinality(Uncounted) >= 1
    BY <2>1, UncountedFinite, FS_EmptySet
  <2>3. failures + 1 < Threshold
    BY <1>a, <1>b, <2>2
  <2>4. pc' = [pc EXCEPT ![c] = "recheck"] /\ failures' = failures + 1
    <3>1. Incremented = failures + 1 /\ ~(Incremented >= Threshold)
      BY <1>b, <2>3 DEF Incremented
    <3>2. QED
      BY <1>16, <3>1 DEF Count
  <2>5. Cardinality(Uncounted') = Cardinality(Uncounted) - 1
    BY <1>a, <2>1, <2>4, UncountedMoves, UncountedShrinks DEF CallPc
  <2>6. QED
    BY <1>16, <1>a, <2>4, <1>b, <2>5 DEF Count, ClosedPc, CallsTyped
<1>17. ASSUME NEW c \in Callers, CountFails(c)
      PROVE  Counted'
  BY <1>17, <1>b DEF CountFails, Quiet
<1>18. ASSUME NEW c \in Callers, Trip(c)
      PROVE  Counted'
  BY <1>18, <1>a DEF Trip, ClosedPc
<1>19. ASSUME NEW c \in Callers, Recheck(c)
      PROVE  Counted'
  <2>1. pc' = [pc EXCEPT ![c] = "idle"]
    BY <1>19, <1>a DEF Recheck, ClosedPc
  <2>2. /\ state' = "CLOSED" /\ ~cooled' /\ strikes' = strikes
        /\ failures' \in Nat /\ failures' <= failures
        /\ \A d \in Callers : ~isProbe'[d]
    BY <1>19, <1>a, <1>b DEF Recheck, CallsTyped
  <2>3. QED
    BY <1>a, <1>b, <2>1, <2>2, StopsCounting DEF ClosedPc, CallPc
<1>20. ASSUME NEW c \in Callers, RecheckSave(c)
      PROVE  Counted'
  BY <1>20, <1>a DEF RecheckSave, ClosedPc
<1>21. ASSUME NEW c \in Callers, RecheckLock(c)
      PROVE  Counted'
  BY <1>21, <1>a DEF RecheckLock, ClosedPc
<1>22. ASSUME NEW c \in Callers, CallerDies(c)
      PROVE  Counted'
  <2>1. pc' = [pc EXCEPT ![c] = "idle"]
    BY <1>22, <1>a DEF CallerDies, ClosedPc
  <2>2. /\ state' = "CLOSED" /\ ~cooled' /\ strikes' = strikes
        /\ failures' \in Nat /\ failures' <= failures
        /\ \A d \in Callers : ~isProbe'[d]
    BY <1>22, <1>a, <1>b DEF CallerDies, CallsTyped
  <2>3. QED
    BY <1>a, <1>b, <2>1, <2>2, StopsCounting DEF ClosedPc, CallPc
<1>23. CASE CooldownElapses
  BY <1>23, <1>a DEF CooldownElapses
<1>24. CASE WindowExpires
  BY <1>24, <1>a, <1>b, <1>c DEF WindowExpires
<1>25. CASE ProbeExpires
  BY <1>25, <1>a, <1>c DEF ProbeExpires
<1>26. CASE StateExpires
  BY <1>26, <1>a DEF StateExpires
<1>27. CASE LlmChanges
  BY <1>27, <1>a, <1>c DEF LlmChanges
<1>28. CASE UNCHANGED vars
  BY <1>28, <1>a, <1>c DEF vars, Uncounted
<1>29. QED
  BY <1>1, <1>2, <1>3, <1>4, <1>5, <1>6, <1>7, <1>8, <1>9, <1>10, <1>11, <1>12, <1>13,
     <1>14, <1>15, <1>16, <1>17, <1>18, <1>19, <1>20, <1>21, <1>22, <1>23, <1>24, <1>25,
     <1>26, <1>27, <1>28
  DEF Next, CallStep, TimeStep

(* ------------------------------- theorems ------------------------------ *)

\* Nobody has failed yet.
LEMMA CountInvInit == Init => CountInv
<1> SUFFICES ASSUME Init PROVE CountInv
  OBVIOUS
<1>1. Uncounted = {}
  BY DEF Init, Uncounted
<1>2. Cardinality(Uncounted) = 0
  BY <1>1, FS_EmptySet
<1>3. QED
  BY <1>2 DEF Init, CountInv, ClosedPc

\* Every key and every local keeps its type.
THEOREM TypeCorrect == Spec => []TypeOK
  BY TypeInit, TypeStep, PTL DEF Spec

\* llm-client.service.ts, recordFailure: the breaker leaves CLOSED only when as
\* many transient failures as the threshold have happened, or an INCR failed,
\* for any number of calls that count, reset and expire the counter at once.
THEOREM TripsForAReason == Spec => []TripsAfterThreshold
<1>1. TypeOK /\ CountInv => TripsAfterThreshold
  <2>1. SUFFICES ASSUME TypeOK, CountInv, ~(strikes = Threshold \/ redisFaults > 0)
                 PROVE  state = "CLOSED" /\ \A c \in Callers : pc[c] # "trip"
    BY DEF TripsAfterThreshold
  <2>2. Quiet
    BY <2>1, CircuitBreakerAssumption DEF CircuitBreakerAssumption, TypeOK, EnvTyped, Quiet
  <2>3. QED
    BY <2>1, <2>2 DEF CountInv, ClosedPc
<1>2. Spec => []CountInv
  BY TypeInit, TypeStep, CountInvInit, CountStep, PTL DEF Spec
<1>3. QED
  BY <1>1, <1>2, TypeCorrect, PTL
=============================================================================
