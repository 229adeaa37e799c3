--------------------------- MODULE CircuitBreaker ---------------------------
(***************************************************************************)
(* The breaker in front of the LLM: three Redis keys shared by every API   *)
(* and worker process (cb:llm:state, cb:llm:failures, cb:llm:probe), and   *)
(* the calls of LlmClientService.createChatCompletion that read and write  *)
(* them, one Redis command per step.                                       *)
(***************************************************************************)
EXTENDS Naturals, FiniteSets

CONSTANTS
    Callers,            \* concurrent createChatCompletion calls
    Threshold,          \* CIRCUIT_BREAKER_FAILURE_THRESHOLD
    KeyOutlivesCall,    \* are LLM_TIMEOUT_MS and the retries short enough that a
                        \* call ends before PROBE_LOCK_TTL_S; with the defaults
                        \* (30 s, two attempts of ours, three of the SDK) they are not
    MaxCrashes,         \* bound: calls whose process dies
    MaxRedisFaults      \* bound: INCR commands that fail

ASSUME CircuitBreakerAssumption ==
    /\ IsFiniteSet(Callers)
    /\ Threshold \in Nat \ {0}
    /\ KeyOutlivesCall \in BOOLEAN
    /\ MaxCrashes \in Nat /\ MaxRedisFaults \in Nat

VARIABLES
    state,          \* cb:llm:state; an absent key reads as CLOSED
    cooled,         \* CIRCUIT_BREAKER_COOLDOWN_S have passed since the last save of OPEN
    failures,       \* cb:llm:failures, 0 when absent; bound: counted up to Threshold
    counter,        \* that key: "absent", "expiring" (with its window TTL), "lasting"
    probe,          \* does cb:llm:probe exist
    pc,             \* what each call does next
    isProbe,        \* was the breaker HALF_OPEN at admission
    transient,      \* the error a call got: isTransientError
    llm,            \* "up", "down" (5xx, 429, timeouts), "rejecting" (4xx)
    strikes,        \* transient failures so far, up to Threshold (history)
    crashes, redisFaults

keyVars == <<state, cooled, failures, counter, probe>>
callVars == <<pc, isProbe, transient>>
envVars == <<llm, strikes, crashes, redisFaults>>
vars == <<keyVars, callVars, envVars>>

Init ==
    /\ state = "CLOSED"
    /\ cooled = FALSE
    /\ failures = 0
    /\ counter = "absent"
    /\ probe = FALSE
    /\ pc = [c \in Callers |-> "idle"]
    /\ isProbe = [c \in Callers |-> FALSE]
    /\ transient = [c \in Callers |-> FALSE]
    /\ llm = "up"
    /\ strikes = 0
    /\ crashes = 0
    /\ redisFaults = 0

Goto(c, label) == pc' = [pc EXCEPT ![c] = label]

Return(c) ==
    /\ Goto(c, "idle")
    /\ isProbe' = [isProbe EXCEPT ![c] = FALSE]
    /\ transient' = [transient EXCEPT ![c] = FALSE]

\* Go on with this call's other locals as they are.
Proceed(c, label) == Goto(c, label) /\ UNCHANGED <<isProbe, transient>>

\* getState saves HALF_OPEN for an OPEN breaker that has cooled, from what it
\* loaded one command earlier.
SaveHalfOpen ==
    /\ state' = "HALF_OPEN" /\ cooled' = FALSE
    /\ UNCHANGED <<failures, counter, probe>>

SaveOpen ==
    /\ state' = "OPEN" /\ cooled' = FALSE
    /\ UNCHANGED <<failures, counter, probe>>

(* ------------------------------ admission ------------------------------ *)

\* stateAtAdmission = await getState(): load ...
Admit(c) ==
    /\ pc[c] = "idle"
    /\ IF cooled
           THEN Proceed(c, "admitSave")
           ELSE /\ isProbe' = [isProbe EXCEPT ![c] = (state = "HALF_OPEN")]
                /\ Goto(c, "gate")
                /\ UNCHANGED transient
    /\ UNCHANGED <<keyVars, envVars>>

\* ... and save.
AdmitSave(c) ==
    /\ pc[c] = "admitSave"
    /\ SaveHalfOpen
    /\ isProbe' = [isProbe EXCEPT ![c] = TRUE]
    /\ Goto(c, "gate")
    /\ UNCHANGED <<transient, envVars>>

\* isOpen(): its own getState; OPEN turns the call away.
Gate(c) ==
    /\ pc[c] = "gate"
    /\ \/ cooled /\ Proceed(c, "gateSave")
       \/ state = "OPEN" /\ ~cooled /\ Return(c)
       \/ state = "HALF_OPEN" /\ Proceed(c, "lock")
       \/ state = "CLOSED" /\ Proceed(c, "call")
    /\ UNCHANGED <<keyVars, envVars>>

GateSave(c) ==
    /\ pc[c] = "gateSave"
    /\ SaveHalfOpen
    /\ Proceed(c, "lock")
    /\ UNCHANGED envVars

\* SET cb:llm:probe NX: one caller goes through, the others are turned away.
AcquireProbe(c) ==
    /\ pc[c] = "lock"
    /\ IF probe THEN Return(c) ELSE Proceed(c, "probeCall")
    /\ probe' = TRUE
    /\ UNCHANGED <<state, cooled, failures, counter, envVars>>

(* --------------------- executeWithRetry, in one step ------------------- *)

Calling(c) == pc[c] \in {"call", "probeCall"}

LlmAnswers(c) ==
    /\ Calling(c) /\ llm = "up"
    /\ Goto(c, "success")
    /\ isProbe' = [isProbe EXCEPT ![c] = FALSE]
    /\ UNCHANGED <<transient, keyVars, envVars>>

\* A transient error after the retries, or a non-transient one at once. The
\* second is recorded only for a call that took itself for the probe.
LlmFails(c) ==
    /\ Calling(c) /\ llm # "up"
    /\ LET isTransient == llm = "down"
       IN  /\ IF isTransient \/ isProbe[c]
                  THEN /\ transient' = [transient EXCEPT ![c] = isTransient]
                       /\ isProbe' = [isProbe EXCEPT ![c] = FALSE]
                       /\ Goto(c, "failure")
                  ELSE Return(c)
           /\ strikes' = IF isTransient /\ strikes < Threshold THEN strikes + 1 ELSE strikes
    /\ UNCHANGED <<keyVars, llm, crashes, redisFaults>>

(* ------------------------------ recordSuccess -------------------------- *)

RecordSuccess(c) ==
    /\ pc[c] = "success"
    /\ IF state = "OPEN" THEN Return(c) ELSE Proceed(c, "resetProbe")
    /\ UNCHANGED <<keyVars, envVars>>

ResetProbe(c) ==
    /\ pc[c] = "resetProbe"
    /\ probe' = FALSE
    /\ Proceed(c, "resetCount")
    /\ UNCHANGED <<state, cooled, failures, counter, envVars>>

ResetCount(c) ==
    /\ pc[c] = "resetCount"
    /\ failures' = 0 /\ counter' = "absent"
    /\ Proceed(c, "resetSave")
    /\ UNCHANGED <<state, cooled, probe, envVars>>

ResetSave(c) ==
    /\ pc[c] = "resetSave"
    /\ state' = "CLOSED" /\ cooled' = FALSE
    /\ Return(c)
    /\ UNCHANGED <<failures, counter, probe, envVars>>

(* ------------------------------ recordFailure -------------------------- *)

\* What is loaded here decides: HALF_OPEN re-opens, CLOSED counts, OPEN is left
\* alone.
RecordFailure(c) ==
    /\ pc[c] = "failure"
    /\ Proceed(c, CASE state = "HALF_OPEN" -> "reopenProbe"
                    [] state = "CLOSED"    -> "countInit"
                    [] state = "OPEN"      -> "recheck")
    /\ UNCHANGED <<keyVars, envVars>>

ReopenProbe(c) ==
    /\ pc[c] = "reopenProbe"
    /\ probe' = FALSE
    /\ Proceed(c, "reopenSave")
    /\ UNCHANGED <<state, cooled, failures, counter, envVars>>

ReopenSave(c) ==
    /\ pc[c] = "reopenSave"
    /\ SaveOpen
    /\ Proceed(c, "recheck")
    /\ UNCHANGED envVars

\* SET cb:llm:failures 0 EX window NX.
CountInit(c) ==
    /\ pc[c] = "countInit"
    /\ counter' = IF counter = "absent" THEN "expiring" ELSE counter
    /\ Proceed(c, "count")
    /\ UNCHANGED <<state, cooled, failures, probe, envVars>>

Incremented == IF failures < Threshold THEN failures + 1 ELSE failures

\* Mutant: one failure too few trips the breaker.
CountOffByOne(c) ==
    /\ pc[c] = "count"
    /\ failures' = Incremented
    /\ counter' = IF counter = "absent" THEN "lasting" ELSE counter
    /\ Proceed(c, IF Incremented + 1 >= Threshold THEN "trip" ELSE "recheck")
    /\ UNCHANGED <<state, cooled, probe, envVars>>

\* INCR, which also creates the key when it is gone again, and then without a
\* TTL.
Count(c) ==
    /\ pc[c] = "count"
    /\ failures' = Incremented
    /\ counter' = IF counter = "absent" THEN "lasting" ELSE counter
    /\ Proceed(c, IF Incremented >= Threshold THEN "trip" ELSE "recheck")
    /\ UNCHANGED <<state, cooled, probe, envVars>>

\* INCR fails: null trips the breaker too.
CountFails(c) ==
    /\ pc[c] = "count"
    /\ redisFaults < MaxRedisFaults
    /\ redisFaults' = redisFaults + 1
    /\ Proceed(c, "trip")
    /\ UNCHANGED <<keyVars, llm, strikes, crashes>>

Trip(c) ==
    /\ pc[c] = "trip"
    /\ SaveOpen
    /\ Proceed(c, "recheck")
    /\ UNCHANGED envVars

\* The catch block asks isOpen() once more after a transient error, to choose
\* between the fixture / open-breaker error and the error itself; in HALF_OPEN
\* that takes the probe key.
Recheck(c) ==
    /\ pc[c] = "recheck"
    /\ \/ transient[c] /\ cooled /\ Proceed(c, "recheckSave")
       \/ transient[c] /\ state = "HALF_OPEN" /\ Proceed(c, "recheckLock")
       \/ /\ ~transient[c] \/ state = "CLOSED" \/ (state = "OPEN" /\ ~cooled)
          /\ Return(c)
    /\ UNCHANGED <<keyVars, envVars>>

RecheckSave(c) ==
    /\ pc[c] = "recheckSave"
    /\ SaveHalfOpen
    /\ Proceed(c, "recheckLock")
    /\ UNCHANGED envVars

RecheckLock(c) ==
    /\ pc[c] = "recheckLock"
    /\ probe' = TRUE
    /\ Return(c)
    /\ UNCHANGED <<state, cooled, failures, counter, envVars>>

(* --------------------------- time and the world ------------------------ *)

CooldownElapses ==
    /\ state = "OPEN" /\ ~cooled
    /\ cooled' = TRUE
    /\ UNCHANGED <<state, failures, counter, probe, callVars, envVars>>

WindowExpires ==
    /\ counter = "expiring"
    /\ failures' = 0 /\ counter' = "absent"
    /\ UNCHANGED <<state, cooled, probe, callVars, envVars>>

\* Mutant: the TTL is renewed as long as the breaker is half open.
ProbeExpiresLate ==
    /\ probe /\ state = "CLOSED"
    /\ probe' = FALSE
    /\ UNCHANGED <<state, cooled, failures, counter, callVars, envVars>>

\* PROBE_LOCK_TTL_S after the key was taken.
ProbeExpires ==
    /\ probe
    /\ KeyOutlivesCall => \A c \in Callers : pc[c] # "probeCall"
    /\ probe' = FALSE
    /\ UNCHANGED <<state, cooled, failures, counter, callVars, envVars>>

\* CB_TTL_S after the last save.
StateExpires ==
    /\ state # "CLOSED"
    /\ state' = "CLOSED" /\ cooled' = FALSE
    /\ UNCHANGED <<failures, counter, probe, callVars, envVars>>

LlmChanges ==
    /\ llm' \in {"up", "down", "rejecting"} \ {llm}
    /\ UNCHANGED <<keyVars, callVars, strikes, crashes, redisFaults>>

CallerDies(c) ==
    /\ pc[c] # "idle"
    /\ crashes < MaxCrashes
    /\ crashes' = crashes + 1
    /\ Return(c)
    /\ UNCHANGED <<keyVars, llm, strikes, redisFaults>>

-----------------------------------------------------------------------------

CallStep(c) ==
    \/ Admit(c) \/ AdmitSave(c) \/ Gate(c) \/ GateSave(c) \/ AcquireProbe(c)
    \/ LlmAnswers(c) \/ LlmFails(c)
    \/ RecordSuccess(c) \/ ResetProbe(c) \/ ResetCount(c) \/ ResetSave(c)
    \/ RecordFailure(c) \/ ReopenProbe(c) \/ ReopenSave(c)
    \/ CountInit(c) \/ Count(c) \/ CountFails(c) \/ Trip(c)
    \/ Recheck(c) \/ RecheckSave(c) \/ RecheckLock(c)

TimeStep == CooldownElapses \/ WindowExpires \/ ProbeExpires \/ StateExpires

Next ==
    \/ \E c \in Callers : CallStep(c) \/ CallerDies(c)
    \/ TimeStep \/ LlmChanges

Spec == Init /\ [][Next]_vars

\* Requests keep coming and calls return; cooldowns and the probe key end. The
\* hour after which the state key expires is not relied on.
FairSpec ==
    /\ Spec
    /\ \A c \in Callers : WF_vars(CallStep(c))
    /\ WF_vars(CooldownElapses) /\ WF_vars(ProbeExpires)

-----------------------------------------------------------------------------
(* ------------------------------ properties ----------------------------- *)

\* recordFailure trips at the threshold and never for client errors (4xx) or
\* before that many transient failures, whatever other calls reset or count
\* meanwhile; only an INCR that Redis fails trips it earlier.
TripsAfterThreshold ==
    state # "CLOSED" \/ (\E c \in Callers : pc[c] = "trip")
        => strikes = Threshold \/ redisFaults > 0

\* Once the LLM is well for good the breaker closes again, although calls die
\* holding the probe key, re-open it late, or leave the key behind.
RecoversWhenHealthy == <>[](llm = "up") => []<>(state = "CLOSED")
=============================================================================
