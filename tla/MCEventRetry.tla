---------------------------- MODULE MCEventRetry ----------------------------
(* An instance of EventBus that counts the calls of each delivery, within   *)
(* half a minute: no breaker rests and no failure leaves the window.        *)
EXTENDS EventBus

CONSTANTS ev1, ev2, audit, notification

Routes == [e \in Events |-> IF e = ev1 THEN {audit, notification} ELSE {audit}]

CONSTANT MaxCalls   \* calls of one delivery: the first and the retries

VARIABLE calls      \* calls of each delivery so far, counted up to MaxCalls + 1

UpToLimit(n) == IF n > MaxCalls THEN MaxCalls + 1 ELSE n

CountCalls ==
    calls' = [d \in Handovers |->
                IF delivery[d] # "calling" /\ delivery'[d] = "calling"
                THEN UpToLimit(calls[d] + 1)
                ELSE calls[d]]

QuickInit == BusInit /\ calls = [d \in Handovers |-> 0]

QuickNext ==
    /\ \/ \E e \in Events : Emit(e) \/ Return(e)
       \/ \E d \in Handovers : Succeeds(d) \/ Fails(d) \/ RetryFires(d)
    /\ CountCalls

QuickSpec == QuickInit /\ [][QuickNext]_<<busVars, calls>>

\* intelligent-retry.service.ts:21 promises a limit ("Maximo 5 tentativas"), and
\* schedule() has a branch that enforces it: a consumer is called for an event at
\* most MaxCalls times, the first call included.
AttemptsBounded == \A d \in Handovers : calls[d] <= MaxCalls
=============================================================================
