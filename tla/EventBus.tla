------------------------------ MODULE EventBus ------------------------------
(***************************************************************************)
(* Domain events inside the backend process: EventProducerService emits an *)
(* event to the consumers the router names, each call is guarded by the    *)
(* circuit breaker of its consumer, and a failed call is tried again by    *)
(* IntelligentRetryService from a timer.  All of it lives in memory.       *)
(*                                                                         *)
(* JavaScript runs to the next await, so an emission asks every breaker in *)
(* one step; then each consumer takes as long as it takes.                 *)
(***************************************************************************)
EXTENDS Naturals

CONSTANTS
    Events,         \* the events that may be emitted
    Consumers,      \* names of consumers: the key of the breakers
    ConsumersOf,    \* what the router answers for each event
    OpenAfter,      \* failures in the window that open a breaker (5 in the code)
    MaxRestarts     \* bound on restarts of the process

ASSUME RouteAssumption == ConsumersOf \in [Events -> SUBSET Consumers]
ASSUME BreakerAssumption == OpenAfter \in Nat \ {0} /\ MaxRestarts \in Nat

VARIABLES
    emitter,        \* addInternalEvent of each event, as its caller sees it
    delivery,       \* each event on its way to each of its consumers
    first,          \* the deliveries whose first call is still under way
    breaker,        \* CircuitBreakerService.state
    failing,         \* auxiliary: failures of a consumer since it last succeeded
                    \* or the process started, counted up to OpenAfter
    restarts        \* restarts so far

busVars == <<emitter, delivery, first, breaker, failing, restarts>>

Handovers == {d \in Events \X Consumers : d[2] \in ConsumersOf[d[1]]}

Emitters == {"idle", "waiting", "returned", "gone"}
Phases   == {"none", "calling", "backoff", "handled", "refused", "lost"}
\* failures: the timestamps in the window, of which only the number matters.
\* rested: RECOVER_AFTER_MS have passed since openedAt.
Breakers == [state: {"closed", "open", "half-open"}, failures: 0..OpenAfter,
             rested: BOOLEAN]
NewBreaker == [state |-> "closed", failures |-> 0, rested |-> FALSE]

BusTypeOK ==
    /\ emitter \in [Events -> Emitters]
    /\ delivery \in [Handovers -> Phases]
    /\ first \subseteq Handovers
    /\ breaker \in [Consumers -> Breakers]
    /\ failing \in [Consumers -> 0..OpenAfter]
    /\ restarts \in 0..MaxRestarts

BusInit ==
    /\ emitter = [e \in Events |-> "idle"]
    /\ delivery = [d \in Handovers |-> "none"]
    /\ first = {}
    /\ breaker = [c \in Consumers |-> NewBreaker]
    /\ failing = [c \in Consumers |-> 0]
    /\ restarts = 0

-----------------------------------------------------------------------------
(* The circuit breaker.                                                    *)

\* canExecute: what it answers, and the breaker after it was asked.  A half-open
\* breaker lets everybody through.  The slip goes half-open for nobody.
AdmitsWhenClosed(c) == breaker[c].state = "closed"
Admits(c) == breaker[c].state # "open" \/ breaker[c].rested

Asked(c) == IF breaker[c].state = "open" /\ breaker[c].rested
            THEN [breaker[c] EXCEPT !.state = "half-open"]
            ELSE breaker[c]

\* reportSuccess closes the breaker whatever its state.  The slip closes it and
\* keeps the old failures.
ClosedAgain(b) == [b EXCEPT !.state = "closed"]
AfterSuccess(b) == NewBreaker

UpToOpenAfter(n) == IF n > OpenAfter THEN OpenAfter ELSE n

\* reportFailure.  The slip counts one failure more than happened.
CountedTwice(b) ==
    IF b.failures + 2 >= OpenAfter /\ b.state = "closed"
    THEN [state |-> "open", failures |-> UpToOpenAfter(b.failures + 2), rested |-> FALSE]
    ELSE [b EXCEPT !.failures = b.failures + 2]
AfterFailure(b) ==
    IF b.state = "half-open"
    THEN [state |-> "open", failures |-> 1, rested |-> FALSE]
    ELSE IF b.state = "closed" /\ b.failures + 1 >= OpenAfter
    THEN [state |-> "open", failures |-> OpenAfter, rested |-> FALSE]
    ELSE [b EXCEPT !.failures = UpToOpenAfter(b.failures + 1)]

\* Thirty seconds after it opened, and a minute after a failure.
Rest(c) ==
    /\ breaker[c].state = "open"
    /\ ~breaker[c].rested
    /\ breaker' = [breaker EXCEPT ![c].rested = TRUE]
    /\ UNCHANGED <<emitter, delivery, first, failing, restarts>>

WindowSlides(c) ==
    /\ breaker[c].failures > 0
    /\ breaker' = [breaker EXCEPT ![c].failures = @ - 1]
    /\ UNCHANGED <<emitter, delivery, first, failing, restarts>>

-----------------------------------------------------------------------------
(* EventProducerService and IntelligentRetryService.                       *)

\* executeConsumer up to the call: a refused event is dropped.
Outcome(c) == IF Admits(c) THEN "calling" ELSE "refused"

Emit(e) ==
    /\ emitter[e] = "idle"
    /\ emitter' = [emitter EXCEPT ![e] = "waiting"]
    /\ delivery' = [d \in Handovers |-> IF d[1] = e THEN Outcome(d[2]) ELSE delivery[d]]
    /\ first' = first \cup {d \in Handovers : d[1] = e /\ Admits(d[2])}
    /\ breaker' = [c \in Consumers |-> IF c \in ConsumersOf[e] THEN Asked(c) ELSE breaker[c]]
    /\ UNCHANGED <<failing, restarts>>

Succeeds(d) ==
    /\ delivery[d] = "calling"
    /\ delivery' = [delivery EXCEPT ![d] = "handled"]
    /\ first' = first \ {d}
    /\ breaker' = [breaker EXCEPT ![d[2]] = AfterSuccess(@)]
    /\ failing' = [failing EXCEPT ![d[2]] = 0]
    /\ UNCHANGED <<emitter, restarts>>

\* What becomes of a delivery whose call failed: a timer is set, and, because the
\* executor never rejects, each time as for attempt 1.  The slip forgets it.
Forgotten(d) == "none"
AfterFailedCall(d) == "backoff"

Fails(d) ==
    /\ delivery[d] = "calling"
    /\ delivery' = [delivery EXCEPT ![d] = AfterFailedCall(d)]
    /\ first' = first \ {d}
    /\ breaker' = [breaker EXCEPT ![d[2]] = AfterFailure(@)]
    /\ failing' = [failing EXCEPT ![d[2]] = UpToOpenAfter(@ + 1)]
    /\ UNCHANGED <<emitter, restarts>>

RetryFires(d) ==
    /\ delivery[d] = "backoff"
    /\ delivery' = [delivery EXCEPT ![d] = Outcome(d[2])]
    /\ breaker' = [breaker EXCEPT ![d[2]] = Asked(d[2])]
    /\ UNCHANGED <<emitter, first, failing, restarts>>

\* Promise.allSettled over the first calls: the caller of addInternalEvent goes
\* on.  The slip waits for the retries as well.
RetriesSettled(e) ==
    \A d \in Handovers : d[1] = e => delivery[d] \notin {"calling", "backoff"}
FirstCallsSettled(e) == \A d \in first : d[1] # e

Return(e) ==
    /\ emitter[e] = "waiting"
    /\ FirstCallsSettled(e)
    /\ emitter' = [emitter EXCEPT ![e] = "returned"]
    /\ UNCHANGED <<delivery, first, breaker, failing, restarts>>

\* A restart, with or without onModuleDestroy: timers, calls and breakers go.
Restart ==
    /\ restarts < MaxRestarts
    /\ restarts' = restarts + 1
    /\ emitter' = [e \in Events |-> IF emitter[e] = "waiting" THEN "gone" ELSE emitter[e]]
    /\ delivery' = [d \in Handovers |->
                      IF delivery[d] \in {"calling", "backoff"} THEN "lost" ELSE delivery[d]]
    /\ first' = {}
    /\ breaker' = [c \in Consumers |-> NewBreaker]
    /\ failing' = [c \in Consumers |-> 0]

-----------------------------------------------------------------------------
Settle(d) == Succeeds(d) \/ Fails(d)

BusNext ==
    \/ \E e \in Events : Emit(e) \/ Return(e)
    \/ \E d \in Handovers : Succeeds(d) \/ Fails(d) \/ RetryFires(d)
    \/ \E c \in Consumers : Rest(c) \/ WindowSlides(c)
    \/ Restart

BusSpec == BusInit /\ [][BusNext]_busVars

\* Every call of a consumer ends, one way or the other, and Node's timers fire.
\* Nobody must emit, and a consumer may fail for ever.
Fairness ==
    /\ \A d \in Handovers : WF_busVars(Settle(d)) /\ WF_busVars(RetryFires(d))
    /\ \A e \in Events : WF_busVars(Return(e))

FairBusSpec == BusSpec /\ Fairness

-----------------------------------------------------------------------------
(* Correctness.                                                            *)

Settled(d) == delivery[d] \in {"handled", "refused", "lost"}

\* A breaker is half-open only while a call of its consumer is under way that will
\* close or open it: it is never left there with nobody to decide.
TrialUnderWay ==
    \A c \in Consumers :
        breaker[c].state = "half-open"
            => \E d \in Handovers : d[2] = c /\ delivery[d] = "calling"

\* An event is dropped only when its own consumer has failed OpenAfter times and
\* not succeeded since: the failures of another consumer, failures from before a
\* success and late answers of calls admitted earlier never cost an event.
RefusalsEarned ==
    [][\A d \in Handovers :
          delivery'[d] = "refused" /\ delivery[d] # "refused"
              => failing[d[2]] = OpenAfter]_busVars

\* Whoever emits goes on after one call of each consumer, also when a consumer
\* fails for ever and is tried again for ever.
EmitterResumes ==
    \A e \in Events : emitter[e] = "waiting" ~> emitter[e] \in {"returned", "gone"}

\* If the consumers fail no more from some time on, no event is left undecided:
\* it is handled, or it was dropped by a breaker or by a restart.
CallFails(d) == delivery[d] = "calling" /\ delivery'[d] \notin {"calling", "handled", "lost"}
HealthyDelivers ==
    <>[][\A d \in Handovers : ~CallFails(d)]_busVars
        => \A d \in Handovers : delivery[d] # "none" ~> Settled(d)
=============================================================================
