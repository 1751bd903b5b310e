---------------------------- MODULE Events_proofs ----------------------------
(***************************************************************************)
(* Proofs about EventBus and WebhookDelivery, for any number of events,    *)
(* consumers, webhooks, deliveries, managers, attempts and crashes.  Of    *)
(* the bus: a half-open breaker always has a call under way that decides   *)
(* it, and an event is dropped only by a breaker its own consumer opened.  *)
(* Of the webhooks: one is only disabled by that many given-up deliveries  *)
(* and never silently, and an attempt is queued only after the one before  *)
(* it was recorded as failed.  And type correctness of both, together.     *)
(***************************************************************************)
EXTENDS MCEvents, TLAPS

-----------------------------------------------------------------------------
(* EventBus.                                                               *)

\* What a breaker knows is no more than what happened: the failures it counts are
\* failures since the last success, and it leaves "closed" only for OpenAfter of them.
BreakerKnows ==
    \A c \in Consumers :
        /\ breaker[c].failures <= failing[c]
        /\ breaker[c].state # "closed" => failing[c] = OpenAfter

BusInv == BusTypeOK /\ BreakerKnows /\ TrialUnderWay

-----------------------------------------------------------------------------
(* What the operators of the breaker return.                               *)

LEMMA NewBreakerType == NewBreaker \in Breakers
BY BreakerAssumption DEF NewBreaker, Breakers

LEMMA AskedType ==
    ASSUME BusTypeOK, NEW c \in Consumers
    PROVE  /\ Asked(c) \in Breakers
           /\ Asked(c).failures = breaker[c].failures
           /\ Asked(c).state # "closed" <=> breaker[c].state # "closed"
           /\ Asked(c).state = "half-open" <=> breaker[c].state # "closed" /\ Admits(c)
<1>1. breaker[c] \in Breakers
  BY DEF BusTypeOK
<1>2. QED
  BY <1>1 DEF Asked, Admits, Breakers

LEMMA AfterFailureType ==
    ASSUME NEW b \in Breakers, NEW n \in 0..OpenAfter, b.failures <= n,
           b.state # "closed" => n = OpenAfter
    PROVE  /\ AfterFailure(b) \in Breakers
           /\ UpToOpenAfter(n + 1) \in 0..OpenAfter
           /\ AfterFailure(b).failures <= UpToOpenAfter(n + 1)
           /\ AfterFailure(b).state # "closed" => UpToOpenAfter(n + 1) = OpenAfter
           /\ AfterFailure(b).state # "half-open"
<1>1. b.failures \in 0..OpenAfter /\ b.state \in {"closed", "open", "half-open"}
      /\ b.rested \in BOOLEAN
  BY DEF Breakers
<1>2. CASE b.state = "half-open"
  BY <1>1, <1>2, BreakerAssumption DEF AfterFailure, UpToOpenAfter, Breakers
<1>3. CASE b.state = "closed" /\ b.failures + 1 >= OpenAfter
  BY <1>1, <1>3, BreakerAssumption DEF AfterFailure, UpToOpenAfter, Breakers
<1>4. CASE b.state = "closed" /\ ~(b.failures + 1 >= OpenAfter)
  BY <1>1, <1>4, BreakerAssumption DEF AfterFailure, UpToOpenAfter, Breakers
<1>5. CASE b.state = "open"
  BY <1>1, <1>5, BreakerAssumption DEF AfterFailure, UpToOpenAfter, Breakers
<1>6. QED
  BY <1>1, <1>2, <1>3, <1>4, <1>5

LEMMA DeliveryConsumer ==
    ASSUME NEW d \in Handovers
    PROVE  d[1] \in Events /\ d[2] \in Consumers
BY DEF Handovers

-----------------------------------------------------------------------------
(* The invariant.                                                          *)

LEMMA BusInitInv == BusInit => BusInv
BY NewBreakerType, BreakerAssumption
   DEF BusInit, BusInv, BusTypeOK, BreakerKnows, TrialUnderWay, NewBreaker, Emitters, Phases

\* A step that asks the breakers of the consumers in C, and starts a call of each
\* of them that is admitted.
LEMMA AskKeeps ==
    ASSUME BusInv, NEW C \in SUBSET Consumers,
           breaker' = [c \in Consumers |-> IF c \in C THEN Asked(c) ELSE breaker[c]],
           delivery' \in [Handovers -> Phases],
           \A d \in Handovers : d[2] \notin C => delivery'[d] = delivery[d],
           \A c \in C : Admits(c)
               => \E d \in Handovers : d[2] = c /\ delivery'[d] = "calling",
           emitter' \in [Events -> Emitters],
           first' \subseteq Handovers,
           UNCHANGED <<failing, restarts>>
    PROVE  BusInv'
<1>1. BusTypeOK'
  BY AskedType DEF BusInv, BusTypeOK
<1>2. BreakerKnows'
  BY AskedType DEF BusInv, BusTypeOK, BreakerKnows
<1>3. TrialUnderWay'
  <2> SUFFICES ASSUME NEW c \in Consumers, breaker'[c].state = "half-open"
               PROVE  \E d \in Handovers : d[2] = c /\ delivery'[d] = "calling"
    BY DEF TrialUnderWay
  <2>1. CASE c \in C
    BY <2>1, AskedType DEF BusInv
  <2>2. CASE c \notin C
    BY <2>2 DEF BusInv, TrialUnderWay
  <2>3. QED
    BY <2>1, <2>2
<1>4. QED
  BY <1>1, <1>2, <1>3 DEF BusInv

LEMMA EmitKeeps ==
    ASSUME BusInv, NEW e \in Events, Emit(e)
    PROVE  BusInv'
<1> DEFINE C == ConsumersOf[e]
<1>1. C \in SUBSET Consumers
  BY RouteAssumption
<1>2. breaker' = [c \in Consumers |-> IF c \in C THEN Asked(c) ELSE breaker[c]]
  BY DEF Emit
<1>3. delivery' = [d \in Handovers |-> IF d[1] = e THEN Outcome(d[2]) ELSE delivery[d]]
  BY DEF Emit
<1>4. delivery' \in [Handovers -> Phases]
  BY <1>3 DEF BusInv, BusTypeOK, Outcome, Phases
<1>5. ASSUME NEW d \in Handovers, d[2] \notin C
      PROVE  delivery'[d] = delivery[d]
  BY <1>3, <1>5 DEF Handovers
<1>6. ASSUME NEW c \in C, Admits(c)
      PROVE  \E d \in Handovers : d[2] = c /\ delivery'[d] = "calling"
  <2>1. <<e, c>> \in Handovers
    BY <1>1 DEF Handovers
  <2>2. delivery'[<<e, c>>] = "calling"
    BY <1>3, <1>6, <2>1 DEF Outcome
  <2>3. QED
    BY <2>1, <2>2
<1>7. emitter' \in [Events -> Emitters] /\ first' \subseteq Handovers
  BY DEF BusInv, BusTypeOK, Emit, Emitters
<1>8. UNCHANGED <<failing, restarts>>
  BY DEF Emit
<1>9. QED
  BY <1>1, <1>2, <1>4, <1>5, <1>6, <1>7, <1>8, AskKeeps

LEMMA RetryFiresKeeps ==
    ASSUME BusInv, NEW d \in Handovers, RetryFires(d)
    PROVE  BusInv'
<1> DEFINE C == {d[2]}
<1>1. C \in SUBSET Consumers
  BY DeliveryConsumer
<1>2. breaker' = [c \in Consumers |-> IF c \in C THEN Asked(c) ELSE breaker[c]]
  BY DEF RetryFires, BusInv, BusTypeOK
<1>3. delivery' = [delivery EXCEPT ![d] = Outcome(d[2])]
  BY DEF RetryFires
<1>4. delivery' \in [Handovers -> Phases]
  BY <1>3 DEF BusInv, BusTypeOK, Outcome, Phases
<1>5. ASSUME NEW c \in C, Admits(c)
      PROVE  \E x \in Handovers : x[2] = c /\ delivery'[x] = "calling"
  BY <1>3, <1>5 DEF BusInv, BusTypeOK, Outcome
<1>6. \A x \in Handovers : x[2] \notin C => delivery'[x] = delivery[x]
  BY <1>3 DEF BusInv, BusTypeOK
<1>7. UNCHANGED <<emitter, first, failing, restarts>>
  BY DEF RetryFires
<1>8. emitter' \in [Events -> Emitters] /\ first' \subseteq Handovers
  BY <1>7 DEF BusInv, BusTypeOK
<1>9. QED
  BY <1>1, <1>2, <1>4, <1>5, <1>6, <1>7, <1>8, AskKeeps

\* A step that only touches the callers, and one that ends a call.
LEMMA ReturnKeeps ==
    ASSUME BusInv, NEW e \in Events, Return(e)
    PROVE  BusInv'
BY DEF BusInv, BusTypeOK, BreakerKnows, TrialUnderWay, Return, Emitters

LEMMA SucceedsKeeps ==
    ASSUME BusInv, NEW d \in Handovers, Succeeds(d)
    PROVE  BusInv'
<1>1. breaker' = [breaker EXCEPT ![d[2]] = NewBreaker] /\ d[2] \in Consumers
  BY DeliveryConsumer DEF Succeeds, AfterSuccess
<1>2. BusTypeOK'
  BY <1>1, NewBreakerType, BreakerAssumption DEF BusInv, BusTypeOK, Succeeds, Phases
<1>3. BreakerKnows'
  BY <1>1 DEF BusInv, BusTypeOK, BreakerKnows, Succeeds, NewBreaker
<1>4. TrialUnderWay'
  <2> SUFFICES ASSUME NEW c \in Consumers, breaker'[c].state = "half-open"
               PROVE  \E x \in Handovers : x[2] = c /\ delivery'[x] = "calling"
    BY DEF TrialUnderWay
  <2>1. c # d[2] /\ breaker[c].state = "half-open"
    BY <1>1 DEF BusInv, BusTypeOK, NewBreaker
  <2>2. QED
    BY <2>1 DEF BusInv, BusTypeOK, TrialUnderWay, Succeeds
<1>5. QED
  BY <1>2, <1>3, <1>4 DEF BusInv

LEMMA FailsKeeps ==
    ASSUME BusInv, NEW d \in Handovers, Fails(d)
    PROVE  BusInv'
<1> DEFINE b == breaker[d[2]]
           n == failing[d[2]]
<1>1. /\ d[2] \in Consumers
      /\ breaker' = [breaker EXCEPT ![d[2]] = AfterFailure(b)]
      /\ failing' = [failing EXCEPT ![d[2]] = UpToOpenAfter(n + 1)]
      /\ delivery' = [delivery EXCEPT ![d] = "backoff"]
  BY DeliveryConsumer DEF Fails, AfterFailedCall
<1>2. /\ b \in Breakers /\ n \in 0..OpenAfter /\ b.failures <= n
      /\ b.state # "closed" => n = OpenAfter
  BY <1>1 DEF BusInv, BusTypeOK, BreakerKnows
<1>3. /\ AfterFailure(b) \in Breakers
      /\ UpToOpenAfter(n + 1) \in 0..OpenAfter
      /\ AfterFailure(b).failures <= UpToOpenAfter(n + 1)
      /\ AfterFailure(b).state # "closed" => UpToOpenAfter(n + 1) = OpenAfter
      /\ AfterFailure(b).state # "half-open"
  BY <1>2, AfterFailureType
<1>4. BusTypeOK'
  BY <1>1, <1>3 DEF BusInv, BusTypeOK, Fails, Phases
<1>5. BreakerKnows'
  BY <1>1, <1>3 DEF BusInv, BusTypeOK, BreakerKnows
<1>6. TrialUnderWay'
  <2> SUFFICES ASSUME NEW c \in Consumers, breaker'[c].state = "half-open"
               PROVE  \E x \in Handovers : x[2] = c /\ delivery'[x] = "calling"
    BY DEF TrialUnderWay
  <2>1. c # d[2] /\ breaker[c].state = "half-open"
    BY <1>1, <1>3 DEF BusInv, BusTypeOK
  <2>2. QED
    BY <1>1, <2>1 DEF BusInv, BusTypeOK, TrialUnderWay
<1>7. QED
  BY <1>4, <1>5, <1>6 DEF BusInv

\* The clock only rests an open breaker or forgets a failure.
LEMMA ClockKeeps ==
    ASSUME BusInv, NEW c \in Consumers, Rest(c) \/ WindowSlides(c)
    PROVE  BusInv'
<1>1. breaker[c] \in Breakers /\ breaker[c].failures \in 0..OpenAfter
  BY DEF BusInv, BusTypeOK, Breakers
<1>2. PICK b \in Breakers :
          /\ breaker' = [breaker EXCEPT ![c] = b]
          /\ b.state = breaker[c].state
          /\ b.failures <= breaker[c].failures
  <2>1. CASE Rest(c)
    <3> DEFINE b == [breaker[c] EXCEPT !.rested = TRUE]
    <3>1. b \in Breakers
      BY <1>1, <2>1, BreakerAssumption DEF Breakers, Rest
    <3>2. b.state = breaker[c].state /\ b.failures <= breaker[c].failures
      BY <1>1, <2>1, BreakerAssumption DEF Breakers, Rest
    <3>3. breaker' = [breaker EXCEPT ![c] = b]
      BY <2>1 DEF Rest
    <3>4. QED
      BY <3>1, <3>2, <3>3
  <2>2. CASE WindowSlides(c)
    <3> DEFINE b == [breaker[c] EXCEPT !.failures = @ - 1]
    <3>1. b \in Breakers
      BY <1>1, <2>2, BreakerAssumption DEF Breakers, WindowSlides
    <3>2. b.state = breaker[c].state /\ b.failures <= breaker[c].failures
      BY <1>1, <2>2, BreakerAssumption DEF Breakers, WindowSlides
    <3>3. breaker' = [breaker EXCEPT ![c] = b]
      BY <2>2 DEF WindowSlides
    <3>4. QED
      BY <3>1, <3>2, <3>3
  <2>3. QED
    BY <2>1, <2>2
<1>3. UNCHANGED <<emitter, delivery, first, failing, restarts>>
  BY DEF Rest, WindowSlides
<1>4. BusTypeOK' /\ TrialUnderWay'
  BY <1>2, <1>3 DEF BusInv, BusTypeOK, TrialUnderWay
<1>5. BreakerKnows'
  <2> SUFFICES ASSUME NEW k \in Consumers
               PROVE  /\ breaker'[k].failures <= failing[k]
                      /\ breaker'[k].state # "closed" => failing[k] = OpenAfter
    BY <1>3 DEF BreakerKnows
  <2>1. failing[k] \in Nat /\ breaker[k].failures \in Nat
    BY BreakerAssumption DEF BusInv, BusTypeOK, Breakers
  <2>2. breaker[k].failures <= failing[k]
        /\ (breaker[k].state # "closed" => failing[k] = OpenAfter)
    BY DEF BusInv, BreakerKnows
  <2>3. CASE k = c
    <3>1. b.failures \in Nat
      BY BreakerAssumption DEF Breakers
    <3>2. QED
      BY <1>2, <2>1, <2>2, <2>3, <3>1 DEF BusInv, BusTypeOK
  <2>4. CASE k # c
    BY <1>2, <2>2, <2>4 DEF BusInv, BusTypeOK
  <2>5. QED
    BY <2>3, <2>4
<1>6. QED
  BY <1>4, <1>5 DEF BusInv

LEMMA RestartKeeps ==
    ASSUME BusInv, Restart
    PROVE  BusInv'
<1>1. BusTypeOK'
  BY NewBreakerType, BreakerAssumption DEF BusInv, BusTypeOK, Restart, Emitters, Phases
<1>2. BreakerKnows' /\ TrialUnderWay'
  BY DEF Restart, BreakerKnows, TrialUnderWay, NewBreaker
<1>3. QED
  BY <1>1, <1>2 DEF BusInv

LEMMA BusNextInv == BusInv /\ [BusNext]_busVars => BusInv'
<1> SUFFICES ASSUME BusInv, [BusNext]_busVars
             PROVE  BusInv'
  OBVIOUS
<1>1. CASE UNCHANGED busVars
  BY <1>1 DEF busVars, BusInv, BusTypeOK, BreakerKnows, TrialUnderWay
<1>2. CASE BusNext
  BY <1>2, EmitKeeps, ReturnKeeps, SucceedsKeeps, FailsKeeps, RetryFiresKeeps,
     ClockKeeps, RestartKeeps DEF BusNext
<1>3. QED
  BY <1>1, <1>2

\* The inductive invariant: what a breaker knows really happened, and a half-open
\* breaker waits for a call.
THEOREM BusInvariance == BusSpec => []BusInv
<1>1. QED
  BY BusInitInv, BusNextInv, PTL DEF BusSpec

\* A half-open breaker is decided by a call that is under way.
THEOREM TrialsEnd == BusSpec => [](BusTypeOK /\ TrialUnderWay)
<1>1. BusInv => BusTypeOK /\ TrialUnderWay
  BY DEF BusInv
<1>2. QED
  BY <1>1, BusInvariance, PTL

-----------------------------------------------------------------------------
\* A refused event was refused by a breaker that OpenAfter failures of its own
\* consumer had opened, with no success after them.
LEMMA RefusedByOpen ==
    ASSUME BusInv, [BusNext]_busVars, NEW d \in Handovers,
           delivery'[d] = "refused", delivery[d] # "refused"
    PROVE  failing[d[2]] = OpenAfter
<1>1. d[2] \in Consumers
  BY DeliveryConsumer
<1>2. ~Admits(d[2])
  <2>1. CASE UNCHANGED busVars
    BY <2>1 DEF busVars
  <2>2. ASSUME NEW e \in Events, Emit(e)
        PROVE  ~Admits(d[2])
    BY <2>2 DEF Emit, Outcome
  <2>3. ASSUME NEW x \in Handovers, RetryFires(x)
        PROVE  ~Admits(d[2])
    BY <2>3 DEF RetryFires, Outcome, BusInv, BusTypeOK
  <2>4. ASSUME NEW x \in Handovers, Succeeds(x) \/ Fails(x)
        PROVE  FALSE
    BY <2>4 DEF Succeeds, Fails, AfterFailedCall, BusInv, BusTypeOK
  <2>5. ASSUME NEW e \in Events, Return(e)
        PROVE  FALSE
    BY <2>5 DEF Return
  <2>6. ASSUME NEW c \in Consumers, Rest(c) \/ WindowSlides(c)
        PROVE  FALSE
    BY <2>6 DEF Rest, WindowSlides
  <2>7. ASSUME Restart
        PROVE  FALSE
    BY <2>7 DEF Restart
  <2>8. QED
    BY <2>1, <2>2, <2>3, <2>4, <2>5, <2>6, <2>7 DEF BusNext
<1>3. breaker[d[2]].state # "closed"
  BY <1>2 DEF Admits
<1>4. QED
  BY <1>1, <1>3 DEF BusInv, BreakerKnows

\* Events are only dropped by breakers that their own consumer opened.
THEOREM DropsAreEarned == BusSpec => RefusalsEarned
<1>1. BusInv /\ [BusNext]_busVars
        => [\A d \in Handovers :
               delivery'[d] = "refused" /\ delivery[d] # "refused"
                   => failing[d[2]] = OpenAfter]_busVars
  BY RefusedByOpen
<1>2. QED
  BY <1>1, BusInvariance, PTL DEF BusSpec, RefusalsEarned

-----------------------------------------------------------------------------
(* WebhookDelivery.                                                        *)

Known(h) ==
    \/ crashes > 0
    \/ h \in announced
    \/ \E a \in Attempts : work[a].pc = "announce" /\ Hook(a) = h

\* What may be said of a copy d of the dados of webhook h, however old it is.
Sound(h, d) ==
    /\ d.failureCount <= givenUp[h]
    /\ d.disabled => givenUp[h] >= Threshold /\ Known(h)

\* The row, what the workers read before the POST, what the requests read: whatever
\* is written back is sound.
CopiesSound ==
    /\ \A h \in Hooks : Sound(h, dados[h])
    /\ \A a \in Attempts : Sound(Hook(a), work[a].snap)
    /\ \A r \in Managers \X Hooks : Sound(r[2], request[r].snap)

\* How far an attempt is: recorded or not yet, and never both ways without a crash.
Unrecorded(a) == <<a, "ok">> \notin attempts /\ <<a, "fail">> \notin attempts

ProgressOf(a) ==
    /\ work[a].pc # "idle" <=> job[a].state = "active"
    /\ work[a].pc = "retry" => ~IsLast(a) /\ <<a, "fail">> \in attempts
    /\ crashes = 0 /\ work[a].pc \in {"idle", "sending", "accepted", "refused"}
                   /\ job[a].state # "done"
           => Unrecorded(a)
    /\ crashes = 0 => ~(<<a, "ok">> \in attempts /\ <<a, "fail">> \in attempts)

Progress == \A a \in Attempts : ProgressOf(a)

RetriesEarned ==
    \A d \in Deliveries, n \in 1..(MaxAttempts - 1) :
        job[<<d, n + 1>>].state # "absent" => <<<<d, n>>, "fail">> \in attempts

HookInv == TypeOK /\ CopiesSound /\ Progress /\ RetriesEarned

-----------------------------------------------------------------------------
(* Types.                                                                  *)

LEMMA Shapes ==
    /\ \A a \in Attempts : /\ a[1] \in Deliveries /\ a[2] \in 1..MaxAttempts
                           /\ a = <<a[1], a[2]>> /\ Hook(a) \in Hooks
    /\ \A a \in Attempts : ~IsLast(a) => RetryId(a) \in Attempts /\ RetryId(a) # a
    /\ \A d \in Deliveries : <<d, 1>> \in Attempts
    /\ NewHook \in Dados /\ NoWork \in Works /\ NoRequest \in Requests /\ NoJob \in Jobs
BY HookAssumption, LimitAssumption
   DEF Attempts, Hook, IsLast, RetryId, NewHook, Dados, NoWork, Works, NoRequest,
       Requests, NoJob, Jobs

LEMMA InitType == Init => TypeOK
BY Shapes, LimitAssumption DEF Init, TypeOK

JobStates == {"absent", "chosen", "waiting", "active", "done", "failed"}
WorkPcs   == {"idle", "sending", "accepted", "refused", "retry", "announce"}

LEMMA SetJob ==
    ASSUME TypeOK, NEW a \in Attempts, NEW s \in JobStates
    PROVE  [job EXCEPT ![a].state = s] \in [Attempts -> Jobs]
BY DEF TypeOK, Jobs, JobStates

LEMMA SetWork ==
    ASSUME TypeOK, NEW a \in Attempts, NEW p \in WorkPcs
    PROVE  /\ [work EXCEPT ![a].pc = p] \in [Attempts -> Works]
           /\ [work EXCEPT ![a] = NoWork] \in [Attempts -> Works]
BY Shapes DEF TypeOK, Works, WorkPcs

LEMMA SetFailure ==
    ASSUME NEW d \in Dados, NEW n \in Nat, NEW b \in BOOLEAN
    PROVE  [d EXCEPT !.failureCount = n, !.disabled = b] \in Dados
BY DEF Dados

LEMMA RecordFailureType ==
    ASSUME TypeOK, NEW a \in Attempts, RecordFailure(a)
    PROVE  TypeOK'
<1>1. /\ work[a].snap \in Dados /\ Hook(a) \in Hooks
      /\ work[a].snap.failureCount \in Nat
      /\ givenUp[Hook(a)] \in Nat /\ streak[Hook(a)] \in Nat
  BY Shapes DEF TypeOK, Works, Dados
<1>2. [work[a].snap EXCEPT !.failureCount = NextFailureCount(a),
                           !.disabled = @ \/ AutoDisabled(a)] \in Dados
  <2>1. NextFailureCount(a) \in Nat
    BY <1>1 DEF NextFailureCount
  <2> DEFINE b == work[a].snap.disabled \/ AutoDisabled(a)
  <2>2. b \in BOOLEAN
    OBVIOUS
  <2> HIDE DEF b
  <2>3. [work[a].snap EXCEPT !.failureCount = NextFailureCount(a), !.disabled = b] \in Dados
    BY <1>1, <2>1, <2>2, SetFailure
  <2>4. QED
    BY <2>3 DEF b
<1>3. dados' \in [Hooks -> Dados]
  BY <1>1, <1>2 DEF RecordFailure, TypeOK
<1>4. work' \in [Attempts -> Works] /\ job' \in [Attempts -> Jobs]
  <2>1. ThenAfterFailure(a) \in WorkPcs
    BY DEF ThenAfterFailure, WorkPcs
  <2>2. "done" \in JobStates
    BY DEF JobStates
  <2>3. CASE ThenAfterFailure(a) = "idle"
    <3>1. [job EXCEPT ![a].state = "done"] \in [Attempts -> Jobs]
      BY <2>2, SetJob
    <3>2. [work EXCEPT ![a] = NoWork] \in [Attempts -> Works]
      BY Shapes DEF TypeOK
    <3>3. /\ job' = [job EXCEPT ![a].state = "done"]
          /\ work' = [work EXCEPT ![a] = NoWork]
      BY <2>3 DEF RecordFailure, Complete
    <3>4. QED
      BY <3>1, <3>2, <3>3
  <2>4. CASE ThenAfterFailure(a) # "idle"
    BY <2>1, <2>4, SetWork DEF RecordFailure, TypeOK
  <2>5. QED
    BY <2>3, <2>4
<1>5. givenUp' \in [Hooks -> Nat] /\ streak' \in [Hooks -> Nat]
  BY <1>1 DEF RecordFailure, TypeOK
<1>6. attempts' \subseteq Attempts \X {"ok", "fail"}
  BY DEF RecordFailure, TypeOK
<1>7. QED
  BY <1>3, <1>4, <1>5, <1>6 DEF RecordFailure, TypeOK

LEMMA ProcessorType ==
    ASSUME TypeOK, Progress, NEW a \in Attempts, ProcessorStep(a)
    PROVE  TypeOK'
<1>0. /\ work[a].snap \in Dados /\ Hook(a) \in Hooks /\ dados[Hook(a)] \in Dados
      /\ job[a] \in Jobs
  BY Shapes DEF TypeOK, Works
<1>1. CASE Load(a)
  <2>1. "done" \in JobStates /\ "active" \in JobStates
    BY DEF JobStates
  <2>2. job' \in [Attempts -> Jobs]
    <3>1. [job EXCEPT ![a].state = "done"] \in [Attempts -> Jobs]
      BY <2>1, SetJob
    <3>2. [job EXCEPT ![a].state = "active"] \in [Attempts -> Jobs]
      BY <2>1, SetJob
    <3>3. QED
      BY <1>1, <3>1, <3>2 DEF Load
  <2>3. [pc |-> "sending", snap |-> dados[Hook(a)]] \in Works
    BY <1>0 DEF Works
  <2>4. work' \in [Attempts -> Works]
    BY <1>1, <2>3 DEF Load, TypeOK
  <2>5. QED
    BY <1>1, <2>2, <2>4 DEF Load, TypeOK
<1>2. CASE Send(a)
  BY <1>2 DEF Send, TypeOK, Works
<1>3. CASE RecordSuccess(a)
  <2>1. [work[a].snap EXCEPT !.failureCount = 0] \in Dados
    BY <1>0 DEF Dados
  <2>2. QED
    BY <1>0, <1>3, <2>1, Shapes DEF RecordSuccess, Complete, TypeOK, Jobs
<1>4. CASE RecordFailure(a)
  BY <1>4, RecordFailureType
<1>5. CASE RecordError(a)
  <2>1. "failed" \in JobStates /\ "idle" \in WorkPcs
    BY DEF JobStates, WorkPcs
  <2>2. job' \in [Attempts -> Jobs] /\ work' \in [Attempts -> Works]
    <3>1. [job EXCEPT ![a].state = "failed"] \in [Attempts -> Jobs]
      BY <2>1, SetJob
    <3>2. [work EXCEPT ![a] = NoWork] \in [Attempts -> Works]
      BY Shapes DEF TypeOK
    <3>3. QED
      BY <1>5, <3>1, <3>2 DEF RecordError, ThenAfterError
  <2>3. QED
    BY <1>5, <2>2 DEF RecordError, TypeOK
<1>6. CASE ScheduleRetry(a)
  <2>1. RetryId(a) \in Attempts
    BY <1>6, Shapes DEF ScheduleRetry, Progress, ProgressOf
  <2>2. job' \in [Attempts -> Jobs]
    BY <1>6, <2>1 DEF ScheduleRetry, TypeOK, Jobs
  <2>3. QED
    BY <1>6, <2>2, Shapes DEF ScheduleRetry, TypeOK
<1>7. CASE EmitAutoDisabled(a)
  BY <1>0, <1>7, Shapes DEF EmitAutoDisabled, Complete, TypeOK, Jobs
<1>8. QED
  BY <1>1, <1>2, <1>3, <1>4, <1>5, <1>6, <1>7 DEF ProcessorStep

LEMMA ManagerType ==
    ASSUME TypeOK, NEW r \in Managers \X Hooks, ManagerStep(r)
    PROVE  TypeOK'
<1>0. r[2] \in Hooks /\ dados[r[2]] \in Dados /\ request[r].snap \in Dados
  BY DEF TypeOK, Requests
<1>1. CASE Read(r, "update") \/ Read(r, "redrive")
  BY <1>0, <1>1 DEF Read, TypeOK, Requests
<1>2. CASE Update(r)
  BY <1>0, <1>2, Shapes DEF Update, TypeOK
<1>3. CASE Redrive(r)
  <2>1. [request[r].snap EXCEPT !.disabled = FALSE, !.failureCount = 0] \in Dados
    BY <1>0 DEF Dados
  <2>2. QED
    BY <1>0, <1>3, <2>1, Shapes DEF Redrive, TypeOK
<1>4. QED
  BY <1>1, <1>2, <1>3 DEF ManagerStep

LEMMA CrashType ==
    ASSUME TypeOK, BackendCrashes
    PROVE  TypeOK'
<1>1. ASSUME NEW a \in Attempts
      PROVE  job'[a] \in Jobs
  <2>1. job[a] \in Jobs
    BY DEF TypeOK
  <2>2. QED
    BY <2>1, LimitAssumption DEF BackendCrashes, Jobs
<1>2. job' \in [Attempts -> Jobs]
  BY <1>1 DEF BackendCrashes
<1>3. QED
  BY <1>2, Shapes, LimitAssumption DEF BackendCrashes, TypeOK

LEMMA TypeStep ==
    ASSUME TypeOK, Progress, [Next]_vars
    PROVE  TypeOK'
<1>1. ASSUME NEW d \in Deliveries, FanOutStep(d)
      PROVE  TypeOK'
  <2>1. "chosen" \in JobStates /\ "waiting" \in JobStates /\ <<d, 1>> \in Attempts
    BY Shapes DEF JobStates
  <2>2. job' \in [Attempts -> Jobs]
    BY <1>1, <2>1, SetJob DEF FanOutStep, Choose, EnqueueFirst
  <2>3. QED
    BY <1>1, <2>2 DEF FanOutStep, Choose, EnqueueFirst, TypeOK
<1>2. ASSUME NEW h \in Hooks, Delete(h)
      PROVE  TypeOK'
  BY <1>2 DEF Delete, TypeOK
<1>3. CASE UNCHANGED vars
  BY <1>3 DEF vars, TypeOK
<1>4. QED
  BY <1>1, <1>2, <1>3, ProcessorType, ManagerType, CrashType DEF Next

-----------------------------------------------------------------------------
(* Copies.  What is sound stays sound, as nothing that is known is forgotten *)
(* and no count goes down; so it does not matter when a copy is written back.*)

KnownNext(h) ==
    \/ crashes' > 0
    \/ h \in announced'
    \/ \E a \in Attempts : work'[a].pc = "announce" /\ Hook(a) = h

SoundNext(h, d) ==
    /\ d.failureCount <= givenUp'[h]
    /\ d.disabled => givenUp'[h] >= Threshold /\ KnownNext(h)

LEMMA OtherWork ==
    ASSUME TypeOK, NEW a \in Attempts, ProcessorStep(a), NEW b \in Attempts, b # a
    PROVE  work'[b] = work[b]
BY DEF ProcessorStep, Load, Send, RecordSuccess, RecordFailure, RecordError,
       ScheduleRetry, EmitAutoDisabled, TypeOK

LEMMA KnownStays ==
    ASSUME TypeOK, Progress, [Next]_vars, NEW h \in Hooks, Known(h)
    PROVE  KnownNext(h)
<1>1. CASE crashes > 0
  <2>1. crashes' = crashes \/ crashes' = crashes + 1
    BY DEF Next, vars, FanOutStep, Choose, EnqueueFirst, ProcessorStep, Load, Send,
           RecordSuccess, RecordFailure, RecordError, ScheduleRetry, EmitAutoDisabled,
           ManagerStep, Read, Update, Redrive, Delete, BackendCrashes
  <2>2. QED
    BY <1>1, <2>1 DEF KnownNext, TypeOK
<1>2. CASE h \in announced
  <2>1. announced \subseteq announced'
    BY DEF Next, vars, FanOutStep, Choose, EnqueueFirst, ProcessorStep, Load, Send,
           RecordSuccess, RecordFailure, RecordError, ScheduleRetry, EmitAutoDisabled,
           ManagerStep, Read, Update, Redrive, Delete, BackendCrashes
  <2>2. QED
    BY <1>2, <2>1 DEF KnownNext
<1>3. ASSUME NEW b \in Attempts, work[b].pc = "announce", Hook(b) = h
      PROVE  KnownNext(h)
  <2>1. ASSUME NEW a \in Attempts, ProcessorStep(a)
        PROVE  KnownNext(h)
    <3>1. CASE a # b
      <4>1. work'[b] = work[b]
        BY <2>1, <3>1, OtherWork
      <4>2. QED
        BY <1>3, <4>1 DEF KnownNext
    <3>2. CASE a = b /\ EmitAutoDisabled(a)
      BY <1>3, <3>2 DEF KnownNext, EmitAutoDisabled
    <3>3. ~(a = b /\ Load(a))
      BY <1>3 DEF Load, Progress, ProgressOf
    <3>4. QED
      BY <1>3, <2>1, <3>1, <3>2, <3>3
         DEF ProcessorStep, Send, RecordSuccess, RecordFailure, RecordError, ScheduleRetry
  <2>2. CASE BackendCrashes
    BY <2>2 DEF BackendCrashes, KnownNext, TypeOK
  <2>3. CASE UNCHANGED work
    BY <1>3, <2>3 DEF KnownNext
  <2>4. QED
    BY <2>1, <2>2, <2>3
       DEF Next, vars, FanOutStep, Choose, EnqueueFirst, ManagerStep, Read, Update,
           Redrive, Delete
<1>4. QED
  BY <1>1, <1>2, <1>3 DEF Known

LEMMA CountsGrow ==
    ASSUME TypeOK, [Next]_vars, NEW h \in Hooks
    PROVE  givenUp'[h] \in Nat /\ givenUp[h] <= givenUp'[h]
<1>0. givenUp[h] \in Nat
  BY DEF TypeOK
<1>1. ASSUME NEW a \in Attempts, RecordFailure(a)
      PROVE  givenUp'[h] \in Nat /\ givenUp[h] <= givenUp'[h]
  <2>1. givenUp'[h] = givenUp[h] \/ givenUp'[h] = givenUp[h] + 1 \/ givenUp'[h] = givenUp[h] + 0
    BY <1>1 DEF RecordFailure, TypeOK
  <2>2. QED
    BY <1>0, <2>1
<1>2. CASE UNCHANGED givenUp
  BY <1>0, <1>2
<1>3. QED
  BY <1>1, <1>2
     DEF Next, vars, FanOutStep, Choose, EnqueueFirst, ProcessorStep, Load, Send,
         RecordSuccess, RecordError, ScheduleRetry, EmitAutoDisabled,
         ManagerStep, Read, Update, Redrive, Delete, BackendCrashes

LEMMA SoundStays ==
    ASSUME TypeOK, Progress, [Next]_vars
    PROVE  \A h \in Hooks : \A d \in Dados : Sound(h, d) => SoundNext(h, d)
<1>1. ASSUME NEW h \in Hooks, NEW d \in Dados, Sound(h, d)
      PROVE  SoundNext(h, d)
  <2>1. givenUp[h] \in Nat /\ givenUp'[h] \in Nat /\ givenUp[h] <= givenUp'[h]
    BY CountsGrow DEF TypeOK
  <2>2. Known(h) => KnownNext(h)
    BY KnownStays
  <2>3. d.failureCount \in Nat /\ Threshold \in Nat
    BY LimitAssumption DEF Dados
  <2>4. QED
    BY <1>1, <2>1, <2>2, <2>3 DEF Sound, SoundNext
<1>2. QED
  BY <1>1

LEMMA FreshSound ==
    ASSUME TypeOK, [Next]_vars, NEW h \in Hooks
    PROVE  Sound(h, NewHook) /\ SoundNext(h, NewHook)
BY CountsGrow DEF Sound, SoundNext, NewHook, TypeOK

\* What a failed attempt writes back is sound: the count went up with the number of
\* deliveries given up, and the worker is about to announce what it disabled.
LEMMA FailureSound ==
    ASSUME TypeOK, Progress, CopiesSound, NEW a \in Attempts, RecordFailure(a)
    PROVE  SoundNext(Hook(a), dados'[Hook(a)])
<1> DEFINE h == Hook(a)
           s == work[a].snap
<1>0. h \in Hooks /\ s \in Dados /\ Sound(h, s) /\ [Next]_vars
  BY Shapes DEF TypeOK, Works, CopiesSound, Next, ProcessorStep
<1>1. SoundNext(h, s)
  BY <1>0, SoundStays
<1>2. /\ dados'[h].failureCount = NextFailureCount(a)
      /\ dados'[h].disabled = (s.disabled \/ AutoDisabled(a))
  BY <1>0 DEF RecordFailure, TypeOK, Dados
<1>3. givenUp'[h] = givenUp[h] + (IF IsLast(a) THEN 1 ELSE 0)
  BY <1>0 DEF RecordFailure, TypeOK
<1>4. /\ NextFailureCount(a) = s.failureCount + (IF IsLast(a) THEN 1 ELSE 0)
      /\ s.failureCount \in Nat /\ givenUp[h] \in Nat /\ s.failureCount <= givenUp[h]
      /\ Threshold \in Nat
  BY <1>0, LimitAssumption DEF NextFailureCount, Sound, Dados, TypeOK
<1>5. NextFailureCount(a) <= givenUp'[h]
  BY <1>3, <1>4
<1>6. ASSUME AutoDisabled(a)
      PROVE  givenUp'[h] >= Threshold /\ KnownNext(h)
  <2>1. NextFailureCount(a) >= Threshold
    BY <1>6 DEF AutoDisabled
  <2>2. givenUp'[h] >= Threshold
    BY <1>3, <1>4, <2>1
  <2>3. ThenAfterFailure(a) = "announce"
    BY <1>6 DEF AutoDisabled, ThenAfterFailure
  <2>4. work'[a].pc = "announce"
    BY <2>3 DEF RecordFailure, TypeOK, Works
  <2>5. QED
    BY <2>2, <2>4 DEF KnownNext
<1>7. QED
  BY <1>1, <1>2, <1>5, <1>6 DEF SoundNext

LEMMA RowsSound ==
    ASSUME TypeOK, Progress, CopiesSound, [Next]_vars, NEW h \in Hooks
    PROVE  SoundNext(h, dados'[h])
<1>0. Sound(h, dados[h]) /\ dados[h] \in Dados
  BY DEF CopiesSound, TypeOK
<1>1. CASE dados'[h] = dados[h]
  BY <1>0, <1>1, SoundStays
<1>2. ASSUME NEW a \in Attempts, RecordSuccess(a), Hook(a) = h
      PROVE  SoundNext(h, dados'[h])
  <2>1. work[a].snap \in Dados /\ Sound(h, work[a].snap)
    BY <1>2 DEF TypeOK, Works, CopiesSound
  <2>2. SoundNext(h, work[a].snap)
    BY <2>1, SoundStays
  <2>3. dados'[h].failureCount = 0 /\ dados'[h].disabled = work[a].snap.disabled
    BY <1>2, <2>1 DEF RecordSuccess, TypeOK, Dados
  <2>4. QED
    BY <2>2, <2>3, CountsGrow DEF SoundNext
<1>3. ASSUME NEW a \in Attempts, RecordFailure(a), Hook(a) = h
      PROVE  SoundNext(h, dados'[h])
  BY <1>3, FailureSound
<1>4. ASSUME NEW r \in Managers \X Hooks, Update(r) \/ Redrive(r), r[2] = h
      PROVE  SoundNext(h, dados'[h])
  <2>1. request[r].snap \in Dados /\ Sound(h, request[r].snap)
    BY <1>4 DEF TypeOK, Requests, CopiesSound
  <2>2. CASE Update(r)
    BY <1>4, <2>1, <2>2, SoundStays DEF Update, TypeOK
  <2>3. CASE Redrive(r)
    <3>1. dados'[h].failureCount = 0 /\ dados'[h].disabled = FALSE
      BY <1>4, <2>1, <2>3 DEF Redrive, TypeOK, Dados
    <3>2. QED
      BY <3>1, CountsGrow DEF SoundNext
  <2>4. QED
    BY <1>4, <2>2, <2>3
<1>5. \/ dados'[h] = dados[h]
      \/ \E a \in Attempts : (RecordSuccess(a) \/ RecordFailure(a)) /\ Hook(a) = h
      \/ \E r \in Managers \X Hooks : (Update(r) \/ Redrive(r)) /\ r[2] = h
  <2>1. ASSUME NEW a \in Attempts, RecordSuccess(a) \/ RecordFailure(a), Hook(a) # h
        PROVE  dados'[h] = dados[h]
    BY <2>1 DEF RecordSuccess, RecordFailure, TypeOK
  <2>2. ASSUME NEW r \in Managers \X Hooks, Update(r) \/ Redrive(r), r[2] # h
        PROVE  dados'[h] = dados[h]
    BY <2>2 DEF Update, Redrive, TypeOK
  <2>3. QED
    BY <2>1, <2>2
       DEF Next, vars, FanOutStep, Choose, EnqueueFirst, ProcessorStep, Load, Send,
           RecordError, ScheduleRetry, EmitAutoDisabled, ManagerStep, Read, Delete,
           BackendCrashes
<1>6. QED
  BY <1>1, <1>2, <1>3, <1>4, <1>5

\* A worker keeps what it read, reads the row, or ends.
LEMMA WorkersSound ==
    ASSUME TypeOK, Progress, CopiesSound, [Next]_vars, NEW b \in Attempts
    PROVE  SoundNext(Hook(b), work'[b].snap)
<1>0. /\ Hook(b) \in Hooks /\ Sound(Hook(b), work[b].snap) /\ work[b].snap \in Dados
      /\ Sound(Hook(b), dados[Hook(b)]) /\ dados[Hook(b)] \in Dados
  BY Shapes DEF CopiesSound, TypeOK, Works
<1>1. /\ SoundNext(Hook(b), work[b].snap) /\ SoundNext(Hook(b), dados[Hook(b)])
      /\ SoundNext(Hook(b), NewHook)
  BY <1>0, SoundStays, FreshSound
<1>2. work'[b].snap \in {work[b].snap, dados[Hook(b)], NewHook}
  <2>1. ASSUME NEW a \in Attempts, ProcessorStep(a), a # b
        PROVE  work'[b].snap = work[b].snap
    BY <2>1, OtherWork
  <2>2. ASSUME ProcessorStep(b)
        PROVE  work'[b].snap \in {work[b].snap, dados[Hook(b)], NewHook}
    <3>1. CASE Load(b)
      BY <3>1 DEF Load, TypeOK, Works
    <3>2. CASE Send(b) \/ RecordFailure(b) \/ RecordError(b)
      BY <3>2 DEF Send, RecordFailure, RecordError, TypeOK, Works, NoWork
    <3>3. CASE RecordSuccess(b) \/ ScheduleRetry(b) \/ EmitAutoDisabled(b)
      BY <3>3 DEF RecordSuccess, ScheduleRetry, EmitAutoDisabled, TypeOK, Works, NoWork
    <3>4. QED
      BY <2>2, <3>1, <3>2, <3>3 DEF ProcessorStep
  <2>3. CASE BackendCrashes
    BY <2>3 DEF BackendCrashes, NoWork
  <2>4. CASE UNCHANGED work
    BY <2>4
  <2>5. QED
    BY <2>1, <2>2, <2>3, <2>4
       DEF Next, vars, FanOutStep, Choose, EnqueueFirst, ManagerStep, Read, Update,
           Redrive, Delete
<1>3. QED
  BY <1>1, <1>2

LEMMA RequestsSound ==
    ASSUME TypeOK, Progress, CopiesSound, [Next]_vars, NEW q \in Managers \X Hooks
    PROVE  SoundNext(q[2], request'[q].snap)
<1>0. /\ q[2] \in Hooks /\ Sound(q[2], request[q].snap) /\ request[q].snap \in Dados
      /\ Sound(q[2], dados[q[2]]) /\ dados[q[2]] \in Dados
  BY DEF CopiesSound, TypeOK, Requests
<1>1. /\ SoundNext(q[2], request[q].snap) /\ SoundNext(q[2], dados[q[2]])
      /\ SoundNext(q[2], NewHook)
  BY <1>0, SoundStays, FreshSound
<1>2. request'[q].snap \in {request[q].snap, dados[q[2]], NewHook}
  <2>1. ASSUME NEW r \in Managers \X Hooks, ManagerStep(r)
        PROVE  request'[q].snap \in {request[q].snap, dados[q[2]], NewHook}
    BY <2>1 DEF ManagerStep, Read, Update, Redrive, TypeOK, Requests, NoRequest
  <2>2. CASE BackendCrashes
    BY <2>2 DEF BackendCrashes, NoRequest
  <2>3. CASE UNCHANGED request
    BY <2>3
  <2>4. QED
    BY <2>1, <2>2, <2>3
       DEF Next, vars, FanOutStep, Choose, EnqueueFirst, ProcessorStep, Load, Send,
           RecordSuccess, RecordFailure, RecordError, ScheduleRetry, EmitAutoDisabled,
           Delete
<1>3. QED
  BY <1>1, <1>2

LEMMA CopiesStep ==
    ASSUME TypeOK, Progress, CopiesSound, [Next]_vars
    PROVE  CopiesSound'
BY RowsSound, WorkersSound, RequestsSound
   DEF CopiesSound, Sound, SoundNext, Known, KnownNext, Hook

-----------------------------------------------------------------------------
(* Progress: an attempt is recorded once while nothing crashes.            *)

LEMMA InitProgress == Init => Progress
BY Shapes DEF Init, Progress, ProgressOf, Unrecorded, NoWork, NoJob

\* The worker of one attempt records that one, and leaves the others where they are,
\* but for the retry it queues.
LEMMA OtherProgress ==
    ASSUME TypeOK, Progress, NEW a \in Attempts, ProcessorStep(a),
           NEW b \in Attempts, b # a
    PROVE  ProgressOf(b)'
<1>0. ProgressOf(b)
  BY DEF Progress
<1>1. work'[b] = work[b] /\ crashes' = crashes
  BY OtherWork
     DEF ProcessorStep, Load, Send, RecordSuccess, RecordFailure, RecordError,
         ScheduleRetry, EmitAutoDisabled
<1>2. \A o \in {"ok", "fail"} : <<b, o>> \in attempts' <=> <<b, o>> \in attempts
  BY DEF ProcessorStep, Load, Send, RecordSuccess, RecordFailure, RecordError,
         ScheduleRetry, EmitAutoDisabled
<1>3. \/ job'[b].state = job[b].state
      \/ job[b].state = "absent" /\ job'[b].state = "waiting"
  <2>1. CASE ScheduleRetry(a)
    <3>1. RetryId(a) \in Attempts /\ RetryId(a) # a
      BY <2>1, Shapes DEF ScheduleRetry, Progress, ProgressOf
    <3>2. QED
      BY <2>1, <3>1 DEF ScheduleRetry, TypeOK, Jobs
  <2>2. CASE ~ScheduleRetry(a)
    BY <2>2 DEF ProcessorStep, Load, Send, RecordSuccess, RecordFailure, RecordError,
                EmitAutoDisabled, Complete, TypeOK
  <2>3. QED
    BY <2>1, <2>2
<1>4. QED
  BY <1>0, <1>1, <1>2, <1>3 DEF ProgressOf, Unrecorded

LEMMA OwnProgress ==
    ASSUME TypeOK, Progress, NEW a \in Attempts, ProcessorStep(a)
    PROVE  ProgressOf(a)'
<1>0. ProgressOf(a) /\ work[a] \in Works /\ job[a] \in Jobs
  BY DEF Progress, TypeOK
<1>1. CASE Load(a)
  BY <1>0, <1>1 DEF Load, ProgressOf, Unrecorded, TypeOK, Jobs, Works
<1>2. CASE Send(a)
  BY <1>0, <1>2 DEF Send, ProgressOf, Unrecorded, TypeOK, Jobs, Works
<1>3. CASE RecordSuccess(a)
  <2>1. work'[a].pc = "idle" /\ job'[a].state = "done"
    BY <1>0, <1>3 DEF RecordSuccess, Complete, NoWork, TypeOK, Jobs
  <2>2. crashes = 0 => Unrecorded(a)
    BY <1>0, <1>3 DEF RecordSuccess, ProgressOf
  <2>3. QED
    BY <1>3, <2>1, <2>2 DEF RecordSuccess, ProgressOf, Unrecorded
<1>4. CASE RecordFailure(a)
  <2>1. crashes = 0 => Unrecorded(a)
    BY <1>0, <1>4 DEF RecordFailure, ProgressOf
  <2>2. CASE ThenAfterFailure(a) = "idle"
    <3>1. work'[a].pc = "idle" /\ job'[a].state = "done"
      BY <1>0, <1>4, <2>2 DEF RecordFailure, Complete, NoWork, TypeOK, Jobs
    <3>2. QED
      BY <1>4, <2>1, <3>1 DEF RecordFailure, ProgressOf, Unrecorded
  <2>3. CASE ThenAfterFailure(a) # "idle"
    <3>1. /\ work'[a].pc = ThenAfterFailure(a) /\ job' = job
          /\ job[a].state = "active"
      BY <1>0, <1>4, <2>3 DEF RecordFailure, ProgressOf, TypeOK, Works
    <3>2. /\ ThenAfterFailure(a) \in {"retry", "announce"}
          /\ ThenAfterFailure(a) = "retry" => ~IsLast(a)
      BY <2>3 DEF ThenAfterFailure
    <3>3. QED
      BY <1>4, <2>1, <3>1, <3>2 DEF RecordFailure, ProgressOf, Unrecorded
  <2>4. QED
    BY <2>2, <2>3
<1>5. CASE RecordError(a)
  BY <1>0, <1>5
     DEF RecordError, ThenAfterError, ProgressOf, Unrecorded, NoWork, TypeOK, Jobs
<1>6. CASE ScheduleRetry(a)
  <2>1. RetryId(a) \in Attempts /\ RetryId(a) # a
    BY <1>0, <1>6, Shapes DEF ScheduleRetry, ProgressOf
  <2>2. work'[a].pc = "idle" /\ job'[a].state = "done"
    BY <1>0, <1>6, <2>1 DEF ScheduleRetry, NoWork, TypeOK, Jobs
  <2>3. QED
    BY <1>0, <1>6, <2>2 DEF ScheduleRetry, ProgressOf, Unrecorded
<1>7. CASE EmitAutoDisabled(a)
  BY <1>0, <1>7 DEF EmitAutoDisabled, Complete, ProgressOf, Unrecorded, NoWork, TypeOK, Jobs
<1>8. QED
  BY <1>1, <1>2, <1>3, <1>4, <1>5, <1>6, <1>7 DEF ProcessorStep

LEMMA ProgressStep ==
    ASSUME TypeOK, Progress, [Next]_vars
    PROVE  Progress'
<1> SUFFICES ASSUME NEW b \in Attempts
             PROVE  ProgressOf(b)'
  BY DEF Progress, Attempts
<1>0. ProgressOf(b) /\ work[b] \in Works /\ job[b] \in Jobs /\ crashes \in Nat
  BY DEF Progress, TypeOK
<1>1. ASSUME NEW a \in Attempts, ProcessorStep(a)
      PROVE  ProgressOf(b)'
  BY <1>1, OtherProgress, OwnProgress
<1>2. ASSUME NEW d \in Deliveries, FanOutStep(d)
      PROVE  ProgressOf(b)'
  <2>1. \/ job'[b].state = job[b].state
        \/ /\ job[b].state \in {"absent", "chosen"}
           /\ job'[b].state \in {"chosen", "waiting"}
    <3>1. <<d, 1>> \in Attempts
      BY Shapes
    <3>2. CASE b = <<d, 1>>
      BY <1>0, <1>2, <3>1, <3>2 DEF FanOutStep, Choose, EnqueueFirst, TypeOK, Jobs
    <3>3. CASE b # <<d, 1>>
      BY <1>2, <3>1, <3>3 DEF FanOutStep, Choose, EnqueueFirst, TypeOK
    <3>4. QED
      BY <3>2, <3>3
  <2>2. QED
    BY <1>0, <1>2, <2>1 DEF FanOutStep, Choose, EnqueueFirst, ProgressOf, Unrecorded
<1>3. CASE BackendCrashes
  <2>1. work'[b].pc = "idle" /\ crashes' > 0
    BY <1>0, <1>3 DEF BackendCrashes, NoWork
  <2>2. job'[b].state # "active"
    <3>1. job'[b] = CASE job[b].state = "chosen" -> [job[b] EXCEPT !.state = "failed"]
                      [] job[b].state = "active" /\ job[b].stalls < MaxStalls ->
                             [state |-> "waiting", stalls |-> job[b].stalls + 1]
                      [] job[b].state = "active" /\ job[b].stalls = MaxStalls ->
                             [job[b] EXCEPT !.state = "failed"]
                      [] OTHER -> job[b]
      BY <1>3 DEF BackendCrashes
    <3>2. job[b].stalls < MaxStalls \/ job[b].stalls = MaxStalls
      BY <1>0, LimitAssumption DEF Jobs
    <3>3. CASE job[b].state = "active"
      BY <1>0, <3>1, <3>2, <3>3, LimitAssumption DEF Jobs
    <3>4. CASE job[b].state = "chosen"
      BY <1>0, <3>1, <3>4 DEF Jobs
    <3>5. CASE job[b].state \notin {"active", "chosen"}
      BY <3>1, <3>5
    <3>6. QED
      BY <3>3, <3>4, <3>5
  <2>3. QED
    BY <2>1, <2>2 DEF ProgressOf
<1>4. CASE UNCHANGED <<job, work, attempts, crashes>>
  BY <1>0, <1>4 DEF ProgressOf, Unrecorded
<1>5. QED
  BY <1>1, <1>2, <1>3, <1>4
     DEF Next, vars, ManagerStep, Read, Update, Redrive, Delete

-----------------------------------------------------------------------------
(* Retries.                                                                *)

\* The job of a later attempt appears only where a retry is scheduled.
LEMMA RetriesStep ==
    ASSUME TypeOK, Progress, RetriesEarned, [Next]_vars
    PROVE  RetriesEarned'
<1> SUFFICES ASSUME NEW d \in Deliveries, NEW n \in 1..(MaxAttempts - 1),
                    job'[<<d, n + 1>>].state # "absent"
             PROVE  <<<<d, n>>, "fail">> \in attempts'
  BY DEF RetriesEarned
<1> DEFINE b == <<d, n + 1>>
<1>0. b \in Attempts /\ b # <<d, 1>> /\ job[b] \in Jobs
  BY LimitAssumption DEF Attempts, TypeOK
<1>1. attempts \subseteq attempts'
  BY DEF Next, vars, FanOutStep, Choose, EnqueueFirst, ProcessorStep, Load, Send,
         RecordSuccess, RecordFailure, RecordError, ScheduleRetry, EmitAutoDisabled,
         ManagerStep, Read, Update, Redrive, Delete, BackendCrashes
<1>2. CASE job[b].state # "absent"
  BY <1>1, <1>2 DEF RetriesEarned
<1>3. CASE job[b].state = "absent"
  <2>1. ASSUME NEW a \in Attempts, ScheduleRetry(a)
        PROVE  <<<<d, n>>, "fail">> \in attempts'
    <3>1. RetryId(a) \in Attempts /\ <<a, "fail">> \in attempts /\ job[a].state = "active"
      BY <2>1, Shapes DEF ScheduleRetry, Progress, ProgressOf
    <3>2. b # a
      BY <1>3, <3>1
    <3>3. RetryId(a) = b
      BY <1>0, <1>3, <2>1, <3>1, <3>2 DEF ScheduleRetry, TypeOK, Jobs
    <3>4. a = <<d, n>>
      BY <3>3, Shapes DEF RetryId, Attempts
    <3>5. QED
      BY <1>1, <3>1, <3>4
  <2>2. ASSUME NEW a \in Attempts, ProcessorStep(a), ~ScheduleRetry(a)
        PROVE  job'[b].state = "absent"
    <3>1. CASE a # b
      BY <1>0, <1>3, <2>2, <3>1
         DEF ProcessorStep, Load, Send, RecordSuccess, RecordFailure, RecordError,
             EmitAutoDisabled, Complete, TypeOK
    <3>2. CASE a = b
      <4>1. work[a].pc = "idle"
        BY <1>3, <2>2, <3>2 DEF Progress, ProgressOf
      <4>2. QED
        BY <1>3, <2>2, <3>2, <4>1
           DEF ProcessorStep, Load, Send, RecordSuccess, RecordFailure, RecordError,
               EmitAutoDisabled
    <3>3. QED
      BY <3>1, <3>2
  <2>3. ASSUME NEW e \in Deliveries, FanOutStep(e)
        PROVE  job'[b].state = "absent"
    <3>1. b # <<e, 1>> /\ <<e, 1>> \in Attempts
      BY <1>0, Shapes
    <3>2. QED
      BY <1>0, <1>3, <2>3, <3>1 DEF FanOutStep, Choose, EnqueueFirst, TypeOK, Jobs
  <2>4. CASE BackendCrashes
    BY <1>0, <1>3, <2>4 DEF BackendCrashes
  <2>5. CASE UNCHANGED job
    BY <1>3, <2>5
  <2>6. QED
    BY <2>1, <2>2, <2>3, <2>4, <2>5
       DEF Next, vars, ManagerStep, Read, Update, Redrive, Delete
<1>4. QED
  BY <1>2, <1>3

-----------------------------------------------------------------------------
(* The theorems.                                                           *)

LEMMA HookInitInv == Init => HookInv
<1>1. Init => CopiesSound
  BY Shapes, LimitAssumption
     DEF Init, CopiesSound, Sound, NewHook, NoWork, NoRequest
<1>2. Init => RetriesEarned
  BY LimitAssumption DEF Init, RetriesEarned, Attempts, NoJob
<1>3. QED
  BY <1>1, <1>2, InitType, InitProgress DEF HookInv

LEMMA HookNextInv == HookInv /\ [Next]_vars => HookInv'
BY TypeStep, CopiesStep, ProgressStep, RetriesStep DEF HookInv

\* The inductive invariant: whatever copy of a webhook is about, writing it back
\* is harmless.
THEOREM HookInvariance == Spec => []HookInv
BY HookInitInv, HookNextInv, PTL DEF Spec

\* Type correctness of the webhooks, the jobs and the workers.
THEOREM TypesOK == Spec => []TypeOK
BY HookInvariance, PTL DEF HookInv

\* A webhook that is disabled was earned by Threshold given-up deliveries, for every
\* interleaving of workers, managers and crashes.
THEOREM DisablesEarned == Spec => []DisabledEarned
<1>1. HookInv => DisabledEarned
  BY DEF HookInv, CopiesSound, Sound, DisabledEarned
<1>2. QED
  BY <1>1, HookInvariance, PTL

\* Nor is one disabled silently: while nothing crashes, the event was or is about to
\* be emitted.
THEOREM DisablesAnnounced == Spec => []DisabledAnnounced
<1>1. HookInv => DisabledAnnounced
  BY DEF HookInv, TypeOK, CopiesSound, Sound, Known, DisabledAnnounced
<1>2. QED
  BY <1>1, HookInvariance, PTL

\* So a webhook is disabled only when it was earned, and not silently.
THEOREM DisablesAreSound == Spec => []DisabledSound
BY DisablesEarned, DisablesAnnounced, PTL DEF DisabledSound

\* An attempt is queued only after the one before it was recorded as failed, and
\* without a crash not after it was accepted.
THEOREM RetriesAreEarned == Spec => []RetriesFollowFailures
<1>1. HookInv => RetriesFollowFailures
  <2> SUFFICES ASSUME HookInv, NEW d \in Deliveries, NEW n \in 1..(MaxAttempts - 1),
                      job[<<d, n + 1>>].state # "absent"
               PROVE  /\ <<<<d, n>>, "fail">> \in attempts
                      /\ crashes = 0 => <<<<d, n>>, "ok">> \notin attempts
    BY DEF RetriesFollowFailures
  <2>1. <<<<d, n>>, "fail">> \in attempts
    BY DEF HookInv, RetriesEarned
  <2>2. <<d, n>> \in Attempts
    BY LimitAssumption DEF Attempts
  <2>3. QED
    BY <2>1, <2>2 DEF HookInv, Progress, ProgressOf
<1>2. QED
  BY <1>1, HookInvariance, PTL

-----------------------------------------------------------------------------
(* The composition: a step of it is a step, or no step, of each part.      *)

\* What the bus and the webhooks keep has its type in every state of both together.
THEOREM EventsTypesOK == EventsSpec => []EventsTypeOK
<1> DEFINE Both == BusInv /\ HookInv
<1>1. EventsInit => Both
  BY BusInitInv, HookInitInv DEF EventsInit
<1>2. [EventsNext]_eventVars => [BusNext]_busVars /\ [Next]_vars
  BY DEF EventsNext, eventVars
<1>3. Both /\ [EventsNext]_eventVars => Both'
  BY <1>2, BusNextInv, HookNextInv
<1>4. Both => EventsTypeOK
  BY DEF BusInv, HookInv, EventsTypeOK
<1>5. QED
  BY <1>1, <1>3, <1>4, PTL DEF EventsSpec
==============================================================================
