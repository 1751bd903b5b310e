-------------------------- MODULE WebhookDelivery --------------------------
(***************************************************************************)
(* Outbound webhooks: an event is fanned out to the webhooks of its project*)
(* (WebhooksHookService), each delivery is a BullMQ job per attempt, done by*)
(* WebhookDispatchProcessor, and managers change, delete and redrive the    *)
(* webhook meanwhile.                                                       *)
(*                                                                         *)
(* Everything a webhook is lives in one JSON column, dados, and each of the *)
(* writers replaces all of it by what it had read before, changed.         *)
(***************************************************************************)
EXTENDS Naturals

CONSTANTS
    Hooks,          \* the webhooks (DTabela rows of class -470)
    Deliveries,     \* delivery ids that may be drawn
    HookOf,         \* the webhook each delivery is for
    Managers,       \* HTTP requests of managers served at the same time
    MaxAttempts,    \* attempts of a delivery (3 in the code)
    Threshold,      \* given-up deliveries that disable a webhook (10 in the code)
    MaxStalls,      \* BullMQ maxStalledCount (default 1)
    MaxCrashes      \* bound on crashes of the backend

ASSUME HookAssumption == HookOf \in [Deliveries -> Hooks]
ASSUME LimitAssumption ==
    /\ MaxAttempts \in Nat \ {0}
    /\ Threshold \in Nat \ {0}
    /\ MaxStalls \in Nat
    /\ MaxCrashes \in Nat

VARIABLES
    dados,          \* DTabela.dados of each webhook
    excluido,       \* the webhooks that were deleted
    job,            \* the job of each attempt of each delivery
    work,           \* WebhookDispatchProcessor.process, per active job
    attempts,       \* DEvento rows: the recorded attempts and their outcome
    request,        \* the requests update and redrive in progress
    announced,      \* webhooks webhook.auto_disabled was emitted for, or, when their
                    \* project cannot be read, an error was logged instead
    givenUp,        \* auxiliary: last attempts recorded as failed, per webhook
    streak,         \* auxiliary: those since an attempt was recorded as accepted
    crashes         \* crashes so far

vars == <<dados, excluido, job, work, attempts, request, announced, givenUp, streak, crashes>>

Attempts == Deliveries \X (1..MaxAttempts)
Hook(a)  == HookOf[a[1]]
IsLast(a) == a[2] = MaxAttempts

\* The address, the events and the times, which no property tells apart, are left out.
Dados    == [disabled: BOOLEAN, failureCount: Nat]
NewHook  == [disabled |-> FALSE, failureCount |-> 0]
Jobs     == [state: {"absent", "chosen", "waiting", "active", "done", "failed"},
             stalls: 0..MaxStalls]
NoJob    == [state |-> "absent", stalls |-> 0]
Works    == [pc: {"idle", "sending", "accepted", "refused", "retry", "announce"},
             snap: Dados]
NoWork   == [pc |-> "idle", snap |-> NewHook]
Requests == [pc: {"idle", "update", "redrive"}, snap: Dados]
NoRequest == [pc |-> "idle", snap |-> NewHook]

TypeOK ==
    /\ dados \in [Hooks -> Dados]
    /\ excluido \subseteq Hooks
    /\ job \in [Attempts -> Jobs]
    /\ work \in [Attempts -> Works]
    /\ attempts \subseteq Attempts \X {"ok", "fail"}
    /\ request \in [Managers \X Hooks -> Requests]
    /\ announced \subseteq Hooks
    /\ givenUp \in [Hooks -> Nat]
    /\ streak \in [Hooks -> Nat]
    /\ crashes \in 0..MaxCrashes

Init ==
    /\ dados = [h \in Hooks |-> NewHook]
    /\ excluido = {}
    /\ job = [a \in Attempts |-> NoJob]
    /\ work = [a \in Attempts |-> NoWork]
    /\ attempts = {}
    /\ request = [r \in Managers \X Hooks |-> NoRequest]
    /\ announced = {}
    /\ givenUp = [h \in Hooks |-> 0]
    /\ streak = [h \in Hooks |-> 0]
    /\ crashes = 0

-----------------------------------------------------------------------------
(* Fan-out.                                                                *)

\* onEvent reads the webhooks of the project and keeps the enabled ones ...
Choose(d) ==
    /\ job[<<d, 1>>].state = "absent"
    /\ HookOf[d] \notin excluido
    /\ ~dados[HookOf[d]].disabled
    /\ job' = [job EXCEPT ![<<d, 1>>].state = "chosen"]
    /\ UNCHANGED <<dados, excluido, work, attempts, request, announced, givenUp, streak, crashes>>

\* ... and then adds one job per webhook.
EnqueueFirst(d) ==
    /\ job[<<d, 1>>].state = "chosen"
    /\ job' = [job EXCEPT ![<<d, 1>>].state = "waiting"]
    /\ UNCHANGED <<dados, excluido, work, attempts, request, announced, givenUp, streak, crashes>>

-----------------------------------------------------------------------------
(* WebhookDispatchProcessor.process.                                       *)

\* Takes the job and reads the webhook; a job of a webhook that is deleted or
\* disabled by now ends.
Load(a) ==
    /\ job[a].state = "waiting"
    /\ IF Hook(a) \in excluido \/ dados[Hook(a)].disabled
       THEN /\ job' = [job EXCEPT ![a].state = "done"]
            /\ UNCHANGED work
       ELSE /\ job' = [job EXCEPT ![a].state = "active"]
            /\ work' = [work EXCEPT ![a] = [pc |-> "sending", snap |-> dados[Hook(a)]]]
    /\ UNCHANGED <<dados, excluido, attempts, request, announced, givenUp, streak, crashes>>

\* The POST ends: a 2xx, or anything else, a timeout and an address the SSRF check
\* refuses included.
Send(a) ==
    /\ work[a].pc = "sending"
    /\ \E answer \in {"accepted", "refused"} : work' = [work EXCEPT ![a].pc = answer]
    /\ UNCHANGED <<dados, excluido, job, attempts, request, announced, givenUp, streak, crashes>>

\* The job of a completes, whatever process() did last.
Complete(a) == job' = [job EXCEPT ![a].state = "done"]

\* recordSuccess: the attempt, and all of dados as it was before the POST.
RecordSuccess(a) ==
    /\ work[a].pc = "accepted"
    /\ attempts' = attempts \cup {<<a, "ok">>}
    /\ dados' = [dados EXCEPT ![Hook(a)] = [work[a].snap EXCEPT !.failureCount = 0]]
    /\ work' = [work EXCEPT ![a] = NoWork]
    /\ Complete(a)
    /\ streak' = [streak EXCEPT ![Hook(a)] = 0]
    /\ UNCHANGED <<excluido, request, announced, givenUp, crashes>>

\* recordFailure counts a delivery when its last attempt failed.  The slip counts
\* every attempt.
CountEach(a) == work[a].snap.failureCount + 1
NextFailureCount(a) == work[a].snap.failureCount + (IF IsLast(a) THEN 1 ELSE 0)

AutoDisabled(a) == IsLast(a) /\ NextFailureCount(a) >= Threshold

\* Where process() goes after recordFailure: the retry, the event, or the end.  The
\* slip is an early return after the last attempt.
ThenRetryOnly(a) == IF IsLast(a) THEN "idle" ELSE "retry"
ThenAfterFailure(a) ==
    IF ~IsLast(a) THEN "retry" ELSE IF AutoDisabled(a) THEN "announce" ELSE "idle"

RecordFailure(a) ==
    /\ work[a].pc = "refused"
    /\ attempts' = attempts \cup {<<a, "fail">>}
    /\ dados' = [dados EXCEPT ![Hook(a)] =
                   [work[a].snap EXCEPT !.failureCount = NextFailureCount(a),
                                        !.disabled = @ \/ AutoDisabled(a)]]
    /\ givenUp' = [givenUp EXCEPT ![Hook(a)] = @ + (IF IsLast(a) THEN 1 ELSE 0)]
    /\ streak' = [streak EXCEPT ![Hook(a)] = @ + (IF IsLast(a) THEN 1 ELSE 0)]
    /\ IF ThenAfterFailure(a) = "idle"
       THEN Complete(a) /\ work' = [work EXCEPT ![a] = NoWork]
       ELSE UNCHANGED job /\ work' = [work EXCEPT ![a].pc = ThenAfterFailure(a)]
    /\ UNCHANGED <<excluido, request, announced, crashes>>

\* The project cannot be read before the POST, or the transaction fails after it:
\* process() rejects and BullMQ, with attempts: 1, fails the job.  Nothing is recorded
\* and nothing retried.  The slip goes on with the retry.
ThenRetryAnyway(a) == IF IsLast(a) THEN "idle" ELSE "retry"
ThenAfterError(a) == "idle"

RecordError(a) ==
    /\ work[a].pc \in {"sending", "accepted", "refused"}
    /\ IF ThenAfterError(a) = "idle"
       THEN /\ job' = [job EXCEPT ![a].state = "failed"]
            /\ work' = [work EXCEPT ![a] = NoWork]
       ELSE UNCHANGED job /\ work' = [work EXCEPT ![a].pc = ThenAfterError(a)]
    /\ UNCHANGED <<dados, excluido, attempts, request, announced, givenUp, streak, crashes>>

\* The job of the next attempt: its id is the delivery and the attempt, and a job
\* that exists already is kept.  The slip forgets the attempt in the id.
SameId(a) == a
RetryId(a) == <<a[1], a[2] + 1>>

ScheduleRetry(a) ==
    /\ work[a].pc = "retry"
    /\ LET next == RetryId(a)
       IN job' = IF job[next].state = "absent"
                 THEN [job EXCEPT ![next].state = "waiting", ![a].state = "done"]
                 ELSE [job EXCEPT ![a].state = "done"]
    /\ work' = [work EXCEPT ![a] = NoWork]
    /\ UNCHANGED <<dados, excluido, attempts, request, announced, givenUp, streak, crashes>>

EmitAutoDisabled(a) ==
    /\ work[a].pc = "announce"
    /\ announced' = announced \cup {Hook(a)}
    /\ work' = [work EXCEPT ![a] = NoWork]
    /\ Complete(a)
    /\ UNCHANGED <<dados, excluido, attempts, request, givenUp, streak, crashes>>

-----------------------------------------------------------------------------
(* The requests of managers.                                               *)

\* update and redrive read the row, and later replace its dados.  A request is a
\* manager's and for one webhook, r[2].
Read(r, what) ==
    /\ request[r].pc = "idle"
    /\ r[2] \notin excluido
    /\ request' = [request EXCEPT ![r] = [pc |-> what, snap |-> dados[r[2]]]]
    /\ UNCHANGED <<dados, excluido, job, work, attempts, announced, givenUp, streak, crashes>>

\* The new address or events, with everything else as it was read.
Update(r) ==
    /\ request[r].pc = "update"
    /\ dados' = [dados EXCEPT ![r[2]] = request[r].snap]
    /\ request' = [request EXCEPT ![r] = NoRequest]
    /\ UNCHANGED <<excluido, job, work, attempts, announced, givenUp, streak, crashes>>

\* In a transaction of READ COMMITTED, which does not lock what it read.
Redrive(r) ==
    /\ request[r].pc = "redrive"
    /\ dados' = [dados EXCEPT ![r[2]] =
                   [request[r].snap EXCEPT !.disabled = FALSE, !.failureCount = 0]]
    /\ request' = [request EXCEPT ![r] = NoRequest]
    /\ UNCHANGED <<excluido, job, work, attempts, announced, givenUp, streak, crashes>>

\* delete writes the column excluido only.
Delete(h) ==
    /\ h \notin excluido
    /\ excluido' = excluido \cup {h}
    /\ UNCHANGED <<dados, job, work, attempts, request, announced, givenUp, streak, crashes>>

-----------------------------------------------------------------------------
(* The process ends: requests, fan-outs and workers are gone, and BullMQ    *)
(* hands out the active jobs again unless they stalled too often.           *)
BackendCrashes ==
    /\ crashes < MaxCrashes
    /\ crashes' = crashes + 1
    /\ work' = [a \in Attempts |-> NoWork]
    /\ request' = [r \in Managers \X Hooks |-> NoRequest]
    /\ job' = [a \in Attempts |->
                 CASE job[a].state = "chosen" -> [job[a] EXCEPT !.state = "failed"]
                   [] job[a].state = "active" /\ job[a].stalls < MaxStalls ->
                          [state |-> "waiting", stalls |-> job[a].stalls + 1]
                   [] job[a].state = "active" /\ job[a].stalls = MaxStalls ->
                          [job[a] EXCEPT !.state = "failed"]
                   [] OTHER -> job[a]]
    /\ UNCHANGED <<dados, excluido, attempts, announced, givenUp, streak>>

-----------------------------------------------------------------------------
FanOutStep(d) == Choose(d) \/ EnqueueFirst(d)

ProcessorStep(a) ==
    \/ Load(a) \/ Send(a) \/ RecordSuccess(a) \/ RecordFailure(a) \/ RecordError(a)
    \/ ScheduleRetry(a) \/ EmitAutoDisabled(a)

ManagerStep(r) == Read(r, "update") \/ Read(r, "redrive") \/ Update(r) \/ Redrive(r)

Next ==
    \/ \E d \in Deliveries : FanOutStep(d)
    \/ \E a \in Attempts : ProcessorStep(a)
    \/ \E r \in Managers \X Hooks : ManagerStep(r)
    \/ \E h \in Hooks : Delete(h)
    \/ BackendCrashes

Spec == Init /\ [][Next]_vars

\* BullMQ hands out what waits, delays end, and every request is answered or
\* times out: the processor goes on.  Managers and events come when they like.
ProcessorFairness == \A a \in Attempts : WF_vars(ProcessorStep(a))

FairSpec == Spec /\ ProcessorFairness

-----------------------------------------------------------------------------
(* Correctness.                                                            *)

\* A webhook is disabled only when that many deliveries were given up: neither the
\* attempts that were followed by a retry nor stale counters that are written back
\* add to it.
DisabledEarned ==
    \A h \in Hooks : dados[h].disabled => givenUp[h] >= Threshold

\* A webhook that is disabled was announced (or the failure to do so logged), or is
\* about to be: only a crash between the two steps disables one silently, whatever
\* is written back.
DisabledAnnounced ==
    \A h \in Hooks :
        dados[h].disabled /\ crashes = 0 =>
            \/ h \in announced
            \/ \E a \in Attempts : work[a].pc = "announce" /\ Hook(a) = h

\* Both: a webhook is disabled only after Threshold deliveries were given up, and not
\* silently (webhook-dispatch.processor.ts:145, 290).
DisabledSound == DisabledEarned /\ DisabledAnnounced

\* An attempt is queued only after the one before it was recorded as failed, and,
\* without a crash, a delivery that was recorded as accepted is not tried again.
RetriesFollowFailures ==
    \A d \in Deliveries, n \in 1..(MaxAttempts - 1) :
        job[<<d, n + 1>>].state # "absent" =>
            /\ <<<<d, n>>, "fail">> \in attempts
            /\ crashes = 0 => <<<<d, n>>, "ok">> \notin attempts

\* A failed attempt that is not the last is followed by the next one: the job of a
\* retry is never taken for one that exists already.
RetriesHappen ==
    \A d \in Deliveries, n \in 1..(MaxAttempts - 1) :
        <<<<d, n>>, "fail">> \in attempts
            ~> job[<<d, n + 1>>].state # "absent" \/ crashes > 0

\* docs/webhooks-guide.md:59 disables a webhook that fails for ten events in a row:
\* a delivery that was accepted in between starts the count again.
DisabledInARow ==
    [][\A h \in Hooks :
          dados'[h].disabled /\ ~dados[h].disabled => streak'[h] >= Threshold]_vars
=============================================================================
