------------------------- MODULE ExecutionLifecycle -------------------------
(***************************************************************************)
(* The life of an execution, from POST /projects/:id/execute to the result *)
(* the agent on the VPS reports: the row in DPedido, the approval gate and *)
(* its sweeper, the BullMQ queue and its workers, the dispatch over the SSH*)
(* tunnel, the agent's run, the callback and its retries.                  *)
(*                                                                         *)
(* Every handler is cut at its awaits: between two awaits nothing else in  *)
(* the same Node process runs, at an await anything may.                   *)
(***************************************************************************)
EXTENDS Naturals, FiniteSets

CONSTANTS
    Executions,     \* executions that may be created
    Gated,          \* those the risk gate classifies MEDIUM or HIGH
    Projects,       \* project slugs, the key of the agent's mutex
    ProjectOf,      \* the slug of each execution
    Unmovable,      \* those whose task may refuse a move, or be gone
    Workers,        \* slots of the BullMQ worker (concurrency 3 in the code)
    Calls,          \* HTTP calls of managers served at the same time
    NoExec,         \* the execution of an idle worker or call
    MaxStalls,      \* BullMQ maxStalledCount (default 1)
    MaxSends,       \* attempts of the agent's callback (5 in the code)
    TakeLimit,      \* rows the sweeper reads per tick (100 in the code)
    MaxCrashes      \* bound on crashes of the backend and of the agent

ASSUME GateAssumption == Gated \subseteq Executions /\ NoExec \notin Executions
ASSUME ProjectAssumption == ProjectOf \in [Executions -> Projects]
ASSUME BoundAssumption ==
    /\ MaxStalls \in Nat
    /\ MaxSends \in Nat \ {0}
    /\ TakeLimit \in Nat
    /\ MaxCrashes \in Nat

VARIABLES
    dados,          \* DPedido.dados: what the row says of each execution
    aprovado,       \* the column DPedido.aprovado
    late,           \* executions whose approval.expiresAt is in the past
    task,           \* status of the task linked to each execution
    creating,       \* LOW executions inserted and not yet enqueued
    call,           \* approve / reject handlers in progress
    sweeper,        \* the cron handler expireStaleApprovals
    job,            \* the BullMQ job whose id is the execution
    worker,         \* ExecutionRunProcessor.process, per worker slot
    run,            \* each dispatch to the agent, and the run it started
    mutex,          \* projectMutex of the agent: slugs with a run
    handlers,       \* recordExecutionResult handlers in progress
    events,         \* domain events emitted so far
    crashes         \* crashes so far

backend == <<call, sweeper, creating, worker, handlers>>
vars == <<dados, aprovado, late, task, job, run, mutex, events, crashes, backend>>

-----------------------------------------------------------------------------
(* The values of the state.                                                *)

Clear     == {"queued", "approved"}
Decided   == {"approved", "rejected", "expired"}
Approvals == {"none", "awaiting"} \cup Clear \cup Decided
Statuses  == {"none", "QUEUED", "AWAITING", "APPROVED", "REJECTED", "EXPIRED",
              "RUNNING", "SUCCESS", "FAILED"}
Results   == {"none", "ok", "failed"}

\* approval is dados.approval.status, status dados.statusCode, finished says
\* that dados.claude.finishedAt is there, outcome is dados.audit.outcome.
Dados == [approval: Approvals, status: Statuses, finished: BOOLEAN, outcome: Results]
NoRow == [approval |-> "none", status |-> "none", finished |-> FALSE, outcome |-> "none"]

\* A dispatch is an execution and how often its job had stalled when a worker
\* took it: BullMQ hands a job out again at most MaxStalls times.
Dispatches == Executions \X (0..MaxStalls)
None       == <<NoExec, 0>>

\* sent: the request is under way.  refused: the agent said no.  running: Claude
\* runs.  reporting: an attempt of the callback is due.  waiting: its answer is
\* awaited.  reported / lost: the agent is done, with or without an answer.
Phases  == {"none", "sent", "refused", "running", "reporting", "waiting", "reported", "lost"}
Busy    == {"running", "reporting", "waiting"}
Started == Busy \cup {"reported", "lost"}
Runs    == [phase: Phases, result: Results, tries: 0..MaxSends, holds: BOOLEAN]
NoRun   == [phase |-> "none", result |-> "none", tries |-> 0, holds |-> FALSE]

Jobs       == [state: {"absent", "waiting", "active", "done"},
               owner: Workers \cup {"none"}, stalls: 0..MaxStalls]
WorkerPcs  == {"idle", "checking", "announcing", "dispatching", "awaitingAck",
               "failRead", "failWrite", "emitFailed"}
WorkerType == [pc: WorkerPcs, cur: Dispatches \cup {None}, snap: Dados]
IdleWorker == [pc |-> "idle", cur |-> None, snap |-> NoRow]
CallType   == [pc: {"idle", "read", "emit", "enqueue"},
               exec: Executions \cup {NoExec}, verdict: {"approved", "rejected"}]
IdleCall   == [pc |-> "idle", exec |-> NoExec, verdict |-> "rejected"]
Handlers   == [of: Dispatches, try: 1..MaxSends,
               stage: {"arrived", "read", "written"}, snap: Dados]
Sweepers   == [pc: {"idle", "update", "emit"}, batch: SUBSET Executions]
IdleSweeper == [pc |-> "idle", batch |-> {}]
TaskStates == {"READY", "EXECUTING", "DONE", "FAILED"}
EventTypes == {"approved", "rejected", "expired", "started", "failed",
               "agent.finished", "agent.failed"}

TypeOK ==
    /\ dados \in [Executions -> Dados]
    /\ aprovado \in [Executions -> BOOLEAN]
    /\ late \subseteq Executions
    /\ task \in [Executions -> TaskStates]
    /\ creating \subseteq Executions
    /\ call \in [Calls -> CallType]
    /\ sweeper \in Sweepers
    /\ job \in [Executions -> Jobs]
    /\ worker \in [Workers -> WorkerType]
    /\ run \in [Dispatches -> Runs]
    /\ mutex \subseteq Projects
    /\ handlers \subseteq Handlers
    /\ events \subseteq EventTypes \X Executions
    /\ crashes \in 0..MaxCrashes

Init ==
    /\ dados = [e \in Executions |-> NoRow]
    /\ aprovado = [e \in Executions |-> FALSE]
    /\ late = {}
    /\ task = [e \in Executions |-> "READY"]
    /\ creating = {}
    /\ call = [c \in Calls |-> IdleCall]
    /\ sweeper = IdleSweeper
    /\ job = [e \in Executions |-> [state |-> "absent", owner |-> "none", stalls |-> 0]]
    /\ worker = [w \in Workers |-> IdleWorker]
    /\ run = [d \in Dispatches |-> NoRun]
    /\ mutex = {}
    /\ handlers = {}
    /\ events = {}
    /\ crashes = 0

Cleared(e) == dados[e].approval \in Clear

-----------------------------------------------------------------------------
(* Helpers shared by the handlers.                                         *)

\* queue.add with jobId = executionId: a job that exists already is kept.  The
\* slip is what the queue without Redis does, which only logs.
EnqueueInMemory(e) == job' = [job EXCEPT ![e].state = @]
Enqueue(e) ==
    job' = IF job[e].state = "absent"
           THEN [job EXCEPT ![e].state = "waiting"]
           ELSE job

\* TasksService.updateStatus: a move to the same state is refused, VALIDATED has no exits, and
\* the task may be gone, or the database fail: the callers log that and go on.
MoveTask(e, to) ==
    \/ task' = [task EXCEPT ![e] = to]
    \/ e \in Unmovable /\ task' = task

Emit(type, e) == events' = events \cup {<<type, e>>}

-----------------------------------------------------------------------------
(* ExecutionsService.execute and the clock.                                *)

\* The INSERT of the row: queued when the risk is LOW, else awaiting approval.
Create(e) ==
    /\ dados[e] = NoRow
    /\ dados' = [dados EXCEPT ![e] =
                   IF e \in Gated
                   THEN [NoRow EXCEPT !.approval = "awaiting", !.status = "AWAITING"]
                   ELSE [NoRow EXCEPT !.approval = "queued", !.status = "QUEUED"]]
    /\ creating' = creating \cup ({e} \ Gated)
    /\ UNCHANGED <<aprovado, late, task, call, sweeper, job, worker, run, mutex,
                   handlers, events, crashes>>

EnqueueCreated(e) ==
    /\ e \in creating
    /\ Enqueue(e)
    /\ creating' = creating \ {e}
    /\ UNCHANGED <<dados, aprovado, late, task, call, sweeper, worker, run, mutex,
                   handlers, events, crashes>>

\* One hour after the creation approval.expiresAt lies in the past.
DeadlinePasses(e) ==
    /\ dados[e].approval = "awaiting"
    /\ e \notin late
    /\ late' = late \cup {e}
    /\ UNCHANGED <<dados, aprovado, task, job, run, mutex, events, crashes, backend>>

-----------------------------------------------------------------------------
(* ApprovalFlowService.approve and reject.                                 *)

\* Reads the row and checks its status; a row already decided is a 400.
DecisionRead(c, e, verdict) ==
    /\ call[c].pc = "idle"
    /\ dados[e].approval = "awaiting"
    /\ call' = [call EXCEPT ![c] = [pc |-> "read", exec |-> e, verdict |-> verdict]]
    /\ UNCHANGED <<dados, aprovado, late, task, creating, sweeper, job, worker, run,
                   mutex, handlers, events, crashes>>

\* The WHERE of the two UPDATEs, and a slip: to rely on the check made before.
AwaitsDecisionAsRead(e) == dados[e] # NoRow
AwaitsDecision(e) == dados[e].approval = "awaiting"

\* The conditional UPDATE; no row is a 409.
DecisionUpdate(c) ==
    /\ call[c].pc = "read"
    /\ LET e == call[c].exec
           v == call[c].verdict
       IN IF AwaitsDecision(e)
          THEN /\ dados' = [dados EXCEPT ![e] =
                    [@ EXCEPT !.approval = v,
                              !.status = IF v = "approved" THEN "APPROVED" ELSE "REJECTED"]]
               /\ aprovado' = [aprovado EXCEPT ![e] = IF v = "approved" THEN TRUE ELSE @]
               /\ call' = [call EXCEPT ![c].pc = "emit"]
          ELSE /\ call' = [call EXCEPT ![c] = IdleCall]
               /\ UNCHANGED <<dados, aprovado>>
    /\ UNCHANGED <<late, task, creating, sweeper, job, worker, run, mutex, handlers,
                   events, crashes>>

\* What is left of a call after its event: an approval must still be enqueued.
\* The slip ends the call with the event.
AfterEventNothing(c) == IdleCall
AfterEvent(c) == IF call[c].verdict = "approved"
                 THEN [call[c] EXCEPT !.pc = "enqueue"]
                 ELSE IdleCall

DecisionEmit(c) ==
    /\ call[c].pc = "emit"
    /\ Emit(call[c].verdict, call[c].exec)
    /\ call' = [call EXCEPT ![c] = AfterEvent(c)]
    /\ UNCHANGED <<dados, aprovado, late, task, creating, sweeper, job, worker, run,
                   mutex, handlers, crashes>>

DecisionEnqueue(c) ==
    /\ call[c].pc = "enqueue"
    /\ Enqueue(call[c].exec)
    /\ call' = [call EXCEPT ![c] = IdleCall]
    /\ UNCHANGED <<dados, aprovado, late, task, creating, sweeper, worker, run, mutex,
                   handlers, events, crashes>>

-----------------------------------------------------------------------------
(* ApprovalFlowSweeperService.expireStaleApprovals, every minute.          *)

Sweepable == {e \in Gated : dados[e] # NoRow /\ ~aprovado[e]}

\* findMany with take and no order: any TakeLimit of the rows not approved,
\* those already rejected or expired included.  The slip reads one row too few.
WindowsTooSmall == {W \in SUBSET Sweepable : Cardinality(W) < TakeLimit}
Windows ==
    {W \in SUBSET Sweepable :
        /\ Cardinality(W) <= TakeLimit
        /\ Cardinality(W) < TakeLimit => W = Sweepable}

\* What the filter and the WHERE of the UPDATE ask; the slip forgets the status.
StaleByClock(e) == e \in late
Stale(e) == dados[e].approval = "awaiting" /\ e \in late

SweepRead ==
    /\ sweeper.pc = "idle"
    /\ \E W \in Windows :
          sweeper' = [pc |-> "update", batch |-> {e \in W : Stale(e)}]
    /\ UNCHANGED <<dados, aprovado, late, task, creating, call, job, worker, run,
                   mutex, handlers, events, crashes>>

\* Returns early on an empty batch, else one UPDATE that checks each row again.
SweepUpdate ==
    /\ sweeper.pc = "update"
    /\ IF sweeper.batch = {}
       THEN sweeper' = IdleSweeper /\ UNCHANGED dados
       ELSE /\ sweeper' = [sweeper EXCEPT !.pc = "emit"]
            /\ dados' = [e \in Executions |->
                           IF e \in sweeper.batch /\ Stale(e)
                           THEN [dados[e] EXCEPT !.approval = "expired", !.status = "EXPIRED"]
                           ELSE dados[e]]
    /\ UNCHANGED <<aprovado, late, task, creating, call, job, worker, run, mutex,
                   handlers, events, crashes>>

\* The loop that emits runs over the rows read, not over the rows updated.
SweepEmit ==
    /\ sweeper.pc = "emit"
    /\ events' = events \cup ({"expired"} \X sweeper.batch)
    /\ sweeper' = IdleSweeper
    /\ UNCHANGED <<dados, aprovado, late, task, creating, call, job, worker, run,
                   mutex, handlers, crashes>>

-----------------------------------------------------------------------------
(* BullMQ and ExecutionRunProcessor.process.                               *)

\* The end of process(): the job completes if this worker still holds its lock.
Release(w) ==
    /\ worker' = [worker EXCEPT ![w] = IdleWorker]
    /\ LET e == worker[w].cur[1]
       IN job' = IF job[e].state = "active" /\ job[e].owner = w
                 THEN [job EXCEPT ![e].state = "done", ![e].owner = "none"]
                 ELSE job

To(w, pc) == worker' = [worker EXCEPT ![w].pc = pc]

\* Takes a waiting job and loads the execution, its project and its agent.
TakeJob(w, e) ==
    /\ worker[w].pc = "idle"
    /\ job[e].state = "waiting"
    /\ job' = [job EXCEPT ![e].state = "active", ![e].owner = w]
    /\ worker' = [worker EXCEPT ![w] = [pc |-> "checking", cur |-> <<e, job[e].stalls>>,
                                        snap |-> NoRow]]
    /\ UNCHANGED <<dados, aprovado, late, task, creating, call, sweeper, run, mutex,
                   handlers, events, crashes>>

\* No project, no agent, no tunnel port, or the probe of the tunnel fails.
PreflightFails(w) ==
    /\ worker[w].pc = "checking"
    /\ To(w, "failRead")
    /\ UNCHANGED <<dados, aprovado, late, task, creating, call, sweeper, job, run, mutex,
                   handlers, events, crashes>>

Markable(e) == dados[e].status \in {"QUEUED", "APPROVED"} \/ dados[e].approval \in Clear

\* The conditional UPDATE; when no row matches the job ends (skip_stale).
MarkRunning(w) ==
    /\ worker[w].pc = "checking"
    /\ LET e == worker[w].cur[1]
       IN IF Markable(e)
          THEN /\ dados' = [dados EXCEPT ![e].status = "RUNNING"]
               /\ To(w, "announcing")
               /\ UNCHANGED job
          ELSE Release(w) /\ UNCHANGED dados
    /\ UNCHANGED <<aprovado, late, task, creating, call, sweeper, run, mutex, handlers,
                   events, crashes>>

\* Moves the linked task to EXECUTING and emits execution.started.
Announce(w) ==
    /\ worker[w].pc = "announcing"
    /\ MoveTask(worker[w].cur[1], "EXECUTING")
    /\ Emit("started", worker[w].cur[1])
    /\ To(w, "dispatching")
    /\ UNCHANGED <<dados, aprovado, late, creating, call, sweeper, job, run, mutex,
                   handlers, crashes>>

\* Sends RUN_CLAUDE_CODE through the tunnel.
Dispatch(w) ==
    /\ worker[w].pc = "dispatching"
    /\ run' = [run EXCEPT ![worker[w].cur] = [NoRun EXCEPT !.phase = "sent"]]
    /\ To(w, "awaitingAck")
    /\ UNCHANGED <<dados, aprovado, late, task, creating, call, sweeper, job, mutex,
                   handlers, events, crashes>>

\* No slug, no prompt or a wrong risk class: it throws before it sends.
PayloadInvalid(w) ==
    /\ worker[w].pc = "dispatching"
    /\ To(w, "failRead")
    /\ UNCHANGED <<dados, aprovado, late, task, creating, call, sweeper, job, run, mutex,
                   handlers, events, crashes>>

AckArrives(w) ==
    /\ worker[w].pc = "awaitingAck"
    /\ run[worker[w].cur].phase \in Started
    /\ Release(w)
    /\ UNCHANGED <<dados, aprovado, late, task, creating, call, sweeper, run, mutex,
                   handlers, events, crashes>>

\* The agent refused, the tunnel broke or 30 s passed: the request itself may
\* still be under way, and the agent may have accepted it.
AckFails(w) ==
    /\ worker[w].pc = "awaitingAck"
    /\ To(w, "failRead")
    /\ UNCHANGED <<dados, aprovado, late, task, creating, call, sweeper, job, run, mutex,
                   handlers, events, crashes>>

\* finishExecution, first await: reads dados.
FailRead(w) ==
    /\ worker[w].pc = "failRead"
    /\ worker' = [worker EXCEPT ![w].pc = "failWrite", ![w].snap = dados[worker[w].cur[1]]]
    /\ UNCHANGED <<dados, aprovado, late, task, creating, call, sweeper, job, run, mutex,
                   handlers, events, crashes>>

\* finishExecution, second await: writes all of dados back, from what it read.
FailWrite(w) ==
    /\ worker[w].pc = "failWrite"
    /\ dados' = [dados EXCEPT ![worker[w].cur[1]] =
                   [worker[w].snap EXCEPT !.status = "FAILED", !.finished = TRUE]]
    /\ worker' = [worker EXCEPT ![w].pc = "emitFailed", ![w].snap = NoRow]
    /\ UNCHANGED <<aprovado, late, task, creating, call, sweeper, job, run, mutex,
                   handlers, events, crashes>>

EmitFailed(w) ==
    /\ worker[w].pc = "emitFailed"
    /\ Emit("failed", worker[w].cur[1])
    /\ Release(w)
    /\ UNCHANGED <<dados, aprovado, late, task, creating, call, sweeper, run, mutex,
                   handlers, crashes>>

\* The lock of an active job is not renewed in time: its worker died, or lost
\* Redis.  The job goes back to the queue, or fails once it stalled too often.
Stall(e) ==
    /\ job[e].state = "active"
    /\ job' = [job EXCEPT ![e] =
                 IF @.stalls < MaxStalls
                 THEN [state |-> "waiting", owner |-> "none", stalls |-> @.stalls + 1]
                 ELSE [@ EXCEPT !.state = "done", !.owner = "none"]]
    /\ UNCHANGED <<dados, aprovado, late, task, run, mutex, events, crashes, backend>>

-----------------------------------------------------------------------------
(* The agent on the VPS: RUN_CLAUDE_CODE and its callback.                 *)

\* The check of the mutex, and a slip: to look for a run of the same dispatch only.
NotRunning(d) == run[d].phase \notin Busy
MutexFree(d) == ProjectOf[d[1]] \notin mutex

\* The mutex is free and the workspace is resolved and allowed: ACK, then run.
AgentAccepts(d) ==
    /\ run[d].phase = "sent"
    /\ MutexFree(d)
    /\ mutex' = mutex \cup {ProjectOf[d[1]]}
    /\ run' = [run EXCEPT ![d].phase = "running"]
    /\ UNCHANGED <<dados, aprovado, late, task, job, events, crashes, backend>>

\* 409 PROJECT_BUSY, or the slug does not resolve to an allowed workspace.
AgentRefuses(d) ==
    /\ run[d].phase = "sent"
    /\ run' = [run EXCEPT ![d].phase = "refused"]
    /\ UNCHANGED <<dados, aprovado, late, task, job, mutex, events, crashes, backend>>

\* Claude ended: the mutex is free before the result is delivered.
RunEnds(d) ==
    /\ run[d].phase = "running"
    /\ \E r \in {"ok", "failed"} :
          run' = [run EXCEPT ![d].phase = "reporting", ![d].result = r]
    /\ mutex' = mutex \ {ProjectOf[d[1]]}
    /\ UNCHANGED <<dados, aprovado, late, task, job, events, crashes, backend>>

\* git pull --rebase failed: the report is awaited with the mutex held.
PullFails(d) ==
    /\ run[d].phase = "running"
    /\ run' = [run EXCEPT ![d].phase = "reporting", ![d].result = "failed",
                          ![d].holds = TRUE]
    /\ UNCHANGED <<dados, aprovado, late, task, job, mutex, events, crashes, backend>>

\* An attempt of the callback reaches the backend, or is lost on its way there.
Report(d) ==
    /\ run[d].phase = "reporting"
    /\ run' = [run EXCEPT ![d].phase = "waiting", ![d].tries = @ + 1]
    /\ \/ handlers' = handlers \cup {[of |-> d, try |-> run[d].tries + 1,
                                      stage |-> "arrived", snap |-> NoRow]}
       \/ UNCHANGED handlers
    /\ UNCHANGED <<dados, aprovado, late, task, creating, call, sweeper, job, worker,
                   mutex, events, crashes>>

\* The condition of the retry loop, and a slip: one attempt too many.
AttemptsOffByOne(d) == run[d].tries <= MaxSends
AttemptsLeft(d) == run[d].tries < MaxSends

\* No answer within 10 s, or a 5xx, with attempts left: back off and try again.
ReportTimesOut(d) ==
    /\ run[d].phase = "waiting"
    /\ AttemptsLeft(d)
    /\ run' = [run EXCEPT ![d].phase = "reporting"]
    /\ UNCHANGED <<dados, aprovado, late, task, job, mutex, events, crashes, backend>>

\* The agent process ends: every run and every report in progress is lost.
LoseAll ==
    /\ run' = [d \in Dispatches |->
                 IF run[d].phase \in Busy THEN [run[d] EXCEPT !.phase = "lost"] ELSE run[d]]
    /\ mutex' = {}

\* A 4xx (no handler ran), or the last attempt timed out: send() throws.  The
\* caller of an ended run catches that.  Nobody catches it after a failed pull: an unhandled
\* rejection, which ends the Node process.
ReportGivesUp(d) ==
    /\ run[d].phase = "waiting"
    /\ \/ ~AttemptsLeft(d)
       \/ \A h \in handlers : h.of = d => h.try # run[d].tries
    /\ IF run[d].holds
       THEN LoseAll
       ELSE run' = [run EXCEPT ![d].phase = "lost"] /\ UNCHANGED mutex
    /\ UNCHANGED <<dados, aprovado, late, task, job, events, crashes, backend>>

-----------------------------------------------------------------------------
(* AgentsService.recordExecutionResult.                                    *)

\* The 200 reaches the agent if it still waits for this attempt.
Answer(h) ==
    IF run[h.of].phase = "waiting" /\ run[h.of].tries = h.try
    THEN /\ run' = [run EXCEPT ![h.of].phase = "reported"]
         /\ mutex' = IF run[h.of].holds THEN mutex \ {ProjectOf[h.of[1]]} ELSE mutex
    ELSE UNCHANGED <<run, mutex>>

Advance(h, stage, snap) ==
    handlers' = (handlers \ {h}) \cup {[h EXCEPT !.stage = stage, !.snap = snap]}

\* Reads the row; an outcome that is there already ends the call with a 200.
ResultRead(h) ==
    /\ h.stage = "arrived"
    /\ IF dados[h.of[1]].outcome # "none"
       THEN handlers' = handlers \ {h} /\ Answer(h)
       ELSE Advance(h, "read", dados[h.of[1]]) /\ UNCHANGED <<run, mutex>>
    /\ UNCHANGED <<dados, aprovado, late, task, creating, call, sweeper, job, worker,
                   events, crashes>>

\* The result the callback carries, and a slip: to take every report for success.
ReportedOk(h) == "ok"
Reported(h) == run[h.of].result

\* registrarOutcome: writes all of dados back, from what was read.
ResultWrite(h) ==
    /\ h.stage = "read"
    /\ LET r == Reported(h)
       IN dados' = [dados EXCEPT ![h.of[1]] =
                      [h.snap EXCEPT !.status = IF r = "ok" THEN "SUCCESS" ELSE "FAILED",
                                     !.finished = TRUE, !.outcome = r]]
    /\ Advance(h, "written", NoRow)
    /\ UNCHANGED <<aprovado, late, task, creating, call, sweeper, job, worker, run,
                   mutex, events, crashes>>

\* Moves the linked task, emits the event and answers.
ResultPublish(h) ==
    /\ h.stage = "written"
    /\ LET r == Reported(h)
       IN /\ MoveTask(h.of[1], IF r = "ok" THEN "DONE" ELSE "FAILED")
          /\ Emit(IF r = "ok" THEN "agent.finished" ELSE "agent.failed", h.of[1])
    /\ handlers' = handlers \ {h}
    /\ Answer(h)
    /\ UNCHANGED <<dados, aprovado, late, creating, call, sweeper, job, worker, crashes>>

-----------------------------------------------------------------------------
(* Crashes: what lives in a process is gone, what lives in Postgres, Redis *)
(* or the other process stays.                                             *)

BackendCrashes ==
    /\ crashes < MaxCrashes
    /\ crashes' = crashes + 1
    /\ creating' = {}
    /\ call' = [c \in Calls |-> IdleCall]
    /\ sweeper' = IdleSweeper
    /\ worker' = [w \in Workers |-> IdleWorker]
    /\ handlers' = {}
    /\ UNCHANGED <<dados, aprovado, late, task, job, run, mutex, events>>

AgentCrashes ==
    /\ crashes < MaxCrashes
    /\ crashes' = crashes + 1
    /\ LoseAll
    /\ UNCHANGED <<dados, aprovado, late, task, job, events, backend>>

-----------------------------------------------------------------------------
CreatorStep(e) == Create(e) \/ EnqueueCreated(e) \/ DeadlinePasses(e)

CallStep(c) ==
    \/ \E e \in Executions, v \in {"approved", "rejected"} : DecisionRead(c, e, v)
    \/ DecisionUpdate(c) \/ DecisionEmit(c) \/ DecisionEnqueue(c)

SweeperStep == SweepRead \/ SweepUpdate \/ SweepEmit

WorkerStep(w) ==
    \/ \E e \in Executions : TakeJob(w, e)
    \/ PreflightFails(w) \/ MarkRunning(w) \/ Announce(w)
    \/ Dispatch(w) \/ PayloadInvalid(w) \/ AckArrives(w) \/ AckFails(w)
    \/ FailRead(w) \/ FailWrite(w) \/ EmitFailed(w)

AgentStep(d) ==
    \/ AgentAccepts(d) \/ AgentRefuses(d) \/ RunEnds(d) \/ PullFails(d)
    \/ Report(d) \/ ReportTimesOut(d) \/ ReportGivesUp(d)

HandlerStep(h) == ResultRead(h) \/ ResultWrite(h) \/ ResultPublish(h)

Next ==
    \/ \E e \in Executions : CreatorStep(e) \/ Stall(e)
    \/ \E c \in Calls : CallStep(c)
    \/ SweeperStep
    \/ \E w \in Workers : WorkerStep(w)
    \/ \E d \in Dispatches : AgentStep(d)
    \/ \E h \in handlers : HandlerStep(h)
    \/ BackendCrashes
    \/ AgentCrashes

Spec == Init /\ [][Next]_vars

\* What the schedulers of the two processes, Postgres, Redis and the clock give:
\* a handler that can go on does, the cron fires, workers poll, Claude ends (its
\* runner has a timeout), and every request is answered or times out.  Managers
\* need not decide, callbacks need not arrive, and nothing has to crash or stall.
Fairness ==
    /\ \A e \in Executions : WF_vars(EnqueueCreated(e)) /\ WF_vars(DeadlinePasses(e))
    /\ \A c \in Calls : WF_vars(DecisionUpdate(c) \/ DecisionEmit(c) \/ DecisionEnqueue(c))
    /\ WF_vars(SweeperStep)
    /\ \A w \in Workers : WF_vars(WorkerStep(w))
    /\ \A d \in Dispatches : WF_vars(AgentStep(d))
    /\ WF_vars(\E h \in handlers : HandlerStep(h))

FairSpec == Spec /\ Fairness

-----------------------------------------------------------------------------
(* Correctness.                                                            *)

AgentStarted(d) == run[d].phase \in Started

\* The approval gate: an execution is RUNNING, or was started by the agent, only
\* if it was queued as LOW or approved, and is so still: nothing that happens
\* later (a sweep, a second decision, a write of stale dados) takes it back.
DispatchGate ==
    \A e \in Executions :
        (dados[e].status = "RUNNING" \/ \E n \in 0..MaxStalls : AgentStarted(<<e, n>>))
            => Cleared(e)

\* The column aprovado and dados.approval are written by different statements and
\* always agree.
AprovadoMatches ==
    \A e \in Executions : aprovado[e] <=> dados[e].approval = "approved"

\* The events approved, rejected, started and failed tell the truth, also when
\* two managers and the sweeper decide about one execution at the same time.
EventsTruthful ==
    \A e \in Executions :
        /\ <<"approved", e>> \in events => dados[e].approval = "approved"
        /\ <<"rejected", e>> \in events => dados[e].approval = "rejected"
        /\ <<"started", e>> \in events => Cleared(e)
        /\ <<"failed", e>> \in events => dados[e].finished

\* An execution that may run has a job, or somebody is about to create it: only
\* a crash between the two writes strands it.
HandedOver ==
    \A e \in Executions :
        Cleared(e) /\ crashes = 0 =>
            \/ job[e].state # "absent"
            \/ e \in creating
            \/ \E c \in Calls : call[c].pc \in {"emit", "enqueue"} /\ call[c].exec = e

\* The agent never runs Claude twice at the same time in one project, whatever
\* is redelivered, and its mutex says so.
OneClaudePerProject ==
    \A d1 \in Dispatches :
        run[d1].phase = "running" =>
            /\ ProjectOf[d1[1]] \in mutex
            /\ \A d2 \in Dispatches :
                  run[d2].phase = "running" /\ ProjectOf[d1[1]] = ProjectOf[d2[1]] => d1 = d2

\* A row that says SUCCESS holds the outcome ok, and where the row or the task says
\* so a run of this execution did end well: no mix of two workers, two callbacks
\* and their whole-row writes makes a success of a failure.
SuccessIsReal ==
    \A e \in Executions :
        /\ dados[e].status = "SUCCESS" => dados[e].outcome = "ok"
        /\ dados[e].outcome = "ok" \/ task[e] = "DONE"
              => \E n \in 0..MaxStalls : run[<<e, n>>].result = "ok"

\* A decision is taken once: approved, rejected and expired are never left, though
\* three handlers write all of dados from a copy they read before.
DecisionFinal ==
    [][\A e \in Executions :
          dados[e].approval \in Decided \cup {"queued"}
              => dados'[e].approval = dados[e].approval]_vars

\* The detailed system implements the abstract gate.
gateOf    == [e \in Executions |-> dados[e].approval]
startedOf == {e \in Executions : \E n \in 0..MaxStalls : AgentStarted(<<e, n>>)}
Gate      == INSTANCE ApprovalGate WITH gate <- gateOf, started <- startedOf
ImplementsGate == Gate!Spec

\* docs/plano/03-INTEGRACOES.md:948 has the sweeper mark the row EXPIRED and emit
\* execution.expired: the event is about a row that did expire.
ExpiredTruthful ==
    \A e \in Executions :
        <<"expired", e>> \in events => dados[e].approval = "expired"

\* agents.service.ts:616 makes the callback idempotent on audit.outcome: an outcome
\* that was recorded is neither lost nor replaced.
OutcomeKept ==
    [][\A e \in Executions :
          dados[e].outcome # "none" => dados'[e].outcome = dados[e].outcome]_vars

\* run-claude-code.handler.ts:213 says that an error of runAndReport never
\* propagates: while no process crashes, no run of Claude is lost.
RunOutlivesOthers ==
    [][\A d \in Dispatches :
          run[d].phase = "running" /\ crashes' = crashes => run'[d].phase # "lost"]_vars

\* A request for approval whose deadline passed does not wait for ever.
AwaitingResolves ==
    \A e \in Executions :
        (dados[e].approval = "awaiting" /\ e \in late) ~> dados[e].approval \in Decided

\* An execution that may run ends, unless the agent could not deliver its result
\* or a process crashed.
ClearedEnds ==
    \A e \in Executions :
        Cleared(e) ~> \/ dados[e].finished
                      \/ \E n \in 0..MaxStalls : run[<<e, n>>].phase = "lost"
                      \/ crashes > 0
=============================================================================
