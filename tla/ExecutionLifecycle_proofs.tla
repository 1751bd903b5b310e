---------------------- MODULE ExecutionLifecycle_proofs ----------------------
(***************************************************************************)
(* Proofs about ExecutionLifecycle, for every value of its constants.      *)
(***************************************************************************)
EXTENDS ExecutionLifecycle, TLAPS

-----------------------------------------------------------------------------
(* The inductive invariant.  Whatever may later act on an execution (a job, a *)
(* worker, a request under way, a callback) knows that it was cleared, and  *)
(* every copy of dados that will be written back agrees with the row on the *)
(* approval: that is why no whole-row write can undo a decision.            *)

\* Attempts of the callback are left while one is due.
TriesLeft ==
    \A d \in Dispatches :
        /\ run[d].phase \in {"none", "sent", "running"} => run[d].tries = 0
        /\ run[d].phase = "reporting" => run[d].tries < MaxSends

\* A call in progress is about an execution and knows what it decided.
CallsKnow ==
    \A c \in Calls :
        /\ call[c].pc # "idle" => call[c].exec \in Executions
        /\ call[c].pc \in {"emit", "enqueue"}
              => dados[call[c].exec].approval = call[c].verdict
        /\ call[c].pc = "enqueue" => call[c].verdict = "approved"

\* Everything beyond the gate concerns a cleared execution.
BeyondGate ==
    /\ \A e \in creating : Cleared(e)
    /\ \A e \in Executions :
          job[e].state # "absent" \/ dados[e].status = "RUNNING" => Cleared(e)
    /\ \A w \in Workers :
          worker[w].pc # "idle" => worker[w].cur \in Dispatches /\ Cleared(worker[w].cur[1])
    /\ \A d \in Dispatches : run[d].phase # "none" => Cleared(d[1])
    /\ \A h \in handlers : Cleared(h.of[1])

\* The copies of dados that are about to be written back.
CopiesAgree ==
    /\ \A w \in Workers :
          worker[w].pc = "failWrite"
              => worker[w].snap.approval = dados[worker[w].cur[1]].approval
    /\ \A h \in handlers :
          h.stage = "read" => h.snap.approval = dados[h.of[1]].approval

IInv ==
    /\ TypeOK
    /\ TriesLeft
    /\ CallsKnow
    /\ BeyondGate
    /\ CopiesAgree
    /\ AprovadoMatches

-----------------------------------------------------------------------------
(* Types.                                                                  *)

\* The constant records have the types of the state they initialise.
LEMMA ConstantTypes ==
    /\ NoRow \in Dados
    /\ NoRun \in Runs
    /\ IdleWorker \in WorkerType
    /\ IdleCall \in CallType
    /\ IdleSweeper \in Sweepers
BY BoundAssumption
   DEF NoRow, Dados, Approvals, Clear, Decided, Statuses, Results, NoRun, Runs, Phases,
       IdleWorker, WorkerType, WorkerPcs, None, IdleCall, CallType, IdleSweeper, Sweepers

\* The fields of a row, a run, a job and a worker, for the provers.
LEMMA RowFields ==
    ASSUME NEW r \in Dados
    PROVE  /\ r.approval \in Approvals /\ r.status \in Statuses
           /\ r.finished \in BOOLEAN /\ r.outcome \in Results
           /\ \A a \in Approvals, s \in Statuses :
                 [r EXCEPT !.approval = a, !.status = s] \in Dados
           /\ \A s \in Statuses : [r EXCEPT !.status = s] \in Dados
           /\ \A s \in Statuses : [r EXCEPT !.status = s, !.finished = TRUE] \in Dados
           /\ \A s \in Statuses, o \in Results :
                 [r EXCEPT !.status = s, !.finished = TRUE, !.outcome = o] \in Dados
BY DEF Dados

LEMMA InitTypes == Init => TypeOK /\ TriesLeft
<1> SUFFICES ASSUME Init PROVE TypeOK /\ TriesLeft
    OBVIOUS
<1>1. dados \in [Executions -> Dados] /\ run \in [Dispatches -> Runs]
      /\ worker \in [Workers -> WorkerType] /\ call \in [Calls -> CallType]
      /\ sweeper \in Sweepers
    BY ConstantTypes DEF Init
<1>2. job \in [Executions -> Jobs]
    BY BoundAssumption DEF Init, Jobs
<1>3. TypeOK
    BY <1>1, <1>2, BoundAssumption DEF Init, TypeOK, TaskStates
<1>4. TriesLeft
    BY DEF Init, TriesLeft, NoRun
<1> QED BY <1>3, <1>4

LEMMA CreatorTypes ==
    ASSUME IInv, NEW e \in Executions, CreatorStep(e) \/ Stall(e)
    PROVE  TypeOK' /\ TriesLeft'
<1> USE DEF IInv
<1>1. CASE Create(e)
  <2>1. dados' \in [Executions -> Dados]
      BY <1>1, ConstantTypes DEF Create, TypeOK, Dados, NoRow, Approvals, Clear, Statuses
  <2> QED BY <1>1, <2>1 DEF Create, TypeOK, TriesLeft
<1>2. CASE EnqueueCreated(e)
    BY <1>2 DEF EnqueueCreated, Enqueue, TypeOK, TriesLeft, Jobs
<1>3. CASE DeadlinePasses(e)
    BY <1>3 DEF DeadlinePasses, TypeOK, TriesLeft, backend
<1>4. CASE Stall(e)
  <2>1. job[e] \in Jobs /\ MaxStalls \in Nat
      BY BoundAssumption DEF TypeOK
  <2>2. [state |-> "waiting", owner |-> "none", stalls |-> job[e].stalls + 1] \in Jobs
        \/ ~(job[e].stalls < MaxStalls)
      BY <2>1 DEF Jobs
  <2>3. [job[e] EXCEPT !.state = "done", !.owner = "none"] \in Jobs
      BY <2>1 DEF Jobs
  <2>4. job' \in [Executions -> Jobs]
      BY <1>4, <2>2, <2>3 DEF Stall, TypeOK
  <2> QED BY <1>4, <2>4 DEF Stall, TypeOK, TriesLeft, backend
<1> QED BY <1>1, <1>2, <1>3, <1>4 DEF CreatorStep

LEMMA CallTypes ==
    ASSUME IInv, NEW c \in Calls, CallStep(c)
    PROVE  TypeOK' /\ TriesLeft'
<1> USE DEF IInv
<1>1. ASSUME NEW e \in Executions, NEW v \in {"approved", "rejected"}, DecisionRead(c, e, v)
      PROVE  TypeOK' /\ TriesLeft'
    BY <1>1 DEF DecisionRead, TypeOK, TriesLeft, CallType
<1>2. CASE DecisionUpdate(c)
  <2>1. call[c].exec \in Executions /\ call[c].verdict \in {"approved", "rejected"}
      BY <1>2 DEF DecisionUpdate, CallsKnow, TypeOK, CallType
  <2>2. dados' \in [Executions -> Dados]
    <3> DEFINE v == call[c].verdict
               s == IF v = "approved" THEN "APPROVED" ELSE "REJECTED"
    <3>1. dados[call[c].exec] \in Dados /\ v \in Approvals /\ s \in Statuses
        BY <2>1 DEF TypeOK, Approvals, Decided, Statuses
    <3>2. [dados[call[c].exec] EXCEPT !.approval = v, !.status = s] \in Dados
        BY <3>1, RowFields
    <3> QED BY <1>2, <3>2 DEF DecisionUpdate, TypeOK
  <2>3. aprovado' \in [Executions -> BOOLEAN]
      BY <1>2, <2>1 DEF DecisionUpdate, TypeOK
  <2>4. call' \in [Calls -> CallType]
    <3>1. [call[c] EXCEPT !.pc = "emit"] \in CallType
        BY DEF TypeOK, CallType
    <3> QED BY <1>2, <3>1, ConstantTypes DEF DecisionUpdate, TypeOK
  <2> QED BY <1>2, <2>2, <2>3, <2>4 DEF DecisionUpdate, TypeOK, TriesLeft
<1>3. CASE DecisionEmit(c)
  <2>1. call[c].exec \in Executions /\ call[c].verdict \in {"approved", "rejected"}
      BY <1>3 DEF DecisionEmit, CallsKnow, TypeOK, CallType
  <2>2. events' \subseteq EventTypes \X Executions
      BY <1>3, <2>1 DEF DecisionEmit, Emit, TypeOK, EventTypes
  <2>3. call' \in [Calls -> CallType]
      BY <1>3, ConstantTypes DEF DecisionEmit, AfterEvent, TypeOK, CallType
  <2> QED BY <1>3, <2>2, <2>3 DEF DecisionEmit, TypeOK, TriesLeft
<1>4. CASE DecisionEnqueue(c)
  <2>1. call[c].exec \in Executions
      BY <1>4 DEF DecisionEnqueue, CallsKnow
  <2>2. job' \in [Executions -> Jobs]
      BY <1>4, <2>1 DEF DecisionEnqueue, Enqueue, TypeOK, Jobs
  <2>3. call' \in [Calls -> CallType]
      BY <1>4, ConstantTypes DEF DecisionEnqueue, TypeOK
  <2> QED BY <1>4, <2>2, <2>3 DEF DecisionEnqueue, TypeOK, TriesLeft
<1> QED BY <1>1, <1>2, <1>3, <1>4 DEF CallStep

LEMMA SweeperTypes ==
    ASSUME IInv, SweeperStep
    PROVE  TypeOK' /\ TriesLeft'
<1> USE DEF IInv
<1>1. CASE SweepRead
  <2>1. sweeper' \in Sweepers
      BY <1>1, GateAssumption DEF SweepRead, Windows, Sweepable, Sweepers
  <2> QED BY <1>1, <2>1 DEF SweepRead, TypeOK, TriesLeft
<1>2. CASE SweepUpdate
  <2>1. sweeper' \in Sweepers
      BY <1>2, ConstantTypes DEF SweepUpdate, TypeOK, Sweepers
  <2>2. dados' \in [Executions -> Dados]
    <3>1. ASSUME NEW e \in Executions
          PROVE  [dados[e] EXCEPT !.approval = "expired", !.status = "EXPIRED"] \in Dados
        BY RowFields DEF TypeOK, Approvals, Decided, Statuses
    <3> QED BY <1>2, <3>1 DEF SweepUpdate, TypeOK
  <2> QED BY <1>2, <2>1, <2>2 DEF SweepUpdate, TypeOK, TriesLeft
<1>3. CASE SweepEmit
  <2>1. events' \subseteq EventTypes \X Executions
      BY <1>3 DEF SweepEmit, TypeOK, Sweepers, EventTypes
  <2> QED BY <1>3, <2>1, ConstantTypes DEF SweepEmit, TypeOK, TriesLeft
<1> QED BY <1>1, <1>2, <1>3 DEF SweeperStep

\* Moving a worker's program counter keeps the types of the workers.
LEMMA ToTypes ==
    ASSUME TypeOK, NEW w \in Workers, NEW pc \in WorkerPcs, To(w, pc)
    PROVE  worker' \in [Workers -> WorkerType]
<1>1. [worker[w] EXCEPT !.pc = pc] \in WorkerType
    BY DEF TypeOK, WorkerType
<1> QED BY <1>1 DEF TypeOK, To

LEMMA ReleaseTypes ==
    ASSUME TypeOK, NEW w \in Workers, worker[w].cur \in Dispatches, Release(w)
    PROVE  worker' \in [Workers -> WorkerType] /\ job' \in [Executions -> Jobs]
<1>1. worker' \in [Workers -> WorkerType]
    BY ConstantTypes DEF Release, TypeOK
<1>2. worker[w].cur[1] \in Executions
    BY DEF Dispatches
<1>3. job' \in [Executions -> Jobs]
    BY <1>2 DEF Release, TypeOK, Jobs
<1> QED BY <1>1, <1>3

LEMMA WorkerTypes ==
    ASSUME IInv, NEW w \in Workers, WorkerStep(w)
    PROVE  TypeOK' /\ TriesLeft'
<1> USE DEF IInv
<1>a. \A pc \in {"checking", "announcing", "dispatching", "awaitingAck", "failRead",
                 "failWrite", "emitFailed"} :
        /\ pc \in WorkerPcs
        /\ worker[w].pc = pc => /\ worker[w].cur \in Dispatches
                                /\ worker[w].cur[1] \in Executions
    BY DEF BeyondGate, Dispatches, WorkerPcs
<1>1. ASSUME NEW e \in Executions, TakeJob(w, e)
      PROVE  TypeOK' /\ TriesLeft'
  <2>1. job' \in [Executions -> Jobs]
      BY <1>1 DEF TakeJob, TypeOK, Jobs
  <2>2. <<e, job[e].stalls>> \in Dispatches
      BY DEF TypeOK, Jobs, Dispatches
  <2>3. worker' \in [Workers -> WorkerType]
      BY <1>1, <2>2, <1>a, ConstantTypes DEF TakeJob, TypeOK, WorkerType
  <2> QED BY <1>1, <2>1, <2>3 DEF TakeJob, TypeOK, TriesLeft
<1>2. CASE PreflightFails(w)
    BY <1>2, <1>a, ToTypes DEF PreflightFails, TypeOK, TriesLeft
<1>3. CASE MarkRunning(w)
  <2>1. dados' \in [Executions -> Dados]
    <3>1. [dados[worker[w].cur[1]] EXCEPT !.status = "RUNNING"] \in Dados
        BY <1>3, <1>a, RowFields DEF MarkRunning, TypeOK, Statuses
    <3> QED BY <1>3, <3>1 DEF MarkRunning, TypeOK
  <2>2. worker' \in [Workers -> WorkerType] /\ job' \in [Executions -> Jobs]
      BY <1>3, <1>a, ToTypes, ReleaseTypes DEF MarkRunning, TypeOK
  <2> QED BY <1>3, <2>1, <2>2 DEF MarkRunning, TypeOK, TriesLeft
<1>4. CASE Announce(w)
  <2>1. worker' \in [Workers -> WorkerType]
      BY <1>4, <1>a, ToTypes DEF Announce
  <2>2. task' \in [Executions -> TaskStates]
      BY <1>4 DEF Announce, MoveTask, TypeOK, TaskStates
  <2>3. events' \subseteq EventTypes \X Executions
      BY <1>4, <1>a DEF Announce, Emit, TypeOK, EventTypes
  <2> QED BY <1>4, <2>1, <2>2, <2>3 DEF Announce, TypeOK, TriesLeft
<1>5. CASE Dispatch(w)
  <2>1. worker' \in [Workers -> WorkerType]
      BY <1>5, <1>a, ToTypes DEF Dispatch
  <2>2. [NoRun EXCEPT !.phase = "sent"] \in Runs
      BY ConstantTypes DEF Runs, Phases
  <2>3. run' \in [Dispatches -> Runs] /\ TriesLeft'
      BY <1>5, <1>a, <2>2 DEF Dispatch, TypeOK, TriesLeft, NoRun
  <2> QED BY <1>5, <2>1, <2>3 DEF Dispatch, TypeOK
<1>6. CASE PayloadInvalid(w)
    BY <1>6, <1>a, ToTypes DEF PayloadInvalid, TypeOK, TriesLeft
<1>7. CASE AckArrives(w)
    BY <1>7, <1>a, ReleaseTypes DEF AckArrives, TypeOK, TriesLeft
<1>8. CASE AckFails(w)
    BY <1>8, <1>a, ToTypes DEF AckFails, TypeOK, TriesLeft
<1>9. CASE FailRead(w)
  <2>1. [worker[w] EXCEPT !.pc = "failWrite", !.snap = dados[worker[w].cur[1]]] \in WorkerType
      BY <1>9, <1>a DEF FailRead, TypeOK, WorkerType
  <2>2. worker' \in [Workers -> WorkerType]
      BY <1>9, <2>1 DEF FailRead, TypeOK
  <2> QED BY <1>9, <2>2 DEF FailRead, TypeOK, TriesLeft
<1>10. CASE FailWrite(w)
  <2>1. [worker[w].snap EXCEPT !.status = "FAILED", !.finished = TRUE] \in Dados
    <3>1. worker[w].snap \in Dados /\ "FAILED" \in Statuses
        BY DEF TypeOK, WorkerType, Statuses
    <3> QED BY <3>1, RowFields
  <2>2. dados' \in [Executions -> Dados]
      BY <1>10, <2>1 DEF FailWrite, TypeOK
  <2>3. [worker[w] EXCEPT !.pc = "emitFailed", !.snap = NoRow] \in WorkerType
      BY <1>a, ConstantTypes DEF TypeOK, WorkerType
  <2>4. worker' \in [Workers -> WorkerType]
      BY <1>10, <2>3 DEF FailWrite, TypeOK
  <2> QED BY <1>10, <2>2, <2>4 DEF FailWrite, TypeOK, TriesLeft
<1>11. CASE EmitFailed(w)
  <2>1. worker' \in [Workers -> WorkerType] /\ job' \in [Executions -> Jobs]
      BY <1>11, <1>a, ReleaseTypes DEF EmitFailed
  <2>2. events' \subseteq EventTypes \X Executions
      BY <1>11, <1>a DEF EmitFailed, Emit, TypeOK, EventTypes
  <2> QED BY <1>11, <2>1, <2>2 DEF EmitFailed, TypeOK, TriesLeft
<1> QED BY <1>1, <1>2, <1>3, <1>4, <1>5, <1>6, <1>7, <1>8, <1>9, <1>10, <1>11 DEF WorkerStep

\* A record of run with another phase is still one of the runs.
LEMMA RunFields ==
    ASSUME NEW r \in Runs
    PROVE  /\ \A ph \in Phases : [r EXCEPT !.phase = ph] \in Runs
           /\ \A ph \in Phases, o \in Results :
                 /\ [r EXCEPT !.phase = ph, !.result = o] \in Runs
                 /\ [r EXCEPT !.phase = ph, !.result = o, !.holds = TRUE] \in Runs
           /\ \A ph \in Phases, t \in 0..MaxSends :
                 [r EXCEPT !.phase = ph, !.tries = t] \in Runs
BY DEF Runs

LEMMA LoseAllTypes ==
    ASSUME TypeOK, TriesLeft, LoseAll
    PROVE  run' \in [Dispatches -> Runs] /\ mutex' \subseteq Projects /\ TriesLeft'
<1>1. \A d \in Dispatches : [run[d] EXCEPT !.phase = "lost"] \in Runs
    BY RunFields DEF TypeOK, Phases
<1>2. run' \in [Dispatches -> Runs]
    BY <1>1 DEF LoseAll, TypeOK
<1>3. TriesLeft'
  <2> SUFFICES ASSUME NEW d \in Dispatches
               PROVE  /\ run'[d].phase \in {"none", "sent", "running"} => run'[d].tries = 0
                      /\ run'[d].phase = "reporting" => run'[d].tries < MaxSends
      BY DEF TriesLeft
  <2>1. CASE run[d].phase \in Busy
      BY <2>1 DEF LoseAll, TypeOK, Runs
  <2>2. CASE run[d].phase \notin Busy
      BY <2>2 DEF LoseAll, TriesLeft, Busy
  <2> QED BY <2>1, <2>2
<1> QED BY <1>2, <1>3 DEF LoseAll

LEMMA AgentTypes ==
    ASSUME IInv, NEW d \in Dispatches, AgentStep(d)
    PROVE  TypeOK' /\ TriesLeft'
<1> USE DEF IInv
<1>a. run[d] \in Runs /\ d[1] \in Executions /\ ProjectOf[d[1]] \in Projects
    BY ProjectAssumption DEF TypeOK, Dispatches
<1>1. CASE AgentAccepts(d)
  <2>1. run' \in [Dispatches -> Runs]
      BY <1>1, <1>a, RunFields DEF AgentAccepts, TypeOK, Phases
  <2>2. TriesLeft'
      BY <1>1 DEF AgentAccepts, TriesLeft, TypeOK, Runs
  <2> QED BY <1>1, <1>a, <2>1, <2>2 DEF AgentAccepts, TypeOK, backend
<1>2. CASE AgentRefuses(d)
  <2>1. run' \in [Dispatches -> Runs]
      BY <1>2, <1>a, RunFields DEF AgentRefuses, TypeOK, Phases
  <2>2. TriesLeft'
      BY <1>2 DEF AgentRefuses, TriesLeft, TypeOK, Runs
  <2> QED BY <1>2, <2>1, <2>2 DEF AgentRefuses, TypeOK, backend
<1>3. CASE RunEnds(d)
  <2>0. PICK r \in {"ok", "failed"} :
             run' = [run EXCEPT ![d].phase = "reporting", ![d].result = r]
      BY <1>3 DEF RunEnds
  <2>1. run' \in [Dispatches -> Runs]
      BY <2>0, <1>a, RunFields DEF TypeOK, Phases, Results
  <2>2. TriesLeft'
      BY <1>3, BoundAssumption DEF RunEnds, TriesLeft, TypeOK, Runs
  <2> QED BY <1>3, <2>1, <2>2 DEF RunEnds, TypeOK, backend
<1>4. CASE PullFails(d)
  <2>1. run' \in [Dispatches -> Runs]
      BY <1>4, <1>a, RunFields DEF PullFails, TypeOK, Phases, Results
  <2>2. TriesLeft'
      BY <1>4, BoundAssumption DEF PullFails, TriesLeft, TypeOK, Runs
  <2> QED BY <1>4, <2>1, <2>2 DEF PullFails, TypeOK, backend
<1>5. CASE Report(d)
  <2>1. run[d].tries + 1 \in 1..MaxSends /\ run[d].tries + 1 \in 0..MaxSends
      BY <1>5, <1>a, BoundAssumption DEF Report, TriesLeft, Runs
  <2>2. [run[d] EXCEPT !.phase = "waiting", !.tries = run[d].tries + 1] \in Runs
      BY <1>a, <2>1, RunFields DEF Phases
  <2>3. run' \in [Dispatches -> Runs]
      BY <1>5, <2>2 DEF Report, TypeOK
  <2>4. TriesLeft'
      BY <1>5 DEF Report, TriesLeft, TypeOK, Runs
  <2>5. [of |-> d, try |-> run[d].tries + 1, stage |-> "arrived", snap |-> NoRow] \in Handlers
      BY <2>1, ConstantTypes DEF Handlers
  <2>6. handlers' \subseteq Handlers
      BY <1>5, <2>5 DEF Report, TypeOK
  <2> QED BY <1>5, <2>3, <2>4, <2>6 DEF Report, TypeOK
<1>6. CASE ReportTimesOut(d)
  <2>1. run' \in [Dispatches -> Runs]
      BY <1>6, <1>a, RunFields DEF ReportTimesOut, TypeOK, Phases
  <2>2. TriesLeft'
      BY <1>6 DEF ReportTimesOut, AttemptsLeft, TriesLeft, TypeOK, Runs
  <2> QED BY <1>6, <2>1, <2>2 DEF ReportTimesOut, TypeOK, backend
<1>7. CASE ReportGivesUp(d)
  <2>1. CASE run[d].holds
    <3>1. LoseAll
        BY <1>7, <2>1 DEF ReportGivesUp
    <3> QED BY <1>7, <3>1, LoseAllTypes DEF ReportGivesUp, TypeOK, backend
  <2>2. CASE ~run[d].holds
    <3>1. run' = [run EXCEPT ![d].phase = "lost"] /\ mutex' = mutex
        BY <1>7, <2>2 DEF ReportGivesUp
    <3>2. run' \in [Dispatches -> Runs]
        BY <3>1, <1>a, RunFields DEF TypeOK, Phases
    <3>3. TriesLeft'
        BY <3>1 DEF TriesLeft, TypeOK, Runs
    <3> QED BY <1>7, <3>1, <3>2, <3>3 DEF ReportGivesUp, TypeOK, backend
  <2> QED BY <2>1, <2>2
<1> QED BY <1>1, <1>2, <1>3, <1>4, <1>5, <1>6, <1>7 DEF AgentStep

LEMMA AnswerTypes ==
    ASSUME TypeOK, TriesLeft, NEW h \in handlers, Answer(h)
    PROVE  run' \in [Dispatches -> Runs] /\ mutex' \subseteq Projects /\ TriesLeft'
<1>1. h.of \in Dispatches
    BY DEF TypeOK, Handlers
<1>2. [run[h.of] EXCEPT !.phase = "reported"] \in Runs
    BY <1>1, RunFields DEF TypeOK, Phases
<1>3. run' \in [Dispatches -> Runs]
    BY <1>2 DEF Answer, TypeOK
<1>4. TriesLeft'
    BY <1>1 DEF Answer, TriesLeft, TypeOK, Runs
<1>5. mutex' \subseteq Projects
    BY DEF Answer, TypeOK
<1> QED BY <1>3, <1>4, <1>5

LEMMA HandlerTypes ==
    ASSUME IInv, NEW h \in handlers, HandlerStep(h)
    PROVE  TypeOK' /\ TriesLeft'
<1> USE DEF IInv
<1>a. /\ h \in Handlers /\ h.of \in Dispatches /\ h.of[1] \in Executions /\ h.snap \in Dados
      /\ run[h.of].result \in Results /\ dados[h.of[1]] \in Dados
    BY DEF TypeOK, Handlers, Dispatches, Runs
<1>b. \A st \in {"read", "written"}, r \in Dados :
        [h EXCEPT !.stage = st, !.snap = r] \in Handlers
    BY <1>a DEF Handlers
<1>1. CASE ResultRead(h)
  <2>1. CASE dados[h.of[1]].outcome # "none"
      BY <1>1, <2>1, AnswerTypes DEF ResultRead, TypeOK
  <2>2. CASE dados[h.of[1]].outcome = "none"
    <3>1. handlers' \subseteq Handlers
        BY <1>1, <2>2, <1>a, <1>b DEF ResultRead, Advance, TypeOK
    <3> QED BY <1>1, <2>2, <3>1 DEF ResultRead, TypeOK, TriesLeft
  <2> QED BY <2>1, <2>2
<1>2. CASE ResultWrite(h)
  <2> DEFINE s == IF run[h.of].result = "ok" THEN "SUCCESS" ELSE "FAILED"
  <2>1. [h.snap EXCEPT !.status = s, !.finished = TRUE, !.outcome = run[h.of].result] \in Dados
    <3>1. s \in Statuses
        BY DEF Statuses
    <3> QED BY <1>a, <3>1, RowFields
  <2>2. dados' \in [Executions -> Dados]
      BY <1>2, <2>1 DEF ResultWrite, Reported, TypeOK
  <2>3. handlers' \subseteq Handlers
      BY <1>2, <1>a, <1>b, ConstantTypes DEF ResultWrite, Advance, TypeOK
  <2> QED BY <1>2, <2>2, <2>3 DEF ResultWrite, TypeOK, TriesLeft
<1>3. CASE ResultPublish(h)
  <2>1. events' \subseteq EventTypes \X Executions
      BY <1>3, <1>a DEF ResultPublish, Emit, TypeOK, EventTypes
  <2>2. task' \in [Executions -> TaskStates]
      BY <1>3 DEF ResultPublish, MoveTask, TypeOK, TaskStates
  <2> QED BY <1>3, <2>1, <2>2, AnswerTypes DEF ResultPublish, TypeOK
<1> QED BY <1>1, <1>2, <1>3 DEF HandlerStep

LEMMA CrashTypes ==
    ASSUME IInv, BackendCrashes \/ AgentCrashes
    PROVE  TypeOK' /\ TriesLeft'
<1> USE DEF IInv
<1>1. CASE BackendCrashes
    BY <1>1, ConstantTypes, BoundAssumption DEF BackendCrashes, TypeOK, TriesLeft
<1>2. CASE AgentCrashes
    BY <1>2, LoseAllTypes, BoundAssumption DEF AgentCrashes, TypeOK, backend
<1> QED BY <1>1, <1>2

LEMMA NextTypes == IInv /\ [Next]_vars => TypeOK' /\ TriesLeft'
<1> SUFFICES ASSUME IInv, [Next]_vars
             PROVE  TypeOK' /\ TriesLeft'
    OBVIOUS
<1>1. CASE UNCHANGED vars
    BY <1>1 DEF vars, backend, IInv, TypeOK, TriesLeft
<1>2. CASE Next
    BY <1>2, CreatorTypes, CallTypes, SweeperTypes, WorkerTypes, AgentTypes, HandlerTypes,
       CrashTypes DEF Next
<1> QED BY <1>1, <1>2

-----------------------------------------------------------------------------
(* The approval of an execution that was queued or decided.                *)

ApprovalKept ==
    \A e \in Executions :
        dados[e].approval \in Decided \cup {"queued"}
            => dados'[e].approval = dados[e].approval

\* Of the writes to dados, one creates the row, two ask for awaiting_approval, one
\* touches the status only, and two write back a copy whose approval is current.
LEMMA NextKeepsApproval ==
    ASSUME IInv, [Next]_vars
    PROVE  ApprovalKept
<1> USE DEF IInv, ApprovalKept, Decided
<1>1. ASSUME NEW e \in Executions, Create(e)
      PROVE  ApprovalKept
    BY <1>1 DEF Create, NoRow, TypeOK
<1>2. ASSUME NEW c \in Calls, DecisionUpdate(c)
      PROVE  ApprovalKept
  <2>1. call[c].exec \in Executions
      BY <1>2 DEF DecisionUpdate, CallsKnow
  <2> QED BY <1>2, <2>1 DEF DecisionUpdate, AwaitsDecision, TypeOK
<1>3. CASE SweepUpdate
    BY <1>3 DEF SweepUpdate, Stale, TypeOK
<1>4. ASSUME NEW w \in Workers, MarkRunning(w)
      PROVE  ApprovalKept
    BY <1>4 DEF MarkRunning, TypeOK, Dados
<1>5. ASSUME NEW w \in Workers, FailWrite(w)
      PROVE  ApprovalKept
  <2>1. worker[w].snap \in Dados /\ worker[w].snap.approval = dados[worker[w].cur[1]].approval
      BY <1>5 DEF FailWrite, CopiesAgree, TypeOK, WorkerType
  <2> QED BY <1>5, <2>1 DEF FailWrite, TypeOK, Dados
<1>6. ASSUME NEW h \in handlers, ResultWrite(h)
      PROVE  ApprovalKept
  <2>1. h.snap \in Dados /\ h.snap.approval = dados[h.of[1]].approval
      BY <1>6 DEF ResultWrite, CopiesAgree, TypeOK, Handlers
  <2> QED BY <1>6, <2>1 DEF ResultWrite, TypeOK, Dados
<1>7. CASE UNCHANGED dados
    BY <1>7
<1>8. CASE UNCHANGED vars
    BY <1>8 DEF vars
<1>9. CASE Next
  <2>1. ASSUME NEW e \in Executions, CreatorStep(e) \/ Stall(e)
        PROVE  ApprovalKept
      BY <2>1, <1>1, <1>7 DEF CreatorStep, EnqueueCreated, DeadlinePasses, Stall
  <2>2. ASSUME NEW c \in Calls, CallStep(c)
        PROVE  ApprovalKept
      BY <2>2, <1>2, <1>7 DEF CallStep, DecisionRead, DecisionEmit, DecisionEnqueue
  <2>3. CASE SweeperStep
      BY <2>3, <1>3, <1>7 DEF SweeperStep, SweepRead, SweepEmit
  <2>4. ASSUME NEW w \in Workers, WorkerStep(w)
        PROVE  ApprovalKept
      BY <2>4, <1>4, <1>5, <1>7
      DEF WorkerStep, TakeJob, PreflightFails, Announce, Dispatch, PayloadInvalid,
          AckArrives, AckFails, FailRead, EmitFailed
  <2>5. ASSUME NEW d \in Dispatches, AgentStep(d)
        PROVE  ApprovalKept
      BY <2>5, <1>7
      DEF AgentStep, AgentAccepts, AgentRefuses, RunEnds, PullFails, Report,
          ReportTimesOut, ReportGivesUp
  <2>6. ASSUME NEW h \in handlers, HandlerStep(h)
        PROVE  ApprovalKept
      BY <2>6, <1>6, <1>7 DEF HandlerStep, ResultRead, ResultPublish
  <2>7. CASE BackendCrashes \/ AgentCrashes
      BY <2>7, <1>7 DEF BackendCrashes, AgentCrashes
  <2> QED BY <1>9, <2>1, <2>2, <2>3, <2>4, <2>5, <2>6, <2>7 DEF Next
<1> QED BY <1>8, <1>9

LEMMA ClearedKept ==
    ASSUME IInv, [Next]_vars
    PROVE  \A e \in Executions : Cleared(e) => Cleared(e)'
BY NextKeepsApproval DEF ApprovalKept, Cleared, Clear, Decided

-----------------------------------------------------------------------------
(* The gate, one lemma per process.                                        *)

GateInv == CallsKnow /\ BeyondGate /\ CopiesAgree /\ AprovadoMatches

LEMMA CreatorGate ==
    ASSUME IInv, [Next]_vars, NEW e \in Executions, CreatorStep(e) \/ Stall(e)
    PROVE  GateInv'
<1> USE ClearedKept, NextKeepsApproval DEF IInv, GateInv
<1>1. CASE Create(e)
  <2>1. dados'[e].approval \in {"awaiting", "queued"} /\ dados[e].approval = "none"
        /\ dados'[e].status # "RUNNING" /\ (e \notin Gated => dados'[e].approval = "queued")
      BY <1>1 DEF Create, NoRow, TypeOK
  <2>2. \A x \in Executions : x # e => dados'[x] = dados[x]
      BY <1>1 DEF Create, TypeOK
  <2>3. CallsKnow'
    <3> SUFFICES ASSUME NEW c \in Calls
                 PROVE  /\ call[c].pc # "idle" => call[c].exec \in Executions
                        /\ call[c].pc \in {"emit", "enqueue"}
                              => dados'[call[c].exec].approval = call[c].verdict
                        /\ call[c].pc = "enqueue" => call[c].verdict = "approved"
        BY <1>1 DEF Create, CallsKnow
    <3> QED BY <2>1, <2>2 DEF CallsKnow, TypeOK, CallType
  <2>4. BeyondGate'
      BY <1>1, <2>1, <2>2 DEF Create, BeyondGate, Cleared, Clear, TypeOK, Dispatches, Handlers
  <2>5. CopiesAgree'
      BY <1>1, <2>1, <2>2 DEF Create, CopiesAgree, BeyondGate, Cleared, Clear, TypeOK, Handlers
  <2>6. AprovadoMatches'
      BY <1>1, <2>1, <2>2 DEF Create, AprovadoMatches
  <2> QED BY <2>3, <2>4, <2>5, <2>6
<1>2. CASE EnqueueCreated(e)
    BY <1>2 DEF EnqueueCreated, Enqueue, CallsKnow, BeyondGate, CopiesAgree, AprovadoMatches,
                Cleared, TypeOK, Jobs
<1>3. CASE DeadlinePasses(e)
    BY <1>3 DEF DeadlinePasses, backend, CallsKnow, BeyondGate, CopiesAgree, AprovadoMatches,
                Cleared
<1>4. CASE Stall(e)
    BY <1>4 DEF Stall, backend, CallsKnow, BeyondGate, CopiesAgree, AprovadoMatches, Cleared,
                TypeOK
<1> QED BY <1>1, <1>2, <1>3, <1>4 DEF CreatorStep

LEMMA CallGate ==
    ASSUME IInv, [Next]_vars, NEW c \in Calls, CallStep(c)
    PROVE  GateInv'
<1> USE ClearedKept, NextKeepsApproval DEF IInv, GateInv
<1>1. ASSUME NEW e \in Executions, NEW v \in {"approved", "rejected"}, DecisionRead(c, e, v)
      PROVE  GateInv'
    BY <1>1 DEF DecisionRead, CallsKnow, BeyondGate, CopiesAgree, AprovadoMatches, Cleared,
                TypeOK
<1>2. CASE DecisionUpdate(c)
  <2> DEFINE e == call[c].exec
             v == call[c].verdict
  <2>0. e \in Executions /\ v \in {"approved", "rejected"}
      BY <1>2 DEF DecisionUpdate, CallsKnow, TypeOK, CallType
  <2>1. CASE AwaitsDecision(e)
    <3>1. dados'[e].approval = v /\ dados[e].approval = "awaiting"
          /\ dados'[e].status # "RUNNING" /\ (aprovado'[e] <=> aprovado[e] \/ v = "approved")
      <4>1. dados'[e] = [dados[e] EXCEPT
                           !.approval = v,
                           !.status = IF v = "approved" THEN "APPROVED" ELSE "REJECTED"]
          BY <1>2, <2>0, <2>1 DEF DecisionUpdate, TypeOK
      <4>2. aprovado'[e] = IF v = "approved" THEN TRUE ELSE aprovado[e]
          BY <1>2, <2>0, <2>1 DEF DecisionUpdate, TypeOK
      <4>3. dados[e] \in Dados /\ dados[e].approval = "awaiting"
          BY <2>0, <2>1 DEF AwaitsDecision, TypeOK
      <4>4. dados'[e].approval = v /\ dados'[e].status # "RUNNING"
          BY <4>1, <4>3 DEF Dados
      <4> QED BY <4>2, <4>3, <4>4
    <3>2. \A x \in Executions : x # e => dados'[x] = dados[x] /\ aprovado'[x] = aprovado[x]
        BY <1>2, <2>0, <2>1 DEF DecisionUpdate, TypeOK
    <3>3. call' = [call EXCEPT ![c].pc = "emit"]
        BY <1>2, <2>1 DEF DecisionUpdate
    <3>4. CallsKnow'
        BY <2>0, <3>1, <3>2, <3>3 DEF CallsKnow, TypeOK, CallType
    <3>5. BeyondGate'
        BY <1>2, <3>1, <3>2
        DEF DecisionUpdate, BeyondGate, Cleared, Clear, TypeOK, Dispatches, Handlers
    <3>6. CopiesAgree'
        BY <1>2, <3>1, <3>2
        DEF DecisionUpdate, CopiesAgree, BeyondGate, Cleared, Clear, TypeOK, Handlers, Dispatches
    <3>7. AprovadoMatches'
        BY <2>0, <3>1, <3>2 DEF AprovadoMatches
    <3> QED BY <3>4, <3>5, <3>6, <3>7
  <2>2. CASE ~AwaitsDecision(e)
      BY <1>2, <2>2 DEF DecisionUpdate, IdleCall, CallsKnow, BeyondGate, CopiesAgree,
                        AprovadoMatches, Cleared, TypeOK
  <2> QED BY <2>1, <2>2
<1>3. CASE DecisionEmit(c)
    BY <1>3 DEF DecisionEmit, AfterEvent, IdleCall, CallsKnow, BeyondGate, CopiesAgree,
                AprovadoMatches, Cleared, TypeOK, CallType
<1>4. CASE DecisionEnqueue(c)
  <2>1. call[c].exec \in Executions /\ Cleared(call[c].exec)
      BY <1>4 DEF DecisionEnqueue, CallsKnow, Cleared, Clear
  <2>2. \A x \in Executions : job'[x].state # "absent" => x = call[c].exec \/ job[x].state # "absent"
      BY <1>4, <2>1 DEF DecisionEnqueue, Enqueue, TypeOK, Jobs
  <2>3. BeyondGate'
      BY <1>4, <2>1, <2>2 DEF DecisionEnqueue, BeyondGate, Cleared, TypeOK
  <2> QED BY <1>4, <2>3 DEF DecisionEnqueue, IdleCall, CallsKnow, CopiesAgree, AprovadoMatches,
                            Cleared, TypeOK
<1> QED BY <1>1, <1>2, <1>3, <1>4 DEF CallStep

LEMMA SweeperGate ==
    ASSUME IInv, [Next]_vars, SweeperStep
    PROVE  GateInv'
<1> USE ClearedKept, NextKeepsApproval DEF IInv, GateInv
<1>1. CASE SweepUpdate /\ sweeper.batch # {}
  <2>1. \A x \in Executions : dados'[x] # dados[x] =>
          /\ dados[x].approval = "awaiting"
          /\ dados'[x].approval = "expired"
          /\ dados'[x].status # "RUNNING"
    <3> SUFFICES ASSUME NEW x \in Executions, dados'[x] # dados[x]
                 PROVE  /\ dados[x].approval = "awaiting"
                        /\ dados'[x].approval = "expired"
                        /\ dados'[x].status # "RUNNING"
        OBVIOUS
    <3>1. Stale(x) /\ dados'[x] = [dados[x] EXCEPT !.approval = "expired", !.status = "EXPIRED"]
        BY <1>1 DEF SweepUpdate
    <3> QED BY <3>1 DEF Stale, TypeOK, Dados
  <2>2. CallsKnow'
      BY <1>1, <2>1 DEF SweepUpdate, CallsKnow, TypeOK, CallType
  <2>3. BeyondGate'
      BY <1>1, <2>1
      DEF SweepUpdate, BeyondGate, Cleared, Clear, TypeOK, Dispatches, Handlers
  <2>4. CopiesAgree'
    <3>1. \A x \in Executions : Cleared(x) => dados'[x] = dados[x]
        BY <2>1 DEF Cleared, Clear
    <3>2. \A h \in handlers : dados'[h.of[1]] = dados[h.of[1]]
        BY <3>1 DEF BeyondGate, TypeOK, Handlers, Dispatches
    <3>3. \A w \in Workers :
             worker[w].pc # "idle" => dados'[worker[w].cur[1]] = dados[worker[w].cur[1]]
        BY <3>1 DEF BeyondGate, Dispatches
    <3> QED BY <1>1, <3>2, <3>3 DEF SweepUpdate, CopiesAgree
  <2>5. AprovadoMatches'
      BY <1>1, <2>1 DEF SweepUpdate, AprovadoMatches
  <2> QED BY <2>2, <2>3, <2>4, <2>5
<1>2. CASE SweepRead \/ SweepEmit \/ (SweepUpdate /\ sweeper.batch = {})
    BY <1>2 DEF SweepRead, SweepEmit, SweepUpdate, CallsKnow, BeyondGate, CopiesAgree,
                AprovadoMatches, Cleared
<1> QED BY <1>1, <1>2 DEF SweeperStep

LEMMA WorkerGate ==
    ASSUME IInv, [Next]_vars, NEW w \in Workers, WorkerStep(w)
    PROVE  GateInv'
<1> USE ClearedKept, NextKeepsApproval DEF IInv, GateInv
<1>a. worker[w].pc # "idle" =>
        /\ worker[w].cur \in Dispatches /\ worker[w].cur[1] \in Executions
        /\ Cleared(worker[w].cur[1])
    BY DEF BeyondGate, Dispatches
<1>1. ASSUME NEW e \in Executions, TakeJob(w, e)
      PROVE  GateInv'
  <2>1. Cleared(e) /\ <<e, job[e].stalls>> \in Dispatches
      BY <1>1 DEF TakeJob, BeyondGate, TypeOK, Jobs, Dispatches
  <2> QED BY <1>1, <2>1 DEF TakeJob, CallsKnow, BeyondGate, CopiesAgree, AprovadoMatches,
                            Cleared, TypeOK
<1>2. CASE \/ PreflightFails(w) \/ PayloadInvalid(w) \/ AckFails(w) \/ Announce(w)
  <2>1. PICK pc \in {"failRead", "dispatching"} :
           /\ worker[w].pc # "idle"
           /\ worker' = [worker EXCEPT ![w].pc = pc]
           /\ UNCHANGED <<dados, aprovado, creating, call, job, run, handlers>>
      BY <1>2 DEF PreflightFails, PayloadInvalid, AckFails, Announce, To
  <2> QED BY <2>1, <1>a DEF CallsKnow, BeyondGate, CopiesAgree, AprovadoMatches, Cleared,
                            TypeOK
<1>3. ASSUME Release(w), worker[w].pc # "idle",
             UNCHANGED <<dados, aprovado, creating, call, run, handlers>>
      PROVE  GateInv'
  <2>1. worker' = [worker EXCEPT ![w] = IdleWorker] /\ IdleWorker.pc = "idle"
      BY <1>3 DEF Release, IdleWorker
  <2>2. \A x \in Executions : job'[x].state # "absent" => job[x].state # "absent"
      BY <1>3, <1>a DEF Release, TypeOK, Jobs
  <2> QED BY <1>3, <2>1, <2>2 DEF CallsKnow, BeyondGate, CopiesAgree, AprovadoMatches,
                                  Cleared, TypeOK
<1>4. CASE MarkRunning(w)
  <2> DEFINE e == worker[w].cur[1]
  <2>1. CASE Markable(e)
    <3>1. \A x \in Executions : dados'[x].approval = dados[x].approval
          /\ (dados'[x].status = dados[x].status \/ Cleared(x))
        BY <1>4, <2>1, <1>a DEF MarkRunning, TypeOK, Dados
    <3>2. worker[w].pc # "idle" /\ worker' = [worker EXCEPT ![w].pc = "announcing"]
        BY <1>4, <2>1 DEF MarkRunning, To
    <3>3. CallsKnow' /\ AprovadoMatches'
        BY <1>4, <3>1 DEF MarkRunning, CallsKnow, AprovadoMatches
    <3>4. BeyondGate'
        BY <1>4, <2>1, <1>a, <3>1, <3>2
        DEF MarkRunning, BeyondGate, Cleared, TypeOK, Dispatches, Handlers
    <3>5. CopiesAgree'
        BY <1>4, <1>a, <3>1, <3>2
        DEF MarkRunning, CopiesAgree, BeyondGate, TypeOK, Dispatches, Handlers
    <3> QED BY <3>3, <3>4, <3>5
  <2>2. CASE ~Markable(e)
      BY <1>4, <2>2, <1>3 DEF MarkRunning
  <2> QED BY <2>1, <2>2
<1>5. CASE Dispatch(w)
    BY <1>5, <1>a DEF Dispatch, To, CallsKnow, BeyondGate, CopiesAgree, AprovadoMatches,
                      Cleared, TypeOK, Dispatches
<1>6. CASE AckArrives(w) \/ EmitFailed(w)
    BY <1>6, <1>3 DEF AckArrives, EmitFailed
<1>7. CASE FailRead(w)
    BY <1>7, <1>a DEF FailRead, CallsKnow, BeyondGate, CopiesAgree, AprovadoMatches, Cleared,
                      TypeOK, WorkerType
<1>8. CASE FailWrite(w)
  <2>1. \A x \in Executions : /\ dados'[x].approval = dados[x].approval
                              /\ dados'[x].status \in {dados[x].status, "FAILED"}
    <3>1. worker[w].snap \in Dados
          /\ worker[w].snap.approval = dados[worker[w].cur[1]].approval
        BY <1>8 DEF FailWrite, CopiesAgree, TypeOK, WorkerType
    <3> QED BY <1>8, <1>a, <3>1 DEF FailWrite, TypeOK, Dados
  <2>2. CallsKnow' /\ AprovadoMatches'
      BY <1>8, <2>1 DEF FailWrite, CallsKnow, AprovadoMatches
  <2>3. BeyondGate'
      BY <1>8, <1>a, <2>1 DEF FailWrite, BeyondGate, Cleared, TypeOK, Dispatches, Handlers
  <2>4. CopiesAgree'
      BY <1>8, <1>a, <2>1 DEF FailWrite, CopiesAgree, BeyondGate, TypeOK, Dispatches, Handlers
  <2> QED BY <2>2, <2>3, <2>4
<1> QED BY <1>1, <1>2, <1>4, <1>5, <1>6, <1>7, <1>8 DEF WorkerStep

LEMMA AgentGate ==
    ASSUME IInv, [Next]_vars, NEW d \in Dispatches, AgentStep(d)
    PROVE  GateInv'
<1> USE ClearedKept DEF IInv, GateInv
<1>1. ASSUME \A x \in Dispatches : run'[x].phase # "none" => run[x].phase # "none",
             UNCHANGED <<dados, aprovado, creating, call, job, worker, handlers>>
      PROVE  GateInv'
    BY <1>1 DEF CallsKnow, BeyondGate, CopiesAgree, AprovadoMatches, Cleared
<1>2. CASE AgentAccepts(d)
    BY <1>2, <1>1 DEF AgentAccepts, backend, TypeOK, Runs
<1>3. CASE AgentRefuses(d)
    BY <1>3, <1>1 DEF AgentRefuses, backend, TypeOK, Runs
<1>4. CASE RunEnds(d)
  <2>1. PICK r \in {"ok", "failed"} :
           run' = [run EXCEPT ![d].phase = "reporting", ![d].result = r]
      BY <1>4 DEF RunEnds
  <2>2. \A x \in Dispatches : run'[x].phase # "none" => run[x].phase # "none"
      BY <1>4, <2>1 DEF RunEnds, TypeOK
  <2> QED BY <1>4, <2>2, <1>1 DEF RunEnds, backend
<1>5. CASE PullFails(d)
    BY <1>5, <1>1 DEF PullFails, backend, TypeOK, Runs
<1>6. CASE Report(d)
  <2>1. Cleared(d[1])
      BY <1>6 DEF Report, BeyondGate
  <2>2. \A h \in handlers' : h \in handlers \/ (h.of = d /\ h.stage = "arrived")
      BY <1>6 DEF Report
  <2>3. \A x \in Dispatches : run'[x].phase # "none" => run[x].phase # "none"
      BY <1>6 DEF Report, TypeOK
  <2> QED BY <1>6, <2>1, <2>2, <2>3
          DEF Report, CallsKnow, BeyondGate, CopiesAgree, AprovadoMatches, Cleared
<1>7. CASE ReportTimesOut(d)
    BY <1>7, <1>1 DEF ReportTimesOut, backend, TypeOK, Runs
<1>8. CASE ReportGivesUp(d)
  <2>1. \A x \in Dispatches : run'[x].phase # "none" => run[x].phase # "none"
      BY <1>8 DEF ReportGivesUp, LoseAll, TypeOK, Runs, Busy
  <2> QED BY <1>8, <2>1, <1>1 DEF ReportGivesUp, backend
<1> QED BY <1>2, <1>3, <1>4, <1>5, <1>6, <1>7, <1>8 DEF AgentStep

LEMMA HandlerGate ==
    ASSUME IInv, [Next]_vars, NEW h \in handlers, HandlerStep(h)
    PROVE  GateInv'
<1> USE ClearedKept DEF IInv, GateInv
<1>a. h \in Handlers /\ h.of \in Dispatches /\ h.of[1] \in Executions /\ Cleared(h.of[1])
    BY DEF TypeOK, Handlers, Dispatches, BeyondGate
<1>b. Answer(h) => \A x \in Dispatches : run'[x].phase # "none" => run[x].phase # "none"
    BY <1>a DEF Answer, TypeOK, Runs
<1>1. CASE ResultRead(h)
  <2>1. CASE dados[h.of[1]].outcome # "none"
      BY <1>1, <2>1, <1>b DEF ResultRead, CallsKnow, BeyondGate, CopiesAgree, AprovadoMatches,
                              Cleared
  <2>2. CASE dados[h.of[1]].outcome = "none"
    <3>1. \A g \in handlers' :
             g \in handlers \/ (g.of = h.of /\ g.snap = dados[h.of[1]])
        BY <1>1, <2>2, <1>a DEF ResultRead, Advance, Handlers
    <3> QED BY <1>1, <2>2, <1>a, <3>1
            DEF ResultRead, CallsKnow, BeyondGate, CopiesAgree, AprovadoMatches, Cleared
  <2> QED BY <2>1, <2>2
<1>2. CASE ResultWrite(h)
  <2>1. \A x \in Executions : /\ dados'[x].approval = dados[x].approval
                              /\ dados'[x].status \in {dados[x].status, "SUCCESS", "FAILED"}
    <3>1. h.snap \in Dados /\ h.snap.approval = dados[h.of[1]].approval
        BY <1>2, <1>a DEF ResultWrite, CopiesAgree, Handlers
    <3> QED BY <1>2, <1>a, <3>1 DEF ResultWrite, TypeOK, Dados
  <2>2. \A g \in handlers' : g \in handlers \/ (g.of = h.of /\ g.stage = "written")
      BY <1>2, <1>a DEF ResultWrite, Advance, Handlers
  <2>3. CallsKnow' /\ AprovadoMatches'
      BY <1>2, <2>1 DEF ResultWrite, CallsKnow, AprovadoMatches
  <2>4. BeyondGate'
      BY <1>2, <1>a, <2>1, <2>2 DEF ResultWrite, BeyondGate, Cleared
  <2>5. CopiesAgree'
      BY <1>2, <2>1, <2>2
      DEF ResultWrite, CopiesAgree, BeyondGate, TypeOK, Handlers, Dispatches
  <2> QED BY <2>3, <2>4, <2>5
<1>3. CASE ResultPublish(h)
    BY <1>3, <1>b DEF ResultPublish, CallsKnow, BeyondGate, CopiesAgree, AprovadoMatches,
                      Cleared
<1> QED BY <1>1, <1>2, <1>3 DEF HandlerStep

LEMMA CrashGate ==
    ASSUME IInv, [Next]_vars, BackendCrashes \/ AgentCrashes
    PROVE  GateInv'
<1> USE DEF IInv, GateInv
<1>1. CASE BackendCrashes
    BY <1>1 DEF BackendCrashes, IdleCall, IdleWorker, CallsKnow, BeyondGate, CopiesAgree,
                AprovadoMatches, Cleared
<1>2. CASE AgentCrashes
  <2>1. \A x \in Dispatches : run'[x].phase # "none" => run[x].phase # "none"
      BY <1>2 DEF AgentCrashes, LoseAll, Busy
  <2> QED BY <1>2, <2>1 DEF AgentCrashes, backend, CallsKnow, BeyondGate, CopiesAgree,
                            AprovadoMatches, Cleared
<1> QED BY <1>1, <1>2

-----------------------------------------------------------------------------
(* The theorems.                                                           *)

LEMMA InitIInv == Init => IInv
<1> SUFFICES ASSUME Init PROVE IInv
    OBVIOUS
<1>1. CallsKnow /\ BeyondGate /\ CopiesAgree /\ AprovadoMatches
    BY DEF Init, NoRow, IdleCall, IdleWorker, NoRun, CallsKnow, BeyondGate, CopiesAgree,
           AprovadoMatches, Cleared, Clear
<1> QED BY <1>1, InitTypes DEF IInv

LEMMA NextIInv == IInv /\ [Next]_vars => IInv'
<1> SUFFICES ASSUME IInv, [Next]_vars PROVE IInv'
    OBVIOUS
<1>1. GateInv'
  <2>1. CASE UNCHANGED vars
      BY <2>1 DEF vars, backend, IInv, GateInv, CallsKnow, BeyondGate, CopiesAgree,
                  AprovadoMatches, Cleared
  <2>2. CASE Next
      BY <2>2, CreatorGate, CallGate, SweeperGate, WorkerGate, AgentGate, HandlerGate,
         CrashGate DEF Next
  <2> QED BY <2>1, <2>2
<1> QED BY <1>1, NextTypes DEF IInv, GateInv

\* Every reachable state satisfies the inductive invariant.
THEOREM Invariance == Spec => []IInv
BY InitIInv, NextIInv, PTL DEF Spec

\* Every variable keeps its type: in particular the agent never makes more than
\* MaxSends attempts, and a job is never handed out more than MaxStalls + 1 times.
THEOREM TypesOK == Spec => []TypeOK
<1>1. IInv => TypeOK
    BY DEF IInv
<1> QED BY <1>1, Invariance, PTL

\* For any number of executions, workers, managers, stalls and crashes, an
\* execution runs only if it was queued as LOW or approved, and stays so.
THEOREM GateHolds == Spec => []DispatchGate
<1>1. IInv => DispatchGate
  <2> SUFFICES ASSUME IInv, NEW e \in Executions,
                      \/ dados[e].status = "RUNNING"
                      \/ \E n \in 0..MaxStalls : AgentStarted(<<e, n>>)
               PROVE  Cleared(e)
      BY DEF DispatchGate
  <2>1. CASE dados[e].status = "RUNNING"
      BY <2>1 DEF IInv, BeyondGate
  <2>2. ASSUME NEW n \in 0..MaxStalls, AgentStarted(<<e, n>>)
        PROVE  Cleared(e)
    <3>1. <<e, n>> \in Dispatches /\ <<e, n>>[1] = e
        BY DEF Dispatches
    <3>2. run[<<e, n>>].phase # "none"
        BY <2>2 DEF AgentStarted, Started, Busy
    <3> QED BY <3>1, <3>2 DEF IInv, BeyondGate
  <2> QED BY <2>1, <2>2
<1> QED BY <1>1, Invariance, PTL

\* The column and the JSON never disagree about an approval.
THEOREM AprovadoAgrees == Spec => []AprovadoMatches
<1>1. IInv => AprovadoMatches
    BY DEF IInv
<1> QED BY <1>1, Invariance, PTL

\* A decision is final, whoever writes dados back from an older copy.
THEOREM DecisionsAreFinal == Spec => DecisionFinal
<1>1. IInv /\ [Next]_vars =>
         [\A e \in Executions :
             dados[e].approval \in Decided \cup {"queued"}
                => dados'[e].approval = dados[e].approval]_vars
    BY NextKeepsApproval DEF ApprovalKept
<1> QED BY <1>1, Invariance, PTL DEF Spec, DecisionFinal

-----------------------------------------------------------------------------
(* Every time BullMQ hands a job out, that is one dispatch of its own.     *)

\* The dispatches of e that nobody has taken yet.
Untaken(e, n) ==
    \/ job[e].state = "absent"
    \/ job[e].state = "waiting" /\ n >= job[e].stalls
    \/ job[e].state = "active" /\ n > job[e].stalls

\* A dispatch not taken was not sent, one taken is sent once, by one worker.
Fresh ==
    /\ \A e \in Executions, n \in 0..MaxStalls :
          Untaken(e, n) => /\ run[<<e, n>>].phase = "none"
                           /\ \A w \in Workers : worker[w].pc # "idle" => worker[w].cur # <<e, n>>
    /\ \A w \in Workers :
          worker[w].pc \in {"checking", "announcing", "dispatching"}
              => run[worker[w].cur].phase = "none"
    /\ \A w1, w2 \in Workers :
          worker[w1].pc # "idle" /\ worker[w2].pc # "idle" /\ worker[w1].cur = worker[w2].cur
              => w1 = w2

LEMMA InitFresh == Init => Fresh
BY DEF Init, Fresh, NoRun, IdleWorker, Dispatches

\* What most steps do to the dispatches: they take none and send none.
Quiet ==
    /\ \A d \in Dispatches : run[d].phase = "none" => run'[d].phase = "none"
    /\ \A w \in Workers : worker'[w].pc # "idle" =>
          /\ worker'[w].cur = worker[w].cur
          /\ worker[w].pc # "idle"
          /\ worker'[w].pc \in {"checking", "announcing", "dispatching"}
                => worker[w].pc \in {"checking", "announcing", "dispatching"}
    /\ \A e \in Executions, n \in 0..MaxStalls : Untaken(e, n)' => Untaken(e, n)

LEMMA QuietFresh ==
    ASSUME IInv, Fresh, Quiet
    PROVE  Fresh'
<1>1. \A e \in Executions, n \in 0..MaxStalls : <<e, n>> \in Dispatches
    BY DEF Dispatches
<1>2. \A w \in Workers : worker[w].pc # "idle" => worker[w].cur \in Dispatches
    BY DEF IInv, BeyondGate
<1>3. ASSUME NEW e \in Executions, NEW n \in 0..MaxStalls, Untaken(e, n)'
      PROVE  /\ run'[<<e, n>>].phase = "none"
             /\ \A w \in Workers : worker'[w].pc # "idle" => worker'[w].cur # <<e, n>>
    BY <1>1, <1>3 DEF Fresh, Quiet
<1>4. ASSUME NEW w \in Workers, worker'[w].pc \in {"checking", "announcing", "dispatching"}
      PROVE  run'[worker'[w].cur].phase = "none"
    BY <1>2, <1>4 DEF Fresh, Quiet
<1>5. ASSUME NEW w1 \in Workers, NEW w2 \in Workers,
             worker'[w1].pc # "idle", worker'[w2].pc # "idle", worker'[w1].cur = worker'[w2].cur
      PROVE  w1 = w2
    BY <1>5 DEF Fresh, Quiet
<1> QED BY <1>3, <1>4, <1>5 DEF Fresh

LEMMA QueueFresh ==
    ASSUME IInv, Fresh, NEW e \in Executions, CreatorStep(e) \/ Stall(e)
    PROVE  Fresh'
<1> USE DEF IInv
<1>1. CASE Create(e) \/ DeadlinePasses(e)
    BY <1>1, QuietFresh DEF Create, DeadlinePasses, backend, Quiet, Untaken
<1>2. CASE EnqueueCreated(e)
    BY <1>2, QuietFresh DEF EnqueueCreated, Enqueue, Quiet, Untaken, TypeOK, Jobs
<1>3. CASE Stall(e)
  <2>1. \A x \in Executions, n \in 0..MaxStalls : Untaken(x, n)' => Untaken(x, n)
    <3> SUFFICES ASSUME NEW x \in Executions, NEW n \in 0..MaxStalls, Untaken(x, n)'
                 PROVE  Untaken(x, n)
        OBVIOUS
    <3>1. CASE x # e
        BY <1>3, <3>1 DEF Stall, Untaken, TypeOK
    <3>2. CASE x = e
      <4>1. job[e].stalls \in 0..MaxStalls /\ MaxStalls \in Nat
          BY BoundAssumption DEF TypeOK, Jobs
      <4>2. job'[e].state = "waiting" => job'[e].stalls = job[e].stalls + 1
          BY <1>3 DEF Stall, TypeOK, Jobs
      <4>3. job[e].state = "active" /\ job'[e].state \in {"waiting", "done"}
          BY <1>3 DEF Stall, TypeOK, Jobs
      <4> QED BY <3>2, <4>1, <4>2, <4>3 DEF Untaken
    <3> QED BY <3>1, <3>2
  <2> QED BY <1>3, <2>1, QuietFresh DEF Stall, backend, Quiet
<1> QED BY <1>1, <1>2, <1>3 DEF CreatorStep

LEMMA WorkerFresh ==
    ASSUME IInv, Fresh, NEW w \in Workers, WorkerStep(w)
    PROVE  Fresh'
<1> USE DEF IInv
<1>a. worker[w].pc # "idle" =>
        worker[w].cur \in Dispatches /\ worker[w].cur[1] \in Executions
    BY DEF BeyondGate, Dispatches
<1>1. ASSUME NEW e \in Executions, TakeJob(w, e)
      PROVE  Fresh'
  <2> DEFINE n == job[e].stalls
  <2>1. n \in 0..MaxStalls /\ MaxStalls \in Nat /\ Untaken(e, n)
      BY <1>1, BoundAssumption DEF TakeJob, TypeOK, Jobs, Untaken
  <2>2. /\ run[<<e, n>>].phase = "none"
        /\ \A x \in Workers : worker[x].pc # "idle" => worker[x].cur # <<e, n>>
      BY <2>1 DEF Fresh
  <2>3. /\ worker'[w].cur = <<e, n>> /\ worker[w].pc = "idle"
        /\ \A x \in Workers : x # w => worker'[x] = worker[x]
        /\ run' = run
      BY <1>1 DEF TakeJob, TypeOK
  <2>4. \A x \in Executions, m \in 0..MaxStalls :
           Untaken(x, m)' => Untaken(x, m) /\ <<x, m>> # <<e, n>>
    <3> SUFFICES ASSUME NEW x \in Executions, NEW m \in 0..MaxStalls, Untaken(x, m)'
                 PROVE  Untaken(x, m) /\ <<x, m>> # <<e, n>>
        OBVIOUS
    <3>1. CASE x # e
        BY <1>1, <3>1 DEF TakeJob, Untaken, TypeOK
    <3>2. CASE x = e
      <4>1. /\ job[e].state = "waiting"
            /\ job'[e].state = "active" /\ job'[e].stalls = job[e].stalls
          BY <1>1 DEF TakeJob, TypeOK, Jobs
      <4> QED BY <2>1, <3>2, <4>1 DEF Untaken
    <3> QED BY <3>1, <3>2
  <2> QED BY <2>2, <2>3, <2>4 DEF Fresh
<1>2. ASSUME Release(w), worker[w].pc # "idle", UNCHANGED run
      PROVE  Fresh'
  <2>1. \A x \in Executions, m \in 0..MaxStalls : Untaken(x, m)' => Untaken(x, m)
      BY <1>2, <1>a DEF Release, Untaken, TypeOK, Jobs
  <2>2. worker' = [worker EXCEPT ![w] = IdleWorker] /\ IdleWorker.pc = "idle"
      BY <1>2 DEF Release, IdleWorker
  <2> QED BY <1>2, <2>1, <2>2, QuietFresh DEF Quiet, TypeOK
<1>3. CASE \/ PreflightFails(w) \/ PayloadInvalid(w) \/ AckFails(w) \/ Announce(w)
           \/ FailRead(w) \/ FailWrite(w) \/ (MarkRunning(w) /\ Markable(worker[w].cur[1]))
  <2>1. /\ worker[w].pc # "idle" /\ worker'[w].cur = worker[w].cur
        /\ worker'[w].pc \in {"checking", "announcing", "dispatching"}
              => worker[w].pc \in {"checking", "announcing", "dispatching"}
        /\ \A x \in Workers : x # w => worker'[x] = worker[x]
        /\ UNCHANGED <<run, job>>
      BY <1>3 DEF PreflightFails, PayloadInvalid, AckFails, Announce, FailRead, FailWrite,
                  MarkRunning, To, TypeOK, WorkerType
  <2> QED BY <2>1, QuietFresh DEF Quiet, Untaken
<1>4. CASE MarkRunning(w) /\ ~Markable(worker[w].cur[1])
    BY <1>4, <1>2 DEF MarkRunning
<1>5. CASE AckArrives(w) \/ EmitFailed(w)
    BY <1>5, <1>2 DEF AckArrives, EmitFailed
<1>6. CASE Dispatch(w)
  <2>1. /\ worker[w].pc = "dispatching" /\ worker'[w].pc = "awaitingAck"
        /\ worker'[w].cur = worker[w].cur
        /\ \A x \in Workers : x # w => worker'[x] = worker[x]
        /\ \A d \in Dispatches : d # worker[w].cur => run'[d] = run[d]
        /\ job' = job
      BY <1>6 DEF Dispatch, To, TypeOK, WorkerType
  <2>2. \A x \in Workers : x # w /\ worker[x].pc # "idle" =>
           worker[x].cur \in Dispatches /\ worker[x].cur # worker[w].cur
      BY <2>1 DEF Fresh, BeyondGate
  <2>3. \A e \in Executions, m \in 0..MaxStalls :
           Untaken(e, m)' => Untaken(e, m) /\ <<e, m>> # worker[w].cur /\ <<e, m>> \in Dispatches
      BY <2>1 DEF Fresh, Untaken, Dispatches
  <2> QED BY <2>1, <2>2, <2>3 DEF Fresh
<1> QED BY <1>1, <1>3, <1>4, <1>5, <1>6 DEF WorkerStep

LEMMA NextFresh == IInv /\ Fresh /\ [Next]_vars => Fresh'
<1> SUFFICES ASSUME IInv, Fresh, [Next]_vars
             PROVE  Fresh'
    OBVIOUS
<1> USE DEF IInv
<1>1. CASE UNCHANGED vars
    BY <1>1, QuietFresh DEF vars, backend, Quiet, Untaken
<1>2. ASSUME NEW c \in Calls, CallStep(c)
      PROVE  Fresh'
  <2>1. CASE DecisionEnqueue(c)
    <3>1. call[c].exec \in Executions
        BY <2>1 DEF DecisionEnqueue, CallsKnow
    <3> QED BY <2>1, <3>1, QuietFresh DEF DecisionEnqueue, Enqueue, Quiet, Untaken, TypeOK, Jobs
  <2>2. CASE ~DecisionEnqueue(c)
      BY <1>2, <2>2, QuietFresh
      DEF CallStep, DecisionRead, DecisionUpdate, DecisionEmit, Quiet, Untaken
  <2> QED BY <2>1, <2>2
<1>3. CASE SweeperStep
    BY <1>3, QuietFresh DEF SweeperStep, SweepRead, SweepUpdate, SweepEmit, Quiet, Untaken
<1>4. ASSUME UNCHANGED <<job, worker>>,
             \A d \in Dispatches : run[d].phase = "none" => run'[d].phase = "none"
      PROVE  Fresh'
    BY <1>4, QuietFresh DEF Quiet, Untaken
<1>5. ASSUME NEW d \in Dispatches, AgentStep(d)
      PROVE  Fresh'
  <2>1. run[d].phase # "none" /\ UNCHANGED <<job, worker>>
      BY <1>5 DEF AgentStep, AgentAccepts, AgentRefuses, RunEnds, PullFails, Report,
                  ReportTimesOut, ReportGivesUp, backend
  <2>2. \A x \in Dispatches : x # d /\ run[x].phase = "none" => run'[x].phase = "none"
      BY <1>5 DEF AgentStep, AgentAccepts, AgentRefuses, RunEnds, PullFails, Report,
                  ReportTimesOut, ReportGivesUp, LoseAll, Busy, TypeOK
  <2> QED BY <2>1, <2>2, <1>4
<1>6. ASSUME NEW h \in handlers, HandlerStep(h)
      PROVE  Fresh'
  <2>1. \A x \in Dispatches : run[x].phase = "none" => run'[x].phase = "none"
      BY <1>6 DEF HandlerStep, ResultRead, ResultWrite, ResultPublish, Answer, TypeOK
  <2> QED BY <1>6, <2>1, <1>4 DEF HandlerStep, ResultRead, ResultWrite, ResultPublish
<1>7. CASE BackendCrashes
    BY <1>7, QuietFresh DEF BackendCrashes, IdleWorker, Quiet, Untaken
<1>8. CASE AgentCrashes
    BY <1>8, <1>4 DEF AgentCrashes, LoseAll, Busy, backend
<1> QED BY <1>1, <1>2, <1>3, <1>5, <1>6, <1>7, <1>8, QueueFresh, WorkerFresh DEF Next

-----------------------------------------------------------------------------
(* The refinement of ApprovalGate.                                         *)

LEMMA InitGate == Init => Gate!Init
<1> SUFFICES ASSUME Init
             PROVE  Gate!Init
    OBVIOUS
<1>1. gateOf = [e \in Executions |-> "none"]
    BY DEF Init, gateOf, NoRow
<1>2. startedOf = {}
  <2>1. ASSUME NEW e \in Executions, NEW n \in 0..MaxStalls
        PROVE  ~AgentStarted(<<e, n>>)
    <3>1. <<e, n>> \in Dispatches
        BY DEF Dispatches
    <3>2. run[<<e, n>>].phase = "none"
        BY <3>1 DEF Init, NoRun
    <3> QED BY <3>2 DEF AgentStarted, Started, Busy
  <2> QED BY <2>1 DEF startedOf
<1>3. late = {}
    BY DEF Init
<1> QED BY <1>1, <1>2, <1>3 DEF Gate!Init

\* What a step has to leave alone so that the abstract gate sees nothing.
Unseen ==
    /\ \A e \in Executions : dados'[e].approval = dados[e].approval
    /\ \A d \in Dispatches : AgentStarted(d)' <=> AgentStarted(d)

LEMMA StartedSame ==
    ASSUME \A d \in Dispatches : AgentStarted(d)' <=> AgentStarted(d)
    PROVE  startedOf' = startedOf
BY DEF startedOf, Dispatches

LEMMA Stutters ==
    ASSUME Unseen, UNCHANGED late
    PROVE  UNCHANGED Gate!vars
<1>1. gateOf' = gateOf
    BY DEF gateOf, Unseen
<1>2. startedOf' = startedOf
    BY StartedSame DEF Unseen
<1> QED BY <1>1, <1>2 DEF Gate!vars

LEMMA CreatorRefines ==
    ASSUME IInv, NEW e \in Executions, CreatorStep(e)
    PROVE  [Gate!Next]_(Gate!vars)
<1> USE DEF IInv
<1>1. CASE Create(e)
  <2>1. startedOf' = startedOf
      BY <1>1, StartedSame DEF Create, AgentStarted
  <2>2. gateOf[e] = "none"
      BY <1>1 DEF Create, gateOf, NoRow
  <2>3. gateOf' = [gateOf EXCEPT ![e] = IF e \in Gated THEN "awaiting" ELSE "queued"]
      BY <1>1 DEF Create, gateOf, NoRow, TypeOK, Dados
  <2>4. Gate!Submit(e)
      BY <1>1, <2>1, <2>2, <2>3 DEF Create, Gate!Submit
  <2> QED BY <2>4 DEF Gate!Next
<1>2. CASE EnqueueCreated(e)
    BY <1>2, Stutters DEF EnqueueCreated, Unseen, AgentStarted
<1>3. CASE DeadlinePasses(e)
  <2>1. startedOf' = startedOf
      BY <1>3, StartedSame DEF DeadlinePasses, AgentStarted
  <2>2. gateOf' = gateOf /\ gateOf[e] = "awaiting"
      BY <1>3 DEF DeadlinePasses, gateOf
  <2>3. Gate!DeadlinePasses(e)
      BY <1>3, <2>1, <2>2 DEF DeadlinePasses, Gate!DeadlinePasses
  <2> QED BY <2>3 DEF Gate!Next
<1> QED BY <1>1, <1>2, <1>3 DEF CreatorStep

LEMMA CallRefines ==
    ASSUME IInv, NEW c \in Calls, CallStep(c)
    PROVE  [Gate!Next]_(Gate!vars)
<1> USE DEF IInv
<1>1. CASE DecisionUpdate(c) /\ AwaitsDecision(call[c].exec)
  <2> DEFINE e == call[c].exec
             v == call[c].verdict
  <2>1. e \in Executions /\ v \in {"approved", "rejected"} /\ call[c].pc = "read"
      BY <1>1 DEF DecisionUpdate, CallsKnow, TypeOK, CallType
  <2>2. startedOf' = startedOf
      BY <1>1, StartedSame DEF DecisionUpdate, AgentStarted
  <2>3. gateOf[e] = "awaiting"
      BY <1>1, <2>1 DEF AwaitsDecision, gateOf
  <2>4. gateOf' = [gateOf EXCEPT ![e] = v]
    <3> DEFINE s == IF v = "approved" THEN "APPROVED" ELSE "REJECTED"
    <3>1. dados' = [dados EXCEPT ![e] = [dados[e] EXCEPT !.approval = v, !.status = s]]
        BY <1>1 DEF DecisionUpdate
    <3>2. dados[e] \in Dados /\ dados \in [Executions -> Dados]
        BY <2>1 DEF TypeOK
    <3>3. [dados[e] EXCEPT !.approval = v, !.status = s].approval = v
        BY <3>2 DEF Dados
    <3> HIDE DEF s, v, e
    <3>4. dados'[e].approval = v /\ \A x \in Executions : x # e => dados'[x] = dados[x]
        BY <2>1, <3>1, <3>2, <3>3
    <3> QED BY <2>1, <3>4 DEF gateOf
  <2>5. Gate!Decide(e)
      BY <1>1, <2>1, <2>2, <2>3, <2>4 DEF DecisionUpdate, Gate!Decide
  <2> QED BY <2>1, <2>5 DEF Gate!Next
<1>2. CASE DecisionUpdate(c) /\ ~AwaitsDecision(call[c].exec)
    BY <1>2, Stutters DEF DecisionUpdate, Unseen, AgentStarted
<1>3. CASE ~DecisionUpdate(c)
    BY <1>3, Stutters
    DEF CallStep, DecisionRead, DecisionEmit, DecisionEnqueue, Unseen, AgentStarted
<1> QED BY <1>1, <1>2, <1>3

LEMMA SweeperRefines ==
    ASSUME IInv, SweeperStep
    PROVE  [Gate!Next]_(Gate!vars)
<1> USE DEF IInv
<1>1. CASE SweepUpdate /\ sweeper.batch # {}
  <2> DEFINE S == {e \in sweeper.batch : Stale(e)}
  <2>1. S \in SUBSET {e \in late : gateOf[e] = "awaiting"}
    <3>1. ASSUME NEW e \in S
          PROVE  e \in late /\ gateOf[e] = "awaiting"
        BY DEF Stale, gateOf, TypeOK
    <3> QED BY <3>1
  <2>2. gateOf' = [e \in Executions |-> IF e \in S THEN "expired" ELSE gateOf[e]]
    <3>1. ASSUME NEW e \in Executions
          PROVE  dados'[e].approval = IF e \in S THEN "expired" ELSE dados[e].approval
        BY <1>1 DEF SweepUpdate, TypeOK, Dados
    <3> QED BY <3>1 DEF gateOf
  <2>3. startedOf' = startedOf
      BY <1>1, StartedSame DEF SweepUpdate, AgentStarted
  <2>4. Gate!Expire
      BY <1>1, <2>1, <2>2, <2>3 DEF SweepUpdate, Gate!Expire
  <2> QED BY <2>4 DEF Gate!Next
<1>2. CASE SweepUpdate /\ sweeper.batch = {}
    BY <1>2, Stutters DEF SweepUpdate, Unseen, AgentStarted
<1>3. CASE SweepRead \/ SweepEmit
    BY <1>3, Stutters DEF SweepRead, SweepEmit, Unseen, AgentStarted
<1> QED BY <1>1, <1>2, <1>3 DEF SweeperStep

\* A worker changes no approval, and what it sends nobody has started yet.
LEMMA WorkerRefines ==
    ASSUME IInv, Fresh, NEW w \in Workers, WorkerStep(w), ApprovalKept
    PROVE  UNCHANGED Gate!vars
<1> USE DEF IInv
<1>1. worker[w].pc # "idle" => worker[w].cur \in Dispatches /\ Cleared(worker[w].cur[1])
    BY DEF BeyondGate
<1>2. UNCHANGED late
    BY DEF WorkerStep, TakeJob, PreflightFails, MarkRunning, Announce, Dispatch,
           PayloadInvalid, AckArrives, AckFails, FailRead, FailWrite, EmitFailed
<1>3. \A d \in Dispatches : AgentStarted(d)' <=> AgentStarted(d)
  <2>1. CASE Dispatch(w)
    <3>1. run[worker[w].cur].phase = "none" /\ worker[w].cur \in Dispatches
        BY <1>1, <2>1 DEF Dispatch, Fresh
    <3>2. /\ run'[worker[w].cur].phase = "sent"
          /\ \A d \in Dispatches : d # worker[w].cur => run'[d] = run[d]
        BY <2>1, <3>1 DEF Dispatch, NoRun, TypeOK
    <3> QED BY <3>1, <3>2 DEF AgentStarted, Started, Busy
  <2>2. CASE ~Dispatch(w)
      BY <2>2 DEF WorkerStep, TakeJob, PreflightFails, MarkRunning, Announce,
                  PayloadInvalid, AckArrives, AckFails, FailRead, FailWrite, EmitFailed,
                  AgentStarted
  <2> QED BY <2>1, <2>2
<1>4. \A e \in Executions : dados'[e].approval = dados[e].approval
  <2>1. CASE MarkRunning(w) \/ FailWrite(w)
    <3>1. worker[w].cur[1] \in Executions /\ dados[worker[w].cur[1]].approval \in Clear
        BY <1>1, <2>1 DEF MarkRunning, FailWrite, Dispatches, Cleared
    <3>2. \A e \in Executions : e # worker[w].cur[1] => dados'[e] = dados[e]
        BY <2>1 DEF MarkRunning, FailWrite, TypeOK
    <3> QED BY <3>1, <3>2 DEF ApprovalKept, Clear, Decided
  <2>2. CASE ~(MarkRunning(w) \/ FailWrite(w))
      BY <2>2 DEF WorkerStep, TakeJob, PreflightFails, Announce, Dispatch,
                  PayloadInvalid, AckArrives, AckFails, FailRead, EmitFailed
  <2> QED BY <2>1, <2>2
<1> QED BY <1>2, <1>3, <1>4, Stutters DEF Unseen

\* The agent starts a dispatch that was sent, hence one that was cleared.
LEMMA AgentRefines ==
    ASSUME IInv, NEW d \in Dispatches, AgentStep(d)
    PROVE  [Gate!Next]_(Gate!vars)
<1> USE DEF IInv
<1>1. UNCHANGED <<dados, late>>
    BY DEF AgentStep, AgentAccepts, AgentRefuses, RunEnds, PullFails, Report,
           ReportTimesOut, ReportGivesUp, backend
<1>2. gateOf' = gateOf
    BY <1>1 DEF gateOf
<1>3. CASE AgentAccepts(d)
  <2>1. /\ d[1] \in Executions /\ d[2] \in 0..MaxStalls /\ d = <<d[1], d[2]>>
        /\ Cleared(d[1])
      BY <1>3 DEF AgentAccepts, BeyondGate, Dispatches
  <2>2. /\ AgentStarted(d)'
        /\ \A x \in Dispatches : x # d => (AgentStarted(x)' <=> AgentStarted(x))
      BY <1>3 DEF AgentAccepts, AgentStarted, Started, Busy, TypeOK, Runs
  <2>3. ASSUME NEW e \in Executions
        PROVE  e \in startedOf' <=> e \in startedOf \cup {d[1]}
    <3>1. \A n \in 0..MaxStalls : <<e, n>> \in Dispatches
        BY DEF Dispatches
    <3>2. CASE e = d[1]
        BY <2>1, <2>2, <3>2 DEF startedOf
    <3>3. CASE e # d[1]
      <4>1. \A n \in 0..MaxStalls : <<e, n>> # d
          BY <2>1, <3>3
      <4> QED BY <2>2, <3>1, <3>3, <4>1 DEF startedOf
    <3> QED BY <3>2, <3>3
  <2>4. startedOf' = startedOf \cup {d[1]}
      BY <2>1, <2>3 DEF startedOf
  <2>5. gateOf[d[1]] \in Gate!Clear
      BY <2>1 DEF Cleared, Clear, Gate!Clear, gateOf
  <2>6. Gate!Start(d[1])
      BY <1>1, <1>2, <2>4, <2>5 DEF Gate!Start
  <2> QED BY <2>1, <2>6 DEF Gate!Next
<1>4. CASE ~AgentAccepts(d)
  <2>1. \A x \in Dispatches : AgentStarted(x)' <=> AgentStarted(x)
      BY <1>4 DEF AgentStep, AgentRefuses, RunEnds, PullFails, Report, ReportTimesOut,
                  ReportGivesUp, LoseAll, AgentStarted, Started, Busy, TypeOK, Runs
  <2> QED BY <1>1, <2>1, Stutters DEF Unseen
<1> QED BY <1>3, <1>4

LEMMA HandlerRefines ==
    ASSUME IInv, NEW h \in handlers, HandlerStep(h), ApprovalKept
    PROVE  UNCHANGED Gate!vars
<1> USE DEF IInv
<1>1. UNCHANGED late
    BY DEF HandlerStep, ResultRead, ResultWrite, ResultPublish
<1>2. \A d \in Dispatches : AgentStarted(d)' <=> AgentStarted(d)
    BY DEF HandlerStep, ResultRead, ResultWrite, ResultPublish, Answer, AgentStarted,
           Started, Busy, TypeOK, Runs
<1>3. h.of[1] \in Executions /\ dados[h.of[1]].approval \in Clear
    BY DEF TypeOK, Handlers, Dispatches, BeyondGate, Cleared
<1>4. \A e \in Executions : e # h.of[1] => dados'[e] = dados[e]
    BY <1>3 DEF HandlerStep, ResultRead, ResultWrite, ResultPublish, TypeOK
<1>5. \A e \in Executions : dados'[e].approval = dados[e].approval
    BY <1>3, <1>4 DEF ApprovalKept, Clear, Decided
<1> QED BY <1>1, <1>2, <1>5, Stutters DEF Unseen

LEMMA CrashRefines ==
    ASSUME IInv, BackendCrashes \/ AgentCrashes \/ UNCHANGED vars
                    \/ \E e \in Executions : Stall(e)
    PROVE  UNCHANGED Gate!vars
<1> USE DEF IInv
<1>1. UNCHANGED <<dados, late>>
    BY DEF BackendCrashes, AgentCrashes, Stall, backend, vars
<1>2. \A d \in Dispatches : AgentStarted(d)' <=> AgentStarted(d)
    BY DEF BackendCrashes, AgentCrashes, Stall, backend, vars, LoseAll, AgentStarted,
           Started, Busy, TypeOK, Runs
<1> QED BY <1>1, <1>2, Stutters DEF Unseen

LEMMA NextRefines == IInv /\ Fresh /\ [Next]_vars => [Gate!Next]_(Gate!vars)
<1> SUFFICES ASSUME IInv, Fresh, [Next]_vars
             PROVE  [Gate!Next]_(Gate!vars)
    OBVIOUS
<1>1. ApprovalKept
    BY NextKeepsApproval
<1> QED BY <1>1, CreatorRefines, CallRefines, SweeperRefines, WorkerRefines, AgentRefines,
           HandlerRefines, CrashRefines DEF Next

\* Nothing is dispatched twice under one number, and workers do not share a job run.
THEOREM FreshHolds == Spec => []Fresh
<1> QED BY Invariance, InitFresh, NextFresh, PTL DEF Spec

\* The whole pipeline, with its queue, retries and crashes, is an approval gate:
\* whatever it does, an execution starts only after it was queued or approved.
THEOREM Implements == Spec => ImplementsGate
<1> QED BY Invariance, FreshHolds, InitGate, NextRefines, PTL DEF Spec, ImplementsGate, Gate!Spec
=============================================================================
