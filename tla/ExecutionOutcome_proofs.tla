----------------------- MODULE ExecutionOutcome_proofs -----------------------
(***************************************************************************)
(* What becomes of an execution beyond the gate, for every value of the    *)
(* constants: it is handed to the queue, its events and its result tell    *)
(* the truth, and the agent runs one Claude per project.  Each of the four *)
(* is an invariant relative to IInv, the invariant of the gate.            *)
(***************************************************************************)
EXTENDS ExecutionLifecycle_proofs

-----------------------------------------------------------------------------
(* An execution that may run is handed over.                               *)

\* The one of three places in which an execution that may run can be.
Handed(e) ==
    \/ job[e].state # "absent"
    \/ e \in creating
    \/ \E c \in Calls : call[c].pc \in {"emit", "enqueue"} /\ call[c].exec = e

\* queue.add leaves every job there is, and makes one for its execution.
LEMMA EnqueueMakesJob ==
    ASSUME TypeOK, NEW e \in Executions, Enqueue(e)
    PROVE  /\ job'[e].state # "absent"
           /\ \A x \in Executions : job[x].state # "absent" => job'[x].state # "absent"
BY DEF Enqueue, TypeOK, Jobs

\* No step removes a job.
LEMMA JobsStay ==
    ASSUME IInv, [Next]_vars, NEW e \in Executions, job[e].state # "absent"
    PROVE  job'[e].state # "absent"
<1> USE DEF IInv
<1>1. CASE UNCHANGED job
    BY <1>1
<1>2. ASSUME NEW x \in Executions, Enqueue(x)
      PROVE  job'[e].state # "absent"
    BY <1>2, EnqueueMakesJob
<1>3. ASSUME NEW w \in Workers, Release(w), worker[w].pc # "idle"
      PROVE  job'[e].state # "absent"
    BY <1>3 DEF Release, TypeOK, Jobs, BeyondGate, Dispatches
<1>4. ASSUME NEW x \in Executions, CreatorStep(x) \/ Stall(x)
      PROVE  job'[e].state # "absent"
  <2>1. CASE Stall(x)
    <3>1. job'[x].state \in {"waiting", "done"} /\ \A y \in Executions : y # x => job'[y] = job[y]
        BY <2>1 DEF Stall, TypeOK, Jobs
    <3> QED BY <3>1
  <2> QED BY <1>4, <2>1, <1>1, <1>2 DEF CreatorStep, Create, EnqueueCreated, DeadlinePasses
<1>5. ASSUME NEW c \in Calls, CallStep(c)
      PROVE  job'[e].state # "absent"
  <2>1. DecisionEnqueue(c) => call[c].exec \in Executions
      BY DEF DecisionEnqueue, CallsKnow
  <2> QED BY <1>5, <2>1, <1>1, <1>2
          DEF CallStep, DecisionRead, DecisionUpdate, DecisionEmit, DecisionEnqueue
<1>6. CASE SweeperStep
    BY <1>6, <1>1 DEF SweeperStep, SweepRead, SweepUpdate, SweepEmit
<1>7. ASSUME NEW w \in Workers, WorkerStep(w)
      PROVE  job'[e].state # "absent"
  <2>1. ASSUME NEW x \in Executions, TakeJob(w, x)
        PROVE  job'[e].state # "absent"
      BY <2>1 DEF TakeJob, TypeOK, Jobs
  <2> QED BY <1>7, <2>1, <1>1, <1>3
          DEF WorkerStep, PreflightFails, MarkRunning, Announce, Dispatch, PayloadInvalid,
              AckArrives, AckFails, FailRead, FailWrite, EmitFailed
<1>8. ASSUME NEW d \in Dispatches, AgentStep(d)
      PROVE  job'[e].state # "absent"
    BY <1>8, <1>1
    DEF AgentStep, AgentAccepts, AgentRefuses, RunEnds, PullFails, Report, ReportTimesOut,
        ReportGivesUp
<1>9. ASSUME NEW h \in handlers, HandlerStep(h)
      PROVE  job'[e].state # "absent"
    BY <1>9, <1>1 DEF HandlerStep, ResultRead, ResultWrite, ResultPublish
<1>10. CASE BackendCrashes \/ AgentCrashes \/ UNCHANGED vars
    BY <1>10, <1>1 DEF BackendCrashes, AgentCrashes, vars
<1> QED BY <1>4, <1>5, <1>6, <1>7, <1>8, <1>9, <1>10 DEF Next

\* An execution comes to be cleared in two ways only: it is created with a low
\* risk, or a call approves it.
LEMMA WhoClears ==
    ASSUME IInv, [Next]_vars, NEW e \in Executions, Cleared(e)', ~Cleared(e)
    PROVE  \/ Create(e) /\ e \notin Gated
           \/ \E c \in Calls : /\ DecisionUpdate(c) /\ AwaitsDecision(call[c].exec)
                               /\ call[c].exec = e
<1> DEFINE Goal == \/ Create(e) /\ e \notin Gated
                   \/ \E c \in Calls : /\ DecisionUpdate(c) /\ AwaitsDecision(call[c].exec)
                                       /\ call[c].exec = e
<1> SUFFICES Goal
    OBVIOUS
<1> HIDE DEF Goal
<1> USE DEF IInv
<1>1. CASE dados'[e].approval = dados[e].approval
    BY <1>1 DEF Cleared
<1>2. ASSUME NEW x \in Executions, CreatorStep(x) \/ Stall(x)
      PROVE  Goal
  <2>1. CASE Create(x)
    <3>1. x = e
      <4>1. x # e => dados'[e] = dados[e]
          BY <2>1 DEF Create, TypeOK
      <4> QED BY <4>1 DEF Cleared
    <3>2. e \in Gated => dados'[e].approval = "awaiting"
        BY <2>1, <3>1 DEF Create, NoRow, TypeOK
    <3>3. e \notin Gated
        BY <3>2 DEF Cleared, Clear
    <3> QED BY <2>1, <3>1, <3>3 DEF Goal
  <2> QED BY <1>2, <2>1, <1>1 DEF CreatorStep, EnqueueCreated, DeadlinePasses, Stall
<1>3. ASSUME NEW c \in Calls, CallStep(c)
      PROVE  Goal
  <2>1. CASE DecisionUpdate(c)
    <3>1. CASE AwaitsDecision(call[c].exec) /\ call[c].exec = e
        BY <2>1, <3>1 DEF Goal
    <3>2. CASE ~(AwaitsDecision(call[c].exec) /\ call[c].exec = e)
        BY <2>1, <3>2, <1>1 DEF DecisionUpdate, TypeOK
    <3> QED BY <3>1, <3>2
  <2> QED BY <1>3, <2>1, <1>1 DEF CallStep, DecisionRead, DecisionEmit, DecisionEnqueue
<1>4. CASE SweeperStep
  <2>1. CASE SweepUpdate
    <3>1. dados'[e] \in {dados[e], [dados[e] EXCEPT !.approval = "expired", !.status = "EXPIRED"]}
        BY <2>1 DEF SweepUpdate
    <3>2. [dados[e] EXCEPT !.approval = "expired", !.status = "EXPIRED"].approval = "expired"
        BY DEF TypeOK, Dados
    <3> QED BY <3>1, <3>2, <1>1 DEF Cleared, Clear
  <2> QED BY <1>4, <2>1, <1>1 DEF SweeperStep, SweepRead, SweepEmit
<1>5. ASSUME NEW w \in Workers, WorkerStep(w)
      PROVE  Goal
  <2>1. CASE MarkRunning(w)
      BY <2>1, <1>1 DEF MarkRunning, TypeOK, Dados
  <2>2. CASE FailWrite(w)
    <3>1. worker[w].snap \in Dados /\ worker[w].snap.approval = dados[worker[w].cur[1]].approval
        BY <2>2 DEF FailWrite, CopiesAgree, TypeOK, WorkerType
    <3> QED BY <2>2, <3>1, <1>1 DEF FailWrite, TypeOK, Dados
  <2> QED BY <1>5, <2>1, <2>2, <1>1
          DEF WorkerStep, TakeJob, PreflightFails, Announce, Dispatch, PayloadInvalid,
              AckArrives, AckFails, FailRead, EmitFailed
<1>6. ASSUME NEW d \in Dispatches, AgentStep(d)
      PROVE  Goal
    BY <1>6, <1>1
    DEF AgentStep, AgentAccepts, AgentRefuses, RunEnds, PullFails, Report, ReportTimesOut,
        ReportGivesUp
<1>7. ASSUME NEW h \in handlers, HandlerStep(h)
      PROVE  Goal
  <2>1. CASE ResultWrite(h)
    <3>1. h.snap \in Dados /\ h.snap.approval = dados[h.of[1]].approval
        BY <2>1 DEF ResultWrite, CopiesAgree, TypeOK, Handlers
    <3> QED BY <2>1, <3>1, <1>1 DEF ResultWrite, TypeOK, Dados
  <2> QED BY <1>7, <2>1, <1>1 DEF HandlerStep, ResultRead, ResultPublish
<1>8. CASE BackendCrashes \/ AgentCrashes \/ UNCHANGED vars
    BY <1>8, <1>1 DEF BackendCrashes, AgentCrashes, vars
<1> QED BY <1>2, <1>3, <1>4, <1>5, <1>6, <1>7, <1>8 DEF Next

LEMMA HandedKept ==
    ASSUME IInv, [Next]_vars, NEW e \in Executions, Handed(e), Cleared(e), crashes' = 0
    PROVE  Handed(e)'
<1> USE DEF IInv
<1>1. CASE job[e].state # "absent"
    BY <1>1, JobsStay DEF Handed
<1>2. CASE job'[e].state # "absent"
    BY <1>2 DEF Handed
<1>3. CASE UNCHANGED <<creating, call>>
    BY <1>1, <1>3, JobsStay DEF Handed
<1>4. ASSUME NEW x \in Executions, CreatorStep(x) \/ Stall(x)
      PROVE  Handed(e)'
  <2>1. CASE EnqueueCreated(x)
    <3>1. CASE x = e
        BY <2>1, <3>1, <1>2, EnqueueMakesJob DEF EnqueueCreated
    <3>2. CASE x # e
        BY <2>1, <3>2, <1>1 DEF EnqueueCreated, Handed
    <3> QED BY <3>1, <3>2
  <2>2. CASE Create(x)
      BY <2>2 DEF Create, Handed
  <2> QED BY <1>4, <2>1, <2>2, <1>3 DEF CreatorStep, DeadlinePasses, Stall, backend
<1>5. ASSUME NEW c \in Calls, CallStep(c)
      PROVE  Handed(e)'
  <2>0. CASE \E b \in Calls \ {c} : call[b].pc \in {"emit", "enqueue"} /\ call[b].exec = e
    <3>1. \A b \in Calls \ {c} : call'[b] = call[b]
        BY <1>5 DEF CallStep, DecisionRead, DecisionUpdate, DecisionEmit, DecisionEnqueue, TypeOK
    <3> QED BY <2>0, <3>1 DEF Handed
  <2>1. CASE call[c].pc \notin {"emit", "enqueue"} \/ call[c].exec # e
    <3>1. creating' = creating
        BY <1>5 DEF CallStep, DecisionRead, DecisionUpdate, DecisionEmit, DecisionEnqueue
    <3> QED BY <2>0, <2>1, <3>1, <1>1 DEF Handed
  <2>2. CASE DecisionEmit(c) /\ call[c].exec = e
    <3>1. call[c].verdict = "approved"
        BY <2>2 DEF DecisionEmit, CallsKnow, Cleared, Clear, TypeOK, CallType
    <3>2. call' = [call EXCEPT ![c] = [call[c] EXCEPT !.pc = "enqueue"]]
        BY <2>2, <3>1 DEF DecisionEmit, AfterEvent
    <3>3. call'[c].pc = "enqueue" /\ call'[c].exec = e
        BY <2>2, <3>2 DEF TypeOK, CallType
    <3> QED BY <3>3 DEF Handed
  <2>3. CASE DecisionEnqueue(c) /\ call[c].exec = e
      BY <2>3, <1>2, EnqueueMakesJob DEF DecisionEnqueue
  <2>4. CASE DecisionRead(c, e, "approved") \/ DecisionUpdate(c)
      BY <2>4, <2>1 DEF DecisionRead, DecisionUpdate
  <2> QED BY <1>5, <2>1, <2>2, <2>3, <2>4 DEF CallStep, DecisionRead
<1>6. CASE SweeperStep
    BY <1>6, <1>3 DEF SweeperStep, SweepRead, SweepUpdate, SweepEmit
<1>7. ASSUME NEW w \in Workers, WorkerStep(w)
      PROVE  Handed(e)'
    BY <1>7, <1>3
    DEF WorkerStep, TakeJob, PreflightFails, MarkRunning, Announce, Dispatch, PayloadInvalid,
        AckArrives, AckFails, FailRead, FailWrite, EmitFailed
<1>8. ASSUME NEW d \in Dispatches, AgentStep(d)
      PROVE  Handed(e)'
    BY <1>8, <1>3
    DEF AgentStep, AgentAccepts, AgentRefuses, RunEnds, PullFails, Report, ReportTimesOut,
        ReportGivesUp, backend
<1>9. ASSUME NEW h \in handlers, HandlerStep(h)
      PROVE  Handed(e)'
    BY <1>9, <1>3 DEF HandlerStep, ResultRead, ResultWrite, ResultPublish
<1>10. CASE AgentCrashes \/ UNCHANGED vars
    BY <1>10, <1>3 DEF AgentCrashes, vars, backend
<1>11. ~BackendCrashes
    BY DEF BackendCrashes, TypeOK
<1> QED BY <1>4, <1>5, <1>6, <1>7, <1>8, <1>9, <1>10, <1>11 DEF Next

LEMMA NextHandedOver ==
    ASSUME IInv, HandedOver, [Next]_vars
    PROVE  HandedOver'
<1> SUFFICES ASSUME NEW e \in Executions, Cleared(e)', crashes' = 0
             PROVE  Handed(e)'
    BY DEF HandedOver, Handed
<1>1. crashes = 0
  <2>1. crashes' = crashes \/ crashes' = crashes + 1
      BY DEF Next, vars, backend, CreatorStep, Create, EnqueueCreated, DeadlinePasses, Stall,
             CallStep, DecisionRead, DecisionUpdate, DecisionEmit, DecisionEnqueue,
             SweeperStep, SweepRead, SweepUpdate, SweepEmit, WorkerStep, TakeJob,
             PreflightFails, MarkRunning, Announce, Dispatch, PayloadInvalid, AckArrives,
             AckFails, FailRead, FailWrite, EmitFailed, AgentStep, AgentAccepts,
             AgentRefuses, RunEnds, PullFails, Report, ReportTimesOut, ReportGivesUp,
             HandlerStep, ResultRead, ResultWrite, ResultPublish, BackendCrashes,
             AgentCrashes
  <2> QED BY <2>1 DEF IInv, TypeOK
<1>2. CASE Cleared(e)
  <2>1. Handed(e)
      BY <1>1, <1>2 DEF HandedOver, Handed
  <2> QED BY <1>2, <2>1, HandedKept
<1>3. CASE ~Cleared(e)
  <2>1. CASE Create(e) /\ e \notin Gated
      BY <2>1 DEF Create, Handed
  <2>2. ASSUME NEW c \in Calls, DecisionUpdate(c), AwaitsDecision(call[c].exec),
               call[c].exec = e
        PROVE  Handed(e)'
    <3>1. call' = [call EXCEPT ![c].pc = "emit"]
        BY <2>2 DEF DecisionUpdate
    <3>2. call'[c].pc = "emit" /\ call'[c].exec = e
        BY <2>2, <3>1 DEF IInv, TypeOK, CallType
    <3> QED BY <3>2 DEF Handed
  <2> QED BY <1>3, <2>1, <2>2, WhoClears
<1> QED BY <1>2, <1>3

\* While no process crashes, every execution that may run has a job or is about
\* to get one from the request that created or approved it.
THEOREM ExecutionsHandedOver == Spec => []HandedOver
<1>1. Init => HandedOver
    BY DEF Init, HandedOver, Cleared, Clear, NoRow
<1> QED BY <1>1, Invariance, NextHandedOver, PTL DEF Spec

-----------------------------------------------------------------------------
(* The events tell the truth.                                              *)

\* A worker about to emit execution.failed has written that the execution ended.
FailedIsFinished ==
    \A w \in Workers : worker[w].pc = "emitFailed" => dados[worker[w].cur[1]].finished

\* finishedAt is never taken back: the two writes of whole rows set it, the others
\* leave it alone, and the INSERT comes before all of them.
LEMMA FinishedKept ==
    ASSUME IInv, [Next]_vars, NEW e \in Executions, dados[e].finished
    PROVE  dados'[e].finished
<1> USE DEF IInv
<1>1. CASE UNCHANGED dados
    BY <1>1
<1>2. ASSUME NEW x \in Executions, CreatorStep(x) \/ Stall(x)
      PROVE  dados'[e].finished
  <2>1. CASE Create(x)
    <3>1. x # e
        BY <2>1 DEF Create, NoRow
    <3> QED BY <2>1, <3>1 DEF Create, TypeOK
  <2> QED BY <1>2, <2>1, <1>1 DEF CreatorStep, EnqueueCreated, DeadlinePasses, Stall
<1>3. ASSUME NEW c \in Calls, CallStep(c)
      PROVE  dados'[e].finished
  <2>1. CASE DecisionUpdate(c)
    <3> DEFINE s == IF call[c].verdict = "approved" THEN "APPROVED" ELSE "REJECTED"
    <3>1. CASE AwaitsDecision(call[c].exec) /\ call[c].exec = e
      <4>1. dados'[e] = [dados[e] EXCEPT !.approval = call[c].verdict, !.status = s]
          BY <2>1, <3>1 DEF DecisionUpdate, TypeOK
      <4>2. [dados[e] EXCEPT !.approval = call[c].verdict, !.status = s].finished
               = dados[e].finished
          BY DEF TypeOK, Dados
      <4> QED BY <4>1, <4>2
    <3>2. CASE ~(AwaitsDecision(call[c].exec) /\ call[c].exec = e)
        BY <2>1, <3>2, <1>1 DEF DecisionUpdate, TypeOK
    <3> QED BY <3>1, <3>2
  <2> QED BY <1>3, <2>1, <1>1 DEF CallStep, DecisionRead, DecisionEmit, DecisionEnqueue
<1>4. CASE SweeperStep
  <2>1. CASE SweepUpdate
    <3>1. dados'[e] \in {dados[e], [dados[e] EXCEPT !.approval = "expired", !.status = "EXPIRED"]}
        BY <2>1 DEF SweepUpdate
    <3> QED BY <3>1 DEF TypeOK, Dados
  <2> QED BY <1>4, <2>1, <1>1 DEF SweeperStep, SweepRead, SweepEmit
<1>5. ASSUME NEW w \in Workers, WorkerStep(w)
      PROVE  dados'[e].finished
  <2>1. CASE MarkRunning(w)
      BY <2>1, <1>1 DEF MarkRunning, TypeOK, Dados
  <2>2. CASE FailWrite(w)
    <3>1. worker[w].snap \in Dados
        BY <2>2 DEF TypeOK, WorkerType
    <3> QED BY <2>2, <3>1 DEF FailWrite, TypeOK, Dados
  <2> QED BY <1>5, <2>1, <2>2, <1>1
          DEF WorkerStep, TakeJob, PreflightFails, Announce, Dispatch, PayloadInvalid,
              AckArrives, AckFails, FailRead, EmitFailed
<1>6. ASSUME NEW d \in Dispatches, AgentStep(d)
      PROVE  dados'[e].finished
    BY <1>6, <1>1
    DEF AgentStep, AgentAccepts, AgentRefuses, RunEnds, PullFails, Report, ReportTimesOut,
        ReportGivesUp
<1>7. ASSUME NEW h \in handlers, HandlerStep(h)
      PROVE  dados'[e].finished
  <2>1. CASE ResultWrite(h)
    <3>1. h.snap \in Dados
        BY DEF TypeOK, Handlers
    <3> QED BY <2>1, <3>1 DEF ResultWrite, TypeOK, Dados
  <2> QED BY <1>7, <2>1, <1>1 DEF HandlerStep, ResultRead, ResultPublish
<1>8. CASE BackendCrashes \/ AgentCrashes \/ UNCHANGED vars
    BY <1>8, <1>1 DEF BackendCrashes, AgentCrashes, vars
<1> QED BY <1>2, <1>3, <1>4, <1>5, <1>6, <1>7, <1>8 DEF Next

\* A worker comes to emitFailed by its own write only.
LEMMA NextFailedIsFinished ==
    ASSUME IInv, FailedIsFinished, [Next]_vars
    PROVE  FailedIsFinished'
<1> SUFFICES ASSUME NEW w \in Workers, worker'[w].pc = "emitFailed"
             PROVE  dados'[worker'[w].cur[1]].finished
    BY DEF FailedIsFinished
<1> USE DEF IInv
<1>1. CASE worker'[w] = worker[w]
  <2>1. worker[w].cur[1] \in Executions
      BY <1>1 DEF BeyondGate, Dispatches
  <2> QED BY <1>1, <2>1, FinishedKept DEF FailedIsFinished
<1>2. CASE WorkerStep(w)
  <2>1. CASE FailWrite(w)
    <3>1. worker[w].cur[1] \in Executions /\ worker[w].snap \in Dados
        BY <2>1 DEF FailWrite, BeyondGate, Dispatches, TypeOK, WorkerType
    <3>2. worker'[w].cur = worker[w].cur
        BY <2>1 DEF FailWrite, TypeOK, WorkerType
    <3> QED BY <2>1, <3>1, <3>2 DEF FailWrite, TypeOK, Dados
  <2>2. CASE ~FailWrite(w)
    <3>1. \A pc \in WorkerPcs : To(w, pc) => worker'[w].pc = pc
        BY DEF To, TypeOK, WorkerType
    <3>2. Release(w) => worker'[w].pc = "idle"
        BY DEF Release, IdleWorker, TypeOK
    <3>3. ASSUME NEW x \in Executions, TakeJob(w, x)
          PROVE  worker'[w].pc = "checking"
        BY <3>3 DEF TakeJob, TypeOK
    <3>4. FailRead(w) => worker'[w].pc = "failWrite"
        BY DEF FailRead, TypeOK, WorkerType
    <3>5. worker'[w].pc # "emitFailed"
        BY <1>2, <2>2, <3>1, <3>2, <3>3, <3>4
        DEF WorkerStep, PreflightFails, MarkRunning, Announce, Dispatch, PayloadInvalid,
            AckArrives, AckFails, EmitFailed, WorkerPcs
    <3> QED BY <3>5
  <2> QED BY <2>1, <2>2
<1>3. ASSUME NEW v \in Workers, v # w, WorkerStep(v)
      PROVE  worker'[w] = worker[w]
    BY <1>3
    DEF WorkerStep, TakeJob, PreflightFails, MarkRunning, Announce, Dispatch, Release,
        PayloadInvalid, AckArrives, AckFails, FailRead, FailWrite, EmitFailed, To, TypeOK
<1>4. ~BackendCrashes
    BY DEF BackendCrashes, IdleWorker
<1>5. CASE ~\E v \in Workers : WorkerStep(v)
    BY <1>5, <1>4, <1>1
    DEF Next, vars, backend, CreatorStep, Create, EnqueueCreated, DeadlinePasses, Stall,
        CallStep, DecisionRead, DecisionUpdate, DecisionEmit, DecisionEnqueue, SweeperStep,
        SweepRead, SweepUpdate, SweepEmit, AgentStep, AgentAccepts, AgentRefuses, RunEnds,
        PullFails, Report, ReportTimesOut, ReportGivesUp, HandlerStep, ResultRead,
        ResultWrite, ResultPublish, AgentCrashes
<1> QED BY <1>1, <1>2, <1>3, <1>5

\* What the new events of a step are about.
LEMMA NewEvents ==
    ASSUME IInv, FailedIsFinished, [Next]_vars, NEW e \in Executions, NEW t \in EventTypes,
           <<t, e>> \in events', <<t, e>> \notin events
    PROVE  /\ t \in {"approved", "rejected"} => dados[e].approval = t
           /\ t = "started" => Cleared(e)
           /\ t = "failed" => dados[e].finished
<1> DEFINE Goal == /\ t \in {"approved", "rejected"} => dados[e].approval = t
                   /\ t = "started" => Cleared(e)
                   /\ t = "failed" => dados[e].finished
<1> SUFFICES Goal
    OBVIOUS
<1> HIDE DEF Goal
<1> USE DEF IInv
<1>1. events' # events
    OBVIOUS
<1>2. ASSUME NEW c \in Calls, CallStep(c)
      PROVE  Goal
  <2>1. DecisionEmit(c)
      BY <1>1, <1>2 DEF CallStep, DecisionRead, DecisionUpdate, DecisionEnqueue
  <2>2. t = call[c].verdict /\ e = call[c].exec
      BY <2>1 DEF DecisionEmit, Emit
  <2>3. dados[e].approval = t /\ t \in {"approved", "rejected"}
      BY <2>1, <2>2 DEF DecisionEmit, CallsKnow, TypeOK, CallType
  <2> QED BY <2>3 DEF Goal
<1>3. CASE SweeperStep
  <2>1. SweepEmit
      BY <1>1, <1>3 DEF SweeperStep, SweepRead, SweepUpdate
  <2>2. <<t, e>> \in {"expired"} \X sweeper.batch
      BY <2>1 DEF SweepEmit
  <2> QED BY <2>2 DEF Goal
<1>4. ASSUME NEW w \in Workers, WorkerStep(w)
      PROVE  Goal
  <2>1. CASE Announce(w)
    <3>1. t = "started" /\ e = worker[w].cur[1]
        BY <2>1 DEF Announce, Emit
    <3>2. Cleared(e)
        BY <2>1, <3>1 DEF Announce, BeyondGate
    <3> QED BY <3>1, <3>2 DEF Goal
  <2>2. CASE EmitFailed(w)
    <3>1. t = "failed" /\ e = worker[w].cur[1]
        BY <2>2 DEF EmitFailed, Emit
    <3>2. dados[e].finished
        BY <2>2, <3>1 DEF EmitFailed, FailedIsFinished
    <3> QED BY <3>1, <3>2 DEF Goal
  <2> QED BY <1>1, <1>4, <2>1, <2>2
          DEF WorkerStep, TakeJob, PreflightFails, MarkRunning, Dispatch, PayloadInvalid,
              AckArrives, AckFails, FailRead, FailWrite
<1>5. ASSUME NEW h \in handlers, HandlerStep(h)
      PROVE  Goal
  <2>1. ResultPublish(h)
      BY <1>1, <1>5 DEF HandlerStep, ResultRead, ResultWrite
  <2>2. t \in {"agent.finished", "agent.failed"}
      BY <2>1 DEF ResultPublish, Emit
  <2> QED BY <2>2 DEF Goal
<1>6. CASE ~(\/ \E c \in Calls : CallStep(c)
             \/ SweeperStep
             \/ \E w \in Workers : WorkerStep(w)
             \/ \E h \in handlers : HandlerStep(h))
    BY <1>1, <1>6
    DEF Next, vars, CreatorStep, Create, EnqueueCreated, DeadlinePasses, Stall, AgentStep,
        AgentAccepts, AgentRefuses, RunEnds, PullFails, Report, ReportTimesOut,
        ReportGivesUp, BackendCrashes, AgentCrashes
<1> QED BY <1>2, <1>3, <1>4, <1>5, <1>6

LEMMA NextEventsTruthful ==
    ASSUME IInv, FailedIsFinished, EventsTruthful, [Next]_vars
    PROVE  EventsTruthful'
<1> SUFFICES ASSUME NEW e \in Executions, NEW t \in {"approved", "rejected", "started", "failed"},
                    <<t, e>> \in events'
             PROVE  /\ t \in {"approved", "rejected"} => dados'[e].approval = t
                    /\ t = "started" => Cleared(e)'
                    /\ t = "failed" => dados'[e].finished
    BY DEF EventsTruthful
<1>1. /\ t \in {"approved", "rejected"} => dados[e].approval = t
      /\ t = "started" => Cleared(e)
      /\ t = "failed" => dados[e].finished
  <2>1. CASE <<t, e>> \in events
      BY <2>1 DEF EventsTruthful
  <2>2. CASE <<t, e>> \notin events
      BY <2>2, NewEvents DEF EventTypes
  <2> QED BY <2>1, <2>2
<1>2. t \in {"approved", "rejected"} => dados'[e].approval = t
    BY <1>1, NextKeepsApproval DEF ApprovalKept, Decided
<1>3. t = "started" => Cleared(e)'
    BY <1>1, ClearedKept
<1>4. t = "failed" => dados'[e].finished
    BY <1>1, FinishedKept
<1> QED BY <1>2, <1>3, <1>4

\* approved, rejected, started and failed are emitted of executions of which they
\* are true, and stay true, whoever decides, sweeps or writes the row afterwards.
THEOREM EventsTellTheTruth == Spec => []EventsTruthful
<1>1. Init => FailedIsFinished /\ EventsTruthful
    BY DEF Init, FailedIsFinished, EventsTruthful, IdleWorker
<1> QED BY <1>1, Invariance, NextFailedIsFinished, NextEventsTruthful, PTL DEF Spec

-----------------------------------------------------------------------------
(* The result of a run.                                                    *)

\* A run of e ended well.
EndedWell(e) == \E n \in 0..MaxStalls : run[<<e, n>>].result = "ok"

\* A run has no result before it ended.
Unended ==
    \A d \in Dispatches :
        run[d].phase \in {"none", "sent", "refused", "running"} => run[d].result = "none"

\* The copy a failing worker writes back claims no outcome that no run had.
CopiesReal ==
    \A w \in Workers :
        worker[w].pc = "failWrite" /\ worker[w].snap.outcome = "ok"
            => EndedWell(worker[w].cur[1])

ResultsReal == Unended /\ CopiesReal

\* Every step leaves a result that is there, and no result comes before the end.
LEMMA ResultsStay ==
    ASSUME IInv, Fresh, Unended, [Next]_vars, NEW d \in Dispatches
    PROVE  /\ run[d].result # "none" => run'[d].result = run[d].result
           /\ run'[d].phase \in {"none", "sent", "refused", "running"}
                 => run'[d].result = "none"
<1> DEFINE Goal == /\ run[d].result # "none" => run'[d].result = run[d].result
                   /\ run'[d].phase \in {"none", "sent", "refused", "running"}
                         => run'[d].result = "none"
<1> SUFFICES Goal
    OBVIOUS
<1>a. /\ run[d] \in Runs
      /\ run[d].phase \in {"none", "sent", "refused", "running"} => run[d].result = "none"
    BY DEF IInv, TypeOK, Unended
<1>1. CASE run'[d] = run[d]
    BY <1>1, <1>a
<1>2. CASE run'[d].result = run[d].result /\ run'[d].phase \notin {"none", "sent", "refused", "running"}
    BY <1>2
<1>3. CASE run'[d].result = run[d].result /\ run[d].phase \in {"sent", "running"}
    BY <1>3, <1>a
<1> HIDE DEF Goal
<1> USE DEF IInv
<1>4. ASSUME NEW w \in Workers, WorkerStep(w)
      PROVE  Goal
  <2>1. CASE Dispatch(w)
    <3>1. worker[w].cur \in Dispatches /\ run[worker[w].cur].phase = "none"
        BY <2>1 DEF Dispatch, BeyondGate, Fresh
    <3>2. CASE worker[w].cur = d
      <4>1. run'[d] = [NoRun EXCEPT !.phase = "sent"]
          BY <2>1, <3>1, <3>2 DEF Dispatch, TypeOK
      <4> QED BY <3>1, <3>2, <4>1, <1>a DEF NoRun, Goal
    <3>3. CASE worker[w].cur # d
        BY <2>1, <3>3, <1>1 DEF Dispatch, TypeOK
    <3> QED BY <3>2, <3>3
  <2> QED BY <1>4, <2>1, <1>1
          DEF WorkerStep, TakeJob, PreflightFails, MarkRunning, Announce, PayloadInvalid,
              AckArrives, AckFails, FailRead, FailWrite, EmitFailed
<1>5. CASE LoseAll
  <2>1. run'[d] = IF run[d].phase \in Busy THEN [run[d] EXCEPT !.phase = "lost"] ELSE run[d]
      BY <1>5 DEF LoseAll
  <2>2. [run[d] EXCEPT !.phase = "lost"].result = run[d].result
        /\ [run[d] EXCEPT !.phase = "lost"].phase = "lost"
      BY <1>a DEF Runs
  <2> QED BY <2>1, <2>2, <1>1, <1>2
<1>6. ASSUME NEW x \in Dispatches, AgentStep(x)
      PROVE  Goal
  <2>0. CASE x # d /\ \E ph \in Phases : run' = [run EXCEPT ![x].phase = ph]
      BY <2>0, <1>1 DEF TypeOK
  <2>1. CASE x = d /\ \E ph \in {"reporting", "lost"} : run' = [run EXCEPT ![x].phase = ph]
      BY <2>1, <1>a, <1>2 DEF TypeOK, Runs
  <2>2. CASE AgentAccepts(x) \/ AgentRefuses(x)
    <3>1. CASE x = d
        BY <2>2, <3>1, <1>a, <1>3 DEF AgentAccepts, AgentRefuses, TypeOK, Runs
    <3> QED BY <2>2, <3>1, <2>0 DEF AgentAccepts, AgentRefuses, Phases
  <2>3. CASE RunEnds(x) \/ PullFails(x)
    <3>1. CASE x = d
      <4>1. run[d].result = "none"
          BY <2>3, <3>1, <1>a DEF RunEnds, PullFails
      <4>2. run'[d].phase = "reporting"
          BY <2>3, <3>1 DEF RunEnds, PullFails, TypeOK, Runs
      <4> QED BY <4>1, <4>2 DEF Goal
    <3>2. CASE x # d
        BY <2>3, <3>2, <1>1 DEF RunEnds, PullFails, TypeOK
    <3> QED BY <3>1, <3>2
  <2>4. CASE Report(x)
    <3>1. CASE x = d
        BY <2>4, <3>1, <1>a, <1>2 DEF Report, TypeOK, Runs
    <3>2. CASE x # d
        BY <2>4, <3>2, <1>1 DEF Report, TypeOK
    <3> QED BY <3>1, <3>2
  <2>5. CASE ReportTimesOut(x) \/ ReportGivesUp(x)
      BY <2>5, <2>0, <2>1, <1>5 DEF ReportTimesOut, ReportGivesUp, Phases
  <2> QED BY <1>6, <2>2, <2>3, <2>4, <2>5 DEF AgentStep
<1>7. ASSUME NEW h \in handlers, HandlerStep(h)
      PROVE  Goal
  <2>1. CASE Answer(h)
    <3>1. CASE h.of = d
        BY <2>1, <3>1, <1>a, <1>1, <1>2 DEF Answer, TypeOK, Runs
    <3>2. CASE h.of # d
        BY <2>1, <3>2, <1>1 DEF Answer, TypeOK
    <3> QED BY <3>1, <3>2
  <2> QED BY <1>7, <2>1, <1>1 DEF HandlerStep, ResultRead, ResultWrite, ResultPublish
<1>8. CASE \/ \E e \in Executions : CreatorStep(e) \/ Stall(e)
           \/ \E c \in Calls : CallStep(c)
           \/ SweeperStep \/ BackendCrashes \/ UNCHANGED vars
    BY <1>8, <1>1
    DEF vars, CreatorStep, Create, EnqueueCreated, DeadlinePasses, Stall, CallStep,
        DecisionRead, DecisionUpdate, DecisionEmit, DecisionEnqueue, SweeperStep, SweepRead,
        SweepUpdate, SweepEmit, BackendCrashes
<1>9. CASE AgentCrashes
    BY <1>9, <1>5 DEF AgentCrashes
<1> QED BY <1>4, <1>6, <1>7, <1>8, <1>9 DEF Next

LEMMA EndedWellKept ==
    ASSUME IInv, Fresh, Unended, [Next]_vars, NEW e \in Executions, EndedWell(e)
    PROVE  EndedWell(e)'
<1>1. PICK n \in 0..MaxStalls : run[<<e, n>>].result = "ok"
    BY DEF EndedWell
<1>2. <<e, n>> \in Dispatches
    BY DEF Dispatches
<1>3. run'[<<e, n>>].result = "ok"
    BY <1>1, <1>2, ResultsStay
<1> QED BY <1>3 DEF EndedWell

\* A callback that carries ok is of a run that ended well.
LEMMA ReportedIsReal ==
    ASSUME TypeOK, NEW h \in handlers, Reported(h) = "ok"
    PROVE  EndedWell(h.of[1])
<1>1. PICK n \in 0..MaxStalls : h.of = <<h.of[1], n>>
    BY DEF TypeOK, Handlers, Dispatches
<1> QED BY <1>1 DEF Reported, EndedWell

\* What a write does to status and outcome: SUCCESS comes with ok, and ok comes
\* from a run that ended well or from a row or a copy that said so.
LEMMA OutcomesReal ==
    ASSUME IInv, ResultsReal, SuccessIsReal, [Next]_vars, NEW e \in Executions
    PROVE  /\ dados'[e].status = "SUCCESS" => dados'[e].outcome = "ok"
           /\ dados'[e].outcome = "ok" => EndedWell(e)
<1> DEFINE Goal == /\ dados'[e].status = "SUCCESS" => dados'[e].outcome = "ok"
                   /\ dados'[e].outcome = "ok" => EndedWell(e)
<1> SUFFICES Goal
    OBVIOUS
<1>a. /\ dados[e].status = "SUCCESS" => dados[e].outcome = "ok"
      /\ dados[e].outcome = "ok" => EndedWell(e)
    BY DEF SuccessIsReal, EndedWell
<1>1. CASE dados'[e] = dados[e]
    BY <1>1, <1>a
<1>2. CASE dados'[e].status # "SUCCESS" /\ dados'[e].outcome \in {dados[e].outcome, "none"}
    BY <1>2, <1>a
<1> HIDE DEF Goal
<1> USE DEF IInv
<1>3. ASSUME NEW x \in Executions, CreatorStep(x) \/ Stall(x)
      PROVE  Goal
  <2>1. CASE Create(x)
    <3>1. CASE x = e
      <4>1. dados'[e].status \in {"AWAITING", "QUEUED"} /\ dados'[e].outcome = "none"
          BY <2>1, <3>1 DEF Create, NoRow, TypeOK
      <4> QED BY <4>1, <1>2
    <3>2. CASE x # e
        BY <2>1, <3>2, <1>1 DEF Create, TypeOK
    <3> QED BY <3>1, <3>2
  <2> QED BY <1>3, <2>1, <1>1 DEF CreatorStep, EnqueueCreated, DeadlinePasses, Stall
<1>4. ASSUME NEW c \in Calls, CallStep(c)
      PROVE  Goal
  <2>1. CASE DecisionUpdate(c)
    <3> DEFINE s == IF call[c].verdict = "approved" THEN "APPROVED" ELSE "REJECTED"
    <3>1. CASE AwaitsDecision(call[c].exec) /\ call[c].exec = e
      <4>1. dados'[e] = [dados[e] EXCEPT !.approval = call[c].verdict, !.status = s]
          BY <2>1, <3>1 DEF DecisionUpdate, TypeOK
      <4>2. [dados[e] EXCEPT !.approval = call[c].verdict, !.status = s].outcome
               = dados[e].outcome
            /\ [dados[e] EXCEPT !.approval = call[c].verdict, !.status = s].status = s
          BY DEF TypeOK, Dados
      <4> QED BY <4>1, <4>2, <1>2
    <3>2. CASE ~(AwaitsDecision(call[c].exec) /\ call[c].exec = e)
        BY <2>1, <3>2, <1>1 DEF DecisionUpdate, TypeOK
    <3> QED BY <3>1, <3>2
  <2> QED BY <1>4, <2>1, <1>1 DEF CallStep, DecisionRead, DecisionEmit, DecisionEnqueue
<1>5. CASE SweeperStep
  <2>1. CASE SweepUpdate
    <3>1. dados'[e] \in {dados[e], [dados[e] EXCEPT !.approval = "expired", !.status = "EXPIRED"]}
        BY <2>1 DEF SweepUpdate
    <3>2. [dados[e] EXCEPT !.approval = "expired", !.status = "EXPIRED"].outcome = dados[e].outcome
          /\ [dados[e] EXCEPT !.approval = "expired", !.status = "EXPIRED"].status = "EXPIRED"
        BY DEF TypeOK, Dados
    <3> QED BY <3>1, <3>2, <1>1, <1>2
  <2> QED BY <1>5, <2>1, <1>1 DEF SweeperStep, SweepRead, SweepEmit
<1>6. ASSUME NEW w \in Workers, WorkerStep(w)
      PROVE  Goal
  <2>1. CASE MarkRunning(w)
    <3>1. CASE worker[w].cur[1] = e /\ Markable(e)
        BY <2>1, <3>1, <1>2 DEF MarkRunning, TypeOK, Dados
    <3>2. CASE ~(worker[w].cur[1] = e /\ Markable(e))
        BY <2>1, <3>2, <1>1 DEF MarkRunning, TypeOK
    <3> QED BY <3>1, <3>2
  <2>2. CASE FailWrite(w)
    <3>1. CASE worker[w].cur[1] = e
      <4>1. worker[w].snap \in Dados /\ (worker[w].snap.outcome = "ok" => EndedWell(e))
          BY <2>2, <3>1 DEF FailWrite, TypeOK, WorkerType, ResultsReal, CopiesReal
      <4>2. dados'[e] = [worker[w].snap EXCEPT !.status = "FAILED", !.finished = TRUE]
          BY <2>2, <3>1 DEF FailWrite, TypeOK
      <4>3. dados'[e].status = "FAILED" /\ dados'[e].outcome = worker[w].snap.outcome
          BY <4>1, <4>2 DEF Dados
      <4> QED BY <4>1, <4>3 DEF Goal
    <3>2. CASE worker[w].cur[1] # e
        BY <2>2, <3>2, <1>1 DEF FailWrite, TypeOK
    <3> QED BY <3>1, <3>2
  <2> QED BY <1>6, <2>1, <2>2, <1>1
          DEF WorkerStep, TakeJob, PreflightFails, Announce, Dispatch, PayloadInvalid,
              AckArrives, AckFails, FailRead, EmitFailed
<1>7. ASSUME NEW d \in Dispatches, AgentStep(d)
      PROVE  Goal
    BY <1>7, <1>1
    DEF AgentStep, AgentAccepts, AgentRefuses, RunEnds, PullFails, Report, ReportTimesOut,
        ReportGivesUp
<1>8. ASSUME NEW h \in handlers, HandlerStep(h)
      PROVE  Goal
  <2>1. CASE ResultWrite(h)
    <3>1. CASE h.of[1] = e
      <4> DEFINE s == IF Reported(h) = "ok" THEN "SUCCESS" ELSE "FAILED"
      <4>1. h.snap \in Dados
          BY DEF TypeOK, Handlers
      <4>2. dados'[e] = [h.snap EXCEPT !.status = s, !.finished = TRUE, !.outcome = Reported(h)]
          BY <2>1, <3>1 DEF ResultWrite, TypeOK
      <4>3. dados'[e].status = s /\ dados'[e].outcome = Reported(h)
          BY <4>1, <4>2 DEF Dados
      <4> QED BY <3>1, <4>3, ReportedIsReal DEF Goal
    <3>2. CASE h.of[1] # e
        BY <2>1, <3>2, <1>1 DEF ResultWrite, TypeOK
    <3> QED BY <3>1, <3>2
  <2> QED BY <1>8, <2>1, <1>1 DEF HandlerStep, ResultRead, ResultPublish
<1>9. CASE BackendCrashes \/ AgentCrashes \/ UNCHANGED vars
    BY <1>9, <1>1 DEF BackendCrashes, AgentCrashes, vars
<1> QED BY <1>3, <1>4, <1>5, <1>6, <1>7, <1>8, <1>9 DEF Next

\* A task is moved to DONE by a callback that carries ok only.
LEMMA DoneIsReal ==
    ASSUME IInv, SuccessIsReal, [Next]_vars, NEW e \in Executions, task'[e] = "DONE"
    PROVE  EndedWell(e)
<1> USE DEF IInv
<1>1. CASE task[e] = "DONE"
    BY <1>1 DEF SuccessIsReal, EndedWell
<1>2. CASE UNCHANGED task
    BY <1>1, <1>2
<1>3. ASSUME NEW w \in Workers, WorkerStep(w)
      PROVE  EndedWell(e)
  <2>1. CASE Announce(w)
    <3>1. task' = task \/ task' = [task EXCEPT ![worker[w].cur[1]] = "EXECUTING"]
        BY <2>1 DEF Announce, MoveTask
    <3>2. CASE task' = [task EXCEPT ![worker[w].cur[1]] = "EXECUTING"]
        BY <3>2, <1>1 DEF TypeOK
    <3> QED BY <3>1, <3>2, <1>2
  <2> QED BY <1>3, <2>1, <1>2
          DEF WorkerStep, TakeJob, PreflightFails, MarkRunning, Dispatch, PayloadInvalid,
              AckArrives, AckFails, FailRead, FailWrite, EmitFailed
<1>4. ASSUME NEW h \in handlers, HandlerStep(h)
      PROVE  EndedWell(e)
  <2>1. CASE ResultPublish(h)
    <3> DEFINE to == IF Reported(h) = "ok" THEN "DONE" ELSE "FAILED"
    <3>1. task' = task \/ task' = [task EXCEPT ![h.of[1]] = to]
        BY <2>1 DEF ResultPublish, MoveTask
    <3>2. CASE task' = [task EXCEPT ![h.of[1]] = to] /\ h.of[1] = e
      <4>1. Reported(h) = "ok"
          BY <3>2 DEF TypeOK
      <4> QED BY <3>2, <4>1, ReportedIsReal
    <3>3. CASE task' = [task EXCEPT ![h.of[1]] = to] /\ h.of[1] # e
        BY <3>3, <1>1 DEF TypeOK
    <3> QED BY <3>1, <3>2, <3>3, <1>2
  <2> QED BY <1>4, <2>1, <1>2 DEF HandlerStep, ResultRead, ResultWrite
<1>5. CASE ~(\/ \E w \in Workers : WorkerStep(w)
             \/ \E h \in handlers : HandlerStep(h))
    BY <1>2, <1>5
    DEF Next, vars, CreatorStep, Create, EnqueueCreated, DeadlinePasses, Stall, CallStep,
        DecisionRead, DecisionUpdate, DecisionEmit, DecisionEnqueue, SweeperStep, SweepRead,
        SweepUpdate, SweepEmit, AgentStep, AgentAccepts, AgentRefuses, RunEnds, PullFails,
        Report, ReportTimesOut, ReportGivesUp, BackendCrashes, AgentCrashes
<1> QED BY <1>3, <1>4, <1>5

\* A copy is taken by FailRead from a row that tells the truth.
LEMMA NextCopiesReal ==
    ASSUME IInv, Fresh, ResultsReal, SuccessIsReal, [Next]_vars
    PROVE  CopiesReal'
<1> SUFFICES ASSUME NEW w \in Workers, worker'[w].pc = "failWrite",
                    worker'[w].snap.outcome = "ok"
             PROVE  EndedWell(worker[w].cur[1])'
    BY DEF CopiesReal
<1> USE DEF IInv
<1>1. CASE worker'[w] = worker[w]
  <2>1. PICK e \in Executions : e = worker[w].cur[1] /\ EndedWell(e)
      BY <1>1 DEF BeyondGate, Dispatches, ResultsReal, CopiesReal
  <2>2. EndedWell(e)'
      BY <2>1, EndedWellKept DEF ResultsReal
  <2> QED BY <1>1, <2>1, <2>2
<1>2. CASE WorkerStep(w)
  <2>1. CASE FailRead(w)
    <3>1. PICK e \in Executions : e = worker[w].cur[1]
        BY <2>1 DEF FailRead, BeyondGate, Dispatches
    <3>2. worker'[w].cur = worker[w].cur /\ worker'[w].snap = dados[e]
        BY <2>1, <3>1 DEF FailRead, TypeOK, WorkerType
    <3>3. EndedWell(e)
        BY <3>1, <3>2 DEF SuccessIsReal, EndedWell
    <3>4. EndedWell(e)'
        BY <3>3, EndedWellKept DEF ResultsReal
    <3> QED BY <3>1, <3>2, <3>4
  <2>2. CASE ~FailRead(w)
    <3>1. \A pc \in WorkerPcs : To(w, pc) => worker'[w].pc = pc
        BY DEF To, TypeOK, WorkerType
    <3>2. Release(w) => worker'[w].pc = "idle"
        BY DEF Release, IdleWorker, TypeOK
    <3>3. ASSUME NEW x \in Executions, TakeJob(w, x)
          PROVE  worker'[w].pc = "checking"
        BY <3>3 DEF TakeJob, TypeOK
    <3>4. FailWrite(w) => worker'[w].pc = "emitFailed"
        BY DEF FailWrite, TypeOK, WorkerType
    <3>5. worker'[w].pc # "failWrite"
        BY <1>2, <2>2, <3>1, <3>2, <3>3, <3>4
        DEF WorkerStep, PreflightFails, MarkRunning, Announce, Dispatch, PayloadInvalid,
            AckArrives, AckFails, EmitFailed, WorkerPcs
    <3> QED BY <3>5
  <2> QED BY <2>1, <2>2
<1>3. ASSUME NEW v \in Workers, v # w, WorkerStep(v)
      PROVE  worker'[w] = worker[w]
    BY <1>3
    DEF WorkerStep, TakeJob, PreflightFails, MarkRunning, Announce, Dispatch, Release,
        PayloadInvalid, AckArrives, AckFails, FailRead, FailWrite, EmitFailed, To, TypeOK
<1>4. ~BackendCrashes
    BY DEF BackendCrashes, IdleWorker
<1>5. CASE ~\E v \in Workers : WorkerStep(v)
    BY <1>5, <1>4, <1>1
    DEF Next, vars, backend, CreatorStep, Create, EnqueueCreated, DeadlinePasses, Stall,
        CallStep, DecisionRead, DecisionUpdate, DecisionEmit, DecisionEnqueue, SweeperStep,
        SweepRead, SweepUpdate, SweepEmit, AgentStep, AgentAccepts, AgentRefuses, RunEnds,
        PullFails, Report, ReportTimesOut, ReportGivesUp, HandlerStep, ResultRead,
        ResultWrite, ResultPublish, AgentCrashes
<1> QED BY <1>1, <1>2, <1>3, <1>5

LEMMA NextSuccessIsReal ==
    ASSUME IInv, Fresh, ResultsReal, SuccessIsReal, [Next]_vars
    PROVE  ResultsReal' /\ SuccessIsReal'
<1>1. Unended'
    BY ResultsStay DEF ResultsReal, Unended
<1>2. CopiesReal'
    BY NextCopiesReal
<1>3. ASSUME NEW e \in Executions
      PROVE  /\ dados'[e].status = "SUCCESS" => dados'[e].outcome = "ok"
             /\ dados'[e].outcome = "ok" \/ task'[e] = "DONE" => EndedWell(e)'
  <2>1. dados'[e].status = "SUCCESS" => dados'[e].outcome = "ok"
      BY OutcomesReal
  <2>2. dados'[e].outcome = "ok" \/ task'[e] = "DONE" => EndedWell(e)
      BY OutcomesReal, DoneIsReal
  <2> QED BY <2>1, <2>2, EndedWellKept DEF ResultsReal
<1> QED BY <1>1, <1>2, <1>3 DEF ResultsReal, SuccessIsReal, EndedWell

\* A success in the row or on the board was a success of Claude, whatever was
\* redelivered, retried or written back from an older copy on the way.
THEOREM SuccessesAreReal == Spec => []SuccessIsReal
<1>1. Init => ResultsReal /\ SuccessIsReal
    BY DEF Init, ResultsReal, Unended, CopiesReal, SuccessIsReal, NoRow, NoRun, IdleWorker
<1> QED BY <1>1, Invariance, FreshHolds, NextSuccessIsReal, PTL DEF Spec

-----------------------------------------------------------------------------
(* The mutex of the agent.                                                 *)

\* A run that holds the mutex of its project: Claude runs, or the report of a
\* failed pull is awaited.
Holds(d) ==
    \/ run[d].phase = "running"
    \/ run[d].holds /\ run[d].phase \in {"reporting", "waiting"}

\* Who holds the mutex finds it taken, holds it alone, and only a failed pull
\* keeps it beyond the run.
MutexExact ==
    /\ \A d \in Dispatches :
          /\ run[d].phase \in {"none", "sent", "refused", "running"} => ~run[d].holds
          /\ Holds(d) => ProjectOf[d[1]] \in mutex
    /\ \A d1, d2 \in Dispatches :
          Holds(d1) /\ Holds(d2) /\ ProjectOf[d1[1]] = ProjectOf[d2[1]] => d1 = d2

\* Most steps give nobody the mutex and take no project out of it that is held.
LEMMA MutexByParts ==
    ASSUME MutexExact,
           \A d \in Dispatches :
              /\ run'[d].phase \in {"none", "sent", "refused", "running"} => ~run'[d].holds
              /\ Holds(d)' => Holds(d) /\ (ProjectOf[d[1]] \in mutex => ProjectOf[d[1]] \in mutex')
    PROVE  MutexExact'
BY DEF MutexExact

\* Losing every run leaves nobody with the mutex.
LEMMA LoseAllMutex ==
    ASSUME TypeOK, MutexExact, LoseAll
    PROVE  MutexExact'
<1>1. ASSUME NEW d \in Dispatches
      PROVE  /\ run'[d].phase \in {"none", "sent", "refused", "running"} => ~run'[d].holds
             /\ ~Holds(d)'
  <2>1. CASE run[d].phase \in Busy
      BY <2>1 DEF LoseAll, TypeOK, Runs, Holds
  <2>2. CASE run[d].phase \notin Busy
      BY <2>2 DEF LoseAll, Holds, Busy, MutexExact
  <2> QED BY <2>1, <2>2
<1> QED BY <1>1, MutexByParts

LEMMA AgentMutex ==
    ASSUME IInv, MutexExact, NEW d \in Dispatches, AgentStep(d)
    PROVE  MutexExact'
<1> USE DEF IInv
<1>a. run[d] \in Runs
    BY DEF TypeOK
<1>1. CASE AgentAccepts(d)
  <2>1. /\ run'[d].phase = "running" /\ ~run'[d].holds /\ ~Holds(d) /\ Holds(d)'
        /\ \A x \in Dispatches : x # d => run'[x] = run[x]
        /\ mutex' = mutex \cup {ProjectOf[d[1]]} /\ ProjectOf[d[1]] \notin mutex
      BY <1>1, <1>a DEF AgentAccepts, MutexFree, MutexExact, Holds, TypeOK, Runs
  <2>2. \A x \in Dispatches : x # d => (Holds(x)' <=> Holds(x))
      BY <2>1 DEF Holds
  <2> QED BY <2>1, <2>2 DEF MutexExact
<1>2. CASE RunEnds(d)
  <2>1. /\ run[d].phase = "running" /\ ~run[d].holds
        /\ run'[d].phase = "reporting" /\ run'[d].holds = run[d].holds
        /\ \A x \in Dispatches : x # d => run'[x] = run[x]
        /\ mutex' = mutex \ {ProjectOf[d[1]]}
      BY <1>2, <1>a DEF RunEnds, MutexExact, TypeOK, Runs
  <2>2. Holds(d) /\ ~Holds(d)' /\ \A x \in Dispatches : x # d => (Holds(x)' <=> Holds(x))
      BY <2>1 DEF Holds
  <2> QED BY <2>1, <2>2 DEF MutexExact
<1>3. CASE PullFails(d)
  <2>1. /\ run[d].phase = "running" /\ run'[d].phase = "reporting" /\ mutex' = mutex
        /\ \A x \in Dispatches : x # d => run'[x] = run[x]
      BY <1>3, <1>a DEF PullFails, TypeOK, Runs
  <2>2. Holds(d) /\ \A x \in Dispatches : x # d => (Holds(x)' <=> Holds(x))
      BY <2>1 DEF Holds
  <2> QED BY <2>1, <2>2, MutexByParts DEF MutexExact
<1>4. CASE AgentRefuses(d) \/ Report(d) \/ ReportTimesOut(d)
  <2>1. /\ run[d].phase \in {"sent", "reporting", "waiting"} /\ mutex' = mutex
        /\ run'[d].holds = run[d].holds
        /\ run[d].phase = "sent" => run'[d].phase = "refused"
        /\ run[d].phase # "sent" => run'[d].phase \in {"reporting", "waiting"}
        /\ \A x \in Dispatches : x # d => run'[x] = run[x]
      BY <1>4, <1>a DEF AgentRefuses, Report, ReportTimesOut, TypeOK, Runs
  <2>2. Holds(d)' => Holds(d)
      BY <2>1 DEF Holds
  <2>3. \A x \in Dispatches : x # d => (Holds(x)' <=> Holds(x))
      BY <2>1 DEF Holds
  <2> QED BY <2>1, <2>2, <2>3, MutexByParts DEF MutexExact
<1>5. CASE ReportGivesUp(d)
  <2>1. CASE run[d].holds
      BY <1>5, <2>1, LoseAllMutex DEF ReportGivesUp
  <2>2. CASE ~run[d].holds
    <3>1. /\ run'[d].phase = "lost" /\ mutex' = mutex
          /\ \A x \in Dispatches : x # d => run'[x] = run[x]
        BY <1>5, <2>2, <1>a DEF ReportGivesUp, TypeOK, Runs
    <3>2. ~Holds(d)' /\ \A x \in Dispatches : x # d => (Holds(x)' <=> Holds(x))
        BY <3>1 DEF Holds
    <3> QED BY <3>1, <3>2, MutexByParts DEF MutexExact
  <2> QED BY <2>1, <2>2
<1> QED BY <1>1, <1>2, <1>3, <1>4, <1>5 DEF AgentStep

\* The answer frees the mutex of a failed pull, which nobody else holds.
LEMMA AnswerMutex ==
    ASSUME TypeOK, MutexExact, NEW h \in handlers, Answer(h)
    PROVE  MutexExact'
<1> DEFINE d == h.of
<1>1. d \in Dispatches /\ run[d] \in Runs
    BY DEF TypeOK, Handlers
<1>2. CASE run[d].phase = "waiting" /\ run[d].tries = h.try
  <2>1. /\ run'[d].phase = "reported"
        /\ \A x \in Dispatches : x # d => run'[x] = run[x]
        /\ mutex' = IF run[d].holds THEN mutex \ {ProjectOf[d[1]]} ELSE mutex
      BY <1>1, <1>2 DEF Answer, TypeOK, Runs
  <2>2. ~Holds(d)' /\ (run[d].holds => Holds(d))
        /\ \A x \in Dispatches : x # d => (Holds(x)' <=> Holds(x))
      BY <1>2, <2>1 DEF Holds
  <2> QED BY <1>1, <2>1, <2>2 DEF MutexExact
<1>3. CASE ~(run[d].phase = "waiting" /\ run[d].tries = h.try)
    BY <1>3, MutexByParts DEF Answer, Holds, MutexExact
<1> QED BY <1>2, <1>3

LEMMA NextMutexExact ==
    ASSUME IInv, Fresh, MutexExact, [Next]_vars
    PROVE  MutexExact'
<1> USE DEF IInv
<1>1. CASE UNCHANGED <<run, mutex>>
    BY <1>1 DEF MutexExact, Holds
<1>2. ASSUME NEW w \in Workers, WorkerStep(w)
      PROVE  MutexExact'
  <2>1. CASE Dispatch(w)
    <3>1. PICK d \in Dispatches : d = worker[w].cur
        BY <2>1 DEF Dispatch, BeyondGate
    <3>2. /\ run'[d] = [NoRun EXCEPT !.phase = "sent"]
          /\ \A x \in Dispatches : x # d => run'[x] = run[x]
          /\ mutex' = mutex
        BY <2>1, <3>1 DEF Dispatch, TypeOK
    <3>3. /\ ~Holds(d)' /\ ~run'[d].holds
          /\ \A x \in Dispatches : x # d => (Holds(x)' <=> Holds(x))
        BY <3>2 DEF Holds, NoRun
    <3> QED BY <3>1, <3>2, <3>3, MutexByParts DEF MutexExact
  <2> QED BY <1>2, <2>1, <1>1
          DEF WorkerStep, TakeJob, PreflightFails, MarkRunning, Announce, PayloadInvalid,
              AckArrives, AckFails, FailRead, FailWrite, EmitFailed
<1>3. ASSUME NEW h \in handlers, HandlerStep(h)
      PROVE  MutexExact'
    BY <1>3, <1>1, AnswerMutex DEF HandlerStep, ResultRead, ResultWrite, ResultPublish
<1>4. CASE AgentCrashes
    BY <1>4, LoseAllMutex DEF AgentCrashes
<1>5. CASE \/ \E e \in Executions : CreatorStep(e) \/ Stall(e)
           \/ \E c \in Calls : CallStep(c)
           \/ SweeperStep \/ BackendCrashes \/ UNCHANGED vars
    BY <1>5, <1>1
    DEF vars, CreatorStep, Create, EnqueueCreated, DeadlinePasses, Stall, CallStep,
        DecisionRead, DecisionUpdate, DecisionEmit, DecisionEnqueue, SweeperStep, SweepRead,
        SweepUpdate, SweepEmit, BackendCrashes
<1> QED BY <1>2, <1>3, <1>4, <1>5, AgentMutex DEF Next

\* The agent never runs Claude twice at once in one project, and the mutex holds
\* exactly while it should, for any number of executions, stalls and crashes.
THEOREM OneClaude == Spec => []OneClaudePerProject
<1>1. Init => MutexExact
    BY DEF Init, MutexExact, Holds, NoRun
<1>2. MutexExact => OneClaudePerProject
    BY DEF MutexExact, Holds, OneClaudePerProject
<1> QED BY <1>1, <1>2, Invariance, FreshHolds, NextMutexExact, PTL DEF Spec
=============================================================================
