--------------------------- MODULE PhaseProgress ---------------------------
(***************************************************************************)
(* A phase and the tasks below it: TasksService.updateStatus moves a task, *)
(* then, without waiting for either, pushes the status down to the task's  *)
(* descendants and, when the task is done, has a detector compute the      *)
(* phase's progress and announce that it is complete.                      *)
(***************************************************************************)
EXTENDS Integers, FiniteSets

CONSTANTS
    Leaves,         \* the tasks below the phase
    Trees,          \* the trees they may form: functions from a task to its parent
    ThePhase,
    FirstLeaf,      \* any of the tasks
    Movers          \* updateStatus requests served at the same time

ASSUME ProgressAssumption ==
    /\ ThePhase \notin Leaves
    /\ FirstLeaf \in Leaves
    /\ Trees \subseteq [Leaves -> Leaves \cup {ThePhase}]

VARIABLES
    tree,           \* DTask.idPai of the tasks (no move is modelled here)
    status,         \* the state of each task
    move,           \* the requests
    snapshot,       \* dados._meta.phaseSnapshotPercent of the phase, -1 when absent
    cascade,        \* cascadeStatusToDescendants, per request that started it
    detector,       \* detectPhaseCompletion, per request that started it
    announced,      \* phase.completed was emitted
    wasComplete     \* auxiliary: at some time every task that counts was done

progressVars == <<tree, status, snapshot, move, cascade, detector, announced, wasComplete>>

\* The other states count like "open"; CANCELLED and DISCARDED do not count at all.
States == {"open", "DONE", "CANCELLED"}
Percents == -1..100
Moves == [pc: {"idle", "write"}, task: Leaves, to: States]
Cascades == [pc: {"idle", "find", "write"}, level: SUBSET Leaves, todo: SUBSET Leaves,
             to: States]
NoCascade == [pc |-> "idle", level |-> {}, todo |-> {}, to |-> "open"]
Detectors == [pc: {"idle", "read", "compute", "save", "emit"},
              last: Percents, now: Percents]
NoDetector == [pc |-> "idle", last |-> -1, now |-> -1]

ProgressTypeOK ==
    /\ tree \in Trees
    /\ status \in [Leaves -> States]
    /\ snapshot \in Percents
    /\ move \in [Movers -> Moves]
    /\ cascade \in [Movers -> Cascades]
    /\ detector \in [Movers -> Detectors]
    /\ announced \in BOOLEAN
    /\ wasComplete \in BOOLEAN

ProgressInit ==
    /\ tree \in Trees
    /\ status = [t \in Leaves |-> "open"]
    /\ snapshot = -1
    /\ move = [m \in Movers |-> [pc |-> "idle", task |-> FirstLeaf, to |-> "open"]]
    /\ cascade = [m \in Movers |-> NoCascade]
    /\ detector = [m \in Movers |-> NoDetector]
    /\ announced = FALSE
    /\ wasComplete = FALSE

-----------------------------------------------------------------------------

\* total and done of PhaseMetricsService.computeRecursive.  The slips leave the open
\* tasks, or those below other tasks, out of the total.
CountingDirect(st) == {t \in Leaves : st[t] # "CANCELLED" /\ tree[t] = ThePhase}
CountingClosed(st) == {t \in Leaves : st[t] = "DONE"}
Counting(st)   == {t \in Leaves : st[t] # "CANCELLED"}
DoneOnes(st)   == {t \in Leaves : st[t] = "DONE"}

\* total === 0 ? 0 : Math.round((done / total) * 100).
Percent(done, total) ==
    IF total = 0 THEN 0 ELSE (200 * done + total) \div (2 * total)

AllDone(st) == \A t \in Leaves : st[t] \in {"DONE", "CANCELLED"}

\* A new status of a task, which only this operator sets.
SetStatus(t, to) ==
    /\ status' = [status EXCEPT ![t] = to]
    /\ wasComplete' = (wasComplete \/ AllDone(status'))

\* updateStatus reads the task (one request per slot, and its cascade and detector with
\* it, at a time).
StatusRequest(m) ==
    /\ move[m].pc = "idle" /\ cascade[m].pc = "idle" /\ detector[m].pc = "idle"
    /\ \E t \in Leaves, to \in States :
          /\ status[t] # to
          /\ move' = [move EXCEPT ![m] = [pc |-> "write", task |-> t, to |-> to]]
    /\ UNCHANGED <<tree, status, snapshot, cascade, detector, announced, wasComplete>>

\* The detector looks at the direct parent, if that is a phase.
Detects(m) == move[m].to = "DONE" /\ tree[move[m].task] = ThePhase

\* It writes, and starts the cascade and the detector.
StatusWrite(m) ==
    /\ move[m].pc = "write"
    /\ SetStatus(move[m].task, move[m].to)
    /\ move' = [move EXCEPT ![m].pc = "idle"]
    /\ cascade' = [cascade EXCEPT ![m] = [pc |-> "find", level |-> {move[m].task},
                                          todo |-> {}, to |-> move[m].to]]
    /\ detector' = IF Detects(m) THEN [detector EXCEPT ![m].pc = "read"] ELSE detector
    /\ UNCHANGED <<tree, snapshot, announced>>

\* One level of the breadth-first walk.
ChildrenOf(S) == {c \in Leaves : tree[c] \in S}
CascadeFind(m) ==
    LET below == ChildrenOf(cascade[m].level) IN
    /\ cascade[m].pc = "find"
    /\ cascade' = [cascade EXCEPT ![m] =
                     IF below = {} THEN NoCascade
                     ELSE [@ EXCEPT !.pc = "write", !.level = below, !.todo = below]]
    /\ UNCHANGED <<tree, status, snapshot, move, detector, announced, wasComplete>>

CascadeWrite(m) ==
    /\ cascade[m].pc = "write"
    /\ \E t \in cascade[m].todo :
          /\ SetStatus(t, cascade[m].to)
          /\ cascade' = [cascade EXCEPT ![m].todo = @ \ {t},
                                        ![m].pc = IF cascade[m].todo = {t} THEN "find"
                                                  ELSE "write"]
    /\ UNCHANGED <<tree, snapshot, move, detector, announced>>

\* detectPhaseCompletion reads the snapshot, and returns when it is 100 already.
DetectorRead(m) ==
    /\ detector[m].pc = "read"
    /\ detector' = [detector EXCEPT ![m] =
                      IF snapshot = 100 THEN NoDetector
                      ELSE [@ EXCEPT !.pc = "compute", !.last = snapshot]]
    /\ UNCHANGED <<tree, status, snapshot, move, cascade, announced, wasComplete>>

\* One query counts the tasks.
DetectorCompute(m) ==
    /\ detector[m].pc = "compute"
    /\ detector' = [detector EXCEPT ![m].pc = "save",
                      ![m].now = Percent(Cardinality(DoneOnes(status)),
                                         Cardinality(Counting(status)))]
    /\ UNCHANGED <<tree, status, snapshot, move, cascade, announced, wasComplete>>

\* The slip asks for an earlier snapshot to have crossed from.
EmitsOnCrossing(q) == q.now = 100 /\ q.last # -1
Emits(q) == q.now = 100

DetectorSave(m) ==
    LET q == detector[m] IN
    /\ q.pc = "save"
    /\ snapshot' = IF q.now # q.last THEN q.now ELSE snapshot
    /\ detector' = [detector EXCEPT ![m] =
                      IF Emits(q) THEN [q EXCEPT !.pc = "emit"] ELSE NoDetector]
    /\ UNCHANGED <<tree, status, move, cascade, announced, wasComplete>>

DetectorEmit(m) ==
    /\ detector[m].pc = "emit"
    /\ announced' = TRUE
    /\ detector' = [detector EXCEPT ![m] = NoDetector]
    /\ UNCHANGED <<tree, status, snapshot, move, cascade, wasComplete>>

CascadeStep(m)  == CascadeFind(m) \/ CascadeWrite(m)
DetectorStep(m) == DetectorRead(m) \/ DetectorCompute(m) \/ DetectorSave(m) \/ DetectorEmit(m)

ProgressNext ==
    \E m \in Movers : StatusRequest(m) \/ StatusWrite(m) \/ CascadeStep(m) \/ DetectorStep(m)

\* A promise that was started goes on, awaited or not.
ProgressFairness ==
    \A m \in Movers : /\ WF_progressVars(StatusWrite(m))
                      /\ WF_progressVars(CascadeStep(m))
                      /\ WF_progressVars(DetectorStep(m))

ProgressSpec == ProgressInit /\ [][ProgressNext]_progressVars /\ ProgressFairness

-----------------------------------------------------------------------------
(* Correctness.                                                            *)

\* phase.completed is emitted, and 100 saved, only when at some time no task of the
\* phase was open, however detectors, cascades and moves interleave. So it is up to 199
\* counted tasks; from 200 on Math.round makes a phase with one open task 100, too.
CompletedTruthful ==
    announced \/ snapshot = 100 \/ (\E m \in Movers : detector[m].now = 100) => wasComplete

\* When all the tasks directly below a phase are done and stay done, the phase is
\* announced, although every detector writes back a snapshot that may be stale.
CompletionAnnounced ==
    (\A t \in Leaves : tree[t] = ThePhase /\ status[t] = "DONE")
        ~> announced \/ \E t \in Leaves : status[t] # "DONE"
=============================================================================
