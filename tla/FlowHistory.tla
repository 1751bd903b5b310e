---------------------------- MODULE FlowHistory ----------------------------
(***************************************************************************)
(* The cumulative flow diagram of a project (CfdService.calculate): how    *)
(* many tasks were in which status at the end of each day of a period,     *)
(* replayed from the DEvento rows the audit consumer wrote.                *)
(*                                                                         *)
(* A status is written by the request, its event is recorded later and     *)
(* dated when it is recorded; a cascade changes the statuses of children   *)
(* and emits nothing.                                                      *)
(*                                                                         *)
(* Time is counted in parts of days.  A day of UTC has two: its first      *)
(* three hours, which in Brazil are still the day before, and the rest.    *)
(***************************************************************************)
EXTENDS Integers, Sequences, FiniteSets

CONSTANTS
    FlowTasks,
    FlowStatuses,   \* the statuses that occur
    InboxStatus,    \* STATUS_INICIAL, and the status of a new task
    FinalStatus,    \* VALIDATED, which updateStatus does not leave
    LastDay,        \* bound on the days that pass, counted from 0
    MaxFlowChanges  \* bound on the changes of status

ASSUME FlowAssumption ==
    /\ {InboxStatus, FinalStatus} \subseteq FlowStatuses
    /\ {"unborn", "deleted"} \cap FlowStatuses = {}
    /\ LastDay \in Nat /\ MaxFlowChanges \in Nat

VARIABLES
    clock,          \* the part of a day it is
    column,         \* DTask: dados.v3.state, or "unborn", or "deleted"
    bornAt,         \* DTask.criadoEm
    emitted,        \* task.status.changed on its way to the audit consumer
    journal,        \* the DEvento rows -498, in the order of criadoEm
    columnAt,       \* auxiliary: the status of each task at the end of each part
    strayed,        \* auxiliary: tasks whose events do not tell their story
    flowChanges     \* bound

flowVars == <<clock, column, bornAt, emitted, journal, columnAt, strayed, flowChanges>>

Parts  == 0..2 * LastDay + 1
NoPart == -1

\* One task.status.changed, with the part in which the status was written.
Change == [task: FlowTasks, to: FlowStatuses, at: Parts]
Entry  == [task: FlowTasks, to: FlowStatuses, criadoEm: Parts]

FlowTypeOK ==
    /\ clock \in Parts
    /\ column \in [FlowTasks -> FlowStatuses \cup {"unborn", "deleted"}]
    /\ bornAt \in [FlowTasks -> Parts \cup {NoPart}]
    /\ emitted \in Seq(Change) /\ journal \in Seq(Entry)
    /\ strayed \subseteq FlowTasks
    /\ flowChanges \in 0..MaxFlowChanges

FlowInit ==
    /\ clock = 0
    /\ column = [t \in FlowTasks |-> "unborn"]
    /\ bornAt = [t \in FlowTasks |-> NoPart]
    /\ emitted = <<>> /\ journal = <<>>
    /\ columnAt = [t \in FlowTasks |-> [p \in Parts |-> "unborn"]]
    /\ strayed = {} /\ flowChanges = 0

-----------------------------------------------------------------------------

\* Whatever is written is true until the end of this part, and of those that follow.
Column(t, s) ==
    /\ column' = [column EXCEPT ![t] = s]
    /\ columnAt' = [columnAt EXCEPT ![t] = [p \in Parts |-> IF p >= clock THEN s ELSE @[p]]]

\* TasksService.create emits an event of another class.
CreateFlowTask(t) ==
    /\ column[t] = "unborn"
    /\ Column(t, InboxStatus)
    /\ bornAt' = [bornAt EXCEPT ![t] = clock]
    /\ UNCHANGED <<clock, emitted, journal, strayed, flowChanges>>

\* updateStatus: validateTransition, the write, and the event for the task itself.
ChangeStatus(t) == \E s \in FlowStatuses \ {column[t]} :
    /\ column[t] \in FlowStatuses \ {FinalStatus}
    /\ flowChanges < MaxFlowChanges /\ flowChanges' = flowChanges + 1
    /\ Column(t, s)
    /\ emitted' = Append(emitted, [task |-> t, to |-> s, at |-> clock])
    /\ UNCHANGED <<clock, bornAt, journal, strayed>>

\* cascadeStatusToDescendants reaches the task, from wherever it is.
CascadeReaches(t) == \E s \in FlowStatuses \ {column[t]} :
    /\ column[t] \in FlowStatuses
    /\ flowChanges < MaxFlowChanges /\ flowChanges' = flowChanges + 1
    /\ Column(t, s)
    /\ strayed' = strayed \cup {t}
    /\ UNCHANGED <<clock, bornAt, emitted, journal>>

DeleteFlowTask(t) ==
    /\ column[t] \in FlowStatuses
    /\ column' = [column EXCEPT ![t] = "deleted"]
    /\ UNCHANGED <<clock, bornAt, emitted, journal, columnAt, strayed, flowChanges>>

Without(i) == [j \in 1..Len(emitted) - 1 |-> IF j < i THEN emitted[j] ELSE emitted[j + 1]]

\* An earlier event of the task is still on its way, or a day of UTC has ended meanwhile.
Overtakes(i) == \E j \in 1..i - 1 : emitted[j].task = emitted[i].task
Late(i)      == emitted[i].at \div 2 < clock \div 2

\* AuditLogConsumer.handle inserts the row, at once or when the bus calls it again.
RecordChange == \E i \in DOMAIN emitted :
    LET e == emitted[i] IN
    /\ journal' = Append(journal, [task |-> e.task, to |-> e.to, criadoEm |-> clock])
    /\ emitted' = Without(i)
    /\ strayed' = strayed \cup {t \in {e.task} : Overtakes(i) \/ Late(i)}
    /\ UNCHANGED <<clock, column, bornAt, columnAt, flowChanges>>

\* The consumer's breaker refuses the event, or the backend stops before it is recorded.
LoseChange == \E i \in DOMAIN emitted :
    /\ emitted' = Without(i)
    /\ strayed' = strayed \cup {emitted[i].task}
    /\ UNCHANGED <<clock, column, bornAt, journal, columnAt, flowChanges>>

TimePasses ==
    /\ clock + 1 \in Parts /\ clock' = clock + 1
    /\ UNCHANGED <<column, bornAt, emitted, journal, columnAt, strayed, flowChanges>>

FlowNext ==
    \/ \E t \in FlowTasks :
          CreateFlowTask(t) \/ ChangeStatus(t) \/ CascadeReaches(t) \/ DeleteFlowTask(t)
    \/ RecordChange \/ LoseChange \/ TimePasses

FlowSpec == FlowInit /\ [][FlowNext]_flowVars

-----------------------------------------------------------------------------
(* CfdService.calculate                                                    *)

\* The last part of a day of UTC, setUTCHours(23, 59, 59, 999).
DayEnd(day) == 2 * day + 1

\* toEndOfDayBrazil: day b ends three hours into the next day of UTC.
PeriodEnd(b) == 2 * b + 2

\* generateDays: every day of UTC the period has a part of, one more than it has days.
DaysOf(a, b) == a..b + 1

\* The events read, those of the tasks that are not deleted up to the end of the period.
Replayed(b) == {i \in DOMAIN journal : /\ journal[i].criadoEm <= PeriodEnd(b)
                                         /\ column[journal[i].task] # "deleted"}
RowsUntil(t, day, b) == {i \in Replayed(b) : journal[i].task = t /\ journal[i].criadoEm <= DayEnd(day)}

\* STATUS_CODE_MAP knows keys of classes, idStatus holds the key of a row: every task
\* begins in INBOX.  The slip is what step 3 of the code says it does.
CurrentStatus(t) == column[t]
InitialStatus(t) == InboxStatus

\* The status the replay leaves a task in at the end of a day.
StatusOn(t, day, b) ==
    LET rows == RowsUntil(t, day, b) IN
    IF rows = {} THEN InitialStatus(t)
    ELSE journal[CHOOSE i \in rows : \A j \in rows : j <= i].to

ExistedOn(t, day) == column[t] \notin {"unborn", "deleted"} /\ bornAt[t] <= DayEnd(day)

CountOn(s, day, b) == Cardinality({t \in FlowTasks : ExistedOn(t, day) /\ StatusOn(t, day, b) = s})

-----------------------------------------------------------------------------
(* Correctness.                                                            *)

\* All that has been emitted for a task up to the end of the day is recorded.
Settled(day) == \A i \in DOMAIN emitted : emitted[i].at > DayEnd(day)

\* cfd.service.ts:48-51: for each day of the period the tasks are counted by the status
\* they had at its end.  So they are, for every period and every day in it that the clock
\* has left or is in, once the events are recorded, and whatever happens to them later, as
\* long as each change of a task was its own and was recorded in order and on its day.
DiagramTruthful ==
    \A b \in 0..LastDay : \A a \in 0..b : \A day \in DaysOf(a, b) \ {b + 1} :
        /\ Settled(day) /\ 2 * day <= clock /\ strayed = {}
        => \A s \in FlowStatuses :
              CountOn(s, day, b) =
                  Cardinality({t \in FlowTasks : column[t] # "deleted"
                                                  /\ columnAt[t][DayEnd(day)] = s})

\* One task that strayed does not falsify the others, and every task that exists is
\* counted once and in one status.
OthersUntouched ==
    \A day \in 0..LastDay : \A t \in FlowTasks \ strayed :
        Settled(day) /\ ExistedOn(t, day) => StatusOn(t, day, day) = columnAt[t][DayEnd(day)]

FlowSound == DiagramTruthful /\ OthersUntouched
=============================================================================
