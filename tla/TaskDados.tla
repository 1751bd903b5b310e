----------------------------- MODULE TaskDados -----------------------------
(***************************************************************************)
(* One task's row: the JSON column dados, which holds its state and its    *)
(* timer sessions, and the column idStatus.  Status changes, the cascade   *)
(* from a parent, the timer and edits all read dados, change their part of *)
(* the copy, and write the whole copy back, with other requests between.   *)
(***************************************************************************)
CONSTANTS
    Statuses,       \* the states of validTransitions that are told apart
    Validated,      \* the state without exits
    FirstStatus,    \* the state of a new task
    NoStatus,       \* idStatus without a row: null
    Sessions,       \* timer sessions that may be opened
    NoSession,
    Writers         \* requests, and cascades, under way at the same time

ASSUME DadosAssumption ==
    /\ Validated \in Statuses /\ FirstStatus \in Statuses /\ Validated # FirstStatus
    /\ NoSession \notin Sessions /\ NoStatus \notin Statuses

VARIABLES
    dados,          \* DTask.dados: v3.state and telemetry.manualTimers
    idStatus,       \* DTask.idStatus, by the state that its row stands for
    writer,         \* the writers, with the copy of dados each has read
    raced,          \* auxiliary: two writers were under way at the same time
    replaced,       \* auxiliary: an edit replaced the state or the sessions
    apart           \* auxiliary: the last write of the state wrote another column

dadosVars == <<dados, idStatus, writer, raced, replaced, apart>>

\* A session is open until it has an endedAt.
Rows    == [state: Statuses, open: SUBSET Sessions, closed: SUBSET Sessions]
NewRow  == [state |-> FirstStatus, open |-> {}, closed |-> {}]
Columns == Statuses \cup {NoStatus}
Writes  == [op: {"idle", "status", "cascade", "start", "close", "update", "replace"},
            to: Statuses, column: Columns, session: Sessions \cup {NoSession}, copy: Rows]
NoWrite == [op |-> "idle", to |-> FirstStatus, column |-> NoStatus, session |-> NoSession,
            copy |-> NewRow]
StateWrites == {"status", "cascade"}

DadosTypeOK ==
    /\ dados \in Rows
    /\ idStatus \in Columns
    /\ writer \in [Writers -> Writes]
    /\ {raced, replaced, apart} \subseteq BOOLEAN

\* A task begins in INBOX; its column is that of INBOX when the project has the row, but a
\* subtask gets the column of its parent.
DadosInit ==
    /\ dados = NewRow
    /\ idStatus \in Columns
    /\ writer = [w \in Writers |-> NoWrite]
    /\ raced = FALSE /\ replaced = FALSE
    /\ apart = (idStatus # FirstStatus)

-----------------------------------------------------------------------------

Reads(w, op, to, column, s) ==
    /\ writer[w].op = "idle"
    /\ writer' = [writer EXCEPT ![w] =
                    [op |-> op, to |-> to, column |-> column, session |-> s, copy |-> dados]]
    /\ raced' = (raced \/ \E o \in Writers \ {w} : writer[o].op # "idle")
    /\ UNCHANGED <<dados, idStatus, replaced, apart>>

\* validTransitions: from any state to any other, except out of VALIDATED.
Allowed(from, to) == from # Validated /\ from # to

\* updateStatus looks for the row of the new state in the project; without one it will
\* write the column it read.
StatusRead(w) ==
    \E to \in Statuses : \E column \in {to, idStatus} :
        Allowed(dados.state, to) /\ Reads(w, "status", to, column, NoSession)

\* The findMany of cascadeStatusToDescendants: the parent moved; no state machine here.
\* The column is the one written for the parent, which may be an older one, or none.
CascadeRead(w) ==
    \E to \in Statuses, column \in Columns : Reads(w, "cascade", to, column, NoSession)

\* TaskTimerService.start: nobody's session is open.  The slip lets each user have one.
NotMine(row, s) == s \notin row.open
NoneOpen(row, s) == row.open = {}

\* A session is drawn with its user and its hour: none that was drawn before.
Fresh(s) ==
    /\ s \notin dados.open \cup dados.closed
    /\ \A w \in Writers : s \notin writer[w].copy.open \cup writer[w].copy.closed
    /\ \A w \in Writers : writer[w].session # s

StartRead(w) ==
    \E s \in Sessions :
        Fresh(s) /\ NoneOpen(dados, s) /\ Reads(w, "start", FirstStatus, NoStatus, s)

CloseRead(w) == \E s \in dados.open : Reads(w, "close", FirstStatus, NoStatus, s)

\* TasksService.update changes other keys, or its dto.dados has v3 or telemetry, which
\* replace those of the copy.
UpdateRead(w) ==
    \E op \in {"update", "replace"} : Reads(w, op, FirstStatus, NoStatus, NoSession)

\* What each writer makes of its copy: one row, except that an edit that replaces state or
\* sessions may make any row of it.
StatusWritten(row, to) == [row EXCEPT !.state = to]
Rewritten(q) ==
    CASE q.op \in StateWrites -> StatusWritten(q.copy, q.to)
      [] q.op = "start" -> [q.copy EXCEPT !.open = @ \cup {q.session}]
      [] q.op = "close" -> [q.copy EXCEPT !.open = @ \ {q.session},
                                          !.closed = @ \cup {q.session}]
      [] OTHER -> q.copy

\* A cascade leaves the column alone when it was given none; updateStatus writes null.
ColumnWritten(q) ==
    IF q.op = "status" \/ (q.op = "cascade" /\ q.column # NoStatus) THEN q.column
    ELSE idStatus

WriteBack(w) ==
    LET q == writer[w] IN
    /\ q.op # "idle"
    /\ dados' \in IF q.op = "replace" THEN Rows ELSE {Rewritten(q)}
    /\ idStatus' = ColumnWritten(q)
    /\ writer' = [writer EXCEPT ![w] = NoWrite]
    /\ replaced' = (replaced \/ q.op = "replace")
    /\ apart' = IF q.op \in StateWrites THEN q.column # q.to
                ELSE (apart \/ q.op = "replace")
    /\ UNCHANGED raced

\* The task was deleted, or a lookup failed: nothing is written.
GivesUp(w) ==
    /\ writer[w].op # "idle"
    /\ writer' = [writer EXCEPT ![w] = NoWrite]
    /\ UNCHANGED <<dados, idStatus, raced, replaced, apart>>

DadosNext ==
    \E w \in Writers :
        \/ StatusRead(w) \/ CascadeRead(w) \/ UpdateRead(w)
        \/ StartRead(w) \/ CloseRead(w)
        \/ WriteBack(w) \/ GivesUp(w)

DadosSpec == DadosInit /\ [][DadosNext]_dadosVars

-----------------------------------------------------------------------------
(* Correctness.                                                            *)

\* As long as no two writers were under way at the same time, nothing contradicts the
\* last write of the state: the column and the JSON agree, unless that write found no
\* row for its state, was the creation of a subtask, or was an edit of the JSON alone.
\* And if no edit replaced them, no session is lost or opened again, and VALIDATED is
\* left only by a cascade.
NothingLostAlone ==
    /\ ~raced' /\ ~apart' => dados'.state = idStatus'
    /\ ~raced' /\ ~replaced' =>
        /\ dados.open \subseteq dados'.open \cup dados'.closed
        /\ dados.closed \subseteq dados'.closed
        /\ dados.state = Validated /\ dados'.state # Validated =>
              \E w \in Writers : writer[w].op = "cascade"

\* However stale the copies that are written back, no step leaves a task with two open
\* timer sessions, unless an edit replaced the telemetry: every copy has at most one, and
\* start opens one only in a copy without.  And nothing is lost while the writers take
\* turns (task-timer.service.ts, tasks.service.ts: five writers of one row).
DadosSound ==
    [][/\ ~replaced' => \A s, t \in dados'.open : s = t
       /\ NothingLostAlone]_dadosVars
=============================================================================
