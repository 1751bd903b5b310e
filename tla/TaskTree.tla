------------------------------ MODULE TaskTree ------------------------------
(***************************************************************************)
(* The tree of a project's phases and tasks (DTask.idPai): creation under  *)
(* a parent, moves and soft deletion, by requests that run at the same     *)
(* time.                                                                   *)
(*                                                                         *)
(* PhaseHierarchyService.validateNoCycle climbs from the new parent to the *)
(* root, one SELECT for each ancestor, and the parent is written later     *)
(* without a lock or a condition.                                          *)
(***************************************************************************)
EXTENDS Naturals, FiniteSets

CONSTANTS
    Tasks,          \* the tasks and phases that may be created
    Phases,         \* those of class -200
    Projects,
    NoTask,         \* idPai = null
    NoProject,      \* of a task that does not exist
    TreeRequests,   \* HTTP requests served at the same time
    MaxDepth        \* MAX_DEPTH, and the depth of the recursive queries (20)

ASSUME TreeAssumption ==
    /\ Phases \subseteq Tasks
    /\ NoTask \notin Tasks
    /\ NoProject \notin Projects
    /\ MaxDepth \in Nat \ {0}

VARIABLES
    life,           \* whether a task exists, and DTask.excluido
    idPai,          \* DTask.idPai
    idProject,      \* DTask.idProject, which nothing changes
    req,            \* the requests in progress
    seen            \* auxiliary: what happened so far

treeVars == <<life, idPai, idProject, req, seen>>

Parents == Tasks \cup {NoTask}

\* A request for one task and its new parent.  at is the ancestor validateNoCycle
\* reads next, depth its counter.
TreeReqs == [op: {"none", "create", "move", "delete"},
             pc: {"idle", "climb", "project", "write", "cascade", "unlink"},
             task: Parents, project: Projects \cup {NoProject},
             to: Parents, at: Parents,
             depth: 0..MaxDepth]
NoReq == [op |-> "none", pc |-> "idle", task |-> NoTask, project |-> NoProject,
          to |-> NoTask, at |-> NoTask, depth |-> 0]

\* Two requests at the same time, two moves at the same time, a deletion that keeps
\* the children, a move of a task that has children.
Marks == {"overlap", "moves", "unlinked", "subtree"}

TreeTypeOK ==
    /\ life \in [Tasks -> {"unborn", "live", "deleted"}]
    /\ idPai \in [Tasks -> Parents]
    /\ idProject \in [Tasks -> Projects \cup {NoProject}]
    /\ req \in [TreeRequests -> TreeReqs]
    /\ seen \subseteq Marks

TreeInit ==
    /\ life = [t \in Tasks |-> "unborn"]
    /\ idPai = [t \in Tasks |-> NoTask]
    /\ idProject = [t \in Tasks |-> NoProject]
    /\ req = [r \in TreeRequests |-> NoReq]
    /\ seen = {}

-----------------------------------------------------------------------------

Busy(op) == {r \in TreeRequests : req[r].op \in op}

\* A request enters with its first read, for task t of project j and parent p.
Enters(r, op, pc, t, j, p) ==
    /\ req[r].pc = "idle"
    /\ req' = [req EXCEPT ![r] = [op |-> op, pc |-> pc, task |-> t, project |-> j,
                                  to |-> p, at |-> p, depth |-> 0]]
    /\ seen' = seen \cup {m \in {"overlap"} : Busy({"create", "move", "delete"}) # {}}
                    \cup {m \in {"moves"} : op = "move" /\ Busy({"move"}) # {}}
    /\ UNCHANGED <<life, idPai, idProject>>

Ends(r) == req' = [req EXCEPT ![r] = NoReq]

\* TasksService.create: the parent lives in the same project, and a phase has a phase
\* for a parent.  The slip does not look at the parent's project.
AnyLiveParent(t, j, p) == life[p] = "live" /\ (t \in Phases => p \in Phases)
ParentAllowed(t, j, p) ==
    /\ life[p] = "live"
    /\ idProject[p] = j
    /\ t \in Phases => p \in Phases

CreateBegin(r) ==
    \E t \in Tasks, j \in Projects :
        /\ life[t] = "unborn"
        /\ \A o \in Busy({"create"}) : req[o].task # t
        /\ \/ Enters(r, "create", "write", t, j, NoTask)
           \/ \E p \in Tasks : /\ ParentAllowed(t, j, p)
                               /\ Enters(r, "create", "climb", t, j, p)

\* TasksService.update with idPai: no look at the parent's class.
MoveBegin(r) ==
    \E t \in Tasks :
        /\ life[t] = "live"
        /\ \/ Enters(r, "move", "write", t, idProject[t], NoTask)
           \/ \E p \in Tasks \ {t} : Enters(r, "move", "climb", t, idProject[t], p)

\* One turn of the loop of validateNoCycle.  The slip only looks for the task among
\* the direct parents.
NotTheParent(q) == q.depth = 0 => q.at # q.task
NoCycleHere(q)  == q.at # q.task

\* The counter after this ancestor, and whether it is still allowed.  The slip is an
\* off-by-one: it compares before it counts.
CountsLate(d)  == d <= MaxDepth
DepthAllowed(d) == d + 1 <= MaxDepth

Climb(r) ==
    LET q == req[r] IN
    /\ q.pc = "climb"
    /\ IF NoCycleHere(q) /\ life[q.at] = "live" /\ DepthAllowed(q.depth)
       THEN req' = [req EXCEPT ![r] =
                      [q EXCEPT !.at = idPai[q.at],
                                !.depth = q.depth + 1,
                                !.pc = IF idPai[q.at] # NoTask THEN "climb"
                                       ELSE IF q.op = "move" THEN "project"
                                       ELSE "write"]]
       ELSE Ends(r)
    /\ UNCHANGED <<life, idPai, idProject, seen>>

\* validateProjectConsistency.
SameProjectRequired(t, p) == idProject[t] = idProject[p]

CheckProject(r) ==
    /\ req[r].pc = "project"
    /\ IF SameProjectRequired(req[r].task, req[r].to)
       THEN req' = [req EXCEPT ![r].pc = "write"]
       ELSE Ends(r)
    /\ UNCHANGED <<life, idPai, idProject, seen>>

CreateWrite(r) ==
    LET t == req[r].task IN
    /\ req[r].op = "create" /\ req[r].pc = "write"
    /\ life' = [life EXCEPT ![t] = "live"]
    /\ idPai' = [idPai EXCEPT ![t] = req[r].to]
    /\ idProject' = [idProject EXCEPT ![t] = req[r].project]
    /\ Ends(r)
    /\ UNCHANGED seen

\* The UPDATE names the row only: the task, or its new parent, may have been deleted,
\* and the parent may have moved, since they were read.
MoveWrite(r) ==
    LET t == req[r].task IN
    /\ req[r].op = "move" /\ req[r].pc = "write"
    /\ idPai' = [idPai EXCEPT ![t] = req[r].to]
    /\ Ends(r)
    /\ seen' = seen \cup {m \in {"subtree"} : \E c \in Tasks : idPai[c] = t}
    /\ UNCHANGED <<life, idProject>>

DeleteBegin(r) ==
    \E t \in Tasks, how \in {"cascade", "unlink"} :
        /\ life[t] = "live"
        /\ Enters(r, "delete", how, t, idProject[t], NoTask)

\* The rows the recursive query reaches: live ones, joined on idPai while the depth is
\* below MaxDepth.
LiveChildren(S) == {c \in Tasks : life[c] = "live" /\ idPai[c] \in S}
Descendants(t) ==
    LET rows[d \in 0..MaxDepth] ==
            IF d = 0 THEN {u \in {t} : life[u] = "live"}
            ELSE rows[d - 1] \cup LiveChildren(rows[d - 1])
    IN rows[MaxDepth]

\* softDeleteCascade is one statement.
SoftDeleteCascade(r) ==
    /\ req[r].pc = "cascade"
    /\ life' = [t \in Tasks |-> IF t \in Descendants(req[r].task) THEN "deleted"
                                 ELSE life[t]]
    /\ Ends(r)
    /\ UNCHANGED <<idPai, idProject, seen>>

\* cascade=false: the children keep their deleted parent.
Unlink(r) ==
    /\ req[r].pc = "unlink"
    /\ life' = [life EXCEPT ![req[r].task] = "deleted"]
    /\ Ends(r)
    /\ seen' = seen \cup {"unlinked"}
    /\ UNCHANGED <<idPai, idProject>>

TreeNext ==
    \E r \in TreeRequests :
        \/ CreateBegin(r) \/ MoveBegin(r) \/ DeleteBegin(r)
        \/ Climb(r) \/ CheckProject(r)
        \/ CreateWrite(r) \/ MoveWrite(r)
        \/ SoftDeleteCascade(r) \/ Unlink(r)

TreeSpec == TreeInit /\ [][TreeNext]_treeVars

-----------------------------------------------------------------------------
(* Correctness.                                                            *)

\* A set of tasks each of which has its parent in the set closes a cycle; a tree with
\* finitely many tasks is a forest when there is none.
ClosesACycle(S) == S # {} /\ \A t \in S : idPai[t] \in S
Forest == \A S \in SUBSET Tasks : ~ClosesACycle(S)

\* Although the check climbs one row at a time and the write comes later, creations,
\* deletions and one move at a time, in any interleaving, keep the tree a forest: it
\* takes two moves at once to close a cycle.
ForestUnlessMovesRace == "moves" \notin seen => Forest

\* A task is never below a task of another project, whatever runs at the same time.
SameProject == \A t \in Tasks : idPai[t] # NoTask => idProject[idPai[t]] = idProject[t]

\* tasks.service.ts:1502 says that the cascade closes the bug of living orphans: a
\* live task has a live parent, unless requests overlapped, the children were kept on
\* purpose, or a whole subtree was moved deeper than the cascade reaches.
OrphansExplained ==
    \A t \in Tasks :
        life[t] = "live" /\ idPai[t] # NoTask /\ life[idPai[t]] = "deleted"
            => seen \cap {"overlap", "unlinked", "subtree"} # {}

\* What the requests about parents keep of the tree of tasks (phase-hierarchy.service.ts).
TreeSound == ForestUnlessMovesRace /\ SameProject /\ OrphansExplained
=============================================================================
