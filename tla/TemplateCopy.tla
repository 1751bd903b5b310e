---------------------------- MODULE TemplateCopy ----------------------------
(***************************************************************************)
(* Copying the phases and tasks of a list (ProjectsService.cloneTree):     *)
(* copyPhases reads the phases and inserts their copies, then copyTasks    *)
(* reads the tasks and inserts theirs.  Both go through their rows ordered *)
(* by parent and key and look the parent's copy up in a map; a parent that *)
(* was not copied yet is not found, and the copy becomes a root.           *)
(*                                                                         *)
(* The two reads are statements of one READ COMMITTED transaction: people  *)
(* work in the source list before, between and after them.                 *)
(***************************************************************************)
EXTENDS Naturals

CONSTANTS
    MaxNodes    \* bound on the phases and tasks ever created in the list

ASSUME CopyAssumption == MaxNodes \in Nat

VARIABLES
    node,       \* DTask of the source list, by chave
    born,       \* the last chave given
    copyAt,     \* where the copying is
    phasesRead, \* the live phases as copyPhases read them
    clone,      \* the copies, by the chave of their originals
    edited      \* auxiliary: what was done to the source

copyVars == <<node, born, copyAt, phasesRead, clone, edited>>

Keys == 1..MaxNodes
\* idPai and dados.idBloco; 0 is null.
Nodes   == [class: {"phase", "task"}, idPai: 0..MaxNodes, idBloco: 0..MaxNodes,
            state: {"unborn", "live", "deleted"}]
Unborn  == [class |-> "task", idPai |-> 0, idBloco |-> 0, state |-> "unborn"]
\* idPai and idBloco name the originals of the copies they point to.
Clones  == [there: BOOLEAN, idPai: 0..MaxNodes, idBloco: 0..MaxNodes]
NoClone == [there |-> FALSE, idPai |-> 0, idBloco |-> 0]

\* A node was moved below a younger one; something changed between the two reads.
Edits == {"below younger", "between"}

CopyTypeOK ==
    /\ node \in [Keys -> Nodes]
    /\ born \in 0..MaxNodes
    /\ copyAt \in {"before", "between", "done"}
    /\ phasesRead \subseteq Keys
    /\ clone \in [Keys -> Clones]
    /\ edited \subseteq Edits

CopyInit ==
    /\ node = [k \in Keys |-> Unborn]
    /\ born = 0
    /\ copyAt = "before"
    /\ phasesRead = {}
    /\ clone = [k \in Keys |-> NoClone]
    /\ edited = {}

-----------------------------------------------------------------------------

LiveNodes(class) == {k \in Keys : node[k].state = "live" /\ node[k].class = class}

Edit(what) ==
    /\ copyAt # "done"
    /\ edited' = edited \cup what \cup {e \in {"between"} : copyAt = "between"}
    /\ UNCHANGED <<copyAt, phasesRead, clone>>

\* TasksService.create: a phase below a phase, a task below a task (idPai is for
\* subtasks) and in a block.
CreateNode ==
    \E class \in {"phase", "task"}, b \in LiveNodes("phase") \cup {0} :
    \E p \in LiveNodes(class) \cup {0} :
        /\ born < MaxNodes
        /\ class = "phase" => b = 0
        /\ born' = born + 1
        /\ node' = [node EXCEPT ![born + 1] = [class |-> class, idPai |-> p, idBloco |-> b,
                                               state |-> "live"]]
        /\ Edit({})

AncestorOf(k) ==
    LET up[n \in 0..MaxNodes] ==
            IF n = 0 THEN {node[k].idPai} ELSE up[n - 1] \cup {node[j].idPai : j \in up[n - 1] \ {0}}
    IN up[MaxNodes]

\* TasksService.update: another parent that is not below the node.
MoveNode ==
    \E k \in Keys : \E p \in LiveNodes(node[k].class) \cup {0} :
        /\ node[k].state = "live" /\ p # k /\ p # node[k].idPai
        /\ p # 0 => k \notin AncestorOf(p)
        /\ node' = [node EXCEPT ![k].idPai = p]
        /\ UNCHANGED born
        /\ Edit({e \in {"below younger"} : p > k})

\* A deletion that keeps what is below: the cascade takes that along.
DeleteNode ==
    \E k \in Keys :
        /\ node[k].state = "live"
        /\ node' = [node EXCEPT ![k].state = "deleted"]
        /\ UNCHANGED born
        /\ Edit({})

-----------------------------------------------------------------------------

\* ORDER BY idPai NULLS FIRST, chave.  The slip is the default of PostgreSQL, NULLS LAST.
NullsLast(j, k) ==
    LET rank(i) == IF node[i].idPai = 0 THEN MaxNodes + 1 ELSE node[i].idPai IN
    rank(j) < rank(k) \/ (rank(j) = rank(k) /\ j < k)
ComesBefore(j, k) ==
    node[j].idPai < node[k].idPai \/ (node[j].idPai = node[k].idPai /\ j < k)

\* phaseIdMap and taskIdMap: the parent's copy, when it was inserted before.
ParentCopy(k, S) ==
    IF node[k].idPai \in S /\ ComesBefore(node[k].idPai, k) THEN node[k].idPai ELSE 0

CopyPhases ==
    /\ copyAt = "before"
    /\ copyAt' = "between"
    /\ phasesRead' = LiveNodes("phase")
    /\ clone' = [k \in Keys |-> IF k \in LiveNodes("phase")
                                THEN [there |-> TRUE, idPai |-> ParentCopy(k, LiveNodes("phase")),
                                      idBloco |-> 0]
                                ELSE NoClone]
    /\ UNCHANGED <<node, born, edited>>

\* resetTaskDados: a block that is not in the map becomes null.
BlockCopy(k) == IF node[k].idBloco \in phasesRead THEN node[k].idBloco ELSE 0

CopyTasks ==
    /\ copyAt = "between"
    /\ copyAt' = "done"
    /\ clone' = [k \in Keys |-> IF k \in LiveNodes("task")
                                THEN [there |-> TRUE, idPai |-> ParentCopy(k, LiveNodes("task")),
                                      idBloco |-> BlockCopy(k)]
                                ELSE clone[k]]
    /\ UNCHANGED <<node, born, phasesRead, edited>>

CopyNext == CreateNode \/ MoveNode \/ DeleteNode \/ CopyPhases \/ CopyTasks

CopySpec == CopyInit /\ [][CopyNext]_copyVars

-----------------------------------------------------------------------------
(* Correctness.                                                            *)

\* The source stays as it was read once the copy is done, so the two can be compared.
\* projects.service.ts:2282-2284: ordered by parent and key, the parent's copy is always
\* there.  So it is, and the copy has the shape of the source, as long as no node was
\* moved below a younger one; then a whole subtree may come out flat.
SameShape ==
    copyAt = "done" /\ edited = {} =>
        \A k \in Keys : node[k].state = "live" =>
            clone[k].idPai = (IF node[k].idPai # 0 /\ node[node[k].idPai].state = "live"
                              THEN node[k].idPai ELSE 0)

\* A copied task lies in the copy of its block, unless the block is gone or the source
\* changed between the two reads.
SameBlock ==
    copyAt = "done" /\ "between" \notin edited =>
        \A k \in LiveNodes("task") :
            clone[k].idBloco = (IF node[k].idBloco \in LiveNodes("phase") THEN node[k].idBloco ELSE 0)

\* Whatever is done to the source, the copy is closed and without cycles: a copy points
\* to copies only, and to one inserted before it.
CopyClosed ==
    /\ \A k \in Keys : clone[k].idPai # 0 => clone[k].there /\ clone[clone[k].idPai].there
    /\ \A k \in Keys : clone[k].idBloco # 0 => clone[clone[k].idBloco].there
    /\ \A S \in SUBSET {k \in Keys : clone[k].there} :
          S # {} => \E k \in S : clone[k].idPai \notin S

CopySound == SameShape /\ SameBlock /\ CopyClosed
=============================================================================
