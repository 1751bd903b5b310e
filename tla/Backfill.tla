------------------------------ MODULE Backfill ------------------------------
(***************************************************************************)
(* The scripts that move the rows of old projects from DProject.chave P to *)
(* the mirror E of the project, a DEntidade of class -158 (prisma/scripts, *)
(* backfill-project-ref-entidades and -dtabelas).                          *)
(*                                                                         *)
(* Keys of DProject and of DEntidade come from two sequences, so one       *)
(* number may be both a project and an entity; and as both columns are     *)
(* foreign keys to DEntidade, a row about P exists only where it is both.  *)
(*                                                                         *)
(* A run visits every project it read at the start, then every row it read *)
(* after that.  The application, the other script, and the older scripts   *)
(* that still write P go on meanwhile, though nobody deletes a project or  *)
(* a row; projects are created and duplicated, and a duplicate begins with *)
(* the pointer of its original.  A run may die anywhere and be started     *)
(* again.                                                                  *)
(***************************************************************************)
EXTENDS Naturals, FiniteSets

CONSTANTS
    Olds,           \* DProject.chave of the projects, numbers like the keys of DEntidade
    MaxKey,         \* bound on the sequence of DEntidade
    NoEntity,
    ScopeRows,           \* rows of DTabela and DVincula that may be written
    FamilyOf,       \* the table of a row: [Rows -> {"tabela", "vinculo"}]
    NoRow,
    Scripts         \* the scripts, one for each table

ASSUME BackfillAssumption ==
    /\ MaxKey \in Nat /\ Olds \subseteq 1..MaxKey
    /\ NoEntity \notin 1..MaxKey /\ NoRow \notin ScopeRows \cup Scripts
    /\ Scripts \subseteq {"tabela", "vinculo"} /\ FamilyOf \in [ScopeRows -> Scripts]

VARIABLES
    born,           \* the projects there are or were
    live,           \* the projects not excluido
    seq,            \* the last key of DEntidade
    entity,         \* what is under a key of DEntidade
    mirrorOf,       \* dados.projectId of a mirror
    ptr,            \* dados.entidadeRefId of a project
    value,          \* dEntidadeId, idLocEscritu or idEntidade of a row
    of,             \* auxiliary: the project the row was written for
    script,         \* the runs of the scripts
    app,            \* a request that needs the mirror of a project
    outrun,         \* auxiliary: projects given a mirror on a pointer no longer true
    source          \* auxiliary: the project whose mirror a project began with

backfillVars == <<born, live, seq, entity, mirrorOf, ptr, value, of, script, app, outrun, source>>

EntityKeys == 1..MaxKey

\* What the run has still to visit, the pointers and the values it read, espelhoPorProjeto,
\* and the rows its report names.  alone is auxiliary: nobody else wrote meanwhile.
ScriptRuns == [pc: {"idle", "projects", "create", "rows", "write"},
               apply: BOOLEAN, alone: BOOLEAN,
               projects: SUBSET Olds, read: [Olds -> EntityKeys \cup {NoEntity}],
               mirror: [Olds -> EntityKeys \cup {NoEntity}],
               rows: SUBSET ScopeRows, seen: [ScopeRows -> EntityKeys \cup {NoEntity}],
               row: ScopeRows \cup {NoRow}, told: SUBSET ScopeRows]
NoRun == [pc |-> "idle", apply |-> FALSE, alone |-> TRUE, projects |-> {},
          read |-> [p \in Olds |-> NoEntity], mirror |-> [p \in Olds |-> NoEntity], rows |-> {},
          seen |-> [w \in ScopeRows |-> NoEntity], row |-> NoRow, told |-> {}]
NoApp == [p |-> NoEntity, read |-> NoEntity]

BackfillTypeOK ==
    /\ born \subseteq Olds /\ live \subseteq born
    /\ seq \in 0..MaxKey
    /\ entity \in [EntityKeys -> {"none", "other", "mirror", "deleted"}]
    /\ mirrorOf \in [EntityKeys -> Olds \cup {NoEntity}]
    /\ ptr \in [Olds -> EntityKeys \cup {NoEntity}]
    /\ value \in [ScopeRows -> EntityKeys \cup {NoEntity}]
    /\ of \in [ScopeRows -> Olds \cup {NoEntity}]
    /\ script \in [Scripts -> ScriptRuns]
    /\ app \in [p: Olds \cup {NoEntity}, read: EntityKeys \cup {NoEntity}]
    /\ outrun \subseteq Olds
    /\ source \in [Olds -> Olds]

\* Before the first mirror: some entities, some projects deleted since.
BackfillInit ==
    \E k \in Olds \cup {0}, n \in Olds, D \in SUBSET Olds :
        /\ born = {p \in Olds : p <= n} /\ live = born \ D /\ live # {}
        /\ seq = k
        /\ entity = [e \in EntityKeys |-> IF e <= k THEN "other" ELSE "none"]
        /\ mirrorOf = [e \in EntityKeys |-> NoEntity]
        /\ ptr = [p \in Olds |-> NoEntity]
        /\ value = [w \in ScopeRows |-> NoEntity]
        /\ of = [w \in ScopeRows |-> NoEntity]
        /\ script = [s \in Scripts |-> NoRun]
        /\ app = NoApp
        /\ outrun = {}
        /\ source = [p \in Olds |-> p]

-----------------------------------------------------------------------------

Active == {s \in Scripts : script[s].pc # "idle"}

\* script after a step of s, which leaves s as q, or of somebody else (s = NoRow); the
\* other runs are no longer alone when it wrote.
After(s, q, wrote) ==
    [x \in Scripts |-> IF x = s THEN q
                       ELSE IF wrote /\ x \in Active THEN [script[x] EXCEPT !.alone = FALSE]
                       ELSE script[x]]

Becomes(s, q) == /\ script' = After(s, q, FALSE)
                 /\ UNCHANGED <<born, live, seq, entity, mirrorOf, ptr, value, of, app, outrun, source>>

\* A mirror for p, and the pointer to it: one transaction.
NewMirror(p, read) ==
    /\ seq < MaxKey
    /\ seq' = seq + 1
    /\ entity' = [entity EXCEPT ![seq + 1] = "mirror"]
    /\ mirrorOf' = [mirrorOf EXCEPT ![seq + 1] = p]
    /\ ptr' = [ptr EXCEPT ![p] = seq + 1]
    /\ outrun' = IF ptr[p] # read THEN outrun \cup {p} ELSE outrun

MirrorAlive(e) == e # NoEntity /\ entity[e] = "mirror"

(* Phase A. *)

\* main: without --apply nothing will be written.
StartRun(s) ==
    /\ script[s].pc = "idle"
    /\ \E a \in BOOLEAN :
          Becomes(s, [NoRun EXCEPT !.pc = "projects", !.apply = a, !.projects = live,
                                   !.read = [p \in Olds |-> IF p \in live THEN ptr[p] ELSE NoEntity]])

\* In the order of their keys.
NextProject(S) == CHOOSE p \in S : \A q \in S : p <= q

\* ensureEspelho: the mirror the pointer names is alive, or one is to be made.
VisitProject(s) ==
    LET q == script[s]  p == NextProject(q.projects)  rest == q.projects \ {p} IN
    /\ q.pc = "projects" /\ q.projects # {}
    /\ IF MirrorAlive(q.read[p])
       THEN Becomes(s, [q EXCEPT !.projects = rest, !.mirror[p] = q.read[p]])
       ELSE Becomes(s, IF q.apply THEN [q EXCEPT !.pc = "create"] ELSE [q EXCEPT !.projects = rest])

CreateMirror(s) ==
    LET q == script[s]  p == NextProject(q.projects) IN
    /\ q.pc = "create"
    /\ NewMirror(p, q.read[p])
    /\ script' = After(s, [q EXCEPT !.pc = "projects", !.projects = q.projects \ {p},
                                    !.mirror[p] = seq + 1], TRUE)
    /\ UNCHANGED <<born, live, value, of, app, source>>

\* The loop catches the error of one project and goes on.
CreateFails(s) ==
    LET q == script[s] IN
    /\ q.pc = "create"
    /\ Becomes(s, [q EXCEPT !.pc = "projects", !.projects = q.projects \ {NextProject(q.projects)}])

(* Phase B.  The script for DVincula goes twice over it, once for either column. *)

ReadRows(s) ==
    LET q == script[s]
        found == {w \in ScopeRows : FamilyOf[w] = s /\ value[w] # NoEntity} IN
    /\ q.pc = "projects" /\ q.projects = {}
    /\ Becomes(s, [q EXCEPT !.pc = "rows", !.rows = found,
                            !.seen = [w \in ScopeRows |->
                                        IF w \in found THEN value[w] ELSE NoEntity]])

\* classifyValue.  The slip asks for the project first, the code for the mirror.
KindProjectFirst(v) ==
    IF v \in live THEN (IF entity[v] = "other" THEN "ambiguo" ELSE "projeto")
    ELSE IF entity[v] = "mirror" THEN "canonico"
    ELSE IF entity[v] = "other" THEN "entidade"
    ELSE "desconhecido"

Kind(v) ==
    CASE entity[v] = "mirror"                 -> "canonico"
      [] entity[v] = "other" /\ v \in live    -> "ambiguo"
      [] entity[v] \notin {"mirror", "other"} /\ v \in live -> "projeto"
      [] entity[v] = "other" /\ v \notin live -> "entidade"
      [] OTHER                                -> "desconhecido"

\* A row of DVincula about another entity passes for a legitimate one; in DTabela it is
\* reported.
Reported(s, v) == \/ Kind(v) \in {"ambiguo", "desconhecido"}
                  \/ Kind(v) = "entidade" /\ s = "tabela"

VisitRow(s) ==
    LET q == script[s] IN
    /\ q.pc = "rows"
    /\ \E w \in q.rows :
          LET v == q.seen[w]
              visited == [q EXCEPT !.rows = q.rows \ {w}] IN
          Becomes(s, IF Reported(s, v) \/ (Kind(v) = "projeto" /\ q.apply /\ q.mirror[v] = NoEntity)
                     THEN [visited EXCEPT !.told = q.told \cup {w}]
                     ELSE IF Kind(v) = "projeto" /\ q.apply
                     THEN [visited EXCEPT !.pc = "write", !.row = w]
                     ELSE visited)

\* One row that cannot be classified is reported as an error.
VisitFails(s) ==
    LET q == script[s] IN
    /\ q.pc = "rows"
    /\ \E w \in q.rows : Becomes(s, [q EXCEPT !.rows = q.rows \ {w}, !.told = q.told \cup {w}])

\* The update is by the key of the row, whatever stands in it now.
RepairRow(s) ==
    LET q == script[s] IN
    /\ q.pc = "write"
    /\ value' = [value EXCEPT ![q.row] = q.mirror[q.seen[q.row]]]
    /\ script' = After(s, [q EXCEPT !.pc = "rows", !.row = NoRow], TRUE)
    /\ UNCHANGED <<born, live, seq, entity, mirrorOf, ptr, of, app, outrun, source>>

RepairFails(s) ==
    LET q == script[s] IN
    /\ q.pc = "write"
    /\ Becomes(s, [q EXCEPT !.pc = "rows", !.row = NoRow, !.told = q.told \cup {q.row}])

FinishRun(s) ==
    /\ script[s].pc = "rows" /\ script[s].rows = {}
    /\ Becomes(s, NoRun)

RunDies(s) == s \in Active /\ Becomes(s, NoRun)

(* Everybody else. *)

Elsewhere == script' = After(NoRow, NoRun, TRUE)

\* The rows W about p are written with e.
RowsAbout(W, p, e) ==
    /\ \A w \in W : value[w] = NoEntity
    /\ value' = [w \in ScopeRows |-> IF w \in W THEN e ELSE value[w]]
    /\ of' = [w \in ScopeRows |-> IF w \in W THEN p ELSE of[w]]

\* ProjectRefService.ensureEntidadeRefById, or the SELECT of cloneTree: dados are read, ...
AppReads ==
    /\ app = NoApp
    /\ \E p \in live : app' = [p |-> p, read |-> ptr[p]]
    /\ UNCHANGED <<born, live, seq, entity, mirrorOf, ptr, value, of, script, outrun, source>>

\* ... the mirror is found alive, or in the cache whatever became of it, or is made; and
\* rows about it are written, or fail.
AppWrites ==
    /\ app # NoApp
    /\ \/ /\ app.read # NoEntity
          /\ \E W \in SUBSET ScopeRows : RowsAbout(W, app.p, app.read)
          /\ UNCHANGED <<seq, entity, mirrorOf, ptr, outrun>>
       \/ /\ ~MirrorAlive(app.read)
          /\ NewMirror(app.p, app.read)
          /\ \E W \in SUBSET ScopeRows : RowsAbout(W, app.p, seq + 1)
    /\ app' = NoApp
    /\ Elsewhere
    /\ UNCHANGED <<born, live, source>>

\* A project with the key n, and with read in its dados: the mirror that it names is taken
\* if alive, whoever it is of; or one is made; its MANAGER and its statuses are rows.
NewProject(n, read) ==
    /\ n \notin born /\ \A p \in born : p < n
    /\ born' = born \cup {n} /\ live' = live \cup {n}
    /\ \/ /\ MirrorAlive(read)
          /\ ptr' = [ptr EXCEPT ![n] = read]
          /\ source' = [source EXCEPT ![n] = mirrorOf[read]]
          /\ \E W \in SUBSET ScopeRows : RowsAbout(W, n, read)
          /\ UNCHANGED <<seq, entity, mirrorOf, outrun>>
       \/ /\ ~MirrorAlive(read)
          /\ NewMirror(n, NoEntity)
          /\ \E W \in SUBSET ScopeRows : RowsAbout(W, n, seq + 1)
          /\ UNCHANGED source
    /\ Elsewhere

\* ProjectsService.create.
Create == \E n \in Olds : NewProject(n, NoEntity) /\ UNCHANGED app

\* cloneTree: the copy of dados has the pointer of the original, as it was read.
Duplicate == /\ app # NoApp
             /\ \E n \in Olds : NewProject(n, app.read)
             /\ app' = NoApp

\* A row about P passes the foreign key where some entity has, or had, that key.
WrittenAbout(p, family) ==
    /\ p \in born /\ entity[p] # "none"
    /\ \E w \in ScopeRows : FamilyOf[w] = family /\ RowsAbout({w}, p, p)
    /\ Elsewhere
    /\ UNCHANGED <<born, live, seq, entity, mirrorOf, ptr, app, outrun, source>>

\* backfill-priority-tabelas, or the code before the mirrors.
LegacyTabela == \E p \in Olds : WrittenAbout(p, "tabela")

\* backfill-default-folders, or the code before the mirrors.
LegacyVinculo == \E p \in Olds : WrittenAbout(p, "vinculo")

\* Users, teams, folders, agents.
OtherEntity ==
    /\ seq < MaxKey
    /\ seq' = seq + 1
    /\ entity' = [entity EXCEPT ![seq + 1] = "other"]
    /\ Elsewhere
    /\ UNCHANGED <<born, live, mirrorOf, ptr, value, of, app, outrun, source>>

\* EntidadesService.softDelete takes an entity of any class, a mirror too.
EntityDeleted ==
    /\ \E e \in EntityKeys : /\ entity[e] \in {"other", "mirror"}
                       /\ entity' = [entity EXCEPT ![e] = "deleted"]
    /\ Elsewhere
    /\ UNCHANGED <<born, live, seq, mirrorOf, ptr, value, of, app, outrun, source>>

BackfillNext ==
    \/ \E s \in Scripts :
          \/ StartRun(s) \/ VisitProject(s) \/ CreateMirror(s) \/ CreateFails(s)
          \/ ReadRows(s) \/ VisitRow(s) \/ VisitFails(s) \/ RepairRow(s) \/ RepairFails(s)
          \/ FinishRun(s) \/ RunDies(s)
    \/ AppReads \/ AppWrites \/ Create \/ Duplicate \/ LegacyTabela \/ LegacyVinculo
    \/ OtherEntity \/ EntityDeleted

BackfillSpec == BackfillInit /\ [][BackfillNext]_backfillVars

-----------------------------------------------------------------------------
(* Correctness.                                                            *)

\* A mirror that was deleted leaves rows under a number that says nothing of a mirror any
\* more: where a live project has that number, the row is taken for one of its own.
Forgotten(w) == value[w] # of[w] /\ entity[value[w]] = "deleted"

\* A run moves a row to a mirror of its own project, or, if the project is a duplicate, to
\* the mirror of the project it was duplicated from; never to that of a third.
MovedHome(w) == value[w] # NoEntity /\ value'[w] # value[w] =>
                    mirrorOf[value'[w]] \in {of[w], source[of[w]]} \/ Forgotten(w)

\* Two mirrors of a project are alive only if somebody acted on a pointer no longer true.
OneMirror(p) == \/ Cardinality({e \in EntityKeys : entity[e] = "mirror" /\ mirrorOf[e] = p}) <= 1
                \/ p \in outrun

\* When a run with --apply that nobody disturbed ends, each row of its table is about
\* what its project's pointer names, or in the report; but for rows of deleted projects,
\* of projects given a mirror on a pointer no longer true, and rows on the mirror of
\* another project, which pass for canonical: those of a duplicate, and those about P where
\* P is also the key of such a mirror.
Accounted(s, w) ==
    \/ w \in script[s].told
    \/ value[w] = ptr[of[w]]
    \/ of[w] \notin live \ outrun
    \/ mirrorOf[value[w]] \notin {of[w], NoEntity}

\* What the two scripts promise of the rows they pass (both files, lines 34 to 52).
BackfillSound ==
    [][/\ \A w \in ScopeRows : MovedHome(w)
       /\ \A p \in Olds : OneMirror(p)'
       /\ \A s \in Scripts :
             FinishRun(s) /\ script[s].apply /\ script[s].alone =>
                 \A w \in ScopeRows :
                     FamilyOf[w] = s /\ value[w] # NoEntity => Accounted(s, w)]_backfillVars
=============================================================================
