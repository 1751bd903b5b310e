--------------------------- MODULE ProjectHandles ---------------------------
(***************************************************************************)
(* The handle of a project in DVincula.  A project P points to its mirror  *)
(* E, a DEntidade of class -158, in dados.entidadeRefId; members and       *)
(* folder links are rows about E.  A legacy project has no mirror, and its *)
(* rows are about P itself.                                                *)
(*                                                                         *)
(* ProjectRefService reads the handle through a cache of five minutes and, *)
(* for a write, makes a missing mirror.  Creation, duplication, update,    *)
(* deletion, new members and moves between folders go through it, each in  *)
(* several statements and served at the same time.                         *)
(***************************************************************************)
EXTENDS Naturals

CONSTANTS
    HandleProjects, \* DProject.chave of projects that may exist
    LegacyProjects, \* those that may be there from before the mirrors
    FolderIds,
    NoFolder,
    NoMirror,       \* no entidadeRefId
    MaxMirrors,     \* bound on the mirrors ever made
    HandleReqs      \* HTTP requests served at the same time

ASSUME HandleAssumption ==
    /\ LegacyProjects \subseteq HandleProjects
    /\ MaxMirrors \in Nat
    /\ NoMirror \notin Nat \cup HandleProjects
    /\ \A p \in HandleProjects : p \notin Nat    \* of which table a key is, is told apart
    /\ NoFolder \notin FolderIds

VARIABLES
    projectState,   \* whether a project exists, and DProject.excluido
    pointer,        \* dados.entidadeRefId
    cached,         \* forwardCache of ProjectRefService
    mirrors,        \* how many mirrors were made; no request here deletes one
    vinculos,       \* the live rows of DVincula: MANAGER links and folder links
    folders,        \* the folders not excluido
    asking,         \* the requests in progress
    astray          \* auxiliary: what befell each project

handleVars == <<projectState, pointer, cached, mirrors, vinculos, folders, asking, astray>>

Pointers == 1..MaxMirrors \cup {NoMirror}
Handles  == 1..MaxMirrors \cup HandleProjects

\* of is auxiliary: the project the row was written for.
Vinculos == [kind: {"manager", "member", "folder"}, handle: Handles,
             folder: FolderIds \cup {NoFolder}, of: HandleProjects]

\* A request about project p: what it read of dados, the handle it will use, and the
\* rows its UPDATE found.
Asking == [op: {"none", "update", "copy", "member", "move", "unmove", "delete", "rmdir"},
           pc: {"idle", "ensure", "mirror", "see", "write"},
           p: HandleProjects \cup {NoFolder}, to: FolderIds \cup {NoFolder},
           read: Pointers, handle: Handles \cup {NoMirror}, rows: SUBSET Vinculos]
NoAsking == [op |-> "none", pc |-> "idle", p |-> NoFolder, to |-> NoFolder,
               read |-> NoMirror, handle |-> NoMirror, rows |-> {}]

\* Copied from, or as, a project with a mirror; a mirror made although rows are about P;
\* two mirrors made at once; the pointer written over by an update; two moves between
\* folders at once; a row written for what was being deleted.
Mishaps == {"copied", "split", "twice", "forgotten", "moves", "late"}

HandlesTypeOK ==
    /\ projectState \in [HandleProjects -> {"unborn", "live", "deleted"}]
    /\ pointer \in [HandleProjects -> Pointers]
    /\ cached \in [HandleProjects -> Pointers]
    /\ mirrors \in 0..MaxMirrors
    /\ vinculos \subseteq Vinculos
    /\ folders \subseteq FolderIds
    /\ asking \in [HandleReqs -> Asking]
    /\ astray \in [HandleProjects -> SUBSET Mishaps]

Row(kind, h, f, p) == [kind |-> kind, handle |-> h, folder |-> f, of |-> p]

\* The rows of a legacy project, where there are any, are about P.
HandlesInit ==
    \E L \in SUBSET LegacyProjects : \E M \in SUBSET L, old \in [L -> FolderIds \cup {NoFolder}] :
        /\ projectState = [p \in HandleProjects |-> IF p \in L THEN "live" ELSE "unborn"]
        /\ vinculos = {Row("manager", p, NoFolder, p) : p \in M}
                      \cup {Row("folder", p, old[p], p) : p \in {q \in L : old[q] # NoFolder}}
        /\ pointer = [p \in HandleProjects |-> NoMirror]
        /\ cached = [p \in HandleProjects |-> NoMirror]
        /\ mirrors = 0
        /\ folders = FolderIds
        /\ asking = [r \in HandleReqs |-> NoAsking]
        /\ astray = [p \in HandleProjects |-> {}]

-----------------------------------------------------------------------------

RowsOf(h, kinds) == {v \in vinculos : v.handle = h /\ v.kind \in kinds}

Stray(p, what) == astray' = [astray EXCEPT ![p] = @ \cup what]

\* resolveEntidadeRef: the cache, the pointer, or P itself.
Handle(p) == IF cached[p] # NoMirror THEN cached[p]
             ELSE IF pointer[p] # NoMirror THEN pointer[p]
             ELSE p

Remembered(p) == IF cached[p] # NoMirror THEN cached ELSE [cached EXCEPT ![p] = pointer[p]]

InProgress(ops) == {r \in HandleReqs : asking[r].op \in ops}
EndAsking(r) == asking' = [asking EXCEPT ![r] = NoAsking]

\* A row for p with handle h in folder f comes too late when either is deleted, or when
\* a deletion has already looked for rows or resolved another handle.
TooLate(p, f, h) ==
    \/ projectState[p] # "live"
    \/ f # NoFolder /\ f \notin folders
    \/ \E r \in InProgress({"delete"}) :
           asking[r].p = p /\ (asking[r].pc = "write" \/ asking[r].handle # h)
    \/ \E r \in InProgress({"rmdir"}) : asking[r].pc = "write" /\ asking[r].to = f

\* ProjectsService.create: the project, its mirror and the MANAGER link in one
\* transaction.
CreateProject(p) ==
    /\ projectState[p] = "unborn" /\ mirrors < MaxMirrors
    /\ projectState' = [projectState EXCEPT ![p] = "live"]
    /\ mirrors' = mirrors + 1
    /\ pointer' = [pointer EXCEPT ![p] = mirrors + 1]
    /\ cached' = [cached EXCEPT ![p] = mirrors + 1]
    /\ vinculos' = vinculos \cup {Row("manager", mirrors + 1, NoFolder, p)}
    /\ UNCHANGED <<folders, asking, astray>>

\* The first statements of a request: the project is live, and so is the folder it goes
\* to.  An update, and a duplication, keep the dados they read.
BeginRequest(r) ==
    \E p \in HandleProjects, op \in {"update", "copy", "member", "move", "unmove", "delete"},
       f \in FolderIds \cup {NoFolder} :
        /\ asking[r].pc = "idle"
        /\ projectState[p] = "live" \/ op = "unmove"
        /\ projectState[p] # "unborn"
        /\ IF op \in {"move", "unmove"} THEN f \in folders ELSE f = NoFolder
        /\ cached' = Remembered(p)
        /\ asking' = [asking EXCEPT ![r] =
                        [op |-> op, p |-> p, to |-> f, rows |-> {},
                         pc |-> IF op \in {"update", "member", "move"} THEN "ensure"
                                ELSE IF op = "delete" THEN "see" ELSE "write",
                         read |-> IF op \in {"update", "copy"} THEN pointer[p] ELSE NoMirror,
                         handle |-> IF op \in {"delete", "unmove"} THEN Handle(p) ELSE NoMirror]]
        /\ UNCHANGED <<projectState, pointer, mirrors, vinculos, folders, astray>>

\* ensureEntidadeRefById: the cache, or a read of dados.
EnsureRead(r) ==
    LET q == asking[r] IN
    /\ q.pc = "ensure"
    /\ asking' = [asking EXCEPT ![r].pc = IF cached[q.p] # NoMirror
                                          THEN (IF q.op = "move" THEN "see" ELSE "write")
                                          ELSE "mirror",
                                ![r].handle = IF cached[q.p] # NoMirror THEN cached[q.p]
                                              ELSE pointer[q.p]]
    /\ UNCHANGED <<projectState, pointer, cached, mirrors, vinculos, folders, astray>>

\* ensureEntidadeRef, a transaction of its own: the mirror dados pointed to when they
\* were read, or a new one.
MirrorThere(e) == e # NoMirror
EnsureMirror(r) ==
    LET q == asking[r]
        e == IF MirrorThere(q.handle) THEN q.handle ELSE mirrors + 1 IN
    /\ q.pc = "mirror" /\ e <= MaxMirrors
    /\ asking' = [asking EXCEPT ![r].pc = IF q.op = "move" THEN "see" ELSE "write",
                                ![r].handle = e]
    /\ cached' = [cached EXCEPT ![q.p] = e]
    /\ IF MirrorThere(q.handle)
       THEN UNCHANGED <<pointer, mirrors, astray>>
       ELSE /\ mirrors' = e
            /\ pointer' = [pointer EXCEPT ![q.p] = e]
            /\ Stray(q.p, {m \in {"split"} : RowsOf(q.p, {"manager", "member", "folder"}) # {}}
                          \cup {m \in {"twice"} : q.handle = NoMirror /\ pointer[q.p] # NoMirror})
    /\ UNCHANGED <<projectState, vinculos, folders>>

\* ProjectsService.update writes back the dados it read before the mirror was made.
UpdateProject(r) ==
    LET q == asking[r] IN
    /\ q.op = "update" /\ q.pc = "write"
    /\ pointer' = [pointer EXCEPT ![q.p] = q.read]
    /\ Stray(q.p, {m \in {"forgotten"} : pointer[q.p] # q.read})
    /\ EndAsking(r)
    /\ UNCHANGED <<projectState, cached, mirrors, vinculos, folders>>

\* cloneTree copies dados, the pointer with them, and ensureEntidadeRef finds the mirror
\* alive; only a copy of a project without a mirror gets one.
CopyProject(r) ==
    LET q == asking[r]
        e == IF MirrorThere(q.read) THEN q.read ELSE mirrors + 1 IN
    /\ q.op = "copy" /\ q.pc = "write" /\ e <= MaxMirrors
    /\ \E c \in HandleProjects :
          /\ projectState[c] = "unborn"
          /\ projectState' = [projectState EXCEPT ![c] = "live"]
          /\ pointer' = [pointer EXCEPT ![c] = e]
          /\ cached' = [cached EXCEPT ![c] = e]
          /\ mirrors' = IF MirrorThere(q.read) THEN mirrors ELSE e
          /\ vinculos' = vinculos \cup {Row("manager", e, NoFolder, c)}
          /\ astray' = [p \in HandleProjects |->
                          IF MirrorThere(q.read) /\ p \in {c, q.p}
                          THEN astray[p] \cup {"copied"} ELSE astray[p]]
    /\ EndAsking(r)
    /\ UNCHANGED folders

AddMember(r) ==
    LET q == asking[r] IN
    /\ q.op = "member" /\ q.pc = "write"
    /\ vinculos' = vinculos \cup {Row("member", q.handle, NoFolder, q.p)}
    /\ Stray(q.p, {m \in {"late"} : TooLate(q.p, NoFolder, q.handle)})
    /\ EndAsking(r)
    /\ UNCHANGED <<projectState, pointer, cached, mirrors, folders>>

\* The first statement of moveProject's transaction: the links of the project, whatever
\* their folder.
MoveLooks(r) ==
    LET q == asking[r] IN
    /\ q.op = "move" /\ q.pc = "see"
    /\ asking' = [asking EXCEPT ![r].pc = "write",
                    ![r].rows = RowsOf(q.handle, {"folder"})]
    /\ Stray(q.p, {m \in {"moves"} :
                     \E o \in InProgress({"move"}) : asking[o].pc = "write" /\ asking[o].p = q.p})
    /\ UNCHANGED <<projectState, pointer, cached, mirrors, vinculos, folders>>

\* Its commit: in READ COMMITTED the links another move inserted meanwhile stay.
MoveCommits(r) ==
    LET q == asking[r] IN
    /\ q.op = "move" /\ q.pc = "write"
    /\ vinculos' = (vinculos \ q.rows) \cup {Row("folder", q.handle, q.to, q.p)}
    /\ Stray(q.p, {m \in {"late"} : TooLate(q.p, q.to, q.handle)})
    /\ EndAsking(r)
    /\ UNCHANGED <<projectState, pointer, cached, mirrors, folders>>

UnmoveProject(r) ==
    LET q == asking[r] IN
    /\ q.op = "unmove" /\ q.pc = "write"
    /\ vinculos' = {v \in vinculos : ~(v \in RowsOf(q.handle, {"folder"}) /\ v.folder = q.to)}
    /\ EndAsking(r)
    /\ UNCHANGED <<projectState, pointer, cached, mirrors, folders, astray>>

\* ProjectsService.delete: the rows about the handle, then the project.  The slip forgets
\* the folder links, as the comment on statement 4b remembers.
MembersOnly     == {"manager", "member"}
DeletedWithProject == {"manager", "member", "folder"}

DeleteLooks(r) ==
    /\ asking[r].op = "delete" /\ asking[r].pc = "see"
    /\ asking' = [asking EXCEPT ![r].pc = "write",
                                ![r].rows = RowsOf(asking[r].handle, DeletedWithProject)]
    /\ UNCHANGED <<projectState, pointer, cached, mirrors, vinculos, folders, astray>>

DeleteCommits(r) ==
    LET q == asking[r] IN
    /\ q.op = "delete" /\ q.pc = "write"
    /\ vinculos' = vinculos \ q.rows
    /\ projectState' = [projectState EXCEPT ![q.p] = "deleted"]
    /\ EndAsking(r)
    /\ UNCHANGED <<pointer, cached, mirrors, folders, astray>>

\* FoldersService.delete: the links of the folder, then the folder.
RemoveFolderLooks(r) ==
    \E f \in folders :
        /\ asking[r].pc = "idle"
        /\ asking' = [asking EXCEPT ![r] =
                        [NoAsking EXCEPT !.op = "rmdir", !.pc = "write", !.to = f,
                                           !.rows = {v \in vinculos : v.folder = f}]]
        /\ UNCHANGED <<projectState, pointer, cached, mirrors, vinculos, folders, astray>>

RemoveFolderCommits(r) ==
    /\ asking[r].op = "rmdir" /\ asking[r].pc = "write"
    /\ vinculos' = vinculos \ asking[r].rows
    /\ folders' = folders \ {asking[r].to}
    /\ EndAsking(r)
    /\ UNCHANGED <<projectState, pointer, cached, mirrors, astray>>

\* Five minutes, an eviction, or a restart.
CacheExpires(p) ==
    /\ cached[p] # NoMirror
    /\ cached' = [cached EXCEPT ![p] = NoMirror]
    /\ UNCHANGED <<projectState, pointer, mirrors, vinculos, folders, asking, astray>>

HandlesNext ==
    \/ \E p \in HandleProjects : CreateProject(p) \/ CacheExpires(p)
    \/ \E r \in HandleReqs :
          \/ BeginRequest(r) \/ EnsureRead(r) \/ EnsureMirror(r)
          \/ UpdateProject(r) \/ CopyProject(r) \/ AddMember(r)
          \/ MoveLooks(r) \/ MoveCommits(r) \/ UnmoveProject(r)
          \/ DeleteLooks(r) \/ DeleteCommits(r)
          \/ RemoveFolderLooks(r) \/ RemoveFolderCommits(r)

HandlesSpec == HandlesInit /\ [][HandlesNext]_handleVars

-----------------------------------------------------------------------------
(* Correctness.                                                            *)

\* project-ref.service.ts:28-30 calls the mirror 1:1 with the project and its canonical
\* handle: two live projects never share one.
OneToOne ==
    \A p, q \in HandleProjects :
        /\ p # q /\ pointer[p] = pointer[q] /\ pointer[p] # NoMirror
        => {projectState[p], projectState[q]} # {"live"}

\* What the project's own requests promise, unless a mishap befell it: it has its own
\* mirror, its manager and its members are found under the handle its readers resolve,
\* it lies in one folder at most, and none of its rows outlives it or its folder.
OwnMirror(p) == \A q \in HandleProjects \ {p} :
                    projectState[q] = "live" /\ pointer[p] = pointer[q] => pointer[p] = NoMirror
Readable(p)  == /\ \A v \in vinculos : v.of = p => v.handle = Handle(p)
                /\ p \in LegacyProjects \/ \E v \in vinculos : v.of = p /\ v.kind = "manager"
OneFolder(p) == \A u, v \in vinculos : u.of = p /\ v.of = p /\ u.kind = "folder" /\ v.kind = "folder"
                                        => u = v
NoZombie(p)  == \A v \in vinculos : v.of = p => /\ projectState[p] = "live"
                                                /\ v.folder \in folders \cup {NoFolder}

HandlesSound ==
    \A p \in HandleProjects :
        astray[p] = {} =>
            /\ NoZombie(p)
            /\ projectState[p] = "live" => OwnMirror(p) /\ Readable(p) /\ OneFolder(p)
=============================================================================
