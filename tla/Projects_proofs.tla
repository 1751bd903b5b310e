---------------------------- MODULE Projects_proofs ----------------------------
(***************************************************************************)
(* Proofs about the handles of projects (their folders, members, mirrors   *)
(* and removal), about the tree of projects, and about the links of their  *)
(* agents; for any number of projects, folders, teams, agents and requests.*)
(***************************************************************************)
EXTENDS ProjectHandles, ProjectTree, AgentLinks, NaturalsInduction, FiniteSetTheorems, TLAPS

-----------------------------------------------------------------------------
(* ProjectHandles.                                                         *)

\* Requests about project p, other than the removal of a folder.
Asks(r, p) == asking[r].op \notin {"none", "rmdir"} /\ asking[r].p = p

\* The key the rows about p are found under.
Own(p) == IF pointer[p] # NoMirror THEN pointer[p] ELSE p

\* Mirror e is named by what is known of project p.
RefersTo(p, e) ==
    \/ pointer[p] = e
    \/ cached[p] = e
    \/ \E r \in HandleReqs : Asks(r, p) /\ (asking[r].read = e \/ asking[r].handle = e)
    \/ \E v \in vinculos : v.of = p /\ v.handle = e

\* A request has what its place in its handler needs.
Knows(r) ==
    /\ asking[r].op = "none" <=> asking[r].pc = "idle"
    /\ asking[r].op \notin {"none", "rmdir"}
          => /\ asking[r].p \in HandleProjects
             /\ projectState[asking[r].p] # "unborn"
             /\ asking[r].handle \in HandleProjects => asking[r].handle = asking[r].p
    /\ asking[r].pc \in {"ensure", "mirror"}
          => /\ asking[r].op \in {"update", "member", "move"}
             /\ asking[r].handle \notin HandleProjects
    /\ asking[r].pc = "see" => asking[r].op \in {"move", "delete"}
    /\ asking[r].op \in {"member", "move"} /\ asking[r].pc \in {"see", "write"}
          => asking[r].handle \in 1..MaxMirrors
    /\ asking[r].op = "delete" => asking[r].handle # NoMirror
    /\ asking[r].op = "rmdir" => asking[r].pc = "write"
    /\ asking[r].op \in {"move", "rmdir"} => asking[r].to \in FolderIds
AskingKnow == \A r \in HandleReqs : Knows(r)

\* Rows have the shape of their kind; a project not born yet has no row and no mirror.
RowsKnow ==
    /\ \A v \in vinculos :
          /\ v.kind = "folder" <=> v.folder # NoFolder
          /\ v.handle \in HandleProjects => v.handle = v.of
          /\ projectState[v.of] # "unborn"
    /\ \A p \in HandleProjects :
          projectState[p] = "unborn" => pointer[p] = NoMirror /\ cached[p] = NoMirror
    /\ \A p \in HandleProjects, e \in 1..MaxMirrors : RefersTo(p, e) => e <= mirrors

\* A mirror that a project knows and no mishap befell is known to it alone.
MirrorsApart ==
    \A p, q \in HandleProjects, e \in 1..MaxMirrors :
        astray[p] = {} /\ p # q /\ RefersTo(p, e) => ~RefersTo(q, e)

\* A move takes folder rows only; a deletion no rows of a project no mishap befell, but
\* its own.
RowsTaken ==
    \A r \in HandleReqs : \A v \in asking[r].rows :
        /\ asking[r].op = "move" => v.kind = "folder"
        /\ asking[r].op = "rmdir" => v.folder = asking[r].to
        /\ asking[r].op = "delete" /\ v.of # asking[r].p => astray[v.of] # {}

\* What is known of a project no mishap befell agrees, and what a request that ends it,
\* or its folder, is about to delete is all there is.
OneHandle(p) ==
    /\ cached[p] \in {NoMirror, pointer[p]}
    /\ \A r \in HandleReqs : Asks(r, p) => /\ asking[r].read \in {NoMirror, pointer[p]}
                                           /\ asking[r].handle \in {NoMirror, pointer[p], p}
    /\ \A v \in vinculos : v.of = p => v.handle = Own(p)
NothingMissed(p) ==
    \A r \in HandleReqs : \A v \in vinculos : v.of = p =>
        /\ Asks(r, p) /\ asking[r].op = "delete" /\ asking[r].pc = "see"
              => v.handle = asking[r].handle
        /\ Asks(r, p) /\ asking[r].op = "delete" /\ asking[r].pc = "write"
              => v \in asking[r].rows
        /\ asking[r].op = "rmdir" /\ v.folder = asking[r].to => v \in asking[r].rows
        /\ Asks(r, p) /\ asking[r].op = "move" /\ asking[r].pc = "write" /\ v.kind = "folder"
              => v \in asking[r].rows
OneMove(p) ==
    \A r, o \in HandleReqs :
        /\ Asks(r, p) /\ asking[r].op = "move" /\ asking[r].pc = "write"
        /\ Asks(o, p) /\ asking[o].op = "move" /\ asking[o].pc = "write"
        => r = o
Managed(p) ==
    projectState[p] = "live" =>
        p \in LegacyProjects \/ \E v \in vinculos : v.of = p /\ v.kind = "manager"
Straight(p) == OneHandle(p) /\ NothingMissed(p) /\ OneMove(p) /\ Managed(p)
                 /\ NoZombie(p) /\ OneFolder(p)

HandlesInv ==
    /\ HandlesTypeOK
    /\ AskingKnow
    /\ RowsKnow
    /\ MirrorsApart
    /\ RowsTaken
    /\ \A p \in HandleProjects : astray[p] = {} => Straight(p)

LEMMA HandlesInvSound == HandlesInv => HandlesSound
<1> SUFFICES ASSUME HandlesInv, NEW p \in HandleProjects, astray[p] = {}
             PROVE  /\ NoZombie(p)
                    /\ projectState[p] = "live" => OwnMirror(p) /\ Readable(p) /\ OneFolder(p)
    BY DEF HandlesSound
<1>1. Straight(p) /\ HandlesTypeOK
    BY DEF HandlesInv
<1>2. Handle(p) = Own(p)
    BY <1>1 DEF Straight, OneHandle, Handle, Own
<1>3. Readable(p) \/ projectState[p] # "live"
    BY <1>1, <1>2 DEF Straight, OneHandle, Managed, Readable
<1>4. OwnMirror(p)
    BY <1>1 DEF HandlesInv, MirrorsApart, RefersTo, OwnMirror, HandlesTypeOK, Pointers
<1> QED BY <1>1, <1>3, <1>4 DEF Straight

LEMMA NoAskingType == NoAsking \in Asking
BY DEF NoAsking, Asking, Pointers, Vinculos

LEMMA RowType ==
    ASSUME NEW kind \in {"manager", "member", "folder"}, NEW h \in Handles,
           NEW f \in FolderIds \cup {NoFolder}, NEW p \in HandleProjects
    PROVE  /\ Row(kind, h, f, p) \in Vinculos
           /\ Row(kind, h, f, p).kind = kind /\ Row(kind, h, f, p).handle = h
           /\ Row(kind, h, f, p).folder = f /\ Row(kind, h, f, p).of = p
BY DEF Row, Vinculos

LEMMA HandlesInitInv == HandlesInit => HandlesInv
<1> SUFFICES ASSUME HandlesInit PROVE HandlesInv
    OBVIOUS
<1> PICK L, M, old :
        /\ L \in SUBSET LegacyProjects /\ M \in SUBSET L
        /\ old \in [L -> FolderIds \cup {NoFolder}]
        /\ projectState = [p \in HandleProjects |-> IF p \in L THEN "live" ELSE "unborn"]
        /\ vinculos = {Row("manager", p, NoFolder, p) : p \in M}
                      \cup {Row("folder", p, old[p], p) : p \in {q \in L : old[q] # NoFolder}}
        /\ pointer = [p \in HandleProjects |-> NoMirror]
        /\ cached = [p \in HandleProjects |-> NoMirror]
        /\ mirrors = 0
        /\ folders = FolderIds
        /\ asking = [r \in HandleReqs |-> NoAsking]
        /\ astray = [p \in HandleProjects |-> {}]
    BY DEF HandlesInit
<1>1. /\ pointer = [p \in HandleProjects |-> NoMirror]
      /\ cached = [p \in HandleProjects |-> NoMirror]
      /\ mirrors = 0 /\ folders = FolderIds
      /\ asking = [r \in HandleReqs |-> NoAsking]
      /\ astray = [p \in HandleProjects |-> {}]
    OBVIOUS
<1>2. L \subseteq HandleProjects /\ MaxMirrors \in Nat
    BY HandleAssumption
<1>3. ASSUME NEW v \in vinculos
      PROVE  /\ v \in Vinculos /\ v.of \in L /\ v.handle = v.of
             /\ \/ v.kind = "manager" /\ v.folder = NoFolder
                \/ v.kind = "folder" /\ v.folder \in FolderIds /\ v.folder = old[v.of]
  <2>1. ASSUME NEW p \in M, v = Row("manager", p, NoFolder, p)
        PROVE  /\ v \in Vinculos /\ v.of \in L /\ v.handle = v.of
               /\ v.kind = "manager" /\ v.folder = NoFolder
      BY <1>2, <2>1 DEF Row, Vinculos, Handles
  <2>2. ASSUME NEW p \in L, old[p] # NoFolder, v = Row("folder", p, old[p], p)
        PROVE  /\ v \in Vinculos /\ v.of \in L /\ v.handle = v.of
               /\ v.kind = "folder" /\ v.folder \in FolderIds /\ v.folder = old[v.of]
      BY <1>2, <2>2 DEF Row, Vinculos, Handles
  <2>3. \/ \E p \in M : v = Row("manager", p, NoFolder, p)
        \/ \E p \in L : old[p] # NoFolder /\ v = Row("folder", p, old[p], p)
      OBVIOUS
  <2> QED BY <2>1, <2>2, <2>3
<1>4. HandlesTypeOK
  <2>1. vinculos \subseteq Vinculos
      BY <1>3
  <2> QED BY <1>1, <1>2, <2>1, NoAskingType DEF HandlesTypeOK, Pointers
<1>5. \A r \in HandleReqs : asking[r].op = "none" /\ asking[r].pc = "idle" /\ asking[r].rows = {}
    BY <1>1 DEF NoAsking
<1>6. NoMirror \notin 1..MaxMirrors /\ \A p \in HandleProjects : p \notin 1..MaxMirrors
    BY HandleAssumption
<1>7. \A p \in HandleProjects, e \in 1..MaxMirrors : ~RefersTo(p, e)
    BY <1>1, <1>2, <1>3, <1>5, <1>6 DEF RefersTo, Asks
<1>8. AskingKnow
    BY <1>5 DEF AskingKnow, Knows
<1>9. RowsKnow
  <2>1. \A v \in vinculos : v.kind = "folder" <=> v.folder # NoFolder
      BY <1>3, HandleAssumption
  <2>2. \A v \in vinculos : v.handle = v.of /\ projectState[v.of] # "unborn"
      BY <1>2, <1>3
  <2>3. \A p \in HandleProjects : pointer[p] = NoMirror /\ cached[p] = NoMirror
      BY <1>1
  <2> QED BY <1>7, <2>1, <2>2, <2>3 DEF RowsKnow
<1>10. MirrorsApart /\ RowsTaken
    BY <1>5, <1>7 DEF MirrorsApart, RowsTaken
<1>11. ASSUME NEW p \in HandleProjects PROVE Straight(p)
  <2>1. OneHandle(p)
      BY <1>1, <1>3, <1>5 DEF OneHandle, Asks, Own
  <2>2. NothingMissed(p) /\ OneMove(p)
      BY <1>5 DEF NothingMissed, OneMove, Asks
  <2>3. Managed(p)
      BY <1>2 DEF Managed
  <2>4. NoZombie(p)
      BY <1>1, <1>2, <1>3 DEF NoZombie
  <2>5. ASSUME NEW u \in vinculos, NEW v \in vinculos, u.of = p, v.of = p,
               u.kind = "folder", v.kind = "folder"
        PROVE  u = v
    <3>1. u \in Vinculos /\ v \in Vinculos /\ u.handle = v.handle /\ u.folder = v.folder
        BY <1>3, <2>5
    <3> QED BY <2>5, <3>1 DEF Vinculos
  <2> QED BY <2>1, <2>2, <2>3, <2>4, <2>5 DEF Straight, OneFolder
<1> QED BY <1>4, <1>8, <1>9, <1>10, <1>11 DEF HandlesInv

\* What a request that begins is to do.
LEMMA BeginRequestIs ==
    ASSUME HandlesTypeOK, NEW r \in HandleReqs, BeginRequest(r)
    PROVE  \E p \in HandleProjects, q \in Asking :
              /\ asking[r].pc = "idle" /\ projectState[p] # "unborn"
              /\ asking' = [asking EXCEPT ![r] = q] /\ cached' = Remembered(p)
              /\ UNCHANGED <<projectState, pointer, mirrors, vinculos, folders, astray>>
              /\ q.p = p /\ q.rows = {}
              /\ q.read \in {NoMirror, pointer[p]} /\ q.handle \in {NoMirror, Handle(p)}
              /\ \/ q.op \in {"update", "member", "move"} /\ q.pc = "ensure" /\ q.handle = NoMirror
                 \/ q.op \in {"copy"} /\ q.pc = "write" /\ q.handle = NoMirror
                 \/ q.op = "unmove" /\ q.pc = "write" /\ q.handle = Handle(p)
                 \/ q.op = "delete" /\ q.pc = "see" /\ q.handle = Handle(p)
              /\ q.op = "move" => q.to \in FolderIds
<1> PICK p \in HandleProjects, op \in {"update", "copy", "member", "move", "unmove", "delete"},
         f \in FolderIds \cup {NoFolder} :
        /\ asking[r].pc = "idle"
        /\ projectState[p] = "live" \/ op = "unmove"
        /\ projectState[p] # "unborn"
        /\ IF op \in {"move", "unmove"} THEN f \in folders ELSE f = NoFolder
        /\ cached' = Remembered(p)
        /\ asking' = [asking EXCEPT ![r] =
                        [op |-> op, p |-> p, to |-> f, rows |-> {},
                         pc |-> IF op \in {"update", "member", "move"} THEN "ensure"
                                ELSE IF op = "delete" THEN "see" ELSE "write",
                         read |-> IF op \in {"update", "copy"} THEN pointer[p] ELSE NoMirror,
                         handle |-> IF op \in {"delete", "unmove"} THEN Handle(p) ELSE NoMirror]]
        /\ UNCHANGED <<projectState, pointer, mirrors, vinculos, folders, astray>>
    BY DEF BeginRequest
<1> DEFINE q == [op |-> op, p |-> p, to |-> f, rows |-> {},
                 pc |-> IF op \in {"update", "member", "move"} THEN "ensure"
                        ELSE IF op = "delete" THEN "see" ELSE "write",
                 read |-> IF op \in {"update", "copy"} THEN pointer[p] ELSE NoMirror,
                 handle |-> IF op \in {"delete", "unmove"} THEN Handle(p) ELSE NoMirror]
<1>1. pointer[p] \in Pointers /\ Handle(p) \in Handles \cup {NoMirror}
    BY DEF HandlesTypeOK, Pointers, Handle, Handles
<1>2. q \in Asking
    BY <1>1 DEF Asking, Pointers
<1>3. /\ q.op = op /\ q.p = p /\ q.to = f /\ q.rows = {}
      /\ q.pc = IF op \in {"update", "member", "move"} THEN "ensure"
                ELSE IF op = "delete" THEN "see" ELSE "write"
      /\ q.read = IF op \in {"update", "copy"} THEN pointer[p] ELSE NoMirror
      /\ q.handle = IF op \in {"delete", "unmove"} THEN Handle(p) ELSE NoMirror
    OBVIOUS
<1>4. asking' = [asking EXCEPT ![r] = q]
    OBVIOUS
<1>5. op = "move" => f \in FolderIds
    BY DEF HandlesTypeOK
<1> HIDE DEF q
<1> WITNESS p \in HandleProjects, q \in Asking
<1> QED BY <1>2, <1>3, <1>4, <1>5

LEMMA EndAskingIs ==
    ASSUME HandlesTypeOK, NEW r \in HandleReqs, EndAsking(r)
    PROVE  /\ asking' \in [HandleReqs -> Asking]
           /\ \A o \in HandleReqs : o # r => asking'[o] = asking[o]
           /\ asking'[r] = NoAsking /\ NoAsking.op = "none" /\ NoAsking.pc = "idle"
           /\ NoAsking.rows = {}
BY NoAskingType DEF EndAsking, HandlesTypeOK, NoAsking

LEMMA RemovalType ==
    ASSUME NEW f \in FolderIds, NEW rows \in SUBSET Vinculos
    PROVE  /\ [NoAsking EXCEPT !.op = "rmdir", !.pc = "write", !.to = f, !.rows = rows] \in Asking
           /\ [NoAsking EXCEPT !.op = "rmdir", !.pc = "write", !.to = f, !.rows = rows].op = "rmdir"
           /\ [NoAsking EXCEPT !.op = "rmdir", !.pc = "write", !.to = f, !.rows = rows].pc = "write"
           /\ [NoAsking EXCEPT !.op = "rmdir", !.pc = "write", !.to = f, !.rows = rows].to = f
           /\ [NoAsking EXCEPT !.op = "rmdir", !.pc = "write", !.to = f, !.rows = rows].rows = rows
<1>1. [NoAsking EXCEPT !.op = "rmdir", !.pc = "write", !.to = f, !.rows = rows] \in Asking
    BY NoAskingType DEF Asking
<1> QED BY <1>1 DEF NoAsking

\* What befalls a project stays with it, and with it alone.
LEMMA StrayIs ==
    ASSUME HandlesTypeOK, NEW p \in HandleProjects, NEW what, what \subseteq Mishaps,
           Stray(p, what)
    PROVE  /\ astray' \in [HandleProjects -> SUBSET Mishaps]
           /\ \A o \in HandleProjects : o # p => astray'[o] = astray[o]
           /\ astray'[p] = astray[p] \cup what
BY DEF Stray, HandlesTypeOK

LEMMA HandlesStepType == HandlesTypeOK /\ AskingKnow /\ [HandlesNext]_handleVars => HandlesTypeOK'
<1> SUFFICES ASSUME HandlesTypeOK, AskingKnow, HandlesNext PROVE HandlesTypeOK'
    BY DEF HandlesTypeOK, handleVars
<1>0. MaxMirrors \in Nat /\ 1..MaxMirrors \subseteq Pointers /\ mirrors \in 0..MaxMirrors
    BY HandleAssumption DEF Pointers, HandlesTypeOK
<1>1. ASSUME NEW p \in HandleProjects, CreateProject(p) PROVE HandlesTypeOK'
  <2>1. mirrors + 1 \in 1..MaxMirrors
      BY <1>0, <1>1 DEF CreateProject
  <2>2. Row("manager", mirrors + 1, NoFolder, p) \in Vinculos
      BY <2>1, RowType DEF Handles
  <2>3. pointer' \in [HandleProjects -> Pointers] /\ cached' \in [HandleProjects -> Pointers]
      BY <1>0, <1>1, <2>1 DEF CreateProject, HandlesTypeOK
  <2>4. projectState' \in [HandleProjects -> {"unborn", "live", "deleted"}]
      BY <1>1 DEF CreateProject, HandlesTypeOK
  <2>5. mirrors' \in 0..MaxMirrors
      BY <1>0, <1>1, <2>1 DEF CreateProject
  <2> QED BY <1>1, <2>2, <2>3, <2>4, <2>5 DEF CreateProject, HandlesTypeOK
<1>2. ASSUME NEW p \in HandleProjects, CacheExpires(p) PROVE HandlesTypeOK'
    BY <1>2 DEF CacheExpires, HandlesTypeOK, Pointers
<1>3. ASSUME NEW r \in HandleReqs, BeginRequest(r) PROVE HandlesTypeOK'
  <2>1. PICK p \in HandleProjects, q \in Asking :
              /\ asking' = [asking EXCEPT ![r] = q] /\ cached' = Remembered(p)
              /\ UNCHANGED <<projectState, pointer, mirrors, vinculos, folders, astray>>
      BY <1>3, BeginRequestIs
  <2>2. Remembered(p) \in [HandleProjects -> Pointers]
      BY DEF Remembered, HandlesTypeOK
  <2> QED BY <2>1, <2>2 DEF HandlesTypeOK
<1>4. ASSUME NEW r \in HandleReqs, EnsureRead(r) PROVE HandlesTypeOK'
  <2> PICK q : q = asking[r]
      OBVIOUS
  <2>1. q \in Asking /\ q.p \in HandleProjects
      BY <1>4 DEF EnsureRead, HandlesTypeOK, AskingKnow, Knows
  <2>2. cached[q.p] \in Handles \cup {NoMirror} /\ pointer[q.p] \in Handles \cup {NoMirror}
      BY <2>1 DEF HandlesTypeOK, Pointers, Handles
  <2>3. asking' \in [HandleReqs -> Asking]
      BY <1>4, <2>1, <2>2 DEF EnsureRead, HandlesTypeOK, Asking
  <2> QED BY <1>4, <2>3 DEF EnsureRead, HandlesTypeOK
<1>5. ASSUME NEW r \in HandleReqs, EnsureMirror(r) PROVE HandlesTypeOK'
  <2> PICK q : q = asking[r]
      OBVIOUS
  <2> PICK e : e = IF MirrorThere(q.handle) THEN q.handle ELSE mirrors + 1
      OBVIOUS
  <2>1. q \in Asking /\ q.p \in HandleProjects /\ q.handle \notin HandleProjects
      BY <1>5 DEF EnsureMirror, HandlesTypeOK, AskingKnow, Knows
  <2>2. q.handle # NoMirror => q.handle \in 1..MaxMirrors
      BY <2>1 DEF Asking, Handles
  <2>3. e <= MaxMirrors
      BY <1>5 DEF EnsureMirror
  <2>4. e \in 1..MaxMirrors
      BY <1>0, <2>2, <2>3 DEF MirrorThere
  <2>5. asking' \in [HandleReqs -> Asking]
      BY <1>5, <2>1, <2>4 DEF EnsureMirror, HandlesTypeOK, Asking, Handles
  <2>6. cached' \in [HandleProjects -> Pointers]
      BY <1>0, <1>5, <2>1, <2>4 DEF EnsureMirror, HandlesTypeOK
  <2>7. /\ pointer' \in [HandleProjects -> Pointers] /\ mirrors' \in 0..MaxMirrors
        /\ astray' \in [HandleProjects -> SUBSET Mishaps]
    <3>1. CASE MirrorThere(q.handle)
        BY <1>5, <3>1 DEF EnsureMirror, HandlesTypeOK
    <3>2. CASE ~MirrorThere(q.handle)
      <4>1. pointer' = [pointer EXCEPT ![q.p] = e] /\ mirrors' = e
          BY <1>5, <3>2 DEF EnsureMirror
      <4>2. PICK what : what \subseteq Mishaps /\ Stray(q.p, what)
        <5> DEFINE w == {m \in {"split"} : RowsOf(q.p, {"manager", "member", "folder"}) # {}}
                      \cup {m \in {"twice"} : q.handle = NoMirror /\ pointer[q.p] # NoMirror}
        <5>1. Stray(q.p, w)
            BY <1>5, <3>2 DEF EnsureMirror
        <5>2. w \subseteq Mishaps
            BY DEF Mishaps
        <5> HIDE DEF w
        <5> QED BY <5>1, <5>2
      <4>3. astray' \in [HandleProjects -> SUBSET Mishaps]
          BY <2>1, <4>2 DEF Stray, HandlesTypeOK
      <4>4. pointer' \in [HandleProjects -> Pointers]
          BY <1>0, <2>1, <2>4, <4>1 DEF HandlesTypeOK
      <4>5. mirrors' \in 0..MaxMirrors
          BY <1>0, <2>4, <4>1
      <4> QED BY <4>3, <4>4, <4>5
    <3> QED BY <3>1, <3>2
  <2> QED BY <1>5, <2>5, <2>6, <2>7 DEF EnsureMirror, HandlesTypeOK
<1>6. ASSUME NEW r \in HandleReqs, UpdateProject(r) PROVE HandlesTypeOK'
  <2> PICK q : q = asking[r]
      OBVIOUS
  <2>1. q \in Asking /\ q.p \in HandleProjects
      BY <1>6 DEF UpdateProject, HandlesTypeOK, AskingKnow, Knows
  <2>2. pointer' \in [HandleProjects -> Pointers]
      BY <1>6, <2>1 DEF UpdateProject, HandlesTypeOK, Asking
  <2>3. PICK what : what \subseteq Mishaps /\ Stray(q.p, what)
    <3> DEFINE w == {m \in {"forgotten"} : pointer[q.p] # q.read}
    <3>1. Stray(q.p, w) /\ w \subseteq Mishaps
        BY <1>6 DEF UpdateProject, Mishaps
    <3> HIDE DEF w
    <3> QED BY <3>1
  <2>4. astray' \in [HandleProjects -> SUBSET Mishaps]
      BY <2>1, <2>3 DEF Stray, HandlesTypeOK
  <2>5. asking' \in [HandleReqs -> Asking]
      BY <1>6, EndAskingIs DEF UpdateProject
  <2> QED BY <1>6, <2>2, <2>4, <2>5 DEF UpdateProject, HandlesTypeOK
<1>7. ASSUME NEW r \in HandleReqs, CopyProject(r) PROVE HandlesTypeOK'
  <2> DEFINE q == asking[r]
             e == IF MirrorThere(q.read) THEN q.read ELSE mirrors + 1
  <2>1. q \in Asking
      BY DEF HandlesTypeOK
  <2>2. PICK c \in HandleProjects :
          /\ projectState[c] = "unborn"
          /\ projectState' = [projectState EXCEPT ![c] = "live"]
          /\ pointer' = [pointer EXCEPT ![c] = e]
          /\ cached' = [cached EXCEPT ![c] = e]
          /\ mirrors' = IF MirrorThere(q.read) THEN mirrors ELSE e
          /\ vinculos' = vinculos \cup {Row("manager", e, NoFolder, c)}
          /\ astray' = [p \in HandleProjects |->
                          IF MirrorThere(q.read) /\ p \in {c, q.p}
                          THEN astray[p] \cup {"copied"} ELSE astray[p]]
      BY <1>7 DEF CopyProject
  <2>3. e <= MaxMirrors
      BY <1>7 DEF CopyProject
  <2>a. q.read # NoMirror => q.read \in 1..MaxMirrors
    <3>1. q.read \in Pointers
        BY <2>1 DEF Asking
    <3> QED BY <3>1 DEF Pointers
  <2>4. e \in 1..MaxMirrors
      BY <1>0, <2>a, <2>3 DEF MirrorThere
  <2>5. Row("manager", e, NoFolder, c) \in Vinculos
      BY <2>4, RowType DEF Handles
  <2>6. pointer' \in [HandleProjects -> Pointers] /\ cached' \in [HandleProjects -> Pointers]
      BY <1>0, <2>2, <2>4 DEF HandlesTypeOK
  <2>7. mirrors' \in 0..MaxMirrors
      BY <1>0, <2>2, <2>4
  <2>8. astray' \in [HandleProjects -> SUBSET Mishaps]
      BY <2>2 DEF HandlesTypeOK, Mishaps
  <2>9. asking' \in [HandleReqs -> Asking]
      BY <1>7, EndAskingIs DEF CopyProject
  <2>10. projectState' \in [HandleProjects -> {"unborn", "live", "deleted"}] /\ folders' = folders
         /\ vinculos' \subseteq Vinculos
      BY <1>7, <2>2, <2>5 DEF CopyProject, HandlesTypeOK
  <2> QED BY <2>6, <2>7, <2>8, <2>9, <2>10 DEF HandlesTypeOK
<1>8. ASSUME NEW r \in HandleReqs, AddMember(r) \/ MoveCommits(r) PROVE HandlesTypeOK'
  <2> PICK q : q = asking[r]
      OBVIOUS
  <2>1. /\ q \in Asking /\ q.p \in HandleProjects /\ q.handle \in Handles
        /\ q.to \in FolderIds \cup {NoFolder}
      BY <1>8 DEF AddMember, MoveCommits, HandlesTypeOK, AskingKnow, Knows, Asking, Handles
  <2>2. /\ Row("member", q.handle, NoFolder, q.p) \in Vinculos
        /\ Row("folder", q.handle, q.to, q.p) \in Vinculos
      BY <2>1, RowType
  <2>3. vinculos' \subseteq Vinculos
      BY <1>8, <2>2 DEF AddMember, MoveCommits, HandlesTypeOK
  <2>4. PICK what : what \subseteq Mishaps /\ Stray(q.p, what)
    <3>1. PICK b : Stray(q.p, {m \in {"late"} : b})
        BY <1>8 DEF AddMember, MoveCommits
    <3> DEFINE w == {m \in {"late"} : b}
    <3>2. Stray(q.p, w) /\ w \subseteq Mishaps
        BY <3>1 DEF Mishaps
    <3> HIDE DEF w
    <3> QED BY <3>2
  <2>5. astray' \in [HandleProjects -> SUBSET Mishaps]
      BY <2>1, <2>4, StrayIs
  <2>6. asking' \in [HandleReqs -> Asking]
      BY <1>8, EndAskingIs DEF AddMember, MoveCommits
  <2> QED BY <1>8, <2>3, <2>5, <2>6 DEF AddMember, MoveCommits, HandlesTypeOK
<1>9. ASSUME NEW r \in HandleReqs, MoveLooks(r) PROVE HandlesTypeOK'
  <2> PICK q : q = asking[r]
      OBVIOUS
  <2>1. q \in Asking /\ q.p \in HandleProjects
      BY <1>9 DEF MoveLooks, HandlesTypeOK, AskingKnow, Knows
  <2>2. RowsOf(q.handle, {"folder"}) \subseteq Vinculos
      BY DEF RowsOf, HandlesTypeOK
  <2>3. asking' \in [HandleReqs -> Asking]
      BY <1>9, <2>1, <2>2 DEF MoveLooks, HandlesTypeOK, Asking
  <2>4. PICK what : what \subseteq Mishaps /\ Stray(q.p, what)
    <3> DEFINE w == {m \in {"moves"} :
                     \E o \in InProgress({"move"}) : asking[o].pc = "write" /\ asking[o].p = q.p}
    <3>1. Stray(q.p, w) /\ w \subseteq Mishaps
        BY <1>9 DEF MoveLooks, Mishaps
    <3> HIDE DEF w
    <3> QED BY <3>1
  <2>5. astray' \in [HandleProjects -> SUBSET Mishaps]
      BY <2>1, <2>4, StrayIs
  <2> QED BY <1>9, <2>3, <2>5 DEF MoveLooks, HandlesTypeOK
<1>10. ASSUME NEW r \in HandleReqs, UnmoveProject(r) \/ RemoveFolderCommits(r) PROVE HandlesTypeOK'
    BY <1>10, EndAskingIs DEF UnmoveProject, RemoveFolderCommits, HandlesTypeOK
<1>11. ASSUME NEW r \in HandleReqs, DeleteLooks(r) PROVE HandlesTypeOK'
  <2> PICK rows : rows = RowsOf(asking[r].handle, DeletedWithProject)
      OBVIOUS
  <2>1. rows \in SUBSET Vinculos
      BY DEF RowsOf, HandlesTypeOK
  <2>a. asking' = [asking EXCEPT ![r].pc = "write", ![r].rows = rows]
      BY <1>11 DEF DeleteLooks
  <2>b. asking[r] \in Asking
      BY DEF HandlesTypeOK
  <2>c. [asking[r] EXCEPT !.pc = "write", !.rows = rows] \in Asking
      BY <2>1, <2>b DEF Asking
  <2>2. asking' \in [HandleReqs -> Asking]
      BY <2>a, <2>c DEF HandlesTypeOK
  <2> QED BY <1>11, <2>2 DEF DeleteLooks, HandlesTypeOK
<1>12. ASSUME NEW r \in HandleReqs, DeleteCommits(r) PROVE HandlesTypeOK'
    BY <1>12, EndAskingIs DEF DeleteCommits, HandlesTypeOK
<1>13. ASSUME NEW r \in HandleReqs, RemoveFolderLooks(r) PROVE HandlesTypeOK'
  <2>1. PICK f \in folders :
          /\ asking[r].pc = "idle"
          /\ asking' = [asking EXCEPT ![r] =
                        [NoAsking EXCEPT !.op = "rmdir", !.pc = "write", !.to = f,
                                           !.rows = {v \in vinculos : v.folder = f}]]
          /\ UNCHANGED <<projectState, pointer, cached, mirrors, vinculos, folders, astray>>
      BY <1>13 DEF RemoveFolderLooks
  <2>2. {v \in vinculos : v.folder = f} \subseteq Vinculos /\ f \in FolderIds
      BY DEF HandlesTypeOK
  <2>3. [NoAsking EXCEPT !.op = "rmdir", !.pc = "write", !.to = f,
                         !.rows = {v \in vinculos : v.folder = f}] \in Asking
      BY <2>2, RemovalType
  <2> QED BY <2>1, <2>3 DEF HandlesTypeOK
<1> QED BY <1>1, <1>2, <1>3, <1>4, <1>5, <1>6, <1>7, <1>8, <1>9, <1>10, <1>11, <1>12, <1>13
        DEF HandlesNext

\* A request about p that reads what is known of it, and has not looked for rows yet.
StartsRight(q, p) ==
    /\ q.read \in {NoMirror, pointer[p]} /\ q.handle \in {NoMirror, pointer[p], p}
    /\ q.op = "delete" => q.pc = "see" /\ q.handle = Own(p)
    /\ q.op = "move" => q.pc # "write"

\* A step that gives p no row, takes none that matters from it and leaves its pointer.
LEMMA StraightKept ==
    ASSUME HandlesTypeOK, NEW p \in HandleProjects, Straight(p),
           pointer'[p] = pointer[p], cached'[p] \in {cached[p], NoMirror, pointer[p]},
           projectState'[p] = projectState[p], folders' = folders,
           \A r \in HandleReqs :
              Asks(r, p)' => asking'[r] = asking[r] \/ StartsRight(asking'[r], p),
           \A r \in HandleReqs : asking'[r].op = "rmdir" => asking'[r] = asking[r],
           \A v \in vinculos' : v.of = p => v \in vinculos,
           \A v \in vinculos : v.of = p /\ v.kind = "manager" => v \in vinculos'
    PROVE  Straight(p)'
<1>1. Own(p)' = Own(p)
    BY DEF Own
<1>2. \A r \in HandleReqs : Asks(r, p)' /\ asking'[r] = asking[r] => Asks(r, p)
    BY DEF Asks
<1>3. OneHandle(p)'
    BY <1>1, <1>2 DEF Straight, OneHandle, StartsRight
<1>4. NothingMissed(p)'
  <2> SUFFICES ASSUME NEW r \in HandleReqs, NEW v \in vinculos', v.of = p
               PROVE  /\ Asks(r, p)' /\ asking'[r].op = "delete" /\ asking'[r].pc = "see"
                            => v.handle = asking'[r].handle
                      /\ Asks(r, p)' /\ asking'[r].op = "delete" /\ asking'[r].pc = "write"
                            => v \in asking'[r].rows
                      /\ asking'[r].op = "rmdir" /\ v.folder = asking'[r].to
                            => v \in asking'[r].rows
                      /\ Asks(r, p)' /\ asking'[r].op = "move" /\ asking'[r].pc = "write"
                         /\ v.kind = "folder" => v \in asking'[r].rows
      BY DEF NothingMissed
  <2>1. v \in vinculos /\ v.handle = Own(p)
      BY DEF Straight, OneHandle
  <2>2. CASE asking'[r] = asking[r]
      BY <1>2, <2>1, <2>2 DEF Straight, NothingMissed
  <2>3. CASE asking'[r] # asking[r]
      BY <2>1, <2>3 DEF StartsRight
  <2> QED BY <2>2, <2>3
<1>5. OneMove(p)'
    BY <1>2 DEF Straight, OneMove, StartsRight
<1>6. Managed(p)' /\ NoZombie(p)' /\ OneFolder(p)'
    BY DEF Straight, Managed, NoZombie, OneFolder
<1> QED BY <1>3, <1>4, <1>5, <1>6 DEF Straight

\* Only the mirror made in a step, if any, is known where it was not.
LEMMA ApartKept ==
    ASSUME HandlesTypeOK, RowsKnow, MirrorsApart, NEW c,
           \A p \in HandleProjects : astray'[p] = {} => astray[p] = {},
           mirrors' \in {mirrors, mirrors + 1},
           \A p \in HandleProjects, e \in 1..MaxMirrors :
              RefersTo(p, e)' => \/ RefersTo(p, e)
                                 \/ p = c /\ e = mirrors + 1 /\ mirrors' = mirrors + 1
    PROVE  /\ MirrorsApart'
           /\ \A p \in HandleProjects, e \in 1..MaxMirrors : RefersTo(p, e)' => e <= mirrors'
<1>1. mirrors \in Nat /\ \A p \in HandleProjects, e \in 1..MaxMirrors : RefersTo(p, e) => e <= mirrors
    BY HandleAssumption DEF HandlesTypeOK, RowsKnow
<1>2. \A e \in 1..MaxMirrors : e \in Nat
    OBVIOUS
<1>3. ASSUME NEW p \in HandleProjects, NEW e \in 1..MaxMirrors, RefersTo(p, e)'
      PROVE  e <= mirrors'
    BY <1>1, <1>2, <1>3
<1>4. ASSUME NEW p \in HandleProjects, NEW q \in HandleProjects, NEW e \in 1..MaxMirrors,
             astray'[p] = {}, p # q, RefersTo(p, e)', RefersTo(q, e)'
      PROVE  FALSE
  <2>1. CASE RefersTo(p, e) /\ RefersTo(q, e)
      BY <1>4, <2>1 DEF MirrorsApart
  <2>2. CASE ~(RefersTo(p, e) /\ RefersTo(q, e))
      BY <1>1, <1>2, <1>4, <2>2
  <2> QED BY <2>1, <2>2
<1> QED BY <1>3, <1>4 DEF MirrorsApart

LEMMA CreateProjectInv ==
    ASSUME HandlesInv, HandlesTypeOK', NEW c \in HandleProjects, CreateProject(c)
    PROVE  HandlesInv'
<1> PICK e : e = mirrors + 1
    OBVIOUS
<1> PICK w : w = Row("manager", e, NoFolder, c)
    OBVIOUS
<1>1. HandlesTypeOK /\ AskingKnow /\ RowsKnow /\ MirrorsApart /\ RowsTaken
    BY DEF HandlesInv
<1>2. e \in 1..MaxMirrors /\ mirrors \in Nat /\ e # NoMirror
    BY <1>1, HandleAssumption DEF CreateProject, HandlesTypeOK
<1>3. /\ w \in Vinculos /\ w.kind = "manager" /\ w.handle = e
      /\ w.folder = NoFolder /\ w.of = c
    BY <1>2, RowType DEF Handles
<1>4. /\ projectState[c] = "unborn" /\ projectState'[c] = "live"
      /\ pointer'[c] = e /\ cached'[c] = e /\ mirrors' = e
      /\ \A p \in HandleProjects : p # c => /\ projectState'[p] = projectState[p]
                                            /\ pointer'[p] = pointer[p] /\ cached'[p] = cached[p]
      /\ vinculos' = vinculos \cup {w}
      /\ UNCHANGED <<folders, asking, astray>>
    BY <1>1 DEF CreateProject, HandlesTypeOK
<1>5. /\ \A r \in HandleReqs : ~Asks(r, c)
      /\ \A v \in vinculos : v.of # c
    BY <1>1, <1>4 DEF AskingKnow, Knows, RowsKnow, Asks
<1>6. AskingKnow'
    BY <1>1, <1>4 DEF AskingKnow, Knows
<1>7. MirrorsApart' /\ \A p \in HandleProjects, i \in 1..MaxMirrors : RefersTo(p, i)' => i <= mirrors'
  <2>1. ASSUME NEW p \in HandleProjects, NEW i \in 1..MaxMirrors, RefersTo(p, i)'
        PROVE  RefersTo(p, i) \/ (p = c /\ i = mirrors + 1 /\ mirrors' = mirrors + 1)
      BY <1>3, <1>4, <1>5, <2>1 DEF RefersTo, Asks
  <2> QED BY <1>1, <1>4, <2>1, ApartKept
<1>8. RowsKnow'
  <2>1. \A v \in vinculos' : /\ v.kind = "folder" <=> v.folder # NoFolder
                             /\ v.handle \in HandleProjects => v.handle = v.of
                             /\ projectState'[v.of] # "unborn"
      BY <1>1, <1>2, <1>3, <1>4, HandleAssumption DEF RowsKnow, HandlesTypeOK, Vinculos
  <2>2. \A p \in HandleProjects :
          projectState'[p] = "unborn" => pointer'[p] = NoMirror /\ cached'[p] = NoMirror
      BY <1>1, <1>4 DEF RowsKnow
  <2> QED BY <1>7, <2>1, <2>2 DEF RowsKnow
<1>9. RowsTaken'
    BY <1>1, <1>4 DEF RowsTaken
<1>10. ASSUME NEW p \in HandleProjects, astray'[p] = {} PROVE Straight(p)'
  <2>1. CASE p # c
    <3>1. Straight(p)
        BY <1>4, <1>10 DEF HandlesInv
    <3> QED BY <1>1, <1>3, <1>4, <2>1, <3>1, StraightKept
  <2>2. CASE p = c
    <3>1. \A v \in vinculos' : v.of = c => v = w
        BY <1>4, <1>5
    <3>2. \A r \in HandleReqs : ~Asks(r, c)'
        BY <1>4, <1>5 DEF Asks
    <3>3. \A r \in HandleReqs : asking'[r].op = "rmdir" => asking'[r].to # NoFolder
        BY <1>6, HandleAssumption DEF AskingKnow, Knows
    <3>4. OneHandle(c)' /\ Managed(c)' /\ NoZombie(c)' /\ OneFolder(c)'
        BY <1>2, <1>3, <1>4, <3>1, <3>2 DEF OneHandle, Own, Managed, NoZombie, OneFolder
    <3>5. NothingMissed(c)' /\ OneMove(c)'
        BY <1>3, <3>1, <3>2, <3>3 DEF NothingMissed, OneMove
    <3> QED BY <2>2, <3>4, <3>5 DEF Straight
  <2> QED BY <2>1, <2>2
<1> QED BY <1>6, <1>7, <1>8, <1>9, <1>10 DEF HandlesInv

\* A request that is over needs nothing.
LEMMA EndAskingKnow ==
    ASSUME HandlesTypeOK, AskingKnow, NEW r \in HandleReqs, EndAsking(r),
           \A p \in HandleProjects : projectState[p] # "unborn" => projectState'[p] # "unborn"
    PROVE  AskingKnow'
<1> SUFFICES ASSUME NEW o \in HandleReqs PROVE Knows(o)'
    BY DEF AskingKnow
<1>1. CASE o = r
    BY <1>1, EndAskingIs DEF Knows
<1>2. CASE o # r
  <2>1. asking'[o] = asking[o]
      BY <1>2, EndAskingIs
  <2> QED BY <2>1 DEF AskingKnow, Knows
<1> QED BY <1>1, <1>2

\* The key of no project is the key of a mirror.
LEMMA KeysApart ==
    /\ \A p \in HandleProjects : p \notin 1..MaxMirrors /\ p # NoMirror
    /\ NoMirror \notin 1..MaxMirrors
    /\ \A e \in Pointers : e \notin HandleProjects
BY HandleAssumption DEF Pointers

LEMMA CacheExpiresInv ==
    ASSUME HandlesInv, HandlesTypeOK', NEW c \in HandleProjects, CacheExpires(c)
    PROVE  HandlesInv'
<1>1. HandlesTypeOK /\ AskingKnow /\ RowsKnow /\ MirrorsApart /\ RowsTaken
    BY DEF HandlesInv
<1>2. /\ cached'[c] = NoMirror
      /\ \A p \in HandleProjects : p # c => cached'[p] = cached[p]
      /\ UNCHANGED <<projectState, pointer, mirrors, vinculos, folders, asking, astray>>
    BY <1>1 DEF CacheExpires, HandlesTypeOK
<1>3. AskingKnow' /\ RowsTaken'
    BY <1>1, <1>2 DEF AskingKnow, Knows, RowsTaken
<1>4. MirrorsApart' /\ \A p \in HandleProjects, i \in 1..MaxMirrors : RefersTo(p, i)' => i <= mirrors'
  <2>1. \A p \in HandleProjects, i \in 1..MaxMirrors : RefersTo(p, i)' => RefersTo(p, i)
      BY <1>2, KeysApart DEF RefersTo, Asks
  <2> QED BY <1>1, <1>2, <2>1, ApartKept
<1>5. RowsKnow'
    BY <1>1, <1>2, <1>4 DEF RowsKnow
<1>6. ASSUME NEW p \in HandleProjects, astray'[p] = {} PROVE Straight(p)'
  <2>1. Straight(p)
      BY <1>2, <1>6 DEF HandlesInv
  <2>2. \A r \in HandleReqs : asking'[r] = asking[r]
      BY <1>2
  <2> QED BY <1>1, <1>2, <2>1, <2>2, StraightKept
<1> QED BY <1>3, <1>4, <1>5, <1>6 DEF HandlesInv

LEMMA BeginRequestInv ==
    ASSUME HandlesInv, HandlesTypeOK', NEW r \in HandleReqs, BeginRequest(r)
    PROVE  HandlesInv'
<1>1. HandlesTypeOK /\ AskingKnow /\ RowsKnow /\ MirrorsApart /\ RowsTaken
    BY DEF HandlesInv
<1> PICK c \in HandleProjects, q \in Asking :
              /\ asking[r].pc = "idle" /\ projectState[c] # "unborn"
              /\ asking' = [asking EXCEPT ![r] = q] /\ cached' = Remembered(c)
              /\ UNCHANGED <<projectState, pointer, mirrors, vinculos, folders, astray>>
              /\ q.p = c /\ q.rows = {}
              /\ q.read \in {NoMirror, pointer[c]} /\ q.handle \in {NoMirror, Handle(c)}
              /\ \/ q.op \in {"update", "member", "move"} /\ q.pc = "ensure" /\ q.handle = NoMirror
                 \/ q.op \in {"copy"} /\ q.pc = "write" /\ q.handle = NoMirror
                 \/ q.op = "unmove" /\ q.pc = "write" /\ q.handle = Handle(c)
                 \/ q.op = "delete" /\ q.pc = "see" /\ q.handle = Handle(c)
              /\ q.op = "move" => q.to \in FolderIds
    BY <1>1, BeginRequestIs
<1>2. /\ asking'[r] = q /\ \A o \in HandleReqs : o # r => asking'[o] = asking[o]
      /\ \A p \in HandleProjects : p # c => cached'[p] = cached[p]
      /\ cached'[c] \in {cached[c], pointer[c]}
    BY <1>1 DEF Remembered, HandlesTypeOK
<1>3. /\ Handle(c) \in {cached[c], pointer[c], c} /\ Handle(c) # NoMirror
      /\ Handle(c) \in HandleProjects => Handle(c) = c
      /\ Handle(c) \in 1..MaxMirrors => RefersTo(c, Handle(c))
    BY <1>1, KeysApart DEF Handle, HandlesTypeOK, RefersTo
<1>4. AskingKnow'
  <2>1. /\ q.op # "none" /\ q.op # "rmdir" /\ q.pc # "idle"
        /\ q.pc = "ensure" => q.op \in {"update", "member", "move"}
        /\ q.pc = "see" => q.op = "delete" /\ q.pc # "mirror"
        /\ q.op \in {"member", "move"} => q.pc = "ensure"
      OBVIOUS
  <2> SUFFICES ASSUME NEW o \in HandleReqs PROVE Knows(o)'
      BY DEF AskingKnow
  <2>2. CASE o = r
      BY <1>2, <1>3, <2>1, <2>2, KeysApart DEF Knows
  <2>3. CASE o # r
      BY <1>1, <1>2, <2>3 DEF AskingKnow, Knows
  <2> QED BY <2>2, <2>3
<1>5. MirrorsApart' /\ \A p \in HandleProjects, i \in 1..MaxMirrors : RefersTo(p, i)' => i <= mirrors'
  <2>1. ASSUME NEW p \in HandleProjects, NEW i \in 1..MaxMirrors, RefersTo(p, i)'
        PROVE  RefersTo(p, i)
    <3>1. CASE pointer'[p] = i \/ cached'[p] = i \/ \E v \in vinculos' : v.of = p /\ v.handle = i
        BY <1>2, <3>1 DEF RefersTo
    <3>2. ASSUME NEW o \in HandleReqs, Asks(o, p)', asking'[o].read = i \/ asking'[o].handle = i
          PROVE  RefersTo(p, i)
      <4>1. CASE o = r
          BY <1>2, <1>3, <3>2, <4>1, KeysApart DEF RefersTo, Asks
      <4>2. CASE o # r
          BY <1>2, <3>2, <4>2 DEF RefersTo, Asks
      <4> QED BY <4>1, <4>2
    <3> QED BY <2>1, <3>1, <3>2 DEF RefersTo
  <2> QED BY <1>1, <2>1, ApartKept
<1>6. RowsKnow'
    BY <1>1, <1>2, <1>5 DEF RowsKnow
<1>7. RowsTaken'
  <2> SUFFICES ASSUME NEW o \in HandleReqs, NEW v \in asking'[o].rows
               PROVE  /\ asking'[o].op = "move" => v.kind = "folder"
                      /\ asking'[o].op = "rmdir" => v.folder = asking'[o].to
                      /\ asking'[o].op = "delete" /\ v.of # asking'[o].p => astray'[v.of] # {}
      BY DEF RowsTaken
  <2>1. o # r
      BY <1>2
  <2> QED BY <1>1, <1>2, <2>1 DEF RowsTaken
<1>8. ASSUME NEW p \in HandleProjects, astray'[p] = {} PROVE Straight(p)'
  <2>1. Straight(p)
      BY <1>8 DEF HandlesInv
  <2>2. ASSUME NEW o \in HandleReqs, Asks(o, p)'
        PROVE  asking'[o] = asking[o] \/ StartsRight(asking'[o], p)
    <3>1. CASE o # r
        BY <1>2, <3>1
    <3>2. CASE o = r
      <4>1. p = c
          BY <1>2, <2>2, <3>2 DEF Asks
      <4>2. Handle(c) = Own(c) /\ Own(c) \in {pointer[c], c}
          BY <2>1, <4>1 DEF Straight, OneHandle, Handle, Own
      <4> QED BY <1>2, <3>2, <4>1, <4>2 DEF StartsRight
    <3> QED BY <3>1, <3>2
  <2>3. \A o \in HandleReqs : asking'[o].op = "rmdir" => asking'[o] = asking[o]
      BY <1>2
  <2> QED BY <1>1, <1>2, <2>1, <2>2, <2>3, StraightKept
<1> QED BY <1>4, <1>5, <1>6, <1>7, <1>8 DEF HandlesInv

\* A step in which one request, r, learns of the handle of its project alone.
LEMMA EnsureReadInv ==
    ASSUME HandlesInv, HandlesTypeOK', NEW r \in HandleReqs, EnsureRead(r)
    PROVE  HandlesInv'
<1>1. HandlesTypeOK /\ AskingKnow /\ RowsKnow /\ MirrorsApart /\ RowsTaken
    BY DEF HandlesInv
<1> PICK q : q = asking[r]
    OBVIOUS
<1> PICK k : k = asking'[r]
    OBVIOUS
<1>2. /\ q \in Asking /\ q.pc = "ensure" /\ q.p \in HandleProjects
      /\ q.op \in {"update", "member", "move"}
    BY <1>1 DEF HandlesTypeOK, AskingKnow, Knows, EnsureRead
<1>3. /\ \A o \in HandleReqs : o # r => asking'[o] = asking[o]
      /\ UNCHANGED <<projectState, pointer, cached, mirrors, vinculos, folders, astray>>
      /\ k.op = q.op /\ k.p = q.p /\ k.to = q.to /\ k.read = q.read /\ k.rows = q.rows
      /\ k.pc = IF cached[q.p] # NoMirror THEN (IF q.op = "move" THEN "see" ELSE "write")
                ELSE "mirror"
      /\ k.handle = IF cached[q.p] # NoMirror THEN cached[q.p] ELSE pointer[q.p]
    BY <1>1, <1>2 DEF EnsureRead, HandlesTypeOK, Asking
<1>4. /\ k.handle \in {cached[q.p], pointer[q.p]} /\ k.handle \in Pointers
      /\ k.pc # "mirror" => k.handle \in 1..MaxMirrors
      /\ k.handle \in 1..MaxMirrors => RefersTo(q.p, k.handle)
    BY <1>1, <1>2, <1>3 DEF HandlesTypeOK, Pointers, RefersTo
<1>5. AskingKnow'
  <2> SUFFICES ASSUME NEW o \in HandleReqs PROVE Knows(o)'
      BY DEF AskingKnow
  <2>1. CASE o = r
      BY <1>1, <1>2, <1>3, <1>4, <2>1, KeysApart DEF Knows, AskingKnow
  <2>2. CASE o # r
      BY <1>1, <1>3, <2>2 DEF Knows, AskingKnow
  <2> QED BY <2>1, <2>2
<1>6. MirrorsApart' /\ \A p \in HandleProjects, i \in 1..MaxMirrors : RefersTo(p, i)' => i <= mirrors'
  <2>1. ASSUME NEW p \in HandleProjects, NEW i \in 1..MaxMirrors, RefersTo(p, i)'
        PROVE  RefersTo(p, i)
    <3>1. CASE pointer'[p] = i \/ cached'[p] = i \/ \E v \in vinculos' : v.of = p /\ v.handle = i
        BY <1>3, <3>1 DEF RefersTo
    <3>2. ASSUME NEW o \in HandleReqs, Asks(o, p)', asking'[o].read = i \/ asking'[o].handle = i
          PROVE  RefersTo(p, i)
      <4>1. CASE o = r
          BY <1>2, <1>3, <1>4, <3>2, <4>1 DEF RefersTo, Asks
      <4>2. CASE o # r
          BY <1>3, <3>2, <4>2 DEF RefersTo, Asks
      <4> QED BY <4>1, <4>2
    <3> QED BY <2>1, <3>1, <3>2 DEF RefersTo
  <2> QED BY <1>1, <1>3, <2>1, ApartKept
<1>7. RowsKnow'
    BY <1>1, <1>3, <1>6 DEF RowsKnow
<1>8. RowsTaken'
  <2> SUFFICES ASSUME NEW o \in HandleReqs, NEW v \in asking'[o].rows
               PROVE  /\ asking'[o].op = "move" => v.kind = "folder"
                      /\ asking'[o].op = "rmdir" => v.folder = asking'[o].to
                      /\ asking'[o].op = "delete" /\ v.of # asking'[o].p => astray'[v.of] # {}
      BY DEF RowsTaken
  <2> QED BY <1>1, <1>2, <1>3 DEF RowsTaken
<1>9. ASSUME NEW p \in HandleProjects, astray'[p] = {} PROVE Straight(p)'
  <2>1. Straight(p)
      BY <1>3, <1>9 DEF HandlesInv
  <2>2. ASSUME NEW o \in HandleReqs, Asks(o, p)'
        PROVE  asking'[o] = asking[o] \/ StartsRight(asking'[o], p)
    <3>1. CASE o # r
        BY <1>3, <3>1
    <3>2. CASE o = r
      <4>1. p = q.p /\ Asks(r, p)
          BY <1>3, <2>2, <3>2 DEF Asks
      <4>2. q.read \in {NoMirror, pointer[p]} /\ cached[p] \in {NoMirror, pointer[p]}
          BY <2>1, <4>1 DEF Straight, OneHandle
      <4> QED BY <1>2, <1>3, <1>4, <3>2, <4>1, <4>2 DEF StartsRight
    <3> QED BY <3>1, <3>2
  <2>3. \A o \in HandleReqs : asking'[o].op = "rmdir" => asking'[o] = asking[o]
      BY <1>2, <1>3
  <2> QED BY <1>1, <1>3, <2>1, <2>2, <2>3, StraightKept
<1> QED BY <1>5, <1>6, <1>7, <1>8, <1>9 DEF HandlesInv

\* A step after which requests keep the rows they found, and what befell a project stays.
LEMMA TakenKept ==
    ASSUME HandlesTypeOK, RowsTaken,
           \A p \in HandleProjects : astray[p] # {} => astray'[p] # {},
           \A o \in HandleReqs : \/ asking'[o].rows = {}
                                 \/ /\ asking'[o].rows = asking[o].rows
                                    /\ asking'[o].op = asking[o].op
                                    /\ asking'[o].p = asking[o].p /\ asking'[o].to = asking[o].to
    PROVE  RowsTaken'
<1> SUFFICES ASSUME NEW o \in HandleReqs, NEW v \in asking'[o].rows
             PROVE  /\ asking'[o].op = "move" => v.kind = "folder"
                    /\ asking'[o].op = "rmdir" => v.folder = asking'[o].to
                    /\ asking'[o].op = "delete" /\ v.of # asking'[o].p => astray'[v.of] # {}
    BY DEF RowsTaken
<1>1. /\ v \in asking[o].rows /\ asking'[o].op = asking[o].op
      /\ asking'[o].p = asking[o].p /\ asking'[o].to = asking[o].to
    OBVIOUS
<1>2. v.of \in HandleProjects
    BY <1>1 DEF HandlesTypeOK, Asking, Vinculos
<1> QED BY <1>1, <1>2 DEF RowsTaken

\* The mirror dados pointed to is still there, or nothing is known of the project but its
\* key.
LEMMA EnsureMirrorInv ==
    ASSUME HandlesInv, HandlesTypeOK', NEW r \in HandleReqs, EnsureMirror(r)
    PROVE  HandlesInv'
<1>1. HandlesTypeOK /\ AskingKnow /\ RowsKnow /\ MirrorsApart /\ RowsTaken
    BY DEF HandlesInv
<1> PICK q : q = asking[r]
    OBVIOUS
<1> PICK k : k = asking'[r]
    OBVIOUS
<1> PICK e : e = IF MirrorThere(q.handle) THEN q.handle ELSE mirrors + 1
    OBVIOUS
<1>2. /\ q \in Asking /\ q.pc = "mirror" /\ q.p \in HandleProjects
      /\ q.op \in {"update", "member", "move"} /\ q.handle \in Pointers
      /\ projectState[q.p] # "unborn"
    BY <1>1 DEF HandlesTypeOK, AskingKnow, Knows, EnsureMirror, Asking, Handles, Pointers
<1>3. e \in 1..MaxMirrors
    BY <1>1, <1>2, HandleAssumption DEF EnsureMirror, MirrorThere, Pointers, HandlesTypeOK
<1>4. /\ \A o \in HandleReqs : o # r => asking'[o] = asking[o]
      /\ k.op = q.op /\ k.p = q.p /\ k.to = q.to /\ k.read = q.read /\ k.rows = q.rows
      /\ k.pc = (IF q.op = "move" THEN "see" ELSE "write") /\ k.handle = e
      /\ cached'[q.p] = e /\ \A p \in HandleProjects : p # q.p => cached'[p] = cached[p]
      /\ UNCHANGED <<projectState, vinculos, folders>>
    BY <1>1, <1>2 DEF EnsureMirror, HandlesTypeOK, Asking
<1>5. AskingKnow'
  <2> SUFFICES ASSUME NEW o \in HandleReqs PROVE Knows(o)'
      BY DEF AskingKnow
  <2>1. CASE o = r
      BY <1>1, <1>2, <1>3, <1>4, <2>1, KeysApart DEF Knows, AskingKnow
  <2>2. CASE o # r
      BY <1>1, <1>4, <2>2 DEF Knows, AskingKnow
  <2> QED BY <2>1, <2>2
<1>6. /\ astray' = astray \/ \E what \in SUBSET Mishaps : Stray(q.p, what)
      /\ \A p \in HandleProjects : astray[p] # {} => astray'[p] # {}
    BY <1>1, <1>2, StrayIs DEF EnsureMirror, Mishaps
<1>7. RowsTaken'
    BY <1>1, <1>4, <1>6, TakenKept
<1>8. CASE MirrorThere(q.handle)
  <2>1. UNCHANGED <<pointer, mirrors, astray>> /\ e = q.handle
      BY <1>8 DEF EnsureMirror
  <2>2. RefersTo(q.p, e)
      BY <1>2, <2>1 DEF RefersTo, Asks
  <2>3. ASSUME NEW p \in HandleProjects, NEW i \in 1..MaxMirrors, RefersTo(p, i)'
        PROVE  RefersTo(p, i)
    <3>1. CASE pointer'[p] = i \/ cached'[p] = i \/ \E v \in vinculos' : v.of = p /\ v.handle = i
        BY <1>2, <1>4, <2>1, <2>2, <3>1 DEF RefersTo
    <3>2. ASSUME NEW o \in HandleReqs, Asks(o, p)', asking'[o].read = i \/ asking'[o].handle = i
          PROVE  RefersTo(p, i)
      <4>1. CASE o = r
          BY <1>2, <1>4, <2>2, <3>2, <4>1 DEF RefersTo, Asks
      <4>2. CASE o # r
          BY <1>4, <3>2, <4>2 DEF RefersTo, Asks
      <4> QED BY <4>1, <4>2
    <3> QED BY <2>3, <3>1, <3>2 DEF RefersTo
  <2>4. MirrorsApart' /\ \A p \in HandleProjects, i \in 1..MaxMirrors : RefersTo(p, i)' => i <= mirrors'
      BY <1>1, <2>1, <2>3, ApartKept
  <2>5. ASSUME NEW p \in HandleProjects, astray'[p] = {} PROVE Straight(p)'
    <3>1. Straight(p)
        BY <2>1, <2>5 DEF HandlesInv
    <3>2. p = q.p => e = pointer[p]
        BY <1>2, <1>3, <2>1, <3>1, KeysApart DEF Straight, OneHandle, Asks
    <3>3. ASSUME NEW o \in HandleReqs, Asks(o, p)'
          PROVE  asking'[o] = asking[o] \/ StartsRight(asking'[o], p)
      <4>1. CASE o # r
          BY <1>4, <4>1
      <4>2. CASE o = r
        <5>1. p = q.p /\ Asks(r, p)
            BY <1>4, <3>3, <4>2 DEF Asks
        <5>2. q.read \in {NoMirror, pointer[p]}
            BY <3>1, <5>1 DEF Straight, OneHandle
        <5> QED BY <1>2, <1>4, <3>2, <4>2, <5>1, <5>2 DEF StartsRight
      <4> QED BY <4>1, <4>2
    <3>4. \A o \in HandleReqs : asking'[o].op = "rmdir" => asking'[o] = asking[o]
        BY <1>2, <1>4
    <3>5. cached'[p] \in {cached[p], NoMirror, pointer[p]}
        BY <1>4, <3>2
    <3> QED BY <1>1, <1>4, <2>1, <3>1, <3>3, <3>4, <3>5, StraightKept
  <2>6. RowsKnow'
      BY <1>1, <1>2, <1>4, <2>1, <2>4 DEF RowsKnow
  <2> QED BY <1>5, <1>7, <2>4, <2>5, <2>6 DEF HandlesInv
<1>9. CASE ~MirrorThere(q.handle)
  <2> DEFINE what == {m \in {"split"} : RowsOf(q.p, {"manager", "member", "folder"}) # {}}
                     \cup {m \in {"twice"} : q.handle = NoMirror /\ pointer[q.p] # NoMirror}
  <2>1. /\ e = mirrors + 1 /\ mirrors' = e /\ q.handle = NoMirror
        /\ pointer'[q.p] = e /\ \A p \in HandleProjects : p # q.p => pointer'[p] = pointer[p]
        /\ Stray(q.p, what)
      BY <1>1, <1>9 DEF EnsureMirror, MirrorThere, HandlesTypeOK
  <2>2. what \subseteq Mishaps
      BY DEF Mishaps
  <2>3. /\ \A p \in HandleProjects : p # q.p => astray'[p] = astray[p]
        /\ astray'[q.p] = {} => astray[q.p] = {} /\ what = {}
      BY <1>1, <1>2, <2>1, <2>2, StrayIs
  <2>4. what = {} => /\ RowsOf(q.p, {"manager", "member", "folder"}) = {}
                     /\ pointer[q.p] = NoMirror
      BY <2>1
  <2> HIDE DEF what
  <2>5. ASSUME NEW p \in HandleProjects, NEW i \in 1..MaxMirrors, RefersTo(p, i)'
        PROVE  RefersTo(p, i) \/ (p = q.p /\ i = mirrors + 1 /\ mirrors' = mirrors + 1)
    <3>1. CASE pointer'[p] = i \/ cached'[p] = i \/ \E v \in vinculos' : v.of = p /\ v.handle = i
        BY <1>2, <1>4, <2>1, <3>1 DEF RefersTo
    <3>2. ASSUME NEW o \in HandleReqs, Asks(o, p)', asking'[o].read = i \/ asking'[o].handle = i
          PROVE  RefersTo(p, i) \/ (p = q.p /\ i = mirrors + 1 /\ mirrors' = mirrors + 1)
      <4>1. CASE o = r
          BY <1>2, <1>4, <2>1, <3>2, <4>1 DEF RefersTo, Asks
      <4>2. CASE o # r
          BY <1>4, <3>2, <4>2 DEF RefersTo, Asks
      <4> QED BY <4>1, <4>2
    <3> QED BY <2>5, <3>1, <3>2 DEF RefersTo
  <2>6. MirrorsApart' /\ \A p \in HandleProjects, i \in 1..MaxMirrors : RefersTo(p, i)' => i <= mirrors'
      BY <1>1, <2>1, <2>3, <2>5, ApartKept
  <2>7. RowsKnow'
      BY <1>1, <1>2, <1>4, <2>1, <2>6 DEF RowsKnow
  <2>8. ASSUME NEW p \in HandleProjects, astray'[p] = {} PROVE Straight(p)'
    <3>1. Straight(p)
        BY <2>3, <2>8 DEF HandlesInv
    <3>2. \A o \in HandleReqs : asking'[o].op = "rmdir" => asking'[o] = asking[o]
        BY <1>2, <1>4
    <3>3. CASE p # q.p
      <4>1. \A o \in HandleReqs : Asks(o, p)' => asking'[o] = asking[o]
          BY <1>4, <3>3 DEF Asks
      <4> QED BY <1>1, <1>4, <2>1, <3>1, <3>2, <3>3, <4>1, StraightKept
    <3>4. CASE p = q.p
      <4>1. /\ pointer[p] = NoMirror /\ cached[p] = NoMirror
            /\ RowsOf(p, {"manager", "member", "folder"}) = {}
          BY <2>3, <2>4, <2>8, <3>1, <3>4 DEF Straight, OneHandle
      <4>2. \A v \in vinculos : v.of # p
          BY <1>1, <3>1, <4>1 DEF Straight, OneHandle, Own, RowsOf, HandlesTypeOK, Vinculos
      <4>3. ASSUME NEW o \in HandleReqs, Asks(o, p)'
            PROVE  /\ asking'[o].read = NoMirror /\ asking'[o].handle \in {NoMirror, p, e}
                   /\ Asks(o, p) /\ asking'[o].op = asking[o].op
                   /\ asking'[o].op = "move" /\ asking'[o].pc = "write" => asking'[o] = asking[o]
        <5>1. Asks(o, p)
            BY <1>2, <1>4, <4>3 DEF Asks
        <5>2. asking[o].read = NoMirror /\ asking[o].handle \in {NoMirror, p}
            BY <3>1, <4>1, <5>1 DEF Straight, OneHandle
        <5> QED BY <1>2, <1>4, <5>1, <5>2
      <4>4. OneHandle(p)'
          BY <1>4, <2>1, <3>4, <4>2, <4>3 DEF OneHandle
      <4>5. OneMove(p)'
          BY <3>1, <4>3 DEF Straight, OneMove
      <4>6. NothingMissed(p)' /\ Managed(p)' /\ NoZombie(p)' /\ OneFolder(p)'
          BY <1>4, <3>1, <4>2 DEF Straight, NothingMissed, Managed, NoZombie, OneFolder
      <4> QED BY <4>4, <4>5, <4>6 DEF Straight
    <3> QED BY <3>3, <3>4
  <2> QED BY <1>5, <1>7, <2>6, <2>7, <2>8 DEF HandlesInv
<1> QED BY <1>8, <1>9

\* A project that is born, with a mirror of its own and a row for its manager, when
\* nothing was known of it.
LEMMA BornStraight ==
    ASSUME HandlesTypeOK, HandlesTypeOK', RowsKnow, AskingKnow',
           NEW c \in HandleProjects, NEW e \in 1..MaxMirrors, NEW w,
           w = Row("manager", e, NoFolder, c),
           projectState[c] = "unborn", projectState'[c] = "live",
           pointer'[c] = e, cached'[c] = e, vinculos' = vinculos \cup {w},
           \A r \in HandleReqs : ~Asks(r, c)'
    PROVE  Straight(c)'
<1>1. /\ w.kind = "manager" /\ w.handle = e /\ w.folder = NoFolder /\ w.of = c
    BY RowType DEF Handles
<1>2. \A v \in vinculos' : v.of = c => v = w
    BY DEF RowsKnow
<1>3. \A r \in HandleReqs : asking'[r].op = "rmdir" => asking'[r].to # NoFolder
    BY HandleAssumption DEF AskingKnow, Knows
<1>4. OneHandle(c)' /\ Managed(c)' /\ NoZombie(c)' /\ OneFolder(c)'
    BY <1>1, <1>2, KeysApart DEF OneHandle, Own, Managed, NoZombie, OneFolder
<1>5. NothingMissed(c)' /\ OneMove(c)'
    BY <1>1, <1>2, <1>3 DEF NothingMissed, OneMove
<1> QED BY <1>4, <1>5 DEF Straight

\* A copy of a project with a mirror shares it, and neither is told apart any longer.
LEMMA CopyProjectInv ==
    ASSUME HandlesInv, HandlesTypeOK', NEW r \in HandleReqs, CopyProject(r)
    PROVE  HandlesInv'
<1>1. HandlesTypeOK /\ AskingKnow /\ RowsKnow /\ MirrorsApart /\ RowsTaken
    BY DEF HandlesInv
<1> DEFINE q == asking[r]
<1> DEFINE e == IF MirrorThere(q.read) THEN q.read ELSE mirrors + 1
<1>2. /\ q \in Asking /\ q.op = "copy" /\ q.pc = "write" /\ q.p \in HandleProjects
      /\ q.read \in Pointers /\ projectState[q.p] # "unborn" /\ e <= MaxMirrors
      /\ EndAsking(r) /\ folders' = folders
    BY <1>1 DEF HandlesTypeOK, AskingKnow, Knows, CopyProject, Asking
<1>3. e \in 1..MaxMirrors
    BY <1>1, <1>2, HandleAssumption DEF MirrorThere, Pointers, HandlesTypeOK
<1> PICK c \in HandleProjects :
          /\ projectState[c] = "unborn"
          /\ projectState' = [projectState EXCEPT ![c] = "live"]
          /\ pointer' = [pointer EXCEPT ![c] = e]
          /\ cached' = [cached EXCEPT ![c] = e]
          /\ mirrors' = IF MirrorThere(q.read) THEN mirrors ELSE e
          /\ vinculos' = vinculos \cup {Row("manager", e, NoFolder, c)}
          /\ astray' = [p \in HandleProjects |->
                          IF MirrorThere(q.read) /\ p \in {c, q.p}
                          THEN astray[p] \cup {"copied"} ELSE astray[p]]
    BY DEF CopyProject
<1>0. /\ q = asking[r]
      /\ MirrorThere(q.read) => e = q.read
      /\ ~MirrorThere(q.read) => e = mirrors + 1
    OBVIOUS
<1> HIDE DEF q, e
<1> PICK w : w = Row("manager", e, NoFolder, c)
    OBVIOUS
<1>4. /\ w \in Vinculos /\ w.kind = "manager" /\ w.handle = e
      /\ w.folder = NoFolder /\ w.of = c /\ vinculos' = vinculos \cup {w}
    BY <1>3, RowType DEF Handles
<1>5. /\ projectState'[c] = "live" /\ pointer'[c] = e /\ cached'[c] = e
      /\ \A p \in HandleProjects : p # c => /\ projectState'[p] = projectState[p]
                                            /\ pointer'[p] = pointer[p] /\ cached'[p] = cached[p]
    BY <1>1 DEF HandlesTypeOK
<1>6. /\ \A o \in HandleReqs : o # r => asking'[o] = asking[o]
      /\ asking'[r].op = "none" /\ asking'[r].rows = {}
      /\ AskingKnow'
    BY <1>1, <1>2, <1>5, EndAskingIs, EndAskingKnow
<1>7. /\ \A o \in HandleReqs : ~Asks(o, c) /\ ~Asks(o, c)'
      /\ \A v \in vinculos : v.of # c
      /\ \A p \in HandleProjects, o \in HandleReqs : Asks(o, p)' => asking'[o] = asking[o] /\ Asks(o, p)
    BY <1>1, <1>6 DEF AskingKnow, Knows, RowsKnow, Asks
<1>8. ASSUME NEW p \in HandleProjects
      PROVE  /\ astray[p] # {} => astray'[p] # {}
             /\ astray'[p] = {} => astray[p] = {}
             /\ MirrorThere(q.read) /\ p \in {c, q.p} => astray'[p] # {}
  <2>1. astray'[p] = IF MirrorThere(q.read) /\ p \in {c, q.p}
                     THEN astray[p] \cup {"copied"} ELSE astray[p]
      OBVIOUS
  <2> QED BY <2>1
<1>9. RowsTaken'
    BY <1>1, <1>6, <1>8, TakenKept
<1>10. ASSUME NEW p \in HandleProjects, NEW i \in 1..MaxMirrors, RefersTo(p, i)'
       PROVE  RefersTo(p, i) \/ (p = c /\ i = e)
  <2>1. CASE p = c
      BY <1>4, <1>5, <1>7, <1>10, <2>1 DEF RefersTo
  <2>2. CASE p # c
      BY <1>4, <1>5, <1>7, <1>10, <2>2 DEF RefersTo
  <2> QED BY <2>1, <2>2
<1>11. MirrorsApart' /\ \A p \in HandleProjects, i \in 1..MaxMirrors : RefersTo(p, i)' => i <= mirrors'
  <2>1. CASE ~MirrorThere(q.read)
    <3>1. mirrors' = mirrors + 1 /\ e = mirrors + 1
        BY <1>0, <2>1
    <3> QED BY <1>1, <1>8, <1>10, <3>1, ApartKept
  <2>2. CASE MirrorThere(q.read)
    <3>1. e = q.read /\ mirrors' = mirrors /\ RefersTo(q.p, e)
        BY <1>0, <1>2, <1>3, <2>2 DEF RefersTo, Asks
    <3>2. \A p \in HandleProjects, i \in 1..MaxMirrors : RefersTo(p, i)' => i <= mirrors'
        BY <1>1, <1>2, <1>3, <1>10, <3>1 DEF RowsKnow
    <3>3. ASSUME NEW p \in HandleProjects, NEW b \in HandleProjects, NEW i \in 1..MaxMirrors,
                 astray'[p] = {}, p # b, RefersTo(p, i)', RefersTo(b, i)'
          PROVE  FALSE
      <4>1. p \notin {c, q.p} /\ RefersTo(p, i) /\ astray[p] = {}
          BY <1>8, <1>10, <2>2, <3>3
      <4>2. RefersTo(b, i) \/ RefersTo(q.p, i)
          BY <1>10, <3>1, <3>3
      <4> QED BY <1>1, <1>2, <3>3, <4>1, <4>2 DEF MirrorsApart
    <3> QED BY <3>2, <3>3 DEF MirrorsApart
  <2> QED BY <2>1, <2>2
<1>12. RowsKnow'
  <2>1. \A v \in vinculos' : /\ v.kind = "folder" <=> v.folder # NoFolder
                             /\ v.handle \in HandleProjects => v.handle = v.of
                             /\ projectState'[v.of] # "unborn"
      BY <1>1, <1>3, <1>4, <1>5, KeysApart DEF RowsKnow, HandlesTypeOK, Vinculos
  <2>2. \A p \in HandleProjects :
          projectState'[p] = "unborn" => pointer'[p] = NoMirror /\ cached'[p] = NoMirror
      BY <1>1, <1>5 DEF RowsKnow
  <2> QED BY <1>11, <2>1, <2>2 DEF RowsKnow
<1>13. ASSUME NEW p \in HandleProjects, astray'[p] = {} PROVE Straight(p)'
  <2>1. CASE p # c
    <3>1. Straight(p)
        BY <1>8, <1>13 DEF HandlesInv
    <3>2. \A o \in HandleReqs : asking'[o].op = "rmdir" => asking'[o] = asking[o]
        BY <1>6
    <3>3. /\ \A v \in vinculos' : v.of = p => v \in vinculos
          /\ \A v \in vinculos : v.of = p /\ v.kind = "manager" => v \in vinculos'
        BY <1>4, <2>1
    <3> QED BY <1>1, <1>2, <1>5, <1>7, <2>1, <3>1, <3>2, <3>3, StraightKept
  <2>2. CASE p = c
      BY <1>1, <1>3, <1>4, <1>5, <1>6, <1>7, <2>2, BornStraight
  <2> QED BY <2>1, <2>2
<1> QED BY <1>6, <1>9, <1>11, <1>12, <1>13 DEF HandlesInv

LEMMA UpdateProjectInv ==
    ASSUME HandlesInv, HandlesTypeOK', NEW r \in HandleReqs, UpdateProject(r)
    PROVE  HandlesInv'
<1>1. HandlesTypeOK /\ AskingKnow /\ RowsKnow /\ MirrorsApart /\ RowsTaken
    BY DEF HandlesInv
<1> PICK q : q = asking[r]
    OBVIOUS
<1> DEFINE what == {m \in {"forgotten"} : pointer[q.p] # q.read}
<1>2. /\ q.op = "update" /\ q.pc = "write" /\ q.p \in HandleProjects
      /\ projectState[q.p] # "unborn" /\ Asks(r, q.p)
      /\ EndAsking(r) /\ Stray(q.p, what)
      /\ UNCHANGED <<projectState, cached, mirrors, vinculos, folders>>
    BY <1>1 DEF HandlesTypeOK, AskingKnow, Knows, UpdateProject, Asks
<1>3. /\ pointer'[q.p] = q.read /\ \A p \in HandleProjects : p # q.p => pointer'[p] = pointer[p]
    BY <1>1, <1>2 DEF UpdateProject, HandlesTypeOK
<1>4. /\ \A p \in HandleProjects : p # q.p => astray'[p] = astray[p]
      /\ astray'[q.p] = astray[q.p] \cup what
    BY <1>1, <1>2, StrayIs DEF Mishaps
<1>5. astray'[q.p] = {} => pointer[q.p] = q.read /\ astray[q.p] = {}
    BY <1>4
<1>6. \A p \in HandleProjects : /\ astray[p] # {} => astray'[p] # {}
                                /\ astray'[p] = {} => astray[p] = {}
    BY <1>4
<1> HIDE DEF what
<1>7. /\ \A o \in HandleReqs : o # r => asking'[o] = asking[o]
      /\ asking'[r].op = "none" /\ asking'[r].rows = {}
      /\ AskingKnow'
    BY <1>1, <1>2, EndAskingIs, EndAskingKnow
<1>8. RowsTaken'
    BY <1>1, <1>6, <1>7, TakenKept
<1>9. MirrorsApart' /\ \A p \in HandleProjects, i \in 1..MaxMirrors : RefersTo(p, i)' => i <= mirrors'
  <2>1. ASSUME NEW p \in HandleProjects, NEW i \in 1..MaxMirrors, RefersTo(p, i)'
        PROVE  RefersTo(p, i)
    <3>1. \A o \in HandleReqs : Asks(o, p)' => Asks(o, p) /\ asking'[o] = asking[o]
        BY <1>7 DEF Asks
    <3>2. pointer'[p] = i => RefersTo(p, i)
        BY <1>2, <1>3 DEF RefersTo
    <3> QED BY <1>2, <2>1, <3>1, <3>2 DEF RefersTo
  <2> QED BY <1>1, <1>2, <1>6, <2>1, ApartKept
<1>10. RowsKnow'
    BY <1>1, <1>2, <1>3, <1>9 DEF RowsKnow
<1>11. ASSUME NEW p \in HandleProjects, astray'[p] = {} PROVE Straight(p)'
  <2>1. Straight(p) /\ pointer'[p] = pointer[p]
      BY <1>3, <1>5, <1>6, <1>11 DEF HandlesInv
  <2>2. /\ \A o \in HandleReqs : Asks(o, p)' => asking'[o] = asking[o]
        /\ \A o \in HandleReqs : asking'[o].op = "rmdir" => asking'[o] = asking[o]
      BY <1>7 DEF Asks
  <2> QED BY <1>1, <1>2, <2>1, <2>2, StraightKept
<1> QED BY <1>7, <1>8, <1>9, <1>10, <1>11 DEF HandlesInv

\* A row about the handle a request resolved is no news of a mirror.
LEMMA AddMemberInv ==
    ASSUME HandlesInv, HandlesTypeOK', NEW r \in HandleReqs, AddMember(r)
    PROVE  HandlesInv'
<1>1. HandlesTypeOK /\ AskingKnow /\ RowsKnow /\ MirrorsApart /\ RowsTaken
    BY DEF HandlesInv
<1> PICK q : q = asking[r]
    OBVIOUS
<1> DEFINE what == {m \in {"late"} : TooLate(q.p, NoFolder, q.handle)}
<1>2. /\ q.op = "member" /\ q.pc = "write" /\ q.p \in HandleProjects
      /\ q.handle \in 1..MaxMirrors
      /\ projectState[q.p] # "unborn" /\ Asks(r, q.p)
      /\ EndAsking(r) /\ Stray(q.p, what)
      /\ UNCHANGED <<projectState, pointer, cached, mirrors, folders>>
    BY <1>1 DEF HandlesTypeOK, AskingKnow, Knows, AddMember, Asks
<1> PICK w : w = Row("member", q.handle, NoFolder, q.p)
    OBVIOUS
<1>3. /\ w.kind = "member" /\ w.handle = q.handle /\ w.folder = NoFolder /\ w.of = q.p
      /\ vinculos' = vinculos \cup {w}
  <2>1. /\ w.kind = "member" /\ w.handle = q.handle
        /\ w.folder = NoFolder /\ w.of = q.p
      BY DEF Row
  <2>2. vinculos' = vinculos \cup {w}
      BY DEF AddMember
  <2> QED BY <2>1, <2>2
<1>4. /\ \A p \in HandleProjects : p # q.p => astray'[p] = astray[p]
      /\ astray'[q.p] = astray[q.p] \cup what
    BY <1>1, <1>2, StrayIs DEF Mishaps
<1>5. astray'[q.p] = {} => ~TooLate(q.p, NoFolder, q.handle)
    BY <1>4
<1>6. \A p \in HandleProjects : /\ astray[p] # {} => astray'[p] # {}
                                /\ astray'[p] = {} => astray[p] = {}
    BY <1>4
<1> HIDE DEF what
<1>7. /\ \A o \in HandleReqs : o # r => asking'[o] = asking[o]
      /\ asking'[r].op = "none" /\ asking'[r].rows = {}
      /\ AskingKnow'
    BY <1>1, <1>2, EndAskingIs, EndAskingKnow
<1>8. RowsTaken'
    BY <1>1, <1>6, <1>7, TakenKept
<1>9. \A p \in HandleProjects, o \in HandleReqs : Asks(o, p)' => Asks(o, p) /\ asking'[o] = asking[o]
    BY <1>7 DEF Asks
<1>10. MirrorsApart' /\ \A p \in HandleProjects, i \in 1..MaxMirrors : RefersTo(p, i)' => i <= mirrors'
  <2>1. ASSUME NEW p \in HandleProjects, NEW i \in 1..MaxMirrors, RefersTo(p, i)'
        PROVE  RefersTo(p, i)
    <3>1. (\E v \in vinculos' : v.of = p /\ v.handle = i) => RefersTo(p, i)
        BY <1>2, <1>3 DEF RefersTo
    <3> QED BY <1>2, <1>9, <2>1, <3>1 DEF RefersTo
  <2> QED BY <1>1, <1>2, <1>6, <2>1, ApartKept
<1>11. RowsKnow'
    BY <1>1, <1>2, <1>3, <1>10, KeysApart DEF RowsKnow
<1>12. ASSUME NEW p \in HandleProjects, astray'[p] = {} PROVE Straight(p)'
  <2>1. Straight(p)
      BY <1>6, <1>12 DEF HandlesInv
  <2>2. CASE p # q.p
    <3>1. /\ \A v \in vinculos' : v.of = p => v \in vinculos
          /\ \A v \in vinculos : v.of = p /\ v.kind = "manager" => v \in vinculos'
        BY <1>3, <2>2
    <3>2. \A o \in HandleReqs : asking'[o].op = "rmdir" => asking'[o] = asking[o]
        BY <1>7
    <3> QED BY <1>1, <1>2, <1>9, <2>1, <3>1, <3>2, StraightKept
  <2>3. CASE p = q.p
    <3>1. /\ q.handle = pointer[p] /\ q.handle = Own(p) /\ Own(p)' = Own(p)
        BY <1>2, <2>1, <2>3, KeysApart DEF Straight, OneHandle, Own
    <3>2. /\ projectState[p] = "live"
          /\ \A o \in HandleReqs : asking[o].op = "delete" /\ asking[o].p = p
                                      => asking[o].pc # "write" /\ asking[o].handle = q.handle
        BY <1>5, <1>12, <2>3 DEF TooLate, InProgress
    <3>3. OneHandle(p)'
        BY <1>2, <1>3, <1>9, <2>1, <3>1 DEF Straight, OneHandle
    <3>4. NothingMissed(p)'
      <4> SUFFICES ASSUME NEW o \in HandleReqs, NEW v \in vinculos', v.of = p
                   PROVE  /\ Asks(o, p)' /\ asking'[o].op = "delete" /\ asking'[o].pc = "see"
                                => v.handle = asking'[o].handle
                          /\ Asks(o, p)' /\ asking'[o].op = "delete" /\ asking'[o].pc = "write"
                                => v \in asking'[o].rows
                          /\ asking'[o].op = "rmdir" /\ v.folder = asking'[o].to
                                => v \in asking'[o].rows
                          /\ Asks(o, p)' /\ asking'[o].op = "move" /\ asking'[o].pc = "write"
                             /\ v.kind = "folder" => v \in asking'[o].rows
          BY DEF NothingMissed
      <4>1. CASE o = r
          BY <1>7, <4>1
      <4>2. CASE o # r /\ v = w
          BY <1>3, <1>7, <3>2, <4>2, HandleAssumption DEF AskingKnow, Knows, Asks
      <4>3. CASE o # r /\ v # w
          BY <1>3, <1>7, <1>9, <2>1, <4>3 DEF Straight, NothingMissed
      <4> QED BY <4>1, <4>2, <4>3
    <3>5. OneMove(p)'
        BY <1>9, <2>1 DEF Straight, OneMove
    <3>6. Managed(p)' /\ NoZombie(p)' /\ OneFolder(p)'
        BY <1>2, <1>3, <2>1, <3>2 DEF Straight, Managed, NoZombie, OneFolder
    <3> QED BY <3>3, <3>4, <3>5, <3>6 DEF Straight
  <2> QED BY <2>2, <2>3
<1> QED BY <1>7, <1>8, <1>10, <1>11, <1>12 DEF HandlesInv

LEMMA MoveLooksInv ==
    ASSUME HandlesInv, HandlesTypeOK', NEW r \in HandleReqs, MoveLooks(r)
    PROVE  HandlesInv'
<1>1. HandlesTypeOK /\ AskingKnow /\ RowsKnow /\ MirrorsApart /\ RowsTaken
    BY DEF HandlesInv
<1> PICK q : q = asking[r]
    OBVIOUS
<1> PICK k : k = asking'[r]
    OBVIOUS
<1> DEFINE what == {m \in {"moves"} :
                      \E o \in InProgress({"move"}) : asking[o].pc = "write" /\ asking[o].p = q.p}
<1>2. /\ q \in Asking /\ q.op = "move" /\ q.pc = "see" /\ q.p \in HandleProjects
      /\ q.handle \in 1..MaxMirrors
      /\ projectState[q.p] # "unborn" /\ Asks(r, q.p)
      /\ Stray(q.p, what)
      /\ UNCHANGED <<projectState, pointer, cached, mirrors, vinculos, folders>>
    BY <1>1 DEF HandlesTypeOK, AskingKnow, Knows, MoveLooks, Asks
<1>3. /\ \A o \in HandleReqs : o # r => asking'[o] = asking[o]
      /\ k.op = "move" /\ k.p = q.p /\ k.to = q.to /\ k.read = q.read /\ k.pc = "write"
      /\ k.handle = q.handle /\ k.rows = RowsOf(q.handle, {"folder"})
    BY <1>1, <1>2 DEF MoveLooks, HandlesTypeOK, Asking
<1>4. /\ \A p \in HandleProjects : p # q.p => astray'[p] = astray[p]
      /\ astray'[q.p] = astray[q.p] \cup what
    BY <1>1, <1>2, StrayIs DEF Mishaps
<1>5. astray'[q.p] = {} =>
         \A o \in HandleReqs : ~(asking[o].op = "move" /\ asking[o].pc = "write" /\ asking[o].p = q.p)
    BY <1>4 DEF InProgress
<1>6. \A p \in HandleProjects : /\ astray[p] # {} => astray'[p] # {}
                                /\ astray'[p] = {} => astray[p] = {}
    BY <1>4
<1> HIDE DEF what
<1>7. AskingKnow'
  <2> SUFFICES ASSUME NEW o \in HandleReqs PROVE Knows(o)'
      BY DEF AskingKnow
  <2>1. CASE o = r
      BY <1>1, <1>2, <1>3, <2>1, KeysApart DEF Knows, AskingKnow
  <2>2. CASE o # r
      BY <1>1, <1>2, <1>3, <2>2 DEF Knows, AskingKnow
  <2> QED BY <2>1, <2>2
<1>8. RowsTaken'
  <2> SUFFICES ASSUME NEW o \in HandleReqs, NEW v \in asking'[o].rows
               PROVE  /\ asking'[o].op = "move" => v.kind = "folder"
                      /\ asking'[o].op = "rmdir" => v.folder = asking'[o].to
                      /\ asking'[o].op = "delete" /\ v.of # asking'[o].p => astray'[v.of] # {}
      BY DEF RowsTaken
  <2>1. CASE o = r
      BY <1>3, <2>1 DEF RowsOf
  <2>2. CASE o # r
    <3>1. v \in asking[o].rows /\ v.of \in HandleProjects
        BY <1>1, <1>3, <2>2 DEF HandlesTypeOK, Asking, Vinculos
    <3> QED BY <1>1, <1>3, <1>6, <2>2, <3>1 DEF RowsTaken
  <2> QED BY <2>1, <2>2
<1>9. \A p \in HandleProjects, o \in HandleReqs :
         Asks(o, p)' => /\ Asks(o, p) /\ asking'[o].op = asking[o].op
                        /\ asking'[o].read = asking[o].read /\ asking'[o].handle = asking[o].handle
                        /\ o # r \/ p # q.p => asking'[o] = asking[o]
    BY <1>2, <1>3 DEF Asks
<1>10. MirrorsApart' /\ \A p \in HandleProjects, i \in 1..MaxMirrors : RefersTo(p, i)' => i <= mirrors'
  <2>1. ASSUME NEW p \in HandleProjects, NEW i \in 1..MaxMirrors, RefersTo(p, i)'
        PROVE  RefersTo(p, i)
      BY <1>2, <1>9, <2>1 DEF RefersTo
  <2> QED BY <1>1, <1>2, <1>6, <2>1, ApartKept
<1>11. RowsKnow'
    BY <1>1, <1>2, <1>10 DEF RowsKnow
<1>12. ASSUME NEW p \in HandleProjects, astray'[p] = {} PROVE Straight(p)'
  <2>1. Straight(p)
      BY <1>6, <1>12 DEF HandlesInv
  <2>2. CASE p # q.p
    <3>1. \A o \in HandleReqs : asking'[o].op = "rmdir" => asking'[o] = asking[o]
        BY <1>3
    <3> QED BY <1>1, <1>2, <1>9, <2>1, <2>2, <3>1, StraightKept
  <2>3. CASE p = q.p
    <3>1. q.handle = Own(p) /\ Own(p)' = Own(p)
        BY <1>2, <2>1, <2>3, KeysApart DEF Straight, OneHandle, Own
    <3>2. OneHandle(p)'
        BY <1>2, <1>9, <2>1, <3>1 DEF Straight, OneHandle
    <3>3. NothingMissed(p)'
      <4> SUFFICES ASSUME NEW o \in HandleReqs, NEW v \in vinculos', v.of = p
                   PROVE  /\ Asks(o, p)' /\ asking'[o].op = "delete" /\ asking'[o].pc = "see"
                                => v.handle = asking'[o].handle
                          /\ Asks(o, p)' /\ asking'[o].op = "delete" /\ asking'[o].pc = "write"
                                => v \in asking'[o].rows
                          /\ asking'[o].op = "rmdir" /\ v.folder = asking'[o].to
                                => v \in asking'[o].rows
                          /\ Asks(o, p)' /\ asking'[o].op = "move" /\ asking'[o].pc = "write"
                             /\ v.kind = "folder" => v \in asking'[o].rows
          BY DEF NothingMissed
      <4>1. CASE o = r
        <5>1. v \in vinculos /\ v.handle = q.handle
            BY <1>2, <2>1, <3>1 DEF Straight, OneHandle
        <5> QED BY <1>3, <4>1, <5>1 DEF RowsOf
      <4>2. CASE o # r
          BY <1>2, <1>3, <1>9, <2>1, <4>2 DEF Straight, NothingMissed
      <4> QED BY <4>1, <4>2
    <3>4. OneMove(p)'
        BY <1>3, <1>5, <1>12, <2>3 DEF OneMove, Asks
    <3>5. Managed(p)' /\ NoZombie(p)' /\ OneFolder(p)'
        BY <1>2, <2>1 DEF Straight, Managed, NoZombie, OneFolder
    <3> QED BY <3>2, <3>3, <3>4, <3>5 DEF Straight
  <2> QED BY <2>2, <2>3
<1> QED BY <1>7, <1>8, <1>10, <1>11, <1>12 DEF HandlesInv

\* The rows a move found are all the folder rows of its project, and only its own row
\* replaces them.
LEMMA MoveCommitsInv ==
    ASSUME HandlesInv, HandlesTypeOK', NEW r \in HandleReqs, MoveCommits(r)
    PROVE  HandlesInv'
<1>1. HandlesTypeOK /\ AskingKnow /\ RowsKnow /\ MirrorsApart /\ RowsTaken
    BY DEF HandlesInv
<1> PICK q : q = asking[r]
    OBVIOUS
<1> DEFINE what == {m \in {"late"} : TooLate(q.p, q.to, q.handle)}
<1>2. /\ q.op = "move" /\ q.pc = "write" /\ q.p \in HandleProjects
      /\ q.handle \in 1..MaxMirrors /\ q.to \in FolderIds /\ q.to # NoFolder
      /\ projectState[q.p] # "unborn" /\ Asks(r, q.p)
      /\ EndAsking(r) /\ Stray(q.p, what)
      /\ UNCHANGED <<projectState, pointer, cached, mirrors, folders>>
    BY <1>1, HandleAssumption DEF HandlesTypeOK, AskingKnow, Knows, MoveCommits, Asks
<1> PICK w : w = Row("folder", q.handle, q.to, q.p)
    OBVIOUS
<1>3. /\ w.kind = "folder" /\ w.handle = q.handle /\ w.folder = q.to /\ w.of = q.p
      /\ vinculos' = (vinculos \ q.rows) \cup {w}
      /\ \A v \in q.rows : v.kind = "folder"
    BY <1>1, <1>2, RowType DEF Handles, MoveCommits, RowsTaken
<1>4. /\ \A p \in HandleProjects : p # q.p => astray'[p] = astray[p]
      /\ astray'[q.p] = astray[q.p] \cup what
    BY <1>1, <1>2, StrayIs DEF Mishaps
<1>5. astray'[q.p] = {} => ~TooLate(q.p, q.to, q.handle)
    BY <1>4
<1>6. \A p \in HandleProjects : /\ astray[p] # {} => astray'[p] # {}
                                /\ astray'[p] = {} => astray[p] = {}
    BY <1>4
<1> HIDE DEF what
<1>7. /\ \A o \in HandleReqs : o # r => asking'[o] = asking[o]
      /\ asking'[r].op = "none" /\ asking'[r].rows = {}
      /\ AskingKnow'
    BY <1>1, <1>2, EndAskingIs, EndAskingKnow
<1>8. RowsTaken'
    BY <1>1, <1>6, <1>7, TakenKept
<1>9. \A p \in HandleProjects, o \in HandleReqs :
         Asks(o, p)' => Asks(o, p) /\ asking'[o] = asking[o] /\ o # r
    BY <1>7 DEF Asks
<1>10. MirrorsApart' /\ \A p \in HandleProjects, i \in 1..MaxMirrors : RefersTo(p, i)' => i <= mirrors'
  <2>1. ASSUME NEW p \in HandleProjects, NEW i \in 1..MaxMirrors, RefersTo(p, i)'
        PROVE  RefersTo(p, i)
    <3>1. (\E v \in vinculos' : v.of = p /\ v.handle = i) => RefersTo(p, i)
        BY <1>2, <1>3 DEF RefersTo
    <3> QED BY <1>2, <1>9, <2>1, <3>1 DEF RefersTo
  <2> QED BY <1>1, <1>2, <1>6, <2>1, ApartKept
<1>11. RowsKnow'
    BY <1>1, <1>2, <1>3, <1>10, KeysApart DEF RowsKnow
<1>12. ASSUME NEW p \in HandleProjects, astray'[p] = {} PROVE Straight(p)'
  <2>1. Straight(p)
      BY <1>6, <1>12 DEF HandlesInv
  <2>2. CASE p # q.p
    <3>1. /\ \A v \in vinculos' : v.of = p => v \in vinculos
          /\ \A v \in vinculos : v.of = p /\ v.kind = "manager" => v \in vinculos'
        BY <1>3, <2>2
    <3>2. \A o \in HandleReqs : asking'[o].op = "rmdir" => asking'[o] = asking[o]
        BY <1>7
    <3> QED BY <1>1, <1>2, <1>9, <2>1, <3>1, <3>2, StraightKept
  <2>3. CASE p = q.p
    <3>1. /\ q.handle = pointer[p] /\ q.handle = Own(p) /\ Own(p)' = Own(p)
        BY <1>2, <2>1, <2>3, KeysApart DEF Straight, OneHandle, Own
    <3>2. /\ projectState[p] = "live" /\ q.to \in folders
          /\ \A o \in HandleReqs : asking[o].op = "delete" /\ asking[o].p = p
                                      => asking[o].pc # "write" /\ asking[o].handle = q.handle
          /\ \A o \in HandleReqs : asking[o].op = "rmdir" => asking[o].to # q.to
        BY <1>1, <1>2, <1>5, <1>12, <2>3 DEF TooLate, InProgress, AskingKnow, Knows
    <3>3. \A v \in vinculos' : v.of = p => v = w \/ (v \in vinculos /\ v.kind # "folder")
        BY <1>2, <1>3, <2>1, <2>3 DEF Straight, NothingMissed
    <3>4. OneHandle(p)'
        BY <1>2, <1>3, <1>9, <2>1, <3>1 DEF Straight, OneHandle
    <3>5. NothingMissed(p)'
      <4> SUFFICES ASSUME NEW o \in HandleReqs, NEW v \in vinculos', v.of = p
                   PROVE  /\ Asks(o, p)' /\ asking'[o].op = "delete" /\ asking'[o].pc = "see"
                                => v.handle = asking'[o].handle
                          /\ Asks(o, p)' /\ asking'[o].op = "delete" /\ asking'[o].pc = "write"
                                => v \in asking'[o].rows
                          /\ asking'[o].op = "rmdir" /\ v.folder = asking'[o].to
                                => v \in asking'[o].rows
                          /\ Asks(o, p)' /\ asking'[o].op = "move" /\ asking'[o].pc = "write"
                             /\ v.kind = "folder" => v \in asking'[o].rows
          BY DEF NothingMissed
      <4>1. CASE o = r
          BY <1>7, <4>1
      <4>2. CASE o # r /\ v = w
        <5>1. ~(Asks(o, p) /\ asking[o].op = "move" /\ asking[o].pc = "write")
            BY <1>2, <2>1, <2>3, <4>2 DEF Straight, OneMove
        <5> QED BY <1>3, <1>7, <1>9, <3>2, <4>2, <5>1 DEF Asks
      <4>3. CASE o # r /\ v # w
        <5>1. v \in vinculos
            BY <3>3, <4>3
        <5> QED BY <1>7, <1>9, <2>1, <4>3, <5>1 DEF Straight, NothingMissed
      <4> QED BY <4>1, <4>2, <4>3
    <3>6. OneMove(p)'
        BY <1>9, <2>1 DEF Straight, OneMove
    <3>7. Managed(p)'
        BY <1>2, <1>3, <2>1 DEF Straight, Managed
    <3>8. NoZombie(p)'
        BY <1>2, <1>3, <2>1, <3>2, <3>3 DEF Straight, NoZombie
    <3>9. OneFolder(p)'
        BY <3>3 DEF OneFolder
    <3> QED BY <3>4, <3>5, <3>6, <3>7, <3>8, <3>9 DEF Straight
  <2> QED BY <2>2, <2>3
<1> QED BY <1>7, <1>8, <1>10, <1>11, <1>12 DEF HandlesInv

\* Rows that go, and a request that ends, are no news of a mirror.
LEMMA FewerRowsKnown ==
    ASSUME HandlesTypeOK, RowsKnow, MirrorsApart, NEW r \in HandleReqs, EndAsking(r),
           vinculos' \subseteq vinculos,
           \A p \in HandleProjects : projectState[p] # "unborn" => projectState'[p] # "unborn",
           \A p \in HandleProjects : projectState'[p] = "unborn" => projectState[p] = "unborn",
           UNCHANGED <<pointer, cached, mirrors, astray>>
    PROVE  MirrorsApart' /\ RowsKnow'
<1>1. \A p \in HandleProjects, o \in HandleReqs : Asks(o, p)' => Asks(o, p) /\ asking'[o] = asking[o]
    BY EndAskingIs DEF Asks
<1>2. \A p \in HandleProjects, i \in 1..MaxMirrors : RefersTo(p, i)' => RefersTo(p, i)
    BY <1>1 DEF RefersTo
<1>3. MirrorsApart' /\ \A p \in HandleProjects, i \in 1..MaxMirrors : RefersTo(p, i)' => i <= mirrors'
    BY <1>2, ApartKept
<1>4. \A v \in vinculos : v.of \in HandleProjects
    BY DEF HandlesTypeOK, Vinculos
<1> QED BY <1>3, <1>4 DEF RowsKnow

LEMMA UnmoveProjectInv ==
    ASSUME HandlesInv, HandlesTypeOK', NEW r \in HandleReqs, UnmoveProject(r)
    PROVE  HandlesInv'
<1>1. HandlesTypeOK /\ AskingKnow /\ RowsKnow /\ MirrorsApart /\ RowsTaken
    BY DEF HandlesInv
<1>2. /\ EndAsking(r) /\ vinculos' \subseteq vinculos
      /\ \A v \in vinculos : v.kind = "manager" => v \in vinculos'
      /\ UNCHANGED <<projectState, pointer, cached, mirrors, folders, astray>>
    BY DEF UnmoveProject, RowsOf
<1>3. /\ \A o \in HandleReqs : o # r => asking'[o] = asking[o]
      /\ asking'[r].op = "none" /\ asking'[r].rows = {}
      /\ AskingKnow' /\ RowsTaken'
    BY <1>1, <1>2, EndAskingIs, EndAskingKnow, TakenKept
<1>4. MirrorsApart' /\ RowsKnow'
    BY <1>1, <1>2, FewerRowsKnown
<1>5. ASSUME NEW p \in HandleProjects, astray'[p] = {} PROVE Straight(p)'
  <2>1. Straight(p)
      BY <1>2, <1>5 DEF HandlesInv
  <2>2. /\ \A o \in HandleReqs : Asks(o, p)' => asking'[o] = asking[o]
        /\ \A o \in HandleReqs : asking'[o].op = "rmdir" => asking'[o] = asking[o]
      BY <1>3 DEF Asks
  <2> QED BY <1>1, <1>2, <2>1, <2>2, StraightKept
<1> QED BY <1>3, <1>4, <1>5 DEF HandlesInv

\* A deletion finds no row of another project, unless the two share a mirror.
LEMMA DeleteLooksInv ==
    ASSUME HandlesInv, HandlesTypeOK', NEW r \in HandleReqs, DeleteLooks(r)
    PROVE  HandlesInv'
<1>1. HandlesTypeOK /\ AskingKnow /\ RowsKnow /\ MirrorsApart /\ RowsTaken
    BY DEF HandlesInv
<1> PICK q : q = asking[r]
    OBVIOUS
<1> PICK k : k = asking'[r]
    OBVIOUS
<1>2. /\ q \in Asking /\ q.op = "delete" /\ q.pc = "see" /\ q.p \in HandleProjects
      /\ q.handle # NoMirror
      /\ q.handle \in HandleProjects => q.handle = q.p
      /\ projectState[q.p] # "unborn" /\ Asks(r, q.p)
      /\ UNCHANGED <<projectState, pointer, cached, mirrors, vinculos, folders, astray>>
    BY <1>1 DEF HandlesTypeOK, AskingKnow, Knows, DeleteLooks, Asks
<1>3. /\ \A o \in HandleReqs : o # r => asking'[o] = asking[o]
      /\ k.op = "delete" /\ k.p = q.p /\ k.to = q.to /\ k.read = q.read /\ k.pc = "write"
      /\ k.handle = q.handle /\ k.rows = RowsOf(q.handle, {"manager", "member", "folder"})
    BY <1>1, <1>2 DEF DeleteLooks, DeletedWithProject, HandlesTypeOK, Asking
<1>4. AskingKnow'
  <2> SUFFICES ASSUME NEW o \in HandleReqs PROVE Knows(o)'
      BY DEF AskingKnow
  <2>1. CASE o = r
      BY <1>2, <1>3, <2>1 DEF Knows
  <2>2. CASE o # r
      BY <1>1, <1>2, <1>3, <2>2 DEF Knows, AskingKnow
  <2> QED BY <2>1, <2>2
<1>5. RowsTaken'
  <2> SUFFICES ASSUME NEW o \in HandleReqs, NEW v \in asking'[o].rows
               PROVE  /\ asking'[o].op = "move" => v.kind = "folder"
                      /\ asking'[o].op = "rmdir" => v.folder = asking'[o].to
                      /\ asking'[o].op = "delete" /\ v.of # asking'[o].p => astray'[v.of] # {}
      BY DEF RowsTaken
  <2>1. CASE o = r
    <3>0. v \in vinculos /\ v.handle = q.handle
        BY <1>3, <2>1 DEF RowsOf
    <3>1. v \in vinculos /\ v.handle = q.handle /\ v.of \in HandleProjects /\ v.handle \in Handles
        BY <1>1, <3>0 DEF HandlesTypeOK, Vinculos
    <3>2. CASE v.handle \in HandleProjects
        BY <1>1, <1>2, <1>3, <2>1, <3>1, <3>2 DEF RowsKnow
    <3>3. CASE v.handle \in 1..MaxMirrors
      <4>1. RefersTo(v.of, v.handle) /\ RefersTo(q.p, v.handle)
          BY <1>2, <3>1 DEF RefersTo
      <4>2. v.of # q.p => astray[v.of] # {}
          BY <1>1, <1>2, <3>1, <3>3, <4>1 DEF MirrorsApart
      <4> QED BY <1>2, <1>3, <2>1, <4>2
    <3> QED BY <3>1, <3>2, <3>3 DEF Handles
  <2>2. CASE o # r
      BY <1>1, <1>2, <1>3, <2>2 DEF RowsTaken
  <2> QED BY <2>1, <2>2
<1>6. \A p \in HandleProjects, o \in HandleReqs :
         Asks(o, p)' => /\ Asks(o, p) /\ asking'[o].op = asking[o].op
                        /\ asking'[o].read = asking[o].read /\ asking'[o].handle = asking[o].handle
                        /\ o # r \/ p # q.p => asking'[o] = asking[o]
    BY <1>2, <1>3 DEF Asks
<1>7. MirrorsApart' /\ \A p \in HandleProjects, i \in 1..MaxMirrors : RefersTo(p, i)' => i <= mirrors'
  <2>1. ASSUME NEW p \in HandleProjects, NEW i \in 1..MaxMirrors, RefersTo(p, i)'
        PROVE  RefersTo(p, i)
      BY <1>2, <1>6, <2>1 DEF RefersTo
  <2> QED BY <1>1, <1>2, <2>1, ApartKept
<1>8. RowsKnow'
    BY <1>1, <1>2, <1>7 DEF RowsKnow
<1>9. ASSUME NEW p \in HandleProjects, astray'[p] = {} PROVE Straight(p)'
  <2>1. Straight(p)
      BY <1>2, <1>9 DEF HandlesInv
  <2>2. CASE p # q.p
    <3>1. \A o \in HandleReqs : asking'[o].op = "rmdir" => asking'[o] = asking[o]
        BY <1>3
    <3> QED BY <1>1, <1>2, <1>6, <2>1, <2>2, <3>1, StraightKept
  <2>3. CASE p = q.p
    <3>1. OneHandle(p)'
        BY <1>2, <1>6, <2>1 DEF Straight, OneHandle, Own
    <3>2. NothingMissed(p)'
      <4> SUFFICES ASSUME NEW o \in HandleReqs, NEW v \in vinculos', v.of = p
                   PROVE  /\ Asks(o, p)' /\ asking'[o].op = "delete" /\ asking'[o].pc = "see"
                                => v.handle = asking'[o].handle
                          /\ Asks(o, p)' /\ asking'[o].op = "delete" /\ asking'[o].pc = "write"
                                => v \in asking'[o].rows
                          /\ asking'[o].op = "rmdir" /\ v.folder = asking'[o].to
                                => v \in asking'[o].rows
                          /\ Asks(o, p)' /\ asking'[o].op = "move" /\ asking'[o].pc = "write"
                             /\ v.kind = "folder" => v \in asking'[o].rows
          BY DEF NothingMissed
      <4>1. CASE o = r
        <5>1. /\ v \in vinculos /\ v.handle = q.handle
              /\ v.kind \in {"manager", "member", "folder"}
            BY <1>1, <1>2, <2>1, <2>3 DEF Straight, NothingMissed, HandlesTypeOK, Vinculos
        <5> QED BY <1>3, <4>1, <5>1 DEF RowsOf
      <4>2. CASE o # r
          BY <1>2, <1>3, <1>6, <2>1, <4>2 DEF Straight, NothingMissed
      <4> QED BY <4>1, <4>2
    <3>3. OneMove(p)'
        BY <1>3, <1>6, <2>1 DEF Straight, OneMove
    <3>4. Managed(p)' /\ NoZombie(p)' /\ OneFolder(p)'
        BY <1>2, <2>1 DEF Straight, Managed, NoZombie, OneFolder
    <3> QED BY <3>1, <3>2, <3>3, <3>4 DEF Straight
  <2> QED BY <2>2, <2>3
<1> QED BY <1>4, <1>5, <1>7, <1>8, <1>9 DEF HandlesInv

LEMMA DeleteCommitsInv ==
    ASSUME HandlesInv, HandlesTypeOK', NEW r \in HandleReqs, DeleteCommits(r)
    PROVE  HandlesInv'
<1>1. HandlesTypeOK /\ AskingKnow /\ RowsKnow /\ MirrorsApart /\ RowsTaken
    BY DEF HandlesInv
<1> PICK q : q = asking[r]
    OBVIOUS
<1>2. /\ q \in Asking /\ q.op = "delete" /\ q.pc = "write" /\ q.p \in HandleProjects
      /\ projectState[q.p] # "unborn" /\ Asks(r, q.p)
      /\ EndAsking(r) /\ vinculos' = vinculos \ q.rows
      /\ UNCHANGED <<pointer, cached, mirrors, folders, astray>>
    BY <1>1 DEF HandlesTypeOK, AskingKnow, Knows, DeleteCommits, Asks
<1>3. /\ projectState'[q.p] = "deleted"
      /\ \A p \in HandleProjects : p # q.p => projectState'[p] = projectState[p]
    BY <1>1, <1>2 DEF DeleteCommits, HandlesTypeOK
<1>4. /\ \A o \in HandleReqs : o # r => asking'[o] = asking[o]
      /\ asking'[r].op = "none" /\ asking'[r].rows = {}
      /\ AskingKnow' /\ RowsTaken'
    BY <1>1, <1>2, <1>3, EndAskingIs, EndAskingKnow, TakenKept
<1>5. MirrorsApart' /\ RowsKnow'
    BY <1>1, <1>2, <1>3, FewerRowsKnown
<1>6. ASSUME NEW p \in HandleProjects, astray'[p] = {} PROVE Straight(p)'
  <2>1. Straight(p) /\ astray[p] = {}
      BY <1>2, <1>6 DEF HandlesInv
  <2>2. /\ \A o \in HandleReqs : Asks(o, p)' => Asks(o, p) /\ asking'[o] = asking[o]
        /\ \A o \in HandleReqs : asking'[o].op = "rmdir" => asking'[o] = asking[o]
      BY <1>4 DEF Asks
  <2>3. CASE p # q.p
    <3>1. \A v \in vinculos : v.of = p => v \notin q.rows
        BY <1>1, <1>2, <2>1, <2>3 DEF RowsTaken
    <3> QED BY <1>1, <1>2, <1>3, <2>1, <2>2, <2>3, <3>1, StraightKept
  <2>4. CASE p = q.p
    <3>1. \A v \in vinculos' : v.of # p
        BY <1>2, <2>1, <2>4 DEF Straight, NothingMissed
    <3>2. OneHandle(p)'
        BY <1>2, <2>1, <2>2, <3>1 DEF Straight, OneHandle
    <3>3. OneMove(p)'
        BY <2>1, <2>2 DEF Straight, OneMove
    <3>4. NothingMissed(p)' /\ Managed(p)' /\ NoZombie(p)' /\ OneFolder(p)'
        BY <1>3, <2>4, <3>1 DEF NothingMissed, Managed, NoZombie, OneFolder
    <3> QED BY <3>2, <3>3, <3>4 DEF Straight
  <2> QED BY <2>3, <2>4
<1> QED BY <1>4, <1>5, <1>6 DEF HandlesInv

LEMMA RemoveFolderLooksInv ==
    ASSUME HandlesInv, HandlesTypeOK', NEW r \in HandleReqs, RemoveFolderLooks(r)
    PROVE  HandlesInv'
<1>1. HandlesTypeOK /\ AskingKnow /\ RowsKnow /\ MirrorsApart /\ RowsTaken
    BY DEF HandlesInv
<1> PICK f \in folders :
        /\ asking[r].pc = "idle"
        /\ asking' = [asking EXCEPT ![r] =
                        [NoAsking EXCEPT !.op = "rmdir", !.pc = "write", !.to = f,
                                           !.rows = {v \in vinculos : v.folder = f}]]
        /\ UNCHANGED <<projectState, pointer, cached, mirrors, vinculos, folders, astray>>
    BY DEF RemoveFolderLooks
<1> DEFINE found == {v \in vinculos : v.folder = f}
<1>2. f \in FolderIds /\ found \in SUBSET Vinculos
    BY <1>1 DEF HandlesTypeOK
<1>3. /\ \A o \in HandleReqs : o # r => asking'[o] = asking[o]
      /\ asking'[r] = [NoAsking EXCEPT !.op = "rmdir", !.pc = "write", !.to = f, !.rows = found]
    BY <1>1 DEF HandlesTypeOK
<1> HIDE DEF found
<1>4. /\ asking'[r].op = "rmdir" /\ asking'[r].pc = "write" /\ asking'[r].to = f
      /\ asking'[r].rows = found
  <2> DEFINE k == [NoAsking EXCEPT !.op = "rmdir", !.pc = "write", !.to = f, !.rows = found]
  <2>1. k.op = "rmdir" /\ k.pc = "write" /\ k.to = f /\ k.rows = found
      BY DEF NoAsking
  <2>2. asking'[r] = k
      BY <1>3
  <2> HIDE DEF k
  <2> QED BY <2>1, <2>2
<1>5. \A v : v \in found <=> v \in vinculos /\ v.folder = f
    BY DEF found
<1>6. AskingKnow'
  <2> SUFFICES ASSUME NEW o \in HandleReqs PROVE Knows(o)'
      BY DEF AskingKnow
  <2>1. CASE o = r
      BY <1>2, <1>4, <2>1 DEF Knows
  <2>2. CASE o # r
      BY <1>1, <1>3, <2>2 DEF Knows, AskingKnow
  <2> QED BY <2>1, <2>2
<1>7. RowsTaken'
  <2> SUFFICES ASSUME NEW o \in HandleReqs, NEW v \in asking'[o].rows
               PROVE  /\ asking'[o].op = "move" => v.kind = "folder"
                      /\ asking'[o].op = "rmdir" => v.folder = asking'[o].to
                      /\ asking'[o].op = "delete" /\ v.of # asking'[o].p => astray'[v.of] # {}
      BY DEF RowsTaken
  <2>1. CASE o = r
      BY <1>4, <1>5, <2>1
  <2>2. CASE o # r
      BY <1>1, <1>3, <2>2 DEF RowsTaken
  <2> QED BY <2>1, <2>2
<1>8. \A p \in HandleProjects, o \in HandleReqs : Asks(o, p)' => Asks(o, p) /\ asking'[o] = asking[o]
    BY <1>3, <1>4 DEF Asks
<1>9. MirrorsApart' /\ \A p \in HandleProjects, i \in 1..MaxMirrors : RefersTo(p, i)' => i <= mirrors'
  <2>1. ASSUME NEW p \in HandleProjects, NEW i \in 1..MaxMirrors, RefersTo(p, i)'
        PROVE  RefersTo(p, i)
      BY <1>8, <2>1 DEF RefersTo
  <2> QED BY <1>1, <2>1, ApartKept
<1>10. RowsKnow'
    BY <1>1, <1>9 DEF RowsKnow
<1>11. ASSUME NEW p \in HandleProjects, astray'[p] = {} PROVE Straight(p)'
  <2>1. Straight(p)
      BY <1>11 DEF HandlesInv
  <2>2. OneHandle(p)'
      BY <1>8, <2>1 DEF Straight, OneHandle, Own
  <2>3. NothingMissed(p)'
    <3> SUFFICES ASSUME NEW o \in HandleReqs, NEW v \in vinculos', v.of = p
                 PROVE  /\ Asks(o, p)' /\ asking'[o].op = "delete" /\ asking'[o].pc = "see"
                              => v.handle = asking'[o].handle
                        /\ Asks(o, p)' /\ asking'[o].op = "delete" /\ asking'[o].pc = "write"
                              => v \in asking'[o].rows
                        /\ asking'[o].op = "rmdir" /\ v.folder = asking'[o].to
                              => v \in asking'[o].rows
                        /\ Asks(o, p)' /\ asking'[o].op = "move" /\ asking'[o].pc = "write"
                           /\ v.kind = "folder" => v \in asking'[o].rows
        BY DEF NothingMissed
    <3>1. CASE o = r
        BY <1>4, <1>5, <3>1
    <3>2. CASE o # r
      <4>1. v \in vinculos /\ asking'[o] = asking[o] /\ (Asks(o, p)' => Asks(o, p))
          BY <1>3, <1>8, <3>2
      <4> QED BY <2>1, <4>1 DEF Straight, NothingMissed
    <3> QED BY <3>1, <3>2
  <2>4. OneMove(p)'
      BY <1>8, <2>1 DEF Straight, OneMove
  <2>5. Managed(p)' /\ NoZombie(p)' /\ OneFolder(p)'
      BY <2>1 DEF Straight, Managed, NoZombie, OneFolder
  <2> QED BY <2>2, <2>3, <2>4, <2>5 DEF Straight
<1> QED BY <1>6, <1>7, <1>9, <1>10, <1>11 DEF HandlesInv

LEMMA RemoveFolderCommitsInv ==
    ASSUME HandlesInv, HandlesTypeOK', NEW r \in HandleReqs, RemoveFolderCommits(r)
    PROVE  HandlesInv'
<1>1. HandlesTypeOK /\ AskingKnow /\ RowsKnow /\ MirrorsApart /\ RowsTaken
    BY DEF HandlesInv
<1> PICK q : q = asking[r]
    OBVIOUS
<1>2. /\ q \in Asking /\ q.op = "rmdir" /\ q.pc = "write" /\ q.to \in FolderIds
      /\ q.to # NoFolder
      /\ EndAsking(r) /\ vinculos' = vinculos \ q.rows /\ folders' = folders \ {q.to}
      /\ UNCHANGED <<projectState, pointer, cached, mirrors, astray>>
    BY <1>1, HandleAssumption DEF HandlesTypeOK, AskingKnow, Knows, RemoveFolderCommits
<1>3. /\ \A o \in HandleReqs : o # r => asking'[o] = asking[o]
      /\ asking'[r].op = "none" /\ asking'[r].rows = {}
      /\ AskingKnow' /\ RowsTaken'
    BY <1>1, <1>2, EndAskingIs, EndAskingKnow, TakenKept
<1>4. MirrorsApart' /\ RowsKnow'
    BY <1>1, <1>2, FewerRowsKnown
<1>5. \A v \in vinculos : v \in q.rows => v.kind = "folder"
    BY <1>1, <1>2 DEF RowsTaken, RowsKnow
<1>6. ASSUME NEW p \in HandleProjects, astray'[p] = {} PROVE Straight(p)'
  <2>1. Straight(p)
      BY <1>2, <1>6 DEF HandlesInv
  <2>2. /\ \A o \in HandleReqs : Asks(o, p)' => Asks(o, p) /\ asking'[o] = asking[o]
        /\ \A o \in HandleReqs : asking'[o].op = "rmdir" => asking'[o] = asking[o]
      BY <1>3 DEF Asks
  <2>3. OneHandle(p)'
      BY <1>2, <2>1, <2>2 DEF Straight, OneHandle, Own
  <2>4. NothingMissed(p)'
      BY <1>2, <2>1, <2>2 DEF Straight, NothingMissed
  <2>5. OneMove(p)'
      BY <2>1, <2>2 DEF Straight, OneMove
  <2>6. Managed(p)'
      BY <1>2, <1>5, <2>1 DEF Straight, Managed
  <2>7. NoZombie(p)'
    <3> SUFFICES ASSUME NEW v \in vinculos', v.of = p
                 PROVE  projectState'[p] = "live" /\ v.folder \in folders' \cup {NoFolder}
        BY DEF NoZombie
    <3>1. v \in vinculos /\ v \notin q.rows
        BY <1>2
    <3>2. v.folder # q.to
        BY <1>2, <2>1, <3>1 DEF Straight, NothingMissed
    <3> QED BY <1>2, <2>1, <3>1, <3>2 DEF Straight, NoZombie
  <2>8. OneFolder(p)'
      BY <1>2, <2>1 DEF Straight, OneFolder
  <2> QED BY <2>3, <2>4, <2>5, <2>6, <2>7, <2>8 DEF Straight
<1> QED BY <1>3, <1>4, <1>6 DEF HandlesInv

LEMMA HandlesNextInv == HandlesInv /\ [HandlesNext]_handleVars => HandlesInv'
<1> SUFFICES ASSUME HandlesInv, [HandlesNext]_handleVars PROVE HandlesInv'
    OBVIOUS
<1>1. HandlesTypeOK'
    BY HandlesStepType DEF HandlesInv
<1>2. CASE \E p \in HandleProjects : CreateProject(p) \/ CacheExpires(p)
    BY <1>1, <1>2, CreateProjectInv, CacheExpiresInv
<1>3. ASSUME NEW r \in HandleReqs,
             BeginRequest(r) \/ EnsureRead(r) \/ EnsureMirror(r) \/ UpdateProject(r) \/ CopyProject(r)
      PROVE  HandlesInv'
    BY <1>1, <1>3, BeginRequestInv, EnsureReadInv, EnsureMirrorInv, UpdateProjectInv, CopyProjectInv
<1>4. ASSUME NEW r \in HandleReqs,
             AddMember(r) \/ MoveLooks(r) \/ MoveCommits(r) \/ UnmoveProject(r)
      PROVE  HandlesInv'
    BY <1>1, <1>4, AddMemberInv, MoveLooksInv, MoveCommitsInv, UnmoveProjectInv
<1>5. ASSUME NEW r \in HandleReqs,
             DeleteLooks(r) \/ DeleteCommits(r) \/ RemoveFolderLooks(r) \/ RemoveFolderCommits(r)
      PROVE  HandlesInv'
    BY <1>1, <1>5, DeleteLooksInv, DeleteCommitsInv, RemoveFolderLooksInv, RemoveFolderCommitsInv
<1>6. CASE UNCHANGED handleVars
  <2> USE <1>6 DEF handleVars
  <2>1. AskingKnow' /\ RowsTaken'
      BY DEF HandlesInv, AskingKnow, Knows, RowsTaken
  <2>2. MirrorsApart' /\ RowsKnow'
      BY DEF HandlesInv, MirrorsApart, RowsKnow, RefersTo, Asks
  <2>3. ASSUME NEW p \in HandleProjects, astray'[p] = {} PROVE Straight(p)'
    <3>1. Straight(p) /\ HandlesTypeOK
        BY <2>3 DEF HandlesInv
    <3> QED BY <3>1, StraightKept
  <2> QED BY <1>1, <2>1, <2>2, <2>3 DEF HandlesInv
<1> QED BY <1>2, <1>3, <1>4, <1>5, <1>6 DEF HandlesNext

\* Unless a mishap befell it, a project keeps a mirror of its own, its manager and its
\* members are found under the handle its readers resolve, it lies in one folder at most,
\* and no row of it outlives it or its folder, however many requests create, copy, update,
\* move and delete projects and remove folders at once.
THEOREM HandlesSoundHolds == HandlesSpec => []HandlesSound
<1>1. HandlesInv => HandlesSound
    BY HandlesInvSound
<1> QED BY <1>1, HandlesInitInv, HandlesNextInv, PTL DEF HandlesSpec

-----------------------------------------------------------------------------
(* ProjectTree.                                                            *)

\* A request has what its handler read, and what it names exists.
WellAsked(r) ==
    LET q == request[r] IN
    /\ q.pc = "idle" => q = NoChange
    /\ q.pc # "idle" => /\ q.board \in Boards /\ q.to # q.board
                        /\ q.op = "create" <=> exists[q.board] = "unborn"
    /\ q.op = "create" => q.previous = NoLinkRow
    /\ q.to # NoBoard => exists[q.to] # "unborn"
    /\ \A b \in q.below : exists[b] # "unborn"

\* A parent was created before, a project that was not has no team, and none is created twice.
BoardsKnown ==
    \A b \in Boards : /\ parent[b] # NoBoard => exists[parent[b]] # "unborn"
                      /\ parent[b] # b
                      /\ exists[b] = "unborn" => LinksOf(b) = {}
BoardsOnce ==
    \A r, o \in Requests :
        /\ request[r].op = "create" /\ request[r].pc # "idle"
        /\ request[o].op = "create" /\ request[o].pc # "idle"
        /\ request[r].board = request[o].board
        => r = o
RequestsKnown == BoardsKnown /\ BoardsOnce /\ \A r \in Requests : WellAsked(r)

\* S has the live projects above the new parent of a move, as its query found them.  While
\* moves come one at a time it stays so, and the project that moves is not among them.
Above(q, S) ==
    /\ q.board \notin S /\ (q.to \in Live => q.to \in S)
    /\ \A s \in S : exists[s] # "unborn" /\ (parent[s] \in Live => parent[s] \in S)
MovesAbove ==
    "moves" \notin happened =>
        /\ \A r, o \in Moving : r = o
        /\ \A r \in Moving : \E S \in SUBSET Boards : Above(request[r], S)

\* While the changes of a project's team come one at a time, the link a change found is the
\* only one there is.
TeamsApart ==
    "teams" \notin happened =>
        \A b \in Boards :
            /\ \A r, o \in Linking(b) : r = o
            /\ \A r \in Linking(b), l \in LinksOf(b) : l = request[r].previous

ProjectInv ==
    BoardsTypeOK /\ RequestsKnown /\ MovesAbove /\ TeamsApart /\ LiveForest /\ OneTeam

LEMMA NoChangeIs ==
    /\ NoChange \in BoardReqs
    /\ NoChange.op = "create" /\ NoChange.pc = "idle" /\ NoChange.board = NoBoard
    /\ NoChange.to = NoBoard /\ NoChange.previous = NoLinkRow /\ NoChange.below = {}
    /\ NoChange.keeps = TRUE /\ NoChange.team = NoTeam
BY DEF NoChange, BoardReqs

LEMMA ProjectInitInv == BoardsInit => ProjectInv
<1> SUFFICES ASSUME BoardsInit PROVE ProjectInv
    OBVIOUS
<1>1. /\ \A r \in Requests : request[r] = NoChange
      /\ \A b \in Boards : exists[b] = "unborn" /\ parent[b] = NoBoard
      /\ \A l \in TeamLinks : teamLink[l] = FreeRow /\ teamLink[l].state = "free"
    BY DEF BoardsInit, FreeRow
<1>2. BoardsTypeOK
    BY NoChangeIs DEF BoardsInit, BoardsTypeOK, LinkRows, FreeRow
<1>3. Live = {} /\ Moving = {} /\ \A b \in Boards : LinksOf(b) = {} /\ Linking(b) = {}
    BY <1>1, NoChangeIs DEF Live, LinksOf, Moving, Linking
<1>4. RequestsKnown
    BY <1>1, <1>3, BoardAssumption, NoChangeIs DEF RequestsKnown, BoardsKnown, BoardsOnce, WellAsked
<1>5. MovesAbove /\ TeamsApart /\ LiveForest /\ OneTeam
    BY <1>3 DEF MovesAbove, TeamsApart, LiveForest, OneTeam
<1> QED BY <1>2, <1>4, <1>5 DEF ProjectInv

\* What is said of requests by the parts of their records.
LEMMA MovingIs ==
    /\ Moving \subseteq Requests
    /\ \A r \in Requests : r \in Moving <=> /\ request[r].op = "update" /\ request[r].pc # "idle"
                                            /\ request[r].keeps
    /\ \A b : Linking(b) \subseteq Requests
    /\ \A b : \A r \in Requests :
          r \in Linking(b) <=> /\ request[r].op = "update" /\ request[r].pc # "idle"
                               /\ ~request[r].keeps /\ request[r].board = b
BY DEF Moving, Linking

\* A request that begins, with what it read.
LEMMA StartsInv ==
    ASSUME ProjectInv, NEW r \in Requests, NEW q \in BoardReqs, Starts(r, q), q.pc # "idle",
           happened \subseteq happened', happened' \subseteq {"moves", "teams"},
           q.board \in Boards, q.to # q.board, q.op = "create" <=> exists[q.board] = "unborn",
           q.op = "create" => q.previous = NoLinkRow /\ \A o \in Requests : request[o].board # q.board,
           q.to # NoBoard => exists[q.to] # "unborn",
           \A b \in q.below : exists[b] # "unborn",
           q.op = "update" /\ q.keeps => /\ "moves" \notin happened' => Moving = {}
                                         /\ \E S \in SUBSET Boards : Above(q, S),
           q.op = "update" /\ ~q.keeps /\ "teams" \notin happened'
              => /\ Linking(q.board) = {}
                 /\ \A l \in LinksOf(q.board) : l = q.previous
    PROVE  ProjectInv'
<1>1. BoardsTypeOK /\ RequestsKnown /\ MovesAbove /\ TeamsApart /\ LiveForest /\ OneTeam
    BY DEF ProjectInv
<1>2. /\ request'[r] = q /\ \A o \in Requests : o # r => request'[o] = request[o]
      /\ request' \in [Requests -> BoardReqs] /\ request[r].pc = "idle"
      /\ UNCHANGED <<exists, parent, teamLink, teams>>
    BY <1>1 DEF Starts, BoardsTypeOK
<1>3. Live' = Live /\ \A b : LinksOf(b)' = LinksOf(b)
    BY <1>2 DEF Live, LinksOf
<1>4. BoardsTypeOK'
    BY <1>1, <1>2 DEF BoardsTypeOK
<1>5. BoardsKnown' /\ BoardsOnce'
  <2>1. BoardsKnown'
      BY <1>1, <1>2, <1>3 DEF RequestsKnown, BoardsKnown
  <2>2. BoardsOnce'
      BY <1>1, <1>2 DEF RequestsKnown, BoardsOnce
  <2> QED BY <2>1, <2>2
<1>6. \A o \in Requests : WellAsked(o)'
    BY <1>1, <1>2 DEF RequestsKnown, WellAsked
<1>7. MovesAbove'
  <2> SUFFICES ASSUME "moves" \notin happened'
               PROVE  /\ \A i, o \in Moving' : i = o
                      /\ \A o \in Moving' : \E S \in SUBSET Boards : Above(request[o], S)'
      BY DEF MovesAbove
  <2>1. /\ \A i, o \in Moving : i = o
        /\ \A o \in Moving : \E S \in SUBSET Boards : Above(request[o], S)
      BY <1>1 DEF MovesAbove
  <2>2. \A o \in Requests : o # r => (o \in Moving' <=> o \in Moving)
      BY <1>2 DEF Moving
  <2>3. r \in Moving' => q.op = "update" /\ q.keeps
      BY <1>2 DEF Moving
  <2>4. Moving' \subseteq Requests
      BY DEF Moving
  <2>5. \A i, o \in Moving' : i = o
      BY <2>1, <2>2, <2>3, <2>4
  <2>6. ASSUME NEW o \in Moving' PROVE \E S \in SUBSET Boards : Above(request[o], S)'
    <3>1. \E S \in SUBSET Boards : Above(request'[o], S)
        BY <1>2, <2>1, <2>2, <2>3, <2>4, <2>6
    <3> QED BY <1>2, <1>3, <3>1 DEF Above
  <2> QED BY <2>5, <2>6
<1>8. TeamsApart'
  <2> SUFFICES ASSUME "teams" \notin happened', NEW b \in Boards
               PROVE  /\ \A i, o \in Linking(b)' : i = o
                      /\ \A o \in Linking(b)', l \in LinksOf(b) : l = request'[o].previous
      BY <1>3 DEF TeamsApart
  <2>1. /\ \A i, o \in Linking(b) : i = o
        /\ \A o \in Linking(b), l \in LinksOf(b) : l = request[o].previous
      BY <1>1 DEF TeamsApart
  <2>2. \A o \in Requests : o # r => (o \in Linking(b)' <=> o \in Linking(b))
      BY <1>2 DEF Linking
  <2>3. r \in Linking(b)' => q.op = "update" /\ ~q.keeps /\ q.board = b
      BY <1>2 DEF Linking
  <2>4. Linking(b)' \subseteq Requests
      BY DEF Linking
  <2> QED BY <1>2, <2>1, <2>2, <2>3, <2>4
<1>9. LiveForest' /\ OneTeam'
    BY <1>1, <1>2, <1>3 DEF LiveForest, OneTeam
<1> QED BY <1>4, <1>5, <1>6, <1>7, <1>8, <1>9 DEF ProjectInv, RequestsKnown

LEMMA CreateBoardInv == ASSUME ProjectInv, NEW r \in Requests, CreateBoard(r) PROVE ProjectInv'
<1>1. PICK b \in Boards, p \in Boards \cup {NoBoard}, t \in Teams \cup {NoTeam} :
        /\ exists[b] = "unborn"
        /\ \A o \in Requests : request[o].board # b
        /\ p # NoBoard => ParentRule(b, p)
        /\ Starts(r, [NoChange EXCEPT !.pc = NextStep(t), !.board = b, !.to = p,
                                      !.keeps = (t = NoTeam), !.team = t])
        /\ UNCHANGED happened
    BY DEF CreateBoard
<1> DEFINE q == [NoChange EXCEPT !.pc = NextStep(t), !.board = b, !.to = p,
                                 !.keeps = (t = NoTeam), !.team = t]
<1>2. /\ q \in BoardReqs /\ q.op = "create" /\ q.pc # "idle" /\ q.board = b /\ q.to = p
      /\ q.previous = NoLinkRow /\ q.below = {}
    BY DEF NoChange, BoardReqs, NextStep
<1>3. p # NoBoard => exists[p] = "live"
    BY <1>1 DEF ParentRule
<1>4. Starts(r, q) /\ happened' = happened /\ happened \subseteq {"moves", "teams"}
    BY <1>1 DEF ProjectInv, BoardsTypeOK
<1> HIDE DEF q
<1>5. p # b
    BY <1>1, <1>3, BoardAssumption
<1> QED BY <1>1, <1>2, <1>3, <1>4, <1>5, StartsInv

LEMMA MoveBoardInv == ASSUME ProjectInv, NEW r \in Requests, MoveBoard(r) PROVE ProjectInv'
<1>1. PICK b \in Live, p \in Boards \cup {NoBoard} :
        /\ p # b
        /\ p # NoBoard => (exists[p] # "unborn" /\ b \notin Ancestors(p))
        /\ Starts(r, [NoChange EXCEPT !.op = "update", !.pc = "write", !.board = b, !.to = p])
        /\ happened' = happened \cup {m \in {"moves"} : Moving # {}}
    BY DEF MoveBoard
<1> DEFINE q == [NoChange EXCEPT !.op = "update", !.pc = "write", !.board = b, !.to = p]
<1>2. /\ q \in BoardReqs /\ q.op = "update" /\ q.pc = "write" /\ q.board = b /\ q.to = p
      /\ q.keeps = TRUE /\ q.below = {}
    BY DEF NoChange, BoardReqs, Live
<1>3. /\ Starts(r, q) /\ happened \subseteq happened' /\ happened' \subseteq {"moves", "teams"}
      /\ "moves" \notin happened' => Moving = {}
    BY <1>1 DEF ProjectInv, BoardsTypeOK
<1> HIDE DEF q
<1>4. \E S \in SUBSET Boards : Above(q, S)
  <2>1. CASE p \in Live
    <3>1. b \notin Ancestors(p)
        BY <1>1, <2>1, BoardAssumption DEF Live
    <3>2. Ancestors(p) \in SUBSET Boards /\ \A s \in Ancestors(p) : exists[s] # "unborn"
        BY DEF Ancestors, Live
    <3>3. p \in Ancestors(p)
        BY <2>1 DEF Ancestors
    <3>4. \A s \in Ancestors(p) : parent[s] \in Live => parent[s] \in Ancestors(p)
        BY DEF Ancestors, UpClosed
    <3>5. Above(q, Ancestors(p))
        BY <1>2, <3>1, <3>2, <3>3, <3>4 DEF Above
    <3> QED BY <3>2, <3>5
  <2>2. CASE p \notin Live
    <3>1. Above(q, {})
        BY <1>2, <2>2 DEF Above
    <3> QED BY <3>1
  <2> QED BY <2>1, <2>2
<1>5. b \in Boards /\ exists[b] # "unborn"
    BY DEF Live
<1> QED BY <1>1, <1>2, <1>3, <1>4, <1>5, StartsInv

LEMMA TeamBeginInv == ASSUME ProjectInv, NEW r \in Requests, TeamBegin(r) PROVE ProjectInv'
<1>1. PICK b \in Live, t \in Teams \cup {NoTeam} :
        \E l \in IF LinksOf(b) = {} THEN {NoLinkRow} ELSE LinksOf(b) :
            /\ Starts(r, [NoChange EXCEPT !.op = "update", !.pc = NextStep(t), !.board = b,
                                          !.to = parent[b], !.keeps = FALSE,
                                          !.team = t, !.previous = l])
            /\ happened' = happened \cup {m \in {"teams"} : Linking(b) # {}}
    BY DEF TeamBegin
<1>2. PICK l \in IF LinksOf(b) = {} THEN {NoLinkRow} ELSE LinksOf(b) :
            /\ Starts(r, [NoChange EXCEPT !.op = "update", !.pc = NextStep(t), !.board = b,
                                          !.to = parent[b], !.keeps = FALSE,
                                          !.team = t, !.previous = l])
            /\ happened' = happened \cup {m \in {"teams"} : Linking(b) # {}}
    BY <1>1
<1>3. BoardsTypeOK /\ BoardsKnown /\ OneTeam /\ b \in Boards /\ exists[b] # "unborn"
    BY DEF ProjectInv, RequestsKnown, Live
<1>4. PICK p \in Boards \cup {NoBoard} : p = parent[b]
    BY <1>3 DEF BoardsTypeOK
<1>5. l \in TeamLinks \cup {NoLinkRow}
    BY DEF LinksOf
<1> DEFINE q == [NoChange EXCEPT !.op = "update", !.pc = NextStep(t), !.board = b,
                                 !.to = p, !.keeps = FALSE, !.team = t, !.previous = l]
<1>6. /\ q \in BoardReqs /\ q.op = "update" /\ q.pc # "idle" /\ q.board = b /\ q.to = p
      /\ q.keeps = FALSE /\ q.previous = l /\ q.below = {}
    BY <1>3, <1>5 DEF NoChange, BoardReqs, NextStep
<1>7. /\ Starts(r, q) /\ happened \subseteq happened' /\ happened' \subseteq {"moves", "teams"}
      /\ "teams" \notin happened' => Linking(b) = {}
    BY <1>2, <1>3, <1>4 DEF BoardsTypeOK
<1> HIDE DEF q
<1>8. "teams" \notin happened' => \A k \in LinksOf(b) : k = l
    BY <1>3, <1>7 DEF OneTeam
<1>9. p # b /\ (p # NoBoard => exists[p] # "unborn")
    BY <1>3, <1>4 DEF BoardsKnown
<1> QED BY <1>3, <1>6, <1>7, <1>8, <1>9, StartsInv

LEMMA CheckTeamInv == ASSUME ProjectInv, NEW r \in Requests, CheckTeam(r) PROVE ProjectInv'
<1>1. BoardsTypeOK /\ RequestsKnown /\ MovesAbove /\ TeamsApart /\ LiveForest /\ OneTeam
    BY DEF ProjectInv
<1>2. PICK q : /\ q = NoChange \/ q = [request[r] EXCEPT !.pc = "write"]
               /\ request' = [request EXCEPT ![r] = q]
    BY DEF CheckTeam
<1>3. /\ q \in BoardReqs /\ request[r] \in BoardReqs /\ request[r].pc = "team"
      /\ q = NoChange \/ /\ q.pc = "write" /\ q.op = request[r].op /\ q.board = request[r].board
                         /\ q.to = request[r].to /\ q.keeps = request[r].keeps
                         /\ q.previous = request[r].previous /\ q.below = request[r].below
    BY <1>1, <1>2, NoChangeIs DEF BoardsTypeOK, BoardReqs, CheckTeam
<1>4. /\ request'[r] = q /\ \A o \in Requests : o # r => request'[o] = request[o]
      /\ request' \in [Requests -> BoardReqs]
      /\ UNCHANGED <<exists, parent, teamLink, teams, happened>>
    BY <1>1, <1>2, <1>3 DEF BoardsTypeOK, CheckTeam
<1>5. BoardsTypeOK'
    BY <1>1, <1>4 DEF BoardsTypeOK
<1>6. Live' = Live /\ \A b : LinksOf(b)' = LinksOf(b)
    BY <1>4 DEF Live, LinksOf
<1>7. BoardsKnown' /\ BoardsOnce'
  <2>1. BoardsKnown'
      BY <1>1, <1>4, <1>6 DEF RequestsKnown, BoardsKnown
  <2>2. BoardsOnce'
      BY <1>1, <1>3, <1>4, NoChangeIs DEF RequestsKnown, BoardsOnce
  <2> QED BY <2>1, <2>2
<1>8. ASSUME NEW o \in Requests PROVE WellAsked(o)'
  <2>1. CASE o = r
      BY <1>1, <1>3, <1>4, <2>1, NoChangeIs DEF RequestsKnown, WellAsked
  <2>2. CASE o # r
      BY <1>1, <1>4, <2>2 DEF RequestsKnown, WellAsked
  <2> QED BY <2>1, <2>2
<1>9. MovesAbove'
  <2> SUFFICES ASSUME "moves" \notin happened
               PROVE  /\ \A i, o \in Moving' : i = o
                      /\ \A o \in Moving' : \E S \in SUBSET Boards : Above(request[o], S)'
      BY <1>4 DEF MovesAbove
  <2>1. /\ \A i, o \in Moving : i = o
        /\ \A o \in Moving : \E S \in SUBSET Boards : Above(request[o], S)
      BY <1>1 DEF MovesAbove
  <2>2. /\ Moving' \subseteq Moving
        /\ \A o \in Moving' : request'[o].board = request[o].board /\ request'[o].to = request[o].to
      BY <1>3, <1>4, NoChangeIs DEF Moving
  <2>3. ASSUME NEW o \in Moving' PROVE \E S \in SUBSET Boards : Above(request[o], S)'
    <3>1. PICK S \in SUBSET Boards : Above(request[o], S)
        BY <2>1, <2>2, <2>3
    <3>2. Above(request[o], S)'
        BY <1>4, <1>6, <2>2, <2>3, <3>1 DEF Above
    <3> QED BY <3>2
  <2> QED BY <2>1, <2>2, <2>3
<1>10. TeamsApart'
  <2>1. \A b : /\ Linking(b)' \subseteq Linking(b)
               /\ \A o \in Linking(b)' : request'[o].previous = request[o].previous
      BY <1>3, <1>4, NoChangeIs DEF Linking
  <2> QED BY <1>1, <1>4, <1>6, <2>1 DEF TeamsApart
<1>11. LiveForest' /\ OneTeam'
    BY <1>1, <1>4, <1>6 DEF LiveForest, OneTeam
<1> QED BY <1>5, <1>7, <1>8, <1>9, <1>10, <1>11 DEF ProjectInv, RequestsKnown

\* A write ends the request that made it.
LEMMA AskingStays ==
    ASSUME ProjectInv, NEW r \in Requests, request' = [request EXCEPT ![r] = NoChange],
           \A b \in Boards : exists[b] # "unborn" => exists'[b] # "unborn",
           \A o \in Requests : o # r /\ request[o].op = "create" /\ request[o].pc # "idle"
                                 => exists'[request[o].board] = "unborn"
    PROVE  /\ request' \in [Requests -> BoardReqs]
           /\ request'[r] = NoChange /\ \A o \in Requests : o # r => request'[o] = request[o]
           /\ BoardsOnce' /\ \A o \in Requests : WellAsked(o)'
           /\ Moving' = Moving \ {r} /\ \A b : Linking(b)' = Linking(b) \ {r}
<1>1. BoardsTypeOK /\ RequestsKnown
    BY DEF ProjectInv
<1>2. /\ request'[r] = NoChange /\ \A o \in Requests : o # r => request'[o] = request[o]
      /\ request' \in [Requests -> BoardReqs]
    BY <1>1, NoChangeIs DEF BoardsTypeOK
<1>3. BoardsOnce'
    BY <1>1, <1>2, NoChangeIs DEF RequestsKnown, BoardsOnce
<1>4. ASSUME NEW o \in Requests PROVE WellAsked(o)'
  <2>1. CASE o = r
      BY <1>2, <2>1, NoChangeIs DEF WellAsked
  <2>2. CASE o # r
    <3>1. WellAsked(o) /\ request'[o] = request[o] /\ request[o] \in BoardReqs
        BY <1>1, <1>2, <2>2 DEF RequestsKnown, BoardsTypeOK
    <3>2. /\ request[o].to # NoBoard => request[o].to \in Boards
          /\ request[o].below \subseteq Boards
        BY <3>1 DEF BoardReqs
    <3> QED BY <2>2, <3>1, <3>2 DEF WellAsked
  <2> QED BY <2>1, <2>2
<1>5. Moving' = Moving \ {r} /\ \A b : Linking(b)' = Linking(b) \ {r}
    BY <1>2, NoChangeIs DEF Moving, Linking
<1> QED BY <1>2, <1>3, <1>4, <1>5

\* A write that only ends the life of projects and of links.
LEMMA EndingsInv ==
    ASSUME ProjectInv, BoardsTypeOK', UNCHANGED <<parent, happened>>,
           RequestsKnown', Moving' \subseteq Moving, \A b : Linking(b)' \subseteq Linking(b),
           \A o \in Requests : o \in Moving' \/ (\E b : o \in Linking(b)') => request'[o] = request[o],
           \A b \in Boards : /\ exists[b] # "unborn" => exists'[b] # "unborn"
                             /\ exists'[b] = "live" => exists[b] = "live",
           \A l \in TeamLinks : teamLink'[l].state = "live"
                                  => teamLink[l].state = "live" /\ teamLink'[l].board = teamLink[l].board
    PROVE  ProjectInv'
<1>1. MovesAbove /\ TeamsApart /\ LiveForest /\ OneTeam
    BY DEF ProjectInv
<1>2. Live' \subseteq Live /\ \A b : LinksOf(b)' \subseteq LinksOf(b)
    BY DEF Live, LinksOf
<1>3. MovesAbove'
  <2> SUFFICES ASSUME "moves" \notin happened
               PROVE  /\ \A i, o \in Moving' : i = o
                      /\ \A o \in Moving' : \E S \in SUBSET Boards : Above(request[o], S)'
      BY DEF MovesAbove
  <2>1. /\ \A i, o \in Moving : i = o
        /\ \A o \in Moving : \E S \in SUBSET Boards : Above(request[o], S)
      BY <1>1 DEF MovesAbove
  <2>2. Moving' \subseteq Requests
      BY DEF Moving
  <2>3. ASSUME NEW o \in Moving' PROVE \E S \in SUBSET Boards : Above(request[o], S)'
    <3>1. PICK S \in SUBSET Boards : Above(request[o], S)
        BY <2>1, <2>3
    <3>2. Above(request[o], S)'
        BY <1>2, <2>2, <2>3, <3>1 DEF Above
    <3> QED BY <3>2
  <2> QED BY <2>1, <2>3
<1>4. TeamsApart'
  <2>1. \A b : Linking(b)' \subseteq Requests
      BY DEF Linking
  <2> QED BY <1>1, <1>2, <2>1 DEF TeamsApart
<1>5. LiveForest' /\ OneTeam'
    BY <1>1, <1>2 DEF LiveForest, OneTeam
<1> QED BY <1>3, <1>4, <1>5 DEF ProjectInv

LEMMA DeleteReadInv == ASSUME ProjectInv, NEW r \in Requests, DeleteRead(r) PROVE ProjectInv'
<1>1. PICK b \in Live :
        /\ Starts(r, [NoChange EXCEPT !.op = "delete", !.pc = "write", !.board = b,
                                      !.below = Below(b)])
        /\ UNCHANGED happened
    BY DEF DeleteRead
<1>2. PICK D : D = Below(b)
    OBVIOUS
<1>3. D \in SUBSET Boards /\ \A c \in D : exists[c] # "unborn"
    BY <1>2 DEF Below, Live
<1> DEFINE q == [NoChange EXCEPT !.op = "delete", !.pc = "write", !.board = b, !.below = D]
<1>4. /\ q \in BoardReqs /\ q.op = "delete" /\ q.pc # "idle" /\ q.board = b /\ q.to = NoBoard
      /\ q.below = D
    BY <1>3 DEF NoChange, BoardReqs, Live
<1>5. Starts(r, q) /\ happened' = happened /\ happened \subseteq {"moves", "teams"}
    BY <1>1, <1>2 DEF ProjectInv, BoardsTypeOK
<1> HIDE DEF q
<1>6. b \in Boards /\ exists[b] # "unborn" /\ b # NoBoard
    BY BoardAssumption DEF Live
<1> QED BY <1>3, <1>4, <1>5, <1>6, StartsInv

LEMMA DeleteWriteInv == ASSUME ProjectInv, NEW r \in Requests, DeleteWrite(r) PROVE ProjectInv'
<1>1. BoardsTypeOK /\ RequestsKnown
    BY DEF ProjectInv
<1>2. PICK D : D = request[r].below
    OBVIOUS
<1>3. D \subseteq Boards /\ \A b \in D : exists[b] # "unborn"
    BY <1>1, <1>2 DEF BoardsTypeOK, BoardReqs, RequestsKnown, WellAsked
<1>4. /\ exists' = [b \in Boards |-> IF b \in D THEN "deleted" ELSE exists[b]]
      /\ teamLink' = [l \in TeamLinks |->
                        IF teamLink[l].state = "live" /\ teamLink[l].board \in D
                        THEN [teamLink[l] EXCEPT !.state = "deleted"] ELSE teamLink[l]]
      /\ request' = [request EXCEPT ![r] = NoChange]
      /\ UNCHANGED <<parent, teams, happened>>
    BY <1>2 DEF DeleteWrite
<1>5. /\ exists' \in [Boards -> {"unborn", "live", "deleted"}]
      /\ \A b \in Boards : /\ exists'[b] = "unborn" <=> exists[b] = "unborn"
                           /\ exists'[b] = "live" => exists[b] = "live"
    BY <1>1, <1>3, <1>4 DEF BoardsTypeOK
<1>6. \A l \in TeamLinks : /\ teamLink'[l] \in LinkRows
                           /\ teamLink'[l].state = "live"
                                => teamLink[l].state = "live" /\ teamLink'[l].board = teamLink[l].board
  <2> SUFFICES ASSUME NEW l \in TeamLinks
               PROVE  /\ teamLink'[l] \in LinkRows
                      /\ teamLink'[l].state = "live"
                           => teamLink[l].state = "live" /\ teamLink'[l].board = teamLink[l].board
      OBVIOUS
  <2>1. teamLink[l] \in LinkRows
      BY <1>1 DEF BoardsTypeOK
  <2>2. [teamLink[l] EXCEPT !.state = "deleted"] \in LinkRows
      BY <2>1 DEF LinkRows
  <2>3. [teamLink[l] EXCEPT !.state = "deleted"].state = "deleted"
      BY <2>1 DEF LinkRows
  <2> QED BY <1>4, <2>1, <2>2, <2>3
<1>7. \A b : LinksOf(b)' \subseteq LinksOf(b)
    BY <1>6 DEF LinksOf
<1>8. \A o \in Requests : o # r /\ request[o].op = "create" /\ request[o].pc # "idle"
                            => exists'[request[o].board] = "unborn"
    BY <1>1, <1>5 DEF RequestsKnown, WellAsked
<1>9. /\ request' \in [Requests -> BoardReqs]
      /\ \A o \in Requests : o # r => request'[o] = request[o]
      /\ BoardsOnce' /\ \A o \in Requests : WellAsked(o)'
      /\ Moving' = Moving \ {r} /\ \A b : Linking(b)' = Linking(b) \ {r}
    BY <1>4, <1>5, <1>8, AskingStays
<1>10. BoardsTypeOK'
  <2>1. teamLink' \in [TeamLinks -> LinkRows]
      BY <1>4, <1>6
  <2> QED BY <1>1, <1>4, <1>5, <1>9, <2>1 DEF BoardsTypeOK
<1>11. RequestsKnown'
  <2>1. BoardsKnown'
      BY <1>1, <1>4, <1>5, <1>7 DEF RequestsKnown, BoardsKnown, BoardsTypeOK
  <2> QED BY <1>9, <2>1 DEF RequestsKnown
<1> QED BY <1>4, <1>5, <1>6, <1>9, <1>10, <1>11, EndingsInv

LEMMA DeleteTeamInv == ASSUME ProjectInv, NEW t \in Teams, DeleteTeam(t) PROVE ProjectInv'
<1>1. BoardsTypeOK /\ RequestsKnown
    BY DEF ProjectInv
<1>2. /\ teamLink' = [l \in TeamLinks |->
                        IF teamLink[l].state = "live" /\ teamLink[l].team = t
                        THEN [teamLink[l] EXCEPT !.state = "deleted"] ELSE teamLink[l]]
      /\ teams' = teams \ {t} /\ UNCHANGED <<exists, parent, request, happened>>
    BY DEF DeleteTeam
<1>3. \A l \in TeamLinks : /\ teamLink'[l] \in LinkRows
                           /\ teamLink'[l].state = "live"
                                => teamLink[l].state = "live" /\ teamLink'[l].board = teamLink[l].board
  <2> SUFFICES ASSUME NEW l \in TeamLinks
               PROVE  /\ teamLink'[l] \in LinkRows
                      /\ teamLink'[l].state = "live"
                           => teamLink[l].state = "live" /\ teamLink'[l].board = teamLink[l].board
      OBVIOUS
  <2>1. teamLink[l] \in LinkRows
      BY <1>1 DEF BoardsTypeOK
  <2>2. [teamLink[l] EXCEPT !.state = "deleted"] \in LinkRows
      BY <2>1 DEF LinkRows
  <2>3. [teamLink[l] EXCEPT !.state = "deleted"].state = "deleted"
      BY <2>1 DEF LinkRows
  <2> QED BY <1>2, <2>1, <2>2, <2>3
<1>4. /\ \A b : LinksOf(b)' \subseteq LinksOf(b) /\ Linking(b)' = Linking(b)
      /\ Moving' = Moving
    BY <1>2, <1>3 DEF LinksOf, Linking, Moving
<1>5. BoardsTypeOK'
  <2>1. teamLink' \in [TeamLinks -> LinkRows]
      BY <1>2, <1>3
  <2> QED BY <1>1, <1>2, <2>1 DEF BoardsTypeOK
<1>6. RequestsKnown'
  <2>1. BoardsKnown'
      BY <1>1, <1>2, <1>4 DEF RequestsKnown, BoardsKnown
  <2>2. BoardsOnce' /\ \A o \in Requests : WellAsked(o)'
      BY <1>1, <1>2 DEF RequestsKnown, BoardsOnce, WellAsked
  <2> QED BY <2>1, <2>2 DEF RequestsKnown
<1> QED BY <1>2, <1>3, <1>4, <1>5, <1>6, EndingsInv

\* What a write leaves of the links: the old ones but the one it found, and one of its own.
LEMMA LinksReplacedAre ==
    ASSUME teamLink \in [TeamLinks -> LinkRows], NEW q \in BoardReqs, q.board \in Boards,
           NEW new \in LinksReplaced(q, teamLink)
    PROVE  /\ new \in [TeamLinks -> LinkRows]
           /\ \E a \in TeamLinks \cup {NoLinkRow} : \A l \in TeamLinks :
                 new[l].state = "live" =>
                    \/ l = a /\ ~q.keeps /\ q.team # NoTeam /\ new[l].board = q.board
                    \/ /\ l # a /\ l # q.previous
                       /\ teamLink[l].state = "live" /\ new[l].board = teamLink[l].board
<1> DEFINE links == IF q.previous = NoLinkRow THEN teamLink
                    ELSE [teamLink EXCEPT ![q.previous].state = "deleted"]
<1>1. /\ links \in [TeamLinks -> LinkRows]
      /\ \A l \in TeamLinks : links[l].state = "live" =>
            l # q.previous /\ teamLink[l].state = "live" /\ links[l].board = teamLink[l].board
  <2>1. CASE q.previous = NoLinkRow
      BY <2>1, BoardAssumption
  <2>2. CASE q.previous # NoLinkRow
    <3>1. q.previous \in TeamLinks
        BY <2>2 DEF BoardReqs
    <3>2. teamLink[q.previous] \in LinkRows
        BY <3>1
    <3> DEFINE ended == [teamLink[q.previous] EXCEPT !.state = "deleted"]
    <3>3. ended \in LinkRows /\ ended.state = "deleted"
        BY <3>2 DEF LinkRows
    <3>4. links = [teamLink EXCEPT ![q.previous] = ended]
        BY <2>2
    <3> HIDE DEF ended
    <3>5. links \in [TeamLinks -> LinkRows] /\ links[q.previous] = ended
          /\ \A l \in TeamLinks : l # q.previous => links[l] = teamLink[l]
        BY <3>1, <3>3, <3>4
    <3> QED BY <3>3, <3>5
  <2> QED BY <2>1, <2>2
<1>2. new \in LinksAdded(q, links)
    BY DEF LinksReplaced
<1> HIDE DEF links
<1>3. CASE q.keeps \/ q.team = NoTeam
  <2>1. new = links
      BY <1>2, <1>3 DEF LinksAdded
  <2> QED BY <1>1, <2>1, BoardAssumption
<1>4. CASE ~(q.keeps \/ q.team = NoTeam)
  <2>1. PICK a \in TeamLinks :
            new = [links EXCEPT ![a] = [board |-> q.board, team |-> q.team, state |-> "live"]]
      BY <1>2, <1>4 DEF LinksAdded
  <2>2. [board |-> q.board, team |-> q.team, state |-> "live"] \in LinkRows
      BY DEF LinkRows, BoardReqs
  <2>3. /\ new \in [TeamLinks -> LinkRows] /\ new[a].board = q.board
        /\ \A l \in TeamLinks : l # a => new[l] = links[l]
      BY <1>1, <2>1, <2>2
  <2> QED BY <1>1, <1>4, <2>1, <2>3
<1> QED BY <1>3, <1>4

\* The write of a creation, a move or a change of team.  A creation puts a project that
\* nothing is below; a move puts the project below what its query found to be above it.
LEMMA WriteBoardInv == ASSUME ProjectInv, NEW r \in Requests, WriteBoard(r) PROVE ProjectInv'
<1>1. BoardsTypeOK /\ RequestsKnown /\ MovesAbove /\ TeamsApart /\ LiveForest /\ OneTeam
    BY DEF ProjectInv
<1>2. PICK q \in BoardReqs : q = request[r]
    BY <1>1 DEF BoardsTypeOK
<1>3. /\ q.pc = "write" /\ q.op \in {"create", "update"}
      /\ exists' = IF q.op = "create" THEN [exists EXCEPT ![q.board] = "live"] ELSE exists
      /\ parent' = IF q.op = "create" \/ q.keeps THEN [parent EXCEPT ![q.board] = q.to]
                   ELSE parent
      /\ teamLink' \in LinksReplaced(q, teamLink)
      /\ request' = [request EXCEPT ![r] = NoChange]
      /\ UNCHANGED <<teams, happened>>
    BY <1>2 DEF WriteBoard
<1>4. PICK b \in Boards, p \in Boards \cup {NoBoard} : b = q.board /\ p = q.to
    BY <1>1, <1>2, <1>3 DEF RequestsKnown, WellAsked, BoardReqs
<1>5. /\ p # b
      /\ q.op = "create" <=> exists[b] = "unborn"
      /\ p # NoBoard => exists[p] # "unborn"
      /\ q.op = "create" => q.previous = NoLinkRow
  <2>1. WellAsked(r)
      BY <1>1 DEF RequestsKnown
  <2> QED BY <1>2, <1>3, <1>4, <2>1 DEF WellAsked
<1>6. /\ \A c \in Boards : c # b => exists'[c] = exists[c] /\ parent'[c] = parent[c]
      /\ exists'[b] # "unborn"
      /\ q.op = "create" => exists'[b] = "live" /\ parent'[b] = p
      /\ q.op = "update" => exists'[b] = exists[b]
      /\ q.op = "update" /\ q.keeps => parent'[b] = p
      /\ q.op = "update" /\ ~q.keeps => parent'[b] = parent[b]
      /\ exists' \in [Boards -> {"unborn", "live", "deleted"}]
      /\ parent' \in [Boards -> Boards \cup {NoBoard}]
    BY <1>1, <1>3, <1>4, <1>5 DEF BoardsTypeOK
<1>7. /\ teamLink' \in [TeamLinks -> LinkRows]
      /\ \E a \in TeamLinks \cup {NoLinkRow} : \A l \in TeamLinks :
            teamLink'[l].state = "live" =>
               \/ l = a /\ ~q.keeps /\ q.team # NoTeam /\ teamLink'[l].board = b
               \/ /\ l # a /\ l # q.previous
                  /\ teamLink[l].state = "live" /\ teamLink'[l].board = teamLink[l].board
  <2>1. teamLink \in [TeamLinks -> LinkRows]
      BY <1>1 DEF BoardsTypeOK
  <2>2. PICK new \in LinksReplaced(q, teamLink) : new = teamLink'
      BY <1>3
  <2>3. b = q.board /\ q.board \in Boards /\ q \in BoardReqs
      BY <1>2, <1>4
  <2>4. /\ new \in [TeamLinks -> LinkRows]
        /\ \E a \in TeamLinks \cup {NoLinkRow} : \A l \in TeamLinks :
              new[l].state = "live" =>
                 \/ l = a /\ ~q.keeps /\ q.team # NoTeam /\ new[l].board = q.board
                 \/ /\ l # a /\ l # q.previous
                    /\ teamLink[l].state = "live" /\ new[l].board = teamLink[l].board
      BY <2>1, <2>3, LinksReplacedAre, Zenon
  <2> QED BY <2>2, <2>3, <2>4
<1>8. PICK a \in TeamLinks \cup {NoLinkRow} :
        \A c \in Boards : \A l \in LinksOf(c)' :
           (l = a /\ c = b) \/ (l # a /\ l # q.previous /\ l \in LinksOf(c))
  <2>1. PICK a \in TeamLinks \cup {NoLinkRow} : \A l \in TeamLinks :
            teamLink'[l].state = "live" =>
               \/ l = a /\ ~q.keeps /\ q.team # NoTeam /\ teamLink'[l].board = b
               \/ /\ l # a /\ l # q.previous
                  /\ teamLink[l].state = "live" /\ teamLink'[l].board = teamLink[l].board
      BY <1>7
  <2> QED BY <2>1 DEF LinksOf
<1>9. \A o \in Requests : o # r /\ request[o].op = "create" /\ request[o].pc # "idle"
                            => exists'[request[o].board] = "unborn"
  <2> SUFFICES ASSUME NEW o \in Requests, o # r, request[o].op = "create", request[o].pc # "idle"
               PROVE  exists'[request[o].board] = "unborn"
      OBVIOUS
  <2>1. request[o].board \in Boards /\ exists[request[o].board] = "unborn"
      BY <1>1 DEF RequestsKnown, WellAsked
  <2>2. request[o].board # b
      BY <1>1, <1>2, <1>3, <1>4, <1>5, <2>1 DEF RequestsKnown, BoardsOnce
  <2> QED BY <1>6, <2>1, <2>2
<1>10. /\ request' \in [Requests -> BoardReqs]
       /\ \A o \in Requests : o # r => request'[o] = request[o]
       /\ BoardsOnce' /\ \A o \in Requests : WellAsked(o)'
       /\ Moving' = Moving \ {r} /\ \A c : Linking(c)' = Linking(c) \ {r}
  <2>1. \A c \in Boards : exists[c] # "unborn" => exists'[c] # "unborn"
      BY <1>6
  <2> QED BY <1>3, <1>9, <2>1, AskingStays
<1>11. BoardsTypeOK'
    BY <1>1, <1>3, <1>6, <1>7, <1>10 DEF BoardsTypeOK
<1>12. BoardsKnown'
  <2> SUFFICES ASSUME NEW c \in Boards
               PROVE  /\ parent'[c] # NoBoard => exists'[parent'[c]] # "unborn"
                      /\ parent'[c] # c
                      /\ exists'[c] = "unborn" => LinksOf(c)' = {}
      BY DEF BoardsKnown
  <2>1. /\ parent[c] # NoBoard => exists[parent[c]] # "unborn" /\ parent[c] \in Boards
        /\ parent[c] # c
        /\ exists[c] = "unborn" => LinksOf(c) = {}
      BY <1>1 DEF RequestsKnown, BoardsKnown, BoardsTypeOK
  <2>2. exists'[c] = "unborn" => c # b /\ exists[c] = "unborn"
      BY <1>6
  <2>3. exists'[c] = "unborn" => LinksOf(c)' = {}
      BY <1>8, <2>1, <2>2
  <2> QED BY <1>3, <1>5, <1>6, <2>1, <2>3
<1>13. \A c \in Boards : c # b \/ q.op = "update" => (c \in Live' <=> c \in Live)
    BY <1>6 DEF Live
<1>14. q.op = "create" => b \notin Live /\ \A c \in Boards : parent[c] # b
    BY <1>1, <1>4, <1>5, BoardAssumption DEF Live, RequestsKnown, BoardsKnown
<1>15. MovesAbove'
  <2> SUFFICES ASSUME "moves" \notin happened
               PROVE  /\ \A i, o \in Moving' : i = o
                      /\ \A o \in Moving' : \E S \in SUBSET Boards : Above(request[o], S)'
      BY <1>3 DEF MovesAbove
  <2>1. /\ \A i, o \in Moving : i = o
        /\ \A o \in Moving : \E S \in SUBSET Boards : Above(request[o], S)
      BY <1>1 DEF MovesAbove
  <2>2. ASSUME NEW o \in Moving' PROVE \E S \in SUBSET Boards : Above(request[o], S)'
    <3>1. o \in Moving /\ o # r /\ o \in Requests /\ request'[o] = request[o]
        BY <1>10, <2>2 DEF Moving
    <3>2. ~(q.op = "update" /\ q.keeps)
        BY <1>2, <1>3, <2>1, <3>1 DEF Moving
    <3>3. PICK S \in SUBSET Boards : Above(request[o], S)
        BY <2>1, <3>1
    <3>4. \A s \in S : s # b \/ q.op = "update"
        BY <1>3, <1>5, <3>3 DEF Above
    <3>5. \A s \in S : parent'[s] = parent[s] /\ exists'[s] # "unborn"
        BY <1>3, <1>6, <3>2, <3>3, <3>4 DEF Above
    <3>6. \A s \in S : parent[s] \in Live' => parent[s] \in S
      <4>1. \A s \in S : parent[s] \in Live' => parent[s] \in Live
          BY <1>3, <1>13, <1>14 DEF Live
      <4> QED BY <3>3, <4>1 DEF Above
    <3>7. request[o].to \in Live' => request[o].to \in S
      <4>1. request[o].to \in Live' => request[o].to \in Boards /\ exists[request[o].to] # "unborn"
          BY <1>1, <3>1, BoardAssumption DEF Live, RequestsKnown, WellAsked
      <4>2. request[o].to \in Live' => request[o].to \in Live
          BY <1>3, <1>5, <1>13, <4>1
      <4> QED BY <3>3, <4>2 DEF Above
    <3>8. Above(request[o], S)'
        BY <3>1, <3>3, <3>5, <3>6, <3>7 DEF Above
    <3> QED BY <3>8
  <2> QED BY <1>10, <2>1, <2>2
<1>16. TeamsApart'
  <2> SUFFICES ASSUME "teams" \notin happened, NEW c \in Boards
               PROVE  /\ \A i, o \in Linking(c)' : i = o
                      /\ \A o \in Linking(c)', l \in LinksOf(c)' : l = request'[o].previous
      BY <1>3 DEF TeamsApart
  <2>1. /\ \A i, o \in Linking(c) : i = o
        /\ \A o \in Linking(c), l \in LinksOf(c) : l = request[o].previous
      BY <1>1 DEF TeamsApart
  <2>2. ASSUME NEW o \in Linking(c)', NEW l \in LinksOf(c)' PROVE l = request'[o].previous
    <3>1. o \in Linking(c) /\ o # r /\ o \in Requests /\ request'[o] = request[o]
        BY <1>10, <2>2 DEF Linking
    <3>2. CASE l \in LinksOf(c)
        BY <2>1, <3>1, <3>2
    <3>3. CASE l \notin LinksOf(c)
      <4>1. c = b
          BY <1>8, <2>2, <3>3
      <4>2. exists[b] # "unborn" /\ q.op = "update"
          BY <1>1, <1>3, <1>5, <3>1, <4>1 DEF Linking, RequestsKnown, WellAsked
      <4>3. ~q.keeps
        <5>1. ASSUME q.keeps PROVE LinksOf(c)' \subseteq LinksOf(c)
            BY <1>7, <5>1 DEF LinksOf
        <5> QED BY <2>2, <3>3, <5>1
      <4>4. r \in Linking(c)
          BY <1>2, <1>3, <1>4, <4>1, <4>2, <4>3 DEF Linking
      <4> QED BY <2>1, <3>1, <4>4
    <3> QED BY <3>2, <3>3
  <2> QED BY <1>10, <2>1, <2>2
<1>17. OneTeam'
  <2> SUFFICES ASSUME "teams" \notin happened, NEW c \in Boards, NEW k \in LinksOf(c)',
                      NEW l \in LinksOf(c)', k # l
               PROVE  FALSE
      BY <1>3 DEF OneTeam
  <2>1. \A i, j \in LinksOf(c) : i = j
      BY <1>1 DEF OneTeam
  <2>2. c = b /\ \E i \in LinksOf(b) : i # q.previous
      BY <1>8, <2>1
  <2>3. q.op = "update"
      BY <1>1, <1>3, <1>5, <2>2 DEF RequestsKnown, BoardsKnown
  <2>4. ~q.keeps
    <3>1. ASSUME q.keeps PROVE LinksOf(c)' \subseteq LinksOf(c)
        BY <1>7, <3>1 DEF LinksOf
    <3> QED BY <2>1, <3>1
  <2>5. r \in Linking(b)
      BY <1>2, <1>3, <1>4, <2>3, <2>4 DEF Linking
  <2> QED BY <1>1, <1>2, <2>2, <2>5 DEF TeamsApart
<1>18. LiveForest'
  <2> SUFFICES ASSUME "moves" \notin happened, NEW C \in SUBSET Live', C # {},
                      \A c \in C : parent'[c] \in C
               PROVE  FALSE
      BY <1>3 DEF LiveForest
  <2>1. \A S \in SUBSET Live : S # {} => \E c \in S : parent[c] \notin S
      BY <1>1 DEF LiveForest
  <2>2. C \subseteq Boards
      BY DEF Live
  <2>3. CASE q.op = "create"
    <3>1. C \ {b} \in SUBSET Live
        BY <1>13, <2>2
    <3>2. C \ {b} # {}
        BY <1>5, <1>6, <2>3
    <3>3. \A c \in C \ {b} : parent[c] \in C \ {b}
        BY <1>6, <1>14, <2>2, <2>3
    <3> QED BY <2>1, <3>1, <3>2, <3>3
  <2>4. CASE q.op = "update" /\ ~q.keeps
    <3>1. C \in SUBSET Live /\ \A c \in C : parent[c] \in C
        BY <1>6, <1>13, <2>2, <2>4
    <3> QED BY <2>1, <3>1
  <2>5. CASE q.op = "update" /\ q.keeps
    <3>1. C \in SUBSET Live
        BY <1>13, <2>2, <2>5
    <3>2. b \in C
        BY <1>6, <2>1, <2>2, <3>1
    <3>3. r \in Moving
        BY <1>2, <1>3, <2>5 DEF Moving
    <3>4. PICK S \in SUBSET Boards : Above(q, S)
        BY <1>1, <1>2, <3>3 DEF MovesAbove
    <3>5. b \notin S /\ p \in C /\ p \in S
        BY <1>4, <1>6, <2>5, <3>1, <3>2, <3>4 DEF Above
    <3>6. \A c \in C \cap S : parent[c] \in C \cap S
        BY <1>6, <2>2, <3>1, <3>4, <3>5 DEF Above
    <3> QED BY <2>1, <3>1, <3>5, <3>6
  <2> QED BY <1>3, <2>3, <2>4, <2>5
<1> QED BY <1>10, <1>11, <1>12, <1>15, <1>16, <1>17, <1>18 DEF ProjectInv, RequestsKnown

LEMMA ProjectNextInv == ProjectInv /\ [BoardsNext]_boardsVars => ProjectInv'
<1> SUFFICES ASSUME ProjectInv, [BoardsNext]_boardsVars PROVE ProjectInv'
    OBVIOUS
<1>1. CASE UNCHANGED boardsVars
    BY <1>1 DEF boardsVars, ProjectInv, BoardsTypeOK, RequestsKnown, BoardsKnown, BoardsOnce, WellAsked,
               MovesAbove, Moving, Above, TeamsApart, Linking, LinksOf, LiveForest, Live, OneTeam
<1>2. ASSUME NEW r \in Requests,
             \/ CreateBoard(r) \/ MoveBoard(r) \/ TeamBegin(r) \/ CheckTeam(r)
             \/ WriteBoard(r) \/ DeleteRead(r) \/ DeleteWrite(r)
      PROVE  ProjectInv'
    BY <1>2, CreateBoardInv, MoveBoardInv, TeamBeginInv, CheckTeamInv, WriteBoardInv, DeleteReadInv,
       DeleteWriteInv
<1>3. ASSUME NEW t \in Teams, DeleteTeam(t) PROVE ProjectInv'
    BY <1>3, DeleteTeamInv
<1> QED BY <1>1, <1>2, <1>3 DEF BoardsNext

\* However requests about projects interleave: one move at a time keeps the live projects a
\* forest, and a project has one team while its changes of team come one at a time.
THEOREM ProjectsSoundHold == ProjectSpec => []ProjectsSound
<1>1. ProjectInv => ProjectsSound
    BY DEF ProjectInv, ProjectsSound
<1> QED BY <1>1, ProjectInitInv, ProjectNextInv, PTL DEF ProjectSpec

-----------------------------------------------------------------------------
(* AgentLinks.                                                             *)

HasLock(o) == linkOp[o].op \in Locked /\ linkOp[o].pc \in {"demote", "find", "write"}

\* A request is the only one with the lock, its row is one of its agent's, and is needed
\* by all but those that may insert one.
LockInv ==
    /\ \A o, p \in LinkOps : HasLock(o) /\ HasLock(p) => o = p
    /\ \A o \in LinkOps : linkOp[o].op \notin Locked => linkOp[o].pc \in {"idle", "find", "write"}
    /\ \A o \in LinkOps : linkOp[o].row # NoLinkId =>
             /\ agentLink[linkOp[o].row].agent = linkOp[o].agent
             /\ agentLink[linkOp[o].row].state # "free"
    /\ \A o \in LinkOps : linkOp[o].op \notin {"link", "attach"} /\ linkOp[o].pc = "write"
             => linkOp[o].row # NoLinkId
    /\ \A o \in LinkOps : linkOp[o].op = "attach" \/ linkOp[o].pc # "write"
             => linkOp[o].row = NoLinkId
    /\ \A l \in LinkIds : agentLink[l].state = "free" => agentLink[l] = FreeLink
    /\ \A o \in LinkOps : \A k \in linkOp[o].demoted : agentLink[k].state # "free"

\* Past its demotion, the other agents' primary links are those a request will demote.
DemotedInv ==
    \A o \in LinkOps : linkOp[o].tipo = "primary" =>
        /\ linkOp[o].op = "link"
        /\ linkOp[o].pc \in {"find", "write"} =>
             \A k \in Primary : agentLink[k].agent = linkOp[o].agent \/ k \in linkOp[o].demoted

\* Each copy is the row's metaDados still, unless there were two.
CopiesFresh ==
    \A l \in LinkIds \ copied : \A o, p \in LinkOps :
        o \in Copies(l) => /\ linkOp[o].meta = agentLink[l].meta
                           /\ p \in Copies(l) => o = p

\* A copy without a row is empty, and a command was sent for a row with a slug only.
CopiesShaped ==
    \A o \in LinkOps :
        /\ linkOp[o].row = NoLinkId => linkOp[o].meta = {}
        /\ linkOp[o].op \in {"provision", "generate"} /\ linkOp[o].pc = "write"
               => "projectSlug" \in linkOp[o].meta

NoneFree == \A l \in slugged \cup revoked : agentLink[l].state # "free"

LinksInv == /\ LinksTypeOK /\ LockInv /\ DemotedInv /\ OnePrimary
            /\ CopiesFresh /\ CopiesShaped /\ NoneFree /\ MetaKept

\* What a request becomes in each action.
LEMMA LinksOneAtATime ==
  ASSUME LinksTypeOK, NEW o \in LinkOps,
         Receive(o) \/ Lock(o) \/ Demote(o) \/ Find(o) \/ Fail(o) \/ WriteLinkOp(o)
  PROVE  /\ linkOp' \in [LinkOps -> Ops]
         /\ \A p \in LinkOps \ {o} : linkOp'[p] = linkOp[p]
<1> USE DEF LinksTypeOK, Ops, NoOp, Locked, Outbound, Tipos, Meta
<1>1. CASE Receive(o)
  <2>1. PICK a \in LinkedAgents, op \in Locked \cup {"attach", "detach"} \cup Outbound,
             t \in {"primary", "secondary"} :
          linkOp' = [linkOp EXCEPT ![o] = [NoOp EXCEPT !.op = op, !.agent = a, !.tipo = t,
                        !.pc = IF op \in Locked THEN "lock" ELSE "find"]]
    BY <1>1 DEF Receive
  <2>2. QED
    BY <2>1
<1>2. CASE Lock(o)
  BY <1>2 DEF Lock
<1>3. CASE Demote(o)
  <2> DEFINE D == {l \in Primary : agentLink[l].agent # linkOp[o].agent}
  <2>1. linkOp' = [linkOp EXCEPT ![o] = [linkOp[o] EXCEPT !.pc = "find", !.demoted = D]]
    BY <1>3 DEF Demote
  <2>2. D \in SUBSET LinkIds
    BY DEF Primary
  <2> HIDE DEF D
  <2>3. linkOp[o] \in Ops
    BY DEF LinksTypeOK
  <2>4. [linkOp[o] EXCEPT !.pc = "find", !.demoted = D] \in Ops
    BY <2>2, <2>3
  <2> HIDE DEF Ops
  <2>5. QED
    BY <2>1, <2>4
<1>4. CASE Find(o)
  <2>1. CASE linkOp' = [linkOp EXCEPT ![o] = NoOp]
    BY <2>1
  <2>2. CASE linkOp' = [linkOp EXCEPT ![o].pc = "write"]
    BY <2>2
  <2>3. ASSUME NEW l \in LinkIds,
               linkOp' = [linkOp EXCEPT ![o].pc = "write", ![o].row = l,
                                        ![o].meta = agentLink[l].meta]
        PROVE  linkOp' \in [LinkOps -> Ops] /\ \A p \in LinkOps \ {o} : linkOp'[p] = linkOp[p]
    <3>1. agentLink[l].meta \in SUBSET {"projectSlug", "deployKeyPub"}
      BY DEF AgentRows
    <3>2. linkOp' = [linkOp EXCEPT ![o] =
                        [linkOp[o] EXCEPT !.pc = "write", !.row = l, !.meta = agentLink[l].meta]]
      BY <2>3
    <3>3. linkOp[o] \in Ops
      OBVIOUS
    <3>4. [linkOp[o] EXCEPT !.pc = "write", !.row = l, !.meta = agentLink[l].meta] \in Ops
      BY <3>1, <3>3
    <3> HIDE DEF Ops
    <3>5. QED
      BY <3>2, <3>4
  <2>4. QED
    BY <1>4, <2>1, <2>2, <2>3 DEF Find, Refuse, LiveOf
<1>5. CASE Fail(o)
  BY <1>5 DEF Fail, Refuse
<1>6. CASE WriteLinkOp(o)
  BY <1>6 DEF WriteLinkOp, Refuse
<1>7. QED
  BY <1>1, <1>2, <1>3, <1>4, <1>5, <1>6

LEMMA DemotedRow ==
  ASSUME NEW r \in AgentRows, NEW d, d = [r EXCEPT !.tipo = "secondary"]
  PROVE  d.agent = r.agent /\ d.state = r.state /\ d.meta = r.meta /\ d.tipo = "secondary"
BY DEF AgentRows

\* What a write does to the rows.
LEMMA LinksWritten ==
  ASSUME LinksInv, NEW o \in LinkOps, WriteLinkOp(o)
  PROVE  /\ agentLink' \in [LinkIds -> AgentRows]
         /\ \E l \in LinkIds :
              /\ linkOp[o].row \in {l, NoLinkId}
              /\ linkOp[o].row = NoLinkId => agentLink[l].state = "free"
              /\ agentLink'[l] = LinkWritten(linkOp[o], l, agentLink[l])
              /\ \A k \in LinkIds \ {l} :
                   /\ k \in linkOp[o].demoted =>
                         agentLink'[k] = [agentLink[k] EXCEPT !.tipo = "secondary"]
                   /\ k \notin linkOp[o].demoted => agentLink'[k] = agentLink[k]
              /\ slugged' = slugged \cup {k \in {l} : "projectSlug" \in agentLink'[l].meta}
              /\ revoked' = (revoked \cup {k \in {l} : linkOp[o].op = "revoke"})
                                \ {k \in {l} : linkOp[o].op = "generate"}
<1> USE AgentLinkAssumption DEF LinksInv, LinksTypeOK
<1>1. PICK l \in LinkIds :
        /\ linkOp[o].row \in {l, NoLinkId}
        /\ linkOp[o].row = NoLinkId => agentLink[l].state = "free"
        /\ agentLink' = [k \in LinkIds |->
             IF k = l THEN LinkWritten(linkOp[o], l, agentLink[l])
             ELSE IF k \in linkOp[o].demoted THEN [agentLink[k] EXCEPT !.tipo = "secondary"]
             ELSE agentLink[k]]
        /\ slugged' = slugged \cup {k \in {l} : "projectSlug" \in agentLink'[l].meta}
        /\ revoked' = (revoked \cup {k \in {l} : linkOp[o].op = "revoke"})
                          \ {k \in {l} : linkOp[o].op = "generate"}
  BY DEF WriteLinkOp, Ops
<1>2. LinkWritten(linkOp[o], l, agentLink[l]) \in AgentRows
  <2>1. linkOp[o] \in Ops /\ agentLink[l] \in AgentRows
    OBVIOUS
  <2>2. NewMeta(linkOp[o]) \in Meta
    BY <2>1 DEF NewMeta, Ops, Meta
  <2>3. QED
    BY <2>1, <2>2 DEF LinkWritten, NewLink, Ops, AgentRows, Tipos
<1>3. \A k \in LinkIds : [agentLink[k] EXCEPT !.tipo = "secondary"] \in AgentRows
  BY DEF AgentRows, Tipos
<1>4. QED
  BY <1>1, <1>2, <1>3

LEMMA LinksInductive == LinksInv /\ [AgentLinksNext]_linkVars => LinksInv'
<1> SUFFICES ASSUME LinksInv, [AgentLinksNext]_linkVars
             PROVE  LinksInv'
  OBVIOUS
<1> USE AgentLinkAssumption
    DEF LinksInv, LinksTypeOK, LockInv, DemotedInv, OnePrimary, CopiesFresh, CopiesShaped,
        NoneFree, MetaKept, HasLock, Primary, Copies, Copying, Locked, Outbound
<1>1. ASSUME NEW o \in LinkOps, Receive(o)
      PROVE  LinksInv'
  <2>1. linkOp' \in [LinkOps -> Ops] /\ \A p \in LinkOps \ {o} : linkOp'[p] = linkOp[p]
    BY <1>1, LinksOneAtATime
  <2>2. /\ linkOp'[o].row = NoLinkId /\ linkOp'[o].meta = {} /\ linkOp'[o].demoted = {}
        /\ linkOp'[o].pc = IF linkOp'[o].op \in Locked THEN "lock" ELSE "find"
        /\ linkOp'[o].tipo = "primary" => linkOp'[o].op = "link"
        /\ UNCHANGED <<agentLink, slugged, revoked, copied>>
    BY <1>1 DEF Receive, NoOp
  <2>3. QED
    BY <2>1, <2>2
<1>2. ASSUME NEW o \in LinkOps, Lock(o)
      PROVE  LinksInv'
  <2>1. linkOp' \in [LinkOps -> Ops] /\ \A p \in LinkOps \ {o} : linkOp'[p] = linkOp[p]
    BY <1>2, LinksOneAtATime
  <2>2. /\ linkOp[o].pc = "lock" /\ LinksFree
        /\ UNCHANGED <<agentLink, slugged, revoked, copied>>
    BY <1>2 DEF Lock
  <2>3. /\ linkOp'[o].pc = IF linkOp[o].tipo = "primary" THEN "demote" ELSE "find"
        /\ linkOp'[o].op = linkOp[o].op /\ linkOp'[o].agent = linkOp[o].agent
        /\ linkOp'[o].tipo = linkOp[o].tipo /\ linkOp'[o].row = linkOp[o].row
        /\ linkOp'[o].meta = linkOp[o].meta /\ linkOp'[o].demoted = linkOp[o].demoted
    BY <1>2 DEF Lock, Ops
  <2>4. LinksTypeOK'
    BY <2>1, <2>2
  <2>5. LockInv'
    BY <2>1, <2>2, <2>3 DEF LinksFree
  <2>6. DemotedInv'
    BY <2>1, <2>2, <2>3
  <2>7. OnePrimary'
    BY <2>1, <2>2, <2>3
  <2>8. CopiesFresh'
    BY <2>1, <2>2, <2>3
  <2>9. CopiesShaped'
    BY <2>1, <2>2, <2>3
  <2>10. NoneFree'
    BY <2>1, <2>2, <2>3
  <2>11. MetaKept'
    BY <2>1, <2>2, <2>3
  <2>12. QED
    BY <2>4, <2>5, <2>6, <2>7, <2>8, <2>9, <2>10, <2>11
<1>3. ASSUME NEW o \in LinkOps, Demote(o)
      PROVE  LinksInv'
  <2>1. linkOp' \in [LinkOps -> Ops] /\ \A p \in LinkOps \ {o} : linkOp'[p] = linkOp[p]
    BY <1>3, LinksOneAtATime
  <2>2. /\ linkOp[o].pc = "demote"
        /\ UNCHANGED <<agentLink, slugged, revoked, copied>>
    BY <1>3 DEF Demote
  <2>3. /\ linkOp'[o].pc = "find"
        /\ linkOp'[o].op = linkOp[o].op /\ linkOp'[o].agent = linkOp[o].agent
        /\ linkOp'[o].tipo = linkOp[o].tipo /\ linkOp'[o].row = linkOp[o].row
        /\ linkOp'[o].meta = linkOp[o].meta
        /\ \A k \in Primary : agentLink[k].agent # linkOp[o].agent => k \in linkOp'[o].demoted
        /\ \A k \in linkOp'[o].demoted : agentLink[k].state # "free"
    BY <1>3 DEF Demote, Ops
  <2>4. LinksTypeOK'
    BY <2>1, <2>2
  <2>5. LockInv'
    BY <2>1, <2>2, <2>3
  <2>6. DemotedInv'
    BY <2>1, <2>2, <2>3
  <2>7. OnePrimary'
    BY <2>1, <2>2, <2>3
  <2>8. CopiesFresh'
    BY <2>1, <2>2, <2>3
  <2>9. CopiesShaped'
    BY <2>1, <2>2, <2>3
  <2>10. NoneFree'
    BY <2>1, <2>2, <2>3
  <2>11. MetaKept'
    BY <2>1, <2>2, <2>3
  <2>12. QED
    BY <2>4, <2>5, <2>6, <2>7, <2>8, <2>9, <2>10, <2>11
<1>4. ASSUME NEW o \in LinkOps, Find(o)
      PROVE  LinksInv'
  <2>1. linkOp' \in [LinkOps -> Ops] /\ \A p \in LinkOps \ {o} : linkOp'[p] = linkOp[p]
    BY <1>4, LinksOneAtATime
  <2>2. linkOp[o].pc = "find" /\ UNCHANGED <<agentLink, slugged, revoked>>
        /\ copied \subseteq copied' /\ copied' \subseteq LinkIds
    BY <1>4 DEF Find, LiveOf
  <2>3. CASE linkOp'[o] = NoOp
    BY <2>1, <2>2, <2>3 DEF NoOp
  <2>4. CASE /\ linkOp[o].op \in {"link", "attach"}
             /\ linkOp' = [linkOp EXCEPT ![o].pc = "write"] /\ copied' = copied
    <3>1. linkOp'[o] = [linkOp[o] EXCEPT !.pc = "write"]
      BY <2>4
    <3>2. /\ linkOp'[o].pc = "write"
          /\ linkOp'[o].op = linkOp[o].op /\ linkOp'[o].agent = linkOp[o].agent
          /\ linkOp'[o].tipo = linkOp[o].tipo /\ linkOp'[o].row = linkOp[o].row
          /\ linkOp'[o].meta = linkOp[o].meta /\ linkOp'[o].demoted = linkOp[o].demoted
      BY <3>1 DEF Ops
    <3>3. LinksTypeOK'
      BY <2>1, <2>2, <2>4, <3>2
    <3>4. LockInv'
      BY <2>1, <2>2, <2>4, <3>2
    <3>5. DemotedInv'
      BY <2>1, <2>2, <2>4, <3>2
    <3>6. OnePrimary'
      BY <2>1, <2>2, <2>4, <3>2
    <3>7. CopiesFresh'
      BY <2>1, <2>2, <2>4, <3>2
    <3>8. CopiesShaped'
      BY <2>1, <2>2, <2>4, <3>2
    <3>9. NoneFree'
      BY <2>1, <2>2, <2>4, <3>2
    <3>10. MetaKept'
      BY <2>1, <2>2, <2>4, <3>2
    <3>11. QED
      BY <3>3, <3>4, <3>5, <3>6, <3>7, <3>8, <3>9, <3>10
  <2>5. ASSUME NEW l \in LiveOf(linkOp[o].agent),
               ~NoSlug(linkOp[o], l), linkOp[o].op # "attach",
               linkOp' = [linkOp EXCEPT ![o].pc = "write", ![o].row = l,
                                        ![o].meta = agentLink[l].meta],
               copied' = copied \cup {k \in {l} : Copies(k) # {} /\ linkOp[o].op \in Copying
                                                  /\ ~NoSlug(linkOp[o], k)}
        PROVE  LinksInv'
    <3>1. linkOp'[o] = [linkOp[o] EXCEPT !.pc = "write", !.row = l, !.meta = agentLink[l].meta]
      BY <2>5
    <3>2. /\ linkOp'[o].pc = "write"
          /\ linkOp'[o].op = linkOp[o].op /\ linkOp'[o].agent = linkOp[o].agent
          /\ linkOp'[o].tipo = linkOp[o].tipo /\ linkOp'[o].row = l
          /\ linkOp'[o].meta = agentLink[l].meta /\ linkOp'[o].demoted = linkOp[o].demoted
      BY <3>1 DEF Ops
    <3>3. l \in LinkIds /\ agentLink[l].state = "live" /\ agentLink[l].agent = linkOp[o].agent
      BY DEF LiveOf
    <3>4. LinksTypeOK' /\ LockInv' /\ DemotedInv' /\ OnePrimary' /\ NoneFree' /\ MetaKept'
      BY <2>1, <2>2, <3>2, <3>3, <2>5
    <3>5. CopiesShaped'
      BY <2>1, <2>2, <3>2, <3>3, <2>5 DEF NoSlug
    <3>6. CopiesFresh'
      <4>1. l \notin copied' /\ linkOp[o].op \in Copying => Copies(l) = {}
        BY <2>5
      <4>2. QED
        BY <2>1, <2>2, <3>2, <3>3, <4>1
    <3>7. QED
      BY <3>4, <3>5, <3>6
  <2>6. QED
    BY <1>4, <2>3, <2>4, <2>5 DEF Find, Refuse
<1>5. ASSUME NEW o \in LinkOps, Fail(o)
      PROVE  LinksInv'
  <2>1. linkOp' \in [LinkOps -> Ops] /\ \A p \in LinkOps \ {o} : linkOp'[p] = linkOp[p]
    BY <1>5, LinksOneAtATime
  <2>2. linkOp'[o] = NoOp /\ UNCHANGED <<agentLink, slugged, revoked, copied>>
    BY <1>5 DEF Fail, Refuse
  <2>3. QED
    BY <2>1, <2>2 DEF NoOp
<1>6. ASSUME NEW o \in LinkOps, WriteLinkOp(o)
      PROVE  LinksInv'
  <2>1. linkOp' \in [LinkOps -> Ops] /\ \A p \in LinkOps \ {o} : linkOp'[p] = linkOp[p]
    BY <1>6, LinksOneAtATime
  <2>2. linkOp[o].pc = "write" /\ linkOp'[o] = NoOp /\ UNCHANGED copied
    BY <1>6 DEF WriteLinkOp, Refuse
  <2>3. PICK l \in LinkIds :
              /\ linkOp[o].row \in {l, NoLinkId}
              /\ linkOp[o].row = NoLinkId => agentLink[l].state = "free"
              /\ agentLink'[l] = LinkWritten(linkOp[o], l, agentLink[l])
              /\ \A k \in LinkIds \ {l} :
                   /\ k \in linkOp[o].demoted =>
                         agentLink'[k] = [agentLink[k] EXCEPT !.tipo = "secondary"]
                   /\ k \notin linkOp[o].demoted => agentLink'[k] = agentLink[k]
              /\ slugged' = slugged \cup {k \in {l} : "projectSlug" \in agentLink'[l].meta}
              /\ revoked' = (revoked \cup {k \in {l} : linkOp[o].op = "revoke"})
                                \ {k \in {l} : linkOp[o].op = "generate"}
    BY <1>6, LinksWritten
  <2>4. agentLink' \in [LinkIds -> AgentRows]
    BY <1>6, LinksWritten
  <2>5. /\ agentLink'[l].state # "free"
        /\ agentLink'[l].agent = linkOp[o].agent
        /\ agentLink[l].state = "free" \/ agentLink[l].agent = linkOp[o].agent
        /\ agentLink'[l].tipo = "primary" => linkOp[o].tipo = "primary" \/ agentLink[l].tipo = "primary"
        /\ linkOp[o].op = "link" => agentLink'[l].tipo = linkOp[o].tipo
        /\ linkOp[o].op = "link" \/ linkOp[o].row # NoLinkId \/ agentLink'[l].tipo # "primary"
    BY <2>2, <2>3 DEF LinkWritten, NewLink, AgentRows, Ops
  <2>6. \A k \in LinkIds \ {l} :
          /\ agentLink'[k].agent = agentLink[k].agent /\ agentLink'[k].state = agentLink[k].state
          /\ agentLink'[k].meta = agentLink[k].meta
          /\ agentLink'[k].tipo = IF k \in linkOp[o].demoted THEN "secondary" ELSE agentLink[k].tipo
    <3>1. TAKE k \in LinkIds \ {l}
    <3>2. agentLink[k] \in AgentRows
      OBVIOUS
    <3>3. CASE k \in linkOp[o].demoted
      <4>1. agentLink'[k] = [agentLink[k] EXCEPT !.tipo = "secondary"]
        BY <2>3, <3>3
      <4> HIDE DEF LinksInv
      <4>2. QED
        BY ONLY <3>2, <3>3, <4>1, DemotedRow
    <3>4. CASE k \notin linkOp[o].demoted
      BY <2>3, <3>4
    <3>5. QED
      BY <3>3, <3>4
  <2>7. LinksTypeOK'
    <3>1. slugged' \subseteq LinkIds /\ revoked' \subseteq LinkIds
      BY <2>3
    <3>2. QED
      BY <2>1, <2>2, <2>4, <3>1
  <2>19. \A k \in linkOp[o].demoted : agentLink[k].state # "free"
    OBVIOUS
  <2>8. LockInv'
    <3>1. /\ \A p \in LinkOps : linkOp'[p] = linkOp[p] \/ linkOp'[p] = NoOp
          /\ NoOp.row = NoLinkId /\ NoOp.pc = "idle" /\ NoOp.op = "attach"
      BY <2>1, <2>2 DEF NoOp
    <3>2. \A k \in LinkIds : /\ agentLink'[k].state # "free" \/ agentLink'[k] = agentLink[k]
                             /\ agentLink[k].state # "free" =>
                                    /\ agentLink'[k].agent = agentLink[k].agent
                                    /\ agentLink'[k].state # "free"
      <4>1. TAKE k \in LinkIds
      <4>2. CASE k = l
        BY <2>5, <4>2
      <4>3. CASE k # l
        <5>1. \/ agentLink'[k] = agentLink[k]
              \/ k \in linkOp[o].demoted /\ agentLink[k].state # "free"
          BY <2>3, <4>3, <2>19
        <5>2. agentLink'[k].state = agentLink[k].state /\ agentLink'[k].agent = agentLink[k].agent
          BY <2>6, <4>3
        <5>3. QED
          BY <5>1, <5>2
      <4>4. QED
        BY <4>2, <4>3
    <3>3. NoOp.demoted = {}
      BY DEF NoOp
    <3>4. \A k \in LinkIds : agentLink'[k].state = "free" => agentLink'[k] = FreeLink
      BY <3>2
    <3>5. \A p \in LinkOps : linkOp'[p].row # NoLinkId =>
             /\ agentLink'[linkOp'[p].row].agent = linkOp'[p].agent
             /\ agentLink'[linkOp'[p].row].state # "free"
      <4>1. TAKE p \in LinkOps
      <4>2. linkOp[p].row \in LinkIds \cup {NoLinkId}
        BY DEF Ops
      <4>3. QED
        BY <3>1, <3>2, <4>2
    <3>6. \A p \in LinkOps : \A k \in linkOp'[p].demoted : agentLink'[k].state # "free"
      <4>1. TAKE p \in LinkOps
      <4>2. linkOp[p].demoted \subseteq LinkIds
        BY DEF Ops
      <4>3. QED
        BY <3>1, <3>2, <3>3, <4>2
    <3>7. QED
      BY <3>1, <3>4, <3>5, <3>6
  <2>9. linkOp[o].tipo # "primary" =>
           \A k \in Primary' : k \in Primary /\ agentLink'[k].agent = agentLink[k].agent
    <3>1. CASE l \in Primary' /\ linkOp[o].row = NoLinkId
      BY <2>3, <3>1 DEF LinkWritten, NewLink
    <3>2. CASE l \in Primary' /\ linkOp[o].row # NoLinkId
      <4>1. agentLink[l] \in AgentRows
        OBVIOUS
      <4>2. agentLink'[l].state = "live" => agentLink[l].state = "live"
        BY ONLY <2>3, <3>2, <4>1 DEF LinkWritten, AgentRows
      <4>3. linkOp[o].tipo # "primary" => l \in Primary /\ agentLink'[l].agent = agentLink[l].agent
        BY <2>5, <3>2, <4>2
      <4>4. QED
        BY <2>6, <4>3
    <3>3. QED
      BY <2>6, <3>1, <3>2
  <2>10. \A k \in Primary' \ {l} : k \in Primary /\ k \notin linkOp[o].demoted
                                      /\ agentLink'[k].agent = agentLink[k].agent
    BY <2>6
  <2>11. DemotedInv'
    BY <2>1, <2>2, <2>9 DEF NoOp
  <2>12. OnePrimary'
    <3>1. CASE linkOp[o].tipo = "primary"
      <4>1. \A k \in Primary' : agentLink'[k].agent = linkOp[o].agent
        BY <2>2, <2>5, <2>10, <3>1
      <4>2. QED
        BY <4>1
    <3>2. QED
      BY <2>9, <3>1
  <2>13. /\ linkOp[o].op \in Copying /\ linkOp[o].row # NoLinkId =>
               agentLink'[l].meta = NewMeta(linkOp[o])
         /\ linkOp[o].op \notin Copying /\ linkOp[o].row # NoLinkId =>
               agentLink'[l].meta = agentLink[l].meta
    BY <2>2, <2>3 DEF LinkWritten, AgentRows, Ops
  <2>14. CopiesFresh'
    BY <2>1, <2>2, <2>3, <2>6, <2>13 DEF NoOp
  <2>15. CopiesShaped'
    BY <2>1, <2>2 DEF NoOp
  <2>16. NoneFree'
    BY <2>3, <2>5, <2>6
  <2>17. MetaKept'
    <3>1. CASE linkOp[o].row = NoLinkId
      BY <2>2, <2>3, <2>6, <3>1
    <3>2. CASE linkOp[o].row # NoLinkId /\ linkOp[o].op \in Copying
      <4>1. l \notin copied => linkOp[o].meta = agentLink[l].meta
        BY <2>2, <2>3, <3>2
      <4>2. QED
        BY <2>2, <2>3, <2>6, <2>13, <3>2, <4>1 DEF NewMeta
    <3>3. CASE linkOp[o].row # NoLinkId /\ linkOp[o].op \notin Copying
      BY <2>2, <2>3, <2>6, <2>13, <3>3
    <3>4. QED
      BY <3>1, <3>2, <3>3
  <2>18. QED
    BY <2>7, <2>8, <2>11, <2>12, <2>14, <2>15, <2>16, <2>17
<1>7. CASE UNCHANGED linkVars
  BY <1>7 DEF linkVars
<1>8. QED
  BY <1>1, <1>2, <1>3, <1>4, <1>5, <1>6, <1>7 DEF AgentLinksNext

LEMMA LinksInitInv == LinksInit => LinksInv
BY DEF LinksInit, LinksInv, LinksTypeOK, LockInv, DemotedInv, OnePrimary, CopiesFresh,
       CopiesShaped, NoneFree, MetaKept, HasLock, Primary, Copies, FreeLink, NoOp, AgentRows,
       Ops, Tipos, Meta, Locked, Outbound

\* One primary agent whatever requests overlap, and metaDados that only two copies at
\* once can set back.
THEOREM LinksSoundHolds == LinksSpec => []LinksSound
<1>1. LinksInv => LinksSound
  BY DEF LinksInv, LinksSound
<1>2. QED
  BY <1>1, LinksInitInv, LinksInductive, PTL DEF LinksSpec
================================================================================
