---------------------------- MODULE ProjectTree ----------------------------
(***************************************************************************)
(* Spaces, folders and lists (DProject.idPai) and the teams they belong to *)
(* (rows DVincula of class -182): creation, update, deletion of a project  *)
(* with all below it, deletion of a team.                                  *)
(*                                                                         *)
(* ProjectsService.update asks one recursive query whether the new parent  *)
(* is below the project, and reads the link to the team, before the        *)
(* transaction that writes them.                                           *)
(***************************************************************************)
CONSTANTS
    Boards,         \* the projects that may be created
    Spaces,         \* those of class -350
    Folders,        \* those of class -351; the others are lists
    NoBoard,        \* idPai = null
    Teams,
    NoTeam,
    TeamLinks,      \* rows of class -182 that may be created
    NoLinkRow,
    Requests        \* requests served at the same time

ASSUME BoardAssumption ==
    /\ Spaces \subseteq Boards /\ Folders \subseteq Boards \ Spaces
    /\ NoBoard \notin Boards /\ NoTeam \notin Teams /\ NoLinkRow \notin TeamLinks

VARIABLES
    exists,         \* whether a project exists, and DProject.excluido
    parent,         \* DProject.idPai
    teamLink,       \* the rows of class -182
    teams,          \* the teams that are not excluido
    request,        \* the requests in progress
    happened        \* auxiliary: what happened so far

boardsVars == <<exists, parent, teamLink, teams, request, happened>>

LinkRows == [board: Boards \cup {NoBoard}, team: Teams \cup {NoTeam},
             state: {"free", "live", "deleted"}]
FreeRow  == [board |-> NoBoard, team |-> NoTeam, state |-> "free"]

\* below is what a deletion collected; previous the link an update found; team the new
\* one, unless keeps: the request leaves the team alone.
BoardReqs == [op: {"create", "update", "delete"}, pc: {"idle", "team", "write"},
              board: Boards \cup {NoBoard}, to: Boards \cup {NoBoard}, keeps: BOOLEAN,
              team: Teams \cup {NoTeam}, previous: TeamLinks \cup {NoLinkRow},
              below: SUBSET Boards]
NoChange == [op |-> "create", pc |-> "idle", board |-> NoBoard, to |-> NoBoard,
             keeps |-> TRUE, team |-> NoTeam, previous |-> NoLinkRow,
             below |-> {}]

BoardsTypeOK ==
    /\ exists \in [Boards -> {"unborn", "live", "deleted"}]
    /\ parent \in [Boards -> Boards \cup {NoBoard}]
    /\ teamLink \in [TeamLinks -> LinkRows]
    /\ teams \subseteq Teams
    /\ request \in [Requests -> BoardReqs]
    /\ happened \subseteq {"moves", "teams"}

BoardsInit ==
    /\ exists = [b \in Boards |-> "unborn"]
    /\ parent = [b \in Boards |-> NoBoard]
    /\ teamLink = [l \in TeamLinks |-> FreeRow]
    /\ teams = Teams
    /\ request = [r \in Requests |-> NoChange]
    /\ happened = {}

-----------------------------------------------------------------------------

Live        == {b \in Boards : exists[b] = "live"}
LinksOf(b)  == {l \in TeamLinks : teamLink[l].state = "live" /\ teamLink[l].board = b}
Moving      == {r \in Requests : request[r].op = "update" /\ request[r].pc # "idle"
                                  /\ request[r].keeps}
Linking(b)  == {r \in Requests : request[r].op = "update" /\ request[r].pc # "idle"
                                  /\ ~request[r].keeps /\ request[r].board = b}

Starts(r, q) ==
    /\ request[r].pc = "idle"
    /\ request' = [request EXCEPT ![r] = q]
    /\ UNCHANGED <<exists, parent, teamLink, teams>>

\* With a team, the next step is validateTeamForLink.
NextStep(t) == IF t = NoTeam THEN "write" ELSE "team"

\* validateHierarchyRule.
ParentRule(b, p) ==
    /\ exists[p] = "live"
    /\ b \notin Spaces
    /\ b \in Folders => p \in Spaces
    /\ b \notin Folders => p \in Spaces \cup Folders

CreateBoard(r) ==
    \E b \in Boards, p \in Boards \cup {NoBoard}, t \in Teams \cup {NoTeam} :
        /\ exists[b] = "unborn"
        /\ \A o \in Requests : request[o].board # b
        /\ p # NoBoard => ParentRule(b, p)
        /\ Starts(r, [NoChange EXCEPT !.pc = NextStep(t), !.board = b, !.to = p,
                                      !.keeps = (t = NoTeam), !.team = t])
        /\ UNCHANGED happened

\* The recursive query of validateNoCycle gives the least set of live projects that has
\* p and, with a project, its parent.  The slip looks at the parent only.
UpClosed(S)   == \A b \in S : parent[b] \in Live => parent[b] \in S
ParentOnly(p) == Live \cap {p, parent[p]}
Ancestors(p)  ==
    {a \in Live : \A S \in SUBSET Live :
                    (Live \cap {p} \subseteq S /\ UpClosed(S)) => a \in S}

\* A move, with the team left alone: what is written is the new parent.
MoveBoard(r) ==
    \E b \in Live, p \in Boards \cup {NoBoard} :
        /\ p # b
        /\ p # NoBoard => (exists[p] # "unborn" /\ b \notin Ancestors(p))
        /\ Starts(r, [NoChange EXCEPT !.op = "update", !.pc = "write", !.board = b, !.to = p])
        /\ happened' = happened \cup {m \in {"moves"} : Moving # {}}

\* A new team, or none, with the parent left alone.
TeamBegin(r) ==
    \E b \in Live, t \in Teams \cup {NoTeam} :
        \E l \in IF LinksOf(b) = {} THEN {NoLinkRow} ELSE LinksOf(b) :
            /\ Starts(r, [NoChange EXCEPT !.op = "update", !.pc = NextStep(t), !.board = b,
                                          !.to = parent[b], !.keeps = FALSE,
                                          !.team = t, !.previous = l])
            /\ happened' = happened \cup {m \in {"teams"} : Linking(b) # {}}

\* The look at the team, in the transaction; who may link it is not modelled.
CheckTeam(r) ==
    /\ request[r].pc = "team"
    /\ request' = [request EXCEPT ![r] = IF @.team \in teams THEN [@ EXCEPT !.pc = "write"]
                                         ELSE NoChange]
    /\ UNCHANGED <<exists, parent, teamLink, teams, happened>>

\* The old link goes and, with a team, a new one comes.
LinksAdded(q, links) ==
    IF q.keeps \/ q.team = NoTeam THEN {links}
    ELSE {[links EXCEPT ![l] = [board |-> q.board, team |-> q.team, state |-> "live"]] :
             l \in {k \in TeamLinks : links[k].state = "free"}}
LinksReplaced(q, links) ==
    LinksAdded(q, IF q.previous = NoLinkRow THEN links
                  ELSE [links EXCEPT ![q.previous].state = "deleted"])

WriteBoard(r) ==
    LET q == request[r] IN
    /\ q.pc = "write" /\ q.op \in {"create", "update"}
    /\ exists' = IF q.op = "create" THEN [exists EXCEPT ![q.board] = "live"] ELSE exists
    /\ parent' = IF q.op = "create" \/ q.keeps THEN [parent EXCEPT ![q.board] = q.to]
                 ELSE parent
    /\ teamLink' \in LinksReplaced(q, teamLink)
    /\ request' = [request EXCEPT ![r] = NoChange]
    /\ UNCHANGED <<teams, happened>>

\* The recursive query of delete, and the rows that are then written.
DownClosed(S) == \A c \in Live : parent[c] \in S => c \in S
Below(b) ==
    {c \in Live : \A S \in SUBSET Live : (b \in S /\ DownClosed(S)) => c \in S}

DeleteRead(r) ==
    \E b \in Live :
        /\ Starts(r, [NoChange EXCEPT !.op = "delete", !.pc = "write", !.board = b,
                                      !.below = Below(b)])
        /\ UNCHANGED happened

DeleteWrite(r) ==
    LET q == request[r] IN
    /\ q.pc = "write" /\ q.op = "delete"
    /\ exists' = [b \in Boards |-> IF b \in q.below THEN "deleted" ELSE exists[b]]
    /\ teamLink' = [l \in TeamLinks |->
                      IF teamLink[l].state = "live" /\ teamLink[l].board \in q.below
                      THEN [teamLink[l] EXCEPT !.state = "deleted"] ELSE teamLink[l]]
    /\ request' = [request EXCEPT ![r] = NoChange]
    /\ UNCHANGED <<parent, teams, happened>>

\* TeamsService.delete.
DeleteTeam(t) ==
    /\ t \in teams
    /\ teams' = teams \ {t}
    /\ teamLink' = [l \in TeamLinks |->
                      IF teamLink[l].state = "live" /\ teamLink[l].team = t
                      THEN [teamLink[l] EXCEPT !.state = "deleted"] ELSE teamLink[l]]
    /\ UNCHANGED <<exists, parent, request, happened>>

BoardsNext ==
    \/ \E r \in Requests :
          \/ CreateBoard(r) \/ MoveBoard(r) \/ TeamBegin(r) \/ CheckTeam(r)
          \/ WriteBoard(r) \/ DeleteRead(r) \/ DeleteWrite(r)
    \/ \E t \in Teams : DeleteTeam(t)

ProjectSpec == BoardsInit /\ [][BoardsNext]_boardsVars

-----------------------------------------------------------------------------
(* Correctness.                                                            *)

\* No live projects form a cycle, whatever is created, deleted and moved, as long as
\* two moves are not under way at once (through a deleted parent they may).
LiveForest ==
    "moves" \notin happened =>
        \A S \in SUBSET Live : S # {} => \E b \in S : parent[b] \notin S

\* projects.service.ts:1403 promises one team for a project even when updates race: it
\* holds as long as two changes of the team of one project are not under way at once.
OneTeam ==
    "teams" \notin happened => \A b \in Boards : \A k, l \in LinksOf(b) : k = l

ProjectsSound == LiveForest /\ OneTeam
=============================================================================
