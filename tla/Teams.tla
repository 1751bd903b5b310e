------------------------------- MODULE Teams -------------------------------
(***************************************************************************)
(* The teams of one organization and their members: rows DEntidade -180,   *)
(* each with a counter whose prefix it alone should have, and rows         *)
(* DVincula -181 with a cargo.  Every check is a statement of its own      *)
(* before the transaction, or the single statement, that writes.           *)
(***************************************************************************)
EXTENDS Naturals

CONSTANTS
    TeamIds,        \* teams that may be created
    DefaultTeam,    \* the one that comes with the organization
    NoTeamId,
    TeamRows,       \* rows of members that may be created
    DefaultRow,     \* that of its creator
    NoTeamRow,
    Persons,
    OrgCreator,
    NoPerson,
    TeamCalls,      \* requests served at the same time
    LastSuffix      \* where the search for a free prefix stops (100)

ASSUME TeamAssumption ==
    /\ DefaultTeam \in TeamIds /\ NoTeamId \notin TeamIds
    /\ DefaultRow \in TeamRows /\ NoTeamRow \notin TeamRows
    /\ OrgCreator \in Persons /\ NoPerson \notin Persons
    /\ LastSuffix \in Nat /\ LastSuffix >= 2

VARIABLES
    orgLive,        \* the organization is not excluido; its links go with it
    team,           \* the teams, with their counters
    member,         \* the rows of class -181
    teamCall,       \* the requests
    mishaps         \* auxiliary: what happened so far

teamVars == <<orgLive, team, member, teamCall, mishaps>>

\* All teams are named alike: 1 is the letters of the name alone, i those with i after.
Prefixes == 1..LastSuffix
Cargos   == {"LEAD", "MEMBER"}
TeamRow  == [state: {"free", "live", "deleted"}, prefix: Prefixes]
MemberRow == [state: {"free", "live", "deleted"}, team: TeamIds \cup {NoTeamId},
              user: Persons \cup {NoPerson}, cargo: Cargos]

\* known is the teams that a creation, or a deletion of the organization, has read;
\* prefix 0 is one that is not decided yet.
TeamCall == [op: {"create", "delete", "deleteOrg", "add", "cargo", "remove"},
             pc: {"idle", "prefix", "look", "write"}, team: TeamIds \cup {NoTeamId},
             user: Persons \cup {NoPerson}, cargo: Cargos,
             row: TeamRows \cup {NoTeamRow}, known: SUBSET TeamIds,
             prefix: Prefixes \cup {0}]
NoTeamCall == [op |-> "create", pc |-> "idle", team |-> NoTeamId, user |-> NoPerson,
               cargo |-> "MEMBER", row |-> NoTeamRow, known |-> {}, prefix |-> 0]

\* Two creations overlapped; the last suffix was taken a second time; two additions of
\* one person to one team overlapped; a deletion of a team with an addition to it, or of
\* the organization with a creation.
Mishaps == {"creations", "exhausted", "additions", "late"}

TeamTypeOK ==
    /\ orgLive \in BOOLEAN
    /\ team \in [TeamIds -> TeamRow]
    /\ member \in [TeamRows -> MemberRow]
    /\ teamCall \in [TeamCalls -> TeamCall]
    /\ mishaps \subseteq Mishaps

\* OrganizationsService.create.
TeamInit ==
    /\ orgLive = TRUE
    /\ team = [t \in TeamIds |->
                 [state |-> IF t = DefaultTeam THEN "live" ELSE "free", prefix |-> 1]]
    /\ member = [r \in TeamRows |->
                   IF r = DefaultRow
                   THEN [state |-> "live", team |-> DefaultTeam, user |-> OrgCreator,
                         cargo |-> "LEAD"]
                   ELSE [state |-> "free", team |-> NoTeamId, user |-> NoPerson,
                         cargo |-> "MEMBER"]]
    /\ teamCall = [c \in TeamCalls |-> NoTeamCall]
    /\ mishaps = {}

-----------------------------------------------------------------------------

LiveTeams    == {t \in TeamIds : team[t].state = "live"}
MembersOf(t) == {r \in TeamRows : member[r].state = "live" /\ member[r].team = t}
RowsOf(t, u) == {r \in MembersOf(t) : member[r].user = u}

Serving(op)  == {c \in TeamCalls : teamCall[c].op = op /\ teamCall[c].pc # "idle"}
AddingTo(t)  == {c \in Serving("add") : teamCall[c].team = t}
Mishap(kind, when) == mishaps' = mishaps \cup {k \in {kind} : when}

Serve(c, q)   == teamCall[c].pc = "idle" /\ teamCall' = [teamCall EXCEPT ![c] = q]
TeamAnswer(c) == teamCall' = [teamCall EXCEPT ![c] = NoTeamCall]

\* requireLeadOrAdminRole: a LEAD of the team, or an ADMIN of the organization.
MayManage(t) == orgLive \/ \E r \in MembersOf(t) : member[r].cargo = "LEAD"

\* create: the caller is a member of the organization; the teams are read.
CreateBegin(c) ==
    \E u \in Persons, p \in Prefixes \cup {0} :
        /\ orgLive
        /\ Serve(c, [NoTeamCall EXCEPT !.pc = "prefix", !.user = u, !.prefix = p,
                                       !.known = LiveTeams])
        /\ mishaps' = mishaps \cup {k \in {"creations"} : Serving("create") # {}}
                              \cup {k \in {"late"} : Serving("deleteOrg") # {}}
        /\ UNCHANGED <<orgLive, team, member>>

\* The first suffix that is free, from 2 on; the last one is taken as it is.
Suffix(used) == CHOOSE i \in 2..LastSuffix :
                   /\ i \notin used \/ i = LastSuffix
                   /\ \A j \in 2..(i - 1) : j \in used
FreePrefixes(asked, used) ==
    IF asked # 0 THEN {asked} \ used ELSE IF 1 \notin used THEN {1} ELSE {Suffix(used)}

\* The counters of those teams are read.
ChoosePrefix(c) ==
    LET used == {team[t].prefix : t \in teamCall[c].known \cap LiveTeams}
        free == FreePrefixes(teamCall[c].prefix, used)
    IN
    /\ teamCall[c].pc = "prefix"
    /\ \/ free = {} /\ TeamAnswer(c)
       \/ \E p \in free : teamCall' = [teamCall EXCEPT ![c].pc = "write", ![c].prefix = p]
    /\ Mishap("exhausted", teamCall[c].prefix = 0 /\ free \subseteq used)
    /\ UNCHANGED <<orgLive, team, member>>

InsertMember(r, t, u, cargo) ==
    /\ member[r].state = "free"
    /\ member' = [member EXCEPT ![r] = [state |-> "live", team |-> t, user |-> u,
                                        cargo |-> cargo]]

\* One transaction writes the team, its counter and its LEAD.
CreateWrite(c) ==
    /\ teamCall[c].op = "create" /\ teamCall[c].pc = "write"
    /\ \E t \in TeamIds, r \in TeamRows :
          /\ team[t].state = "free"
          /\ team' = [team EXCEPT ![t] = [state |-> "live", prefix |-> teamCall[c].prefix]]
          /\ InsertMember(r, t, teamCall[c].user, "LEAD")
    /\ TeamAnswer(c)
    /\ UNCHANGED <<orgLive, mishaps>>

\* addMember, updateMemberCargo, removeMember and delete find the team, and ask who calls.
Manage(c) ==
    \E t \in LiveTeams, op \in {"add", "cargo", "remove", "delete"},
       u \in Persons, cargo \in Cargos :
        /\ MayManage(t)
        /\ op \in {"remove", "delete"} => cargo = "MEMBER"
        /\ op = "delete" => u = OrgCreator
        /\ Serve(c, [NoTeamCall EXCEPT !.op = op, !.team = t, !.user = u, !.cargo = cargo,
                                       !.pc = IF op = "delete" THEN "write" ELSE "look"])
        /\ UNCHANGED <<orgLive, team, member, mishaps>>

\* The person is no member yet.
LookForMember(c) ==
    LET q == teamCall[c] IN
    /\ q.op = "add" /\ q.pc = "look"
    /\ IF RowsOf(q.team, q.user) = {}
       THEN teamCall' = [teamCall EXCEPT ![c].pc = "write"] ELSE TeamAnswer(c)
    /\ Mishap("additions", \E d \in AddingTo(q.team) : /\ teamCall[d].pc = "write"
                                                       /\ teamCall[d].user = q.user)
    /\ UNCHANGED <<orgLive, team, member>>

\* Any of the person's rows.
LookForRow(c) ==
    LET q == teamCall[c] IN
    /\ q.op \in {"cargo", "remove"} /\ q.pc = "look"
    /\ \/ RowsOf(q.team, q.user) = {} /\ TeamAnswer(c)
       \/ \E r \in RowsOf(q.team, q.user) :
             teamCall' = [teamCall EXCEPT ![c].pc = "write", ![c].row = r]
    /\ UNCHANGED <<orgLive, team, member, mishaps>>

\* The INSERT, or the UPDATE by the key of the row; nobody looks at the team again.
WriteMember(c) ==
    LET q == teamCall[c] IN
    /\ q.pc = "write"
    /\ \/ q.op = "add" /\ \E r \in TeamRows : InsertMember(r, q.team, q.user, q.cargo)
       \/ q.op = "cargo" /\ member' = [member EXCEPT ![q.row].cargo = q.cargo]
       \/ q.op = "remove" /\ member' = [member EXCEPT ![q.row].state = "deleted"]
    /\ TeamAnswer(c)
    /\ UNCHANGED <<orgLive, team, mishaps>>

\* The members of the teams T, the counters and the teams, in one transaction.
Gone(T) ==
    /\ member' = [r \in TeamRows |-> IF member[r].state = "live" /\ member[r].team \in T
                                     THEN [member[r] EXCEPT !.state = "deleted"]
                                     ELSE member[r]]
    /\ team' = [t \in TeamIds |-> IF t \in T THEN [team[t] EXCEPT !.state = "deleted"]
                                  ELSE team[t]]
    /\ Mishap("late", \E t \in T : AddingTo(t) # {})

DeleteTeam(c) ==
    /\ teamCall[c].op = "delete" /\ teamCall[c].pc = "write"
    /\ Gone({teamCall[c].team})
    /\ TeamAnswer(c)
    /\ UNCHANGED orgLive

\* OrganizationsService.delete reads the teams before its transaction.
DeleteOrgBegin(c) ==
    /\ orgLive
    /\ Serve(c, [NoTeamCall EXCEPT !.op = "deleteOrg", !.pc = "write", !.known = LiveTeams])
    /\ Mishap("late", Serving("create") # {})
    /\ UNCHANGED <<orgLive, team, member>>

DeleteOrg(c) ==
    /\ teamCall[c].op = "deleteOrg" /\ teamCall[c].pc = "write"
    /\ Gone(teamCall[c].known)
    /\ orgLive' = FALSE
    /\ TeamAnswer(c)

TeamNext ==
    \E c \in TeamCalls :
        \/ CreateBegin(c) \/ ChoosePrefix(c) \/ CreateWrite(c)
        \/ Manage(c) \/ LookForMember(c) \/ LookForRow(c) \/ WriteMember(c)
        \/ DeleteTeam(c) \/ DeleteOrgBegin(c) \/ DeleteOrg(c)

TeamSpec == TeamInit /\ [][TeamNext]_teamVars

-----------------------------------------------------------------------------
(* Correctness.                                                            *)

\* Two teams of an organization have one prefix (create-team.dto.ts:9 promises none)
\* only when their creations overlapped, or when the name was given so often that the
\* search for a suffix ended without a free one.
PrefixesApart ==
    mishaps \cap {"creations", "exhausted"} = {} =>
        \A s, t \in LiveTeams : s # t => team[s].prefix # team[t].prefix

\* Nobody is a member of a team twice, so that one removal ends the membership, unless
\* two additions of the person overlapped.
OneTeamRow ==
    "additions" \notin mishaps =>
        \A t \in TeamIds, u \in Persons : \A q, r \in RowsOf(t, u) : q = r

\* Unless an addition or a creation overlapped with it, a deletion leaves no member of
\* the team, and no team of the organization.
NothingLeft ==
    "late" \notin mishaps =>
        /\ \A t \in TeamIds : team[t].state = "deleted" => MembersOf(t) = {}
        /\ ~orgLive => LiveTeams = {}

TeamsSound == PrefixesApart /\ OneTeamRow /\ NothingLeft
=============================================================================
