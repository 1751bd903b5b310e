----------------------------- MODULE MCPlatform -----------------------------
(* Instances for TLC of the modules about invitations, teams and agents,    *)
(* and of what runs in the background.  They share no variable: part names  *)
(* the one that moves in a behaviour, the others stay as they began.  Teams *)
(* have two instances: teams that come and go with their creator only, and  *)
(* one team with its members, which end at a second mishap.  The scripts    *)
(* have two, too: one beside everybody else, and both beside each other     *)
(* over what was there before; a behaviour of theirs ends where a mirror    *)
(* was made on a pointer no longer true.                                    *)
EXTENDS Invites, Teams, PhaseProgress, AgentStatus, AgentInstall, CacheWarmer, Tunnel,
        Backfill

CONSTANTS ph, l1, l2, g1, g2, g3, r1, r2, r3

VARIABLE part

platformVars == <<inviteVars, teamVars, progressVars, statusVars, installVars, warmerVars,
                  tunnelVars, backfillVars, part>>

FlatTree   == [t \in Leaves |-> ph]
NestedTree == [t \in Leaves |-> IF t = l2 THEN l1 ELSE ph]
BothTrees  == {FlatTree, NestedTree}

PlatformInit ==
    /\ InviteInit /\ ProgressInit /\ StatusInit /\ InstallInit /\ WarmerInit /\ TunnelInit
    /\ BackfillInit /\ TeamInit
    /\ part \in {"invites", "teams", "leads", "progress", "status", "install", "warmer", "tunnel",
                 "backfill", "scripts"}
    /\ part # "invites" => account
    /\ part # "progress" => tree = FlatTree
    /\ part # "tunnel" => machine = "throws"
    /\ part \notin {"backfill", "scripts"} => live = Olds /\ seq = 0

InvitePart ==
    /\ part = "invites" /\ InviteNext
    /\ UNCHANGED <<teamVars, progressVars, statusVars, installVars, warmerVars, tunnelVars,
                   backfillVars>>

\* Teams and rows differ by name only: they are taken in one order.
TeamsInOrder(rows, a, b, c) == /\ rows[b].state # "free" => rows[a].state # "free"
                               /\ rows[c].state # "free" => rows[b].state # "free"
CreatorOnly == \A c \in TeamCalls : /\ teamCall'[c].user \in {OrgCreator, NoPerson}
                                    /\ teamCall'[c].op \in {"create", "delete", "deleteOrg"}
OneTeamOnly == /\ Serving("create")' = {}
               /\ \A c \in Serving("add")' : teamCall'[c].user # OrgCreator

TeamPart ==
    /\ part \in {"teams", "leads"} /\ Cardinality(mishaps) <= 1 /\ TeamNext
    /\ TeamsInOrder(team', g1, g2, g3) /\ TeamsInOrder(member', r1, r2, r3)
    /\ (part = "teams" => CreatorOnly) /\ (part = "leads" => OneTeamOnly)
    /\ UNCHANGED <<inviteVars, progressVars, statusVars, installVars, warmerVars, tunnelVars,
                   backfillVars>>

ProgressPart ==
    /\ part = "progress" /\ ProgressNext
    /\ UNCHANGED <<teamVars, inviteVars, statusVars, installVars, warmerVars, tunnelVars,
                   backfillVars>>

StatusPart ==
    /\ part = "status" /\ StatusNext
    /\ UNCHANGED <<teamVars, inviteVars, progressVars, installVars, warmerVars, tunnelVars,
                   backfillVars>>

InstallPart ==
    /\ part = "install" /\ InstallNext
    /\ UNCHANGED <<teamVars, inviteVars, progressVars, statusVars, warmerVars, tunnelVars,
                   backfillVars>>

WarmerPart ==
    /\ part = "warmer" /\ WarmerNext
    /\ UNCHANGED <<teamVars, inviteVars, progressVars, statusVars, installVars, tunnelVars,
                   backfillVars>>

TunnelPart ==
    /\ part = "tunnel" /\ TunnelNext
    /\ UNCHANGED <<teamVars, inviteVars, progressVars, statusVars, installVars, warmerVars,
                   backfillVars>>

Tables == [w \in ScopeRows |-> IF w = "w1" THEN "tabela" ELSE "vinculo"]

Running == {s \in Scripts : script'[s].pc # "idle"}
EntitiesAs(kind, e) == {k \in EntityKeys : e[k] = kind}
OneScript == /\ Running \subseteq {"tabela"}
             /\ \A w \in ScopeRows : FamilyOf[w] # "tabela" => value'[w] = NoEntity
             /\ Cardinality(EntitiesAs("deleted", entity')) <= 1
TwoScripts == /\ live = Olds /\ app' = NoApp /\ EntitiesAs("deleted", entity') = {}
              /\ \A s \in Running : script'[s].apply
              /\ Active # {} => /\ of' = of
                                /\ EntitiesAs("other", entity') = EntitiesAs("other", entity)

BackfillPart ==
    /\ part \in {"backfill", "scripts"} /\ outrun = {} /\ BackfillNext
    /\ (part = "backfill" => OneScript) /\ (part = "scripts" => TwoScripts)
    /\ UNCHANGED <<teamVars, inviteVars, progressVars, statusVars, installVars, warmerVars,
                   tunnelVars>>

PlatformNext ==
    /\ \/ InvitePart \/ TeamPart \/ ProgressPart \/ StatusPart \/ InstallPart \/ WarmerPart
       \/ TunnelPart
       \/ BackfillPart
    /\ UNCHANGED part

(* No other fair step can be taken in a state in which its part begins, but  *)
(* start() of the tunnel can: it is required only where the tunnel moves.    *)
PlatformFairness ==
    /\ StatusFairness /\ ProgressFairness
    /\ WF_tunnelVars(part = "tunnel" /\ TunnelStep)

PlatformSpec == PlatformInit /\ [][PlatformNext]_platformVars /\ PlatformFairness

PlatformTypeOK ==
    /\ InviteTypeOK /\ ProgressTypeOK /\ StatusTypeOK
    /\ InstallTypeOK /\ WarmerTypeOK /\ TunnelTypeOK
    /\ BackfillTypeOK /\ TeamTypeOK

(* Who joins an organization by an invitation, or a team by its LEAD, joins    *)
(* once and as long as it lasts, unless requests overlapped in the way named   *)
(* (invites.service.ts, teams.service.ts).                                     *)
JoiningSound == InvitesSound /\ []TeamsSound

(* The agent's two loops beside its work: what the warms cost stays near the   *)
(* daily cap and ends with stop(), and the tunnel's state, child and timers    *)
(* agree (cache-warmer-loop.ts, autossh.wrapper.ts).                           *)
LoopsSound == WarmerSound /\ TunnelSound
=============================================================================
