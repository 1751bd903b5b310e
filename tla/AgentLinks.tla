----------------------------- MODULE AgentLinks -----------------------------
(***************************************************************************)
(* The links of one project to agents: rows DVincula of class -185.        *)
(* ProjectAgentLinkService writes them in transactions under an advisory   *)
(* lock of the project; AgentsService.linkProject and unlinkProject,       *)
(* provisioning and the deploy keys write them without it, the last two    *)
(* with the whole of metaDados from a copy that is as old as a command to  *)
(* the agent takes.                                                        *)
(***************************************************************************)
CONSTANTS
    LinkedAgents,
    NoAgent,
    LinkIds,        \* rows that may be created
    NoLinkId,
    LinkOps         \* requests served at the same time

ASSUME AgentLinkAssumption == NoAgent \notin LinkedAgents /\ NoLinkId \notin LinkIds

VARIABLES
    agentLink,      \* the rows
    linkOp,         \* the requests
    slugged,        \* auxiliary: rows that had a projectSlug
    revoked,        \* auxiliary: rows whose key was revoked, and not generated since
    copied          \* auxiliary: rows of whose metaDados two requests had copies at once

linkVars == <<agentLink, linkOp, slugged, revoked, copied>>

Tipos     == {"primary", "secondary", "agent"}
Meta      == SUBSET {"projectSlug", "deployKeyPub"}
AgentRows == [agent: LinkedAgents \cup {NoAgent}, tipo: Tipos,
              state: {"free", "live", "deleted"}, meta: Meta]
FreeLink  == [agent |-> NoAgent, tipo |-> "agent", state |-> "free", meta |-> {}]

\* link and unlink take the lock; attach and detach are AgentsService's.
Locked   == {"link", "unlink"}
Outbound == {"provision", "generate", "revoke"}
Ops == [op: Locked \cup {"attach", "detach"} \cup Outbound,
        pc: {"idle", "lock", "demote", "find", "write"},
        agent: LinkedAgents \cup {NoAgent}, tipo: Tipos, row: LinkIds \cup {NoLinkId},
        meta: Meta, demoted: SUBSET LinkIds]
NoOp == [op |-> "attach", pc |-> "idle", agent |-> NoAgent, tipo |-> "agent",
         row |-> NoLinkId, meta |-> {}, demoted |-> {}]

LinksTypeOK ==
    /\ agentLink \in [LinkIds -> AgentRows]
    /\ linkOp \in [LinkOps -> Ops]
    /\ slugged \subseteq LinkIds
    /\ revoked \subseteq LinkIds
    /\ copied \subseteq LinkIds

LinksInit ==
    /\ agentLink = [l \in LinkIds |-> FreeLink]
    /\ linkOp = [o \in LinkOps |-> NoOp]
    /\ slugged = {} /\ revoked = {} /\ copied = {}

-----------------------------------------------------------------------------

LiveOf(a) == {l \in LinkIds : agentLink[l].state = "live" /\ agentLink[l].agent = a}
Primary   == {l \in LinkIds : agentLink[l].state = "live" /\ agentLink[l].tipo = "primary"}

Receive(o) ==
    \E a \in LinkedAgents, op \in Locked \cup {"attach", "detach"} \cup Outbound,
       t \in {"primary", "secondary"} :
        /\ linkOp[o].pc = "idle"
        /\ op # "link" => t = "secondary"
        /\ linkOp' = [linkOp EXCEPT ![o] = [NoOp EXCEPT !.op = op, !.agent = a, !.tipo = t,
                        !.pc = IF op \in Locked THEN "lock" ELSE "find"]]
        /\ UNCHANGED <<agentLink, slugged, revoked, copied>>

Refuse(o) == linkOp' = [linkOp EXCEPT ![o] = NoOp]

\* pg_advisory_xact_lock.  The slip does not wait for it.
NotAwaited == TRUE
LinksFree  == \A o \in LinkOps :
                ~(linkOp[o].op \in Locked /\ linkOp[o].pc \in {"demote", "find", "write"})

Lock(o) ==
    /\ linkOp[o].pc = "lock"
    /\ LinksFree
    /\ linkOp' = [linkOp EXCEPT ![o].pc = IF linkOp[o].tipo = "primary" THEN "demote" ELSE "find"]
    /\ UNCHANGED <<agentLink, slugged, revoked, copied>>

\* The updateMany of the other agents' primary links, not seen before the commit.
Demote(o) ==
    /\ linkOp[o].pc = "demote"
    /\ linkOp' = [linkOp EXCEPT ![o].pc = "find",
                    ![o].demoted = {l \in Primary : agentLink[l].agent # linkOp[o].agent}]
    /\ UNCHANGED <<agentLink, slugged, revoked, copied>>

\* The requests that write back metaDados, and those with a copy of a row's.
Copying   == {"link"} \cup Outbound
Copies(l) == {o \in LinkOps : linkOp[o].pc = "write" /\ linkOp[o].row = l
                              /\ linkOp[o].op \in Copying}

\* The findFirst of each request, and what it is refused for.
NoSlug(q, l) == q.op \in {"provision", "generate"} /\ "projectSlug" \notin agentLink[l].meta

Find(o) ==
    LET q == linkOp[o] IN
    /\ q.pc = "find"
    /\ \/ /\ LiveOf(q.agent) = {}
          /\ IF q.op \in {"link", "attach"} THEN linkOp' = [linkOp EXCEPT ![o].pc = "write"]
             ELSE Refuse(o)
          /\ UNCHANGED copied
       \/ \E l \in LiveOf(q.agent) :
             /\ IF q.op = "attach" \/ NoSlug(q, l) THEN Refuse(o)
                ELSE linkOp' = [linkOp EXCEPT ![o].pc = "write", ![o].row = l,
                                              ![o].meta = agentLink[l].meta]
             /\ copied' = copied \cup {k \in {l} : Copies(k) # {} /\ q.op \in Copying
                                                   /\ ~NoSlug(q, k)}
    /\ UNCHANGED <<agentLink, slugged, revoked>>

\* The transaction is rolled back, the command to the agent fails, an execution of the
\* agent is active, the backend stops.
Fail(o) ==
    /\ linkOp[o].pc # "idle"
    /\ Refuse(o)
    /\ UNCHANGED <<agentLink, slugged, revoked, copied>>

\* The metaDados each request writes, from its copy.
NewMeta(q) ==
    CASE q.op = "link"      -> q.meta \cup {"projectSlug"}
      [] q.op = "generate"  -> q.meta \cup {"deployKeyPub"}
      [] q.op = "revoke"    -> q.meta \ {"deployKeyPub"}
      [] OTHER              -> q.meta

NewLink(q) == [agent |-> q.agent, tipo |-> IF q.op = "link" THEN q.tipo ELSE "agent",
               state |-> "live", meta |-> NewMeta(q)]

\* An INSERT, or the UPDATE of the row by its key.
LinkWritten(q, l, r) ==
    IF q.row = NoLinkId THEN NewLink(q)
    ELSE IF q.op \in {"unlink", "detach"} THEN [r EXCEPT !.state = "deleted"]
    ELSE [r EXCEPT !.meta = NewMeta(q), !.tipo = IF q.op = "link" THEN q.tipo ELSE @]

WriteLinkOp(o) ==
    LET q == linkOp[o] IN
    \E l \in IF q.row = NoLinkId THEN {k \in LinkIds : agentLink[k].state = "free"}
             ELSE {q.row} :
        /\ q.pc = "write"
        /\ agentLink' = [k \in LinkIds |->
             IF k = l THEN LinkWritten(q, l, agentLink[l])
             ELSE IF k \in q.demoted THEN [agentLink[k] EXCEPT !.tipo = "secondary"]
             ELSE agentLink[k]]
        /\ slugged' = slugged \cup {k \in {l} : "projectSlug" \in agentLink'[l].meta}
        /\ revoked' = (revoked \cup {k \in {l} : q.op = "revoke"})
                         \ {k \in {l} : q.op = "generate"}
        /\ Refuse(o)
        /\ UNCHANGED copied

AgentLinksNext ==
    \E o \in LinkOps :
        Receive(o) \/ Lock(o) \/ Demote(o) \/ Find(o) \/ Fail(o) \/ WriteLinkOp(o)

LinksSpec == LinksInit /\ [][AgentLinksNext]_linkVars

-----------------------------------------------------------------------------
(* Correctness.                                                            *)

\* One agent at most is the primary of the project, whatever requests overlap, with and
\* without the lock.
OnePrimary == \A k, l \in Primary : agentLink[k].agent = agentLink[l].agent

\* A link keeps its projectSlug, and a revoked deploy key stays out of it, unless two
\* requests had copies of its metaDados at the same time.
MetaKept ==
    /\ \A l \in slugged \ copied : "projectSlug" \in agentLink[l].meta
    /\ \A l \in revoked \ copied : "deployKeyPub" \notin agentLink[l].meta

LinksSound == OnePrimary /\ MetaKept
=============================================================================
