---------------------------- MODULE AgentStatus ----------------------------
(***************************************************************************)
(* Whether an agent is ONLINE: its heartbeats and the sweep that marks it  *)
(* OFFLINE.  Both write the whole of DEntidade.dados back from a copy: a   *)
(* heartbeat has the one that AgentAuthGuard read, a sweep the one it read *)
(* in its own transaction.  Each then emits an event.                      *)
(*                                                                         *)
(* Ages replace the clock: "old" is older than AGENT_HEARTBEAT_TIMEOUT_S.  *)
(***************************************************************************)
EXTENDS Naturals

CONSTANTS
    Beats,          \* heartbeats served at the same time
    Sweeps,         \* runs of the cron job at the same time
    MaxStops        \* times the backend stops

ASSUME StatusAssumption == MaxStops \in Nat

VARIABLES
    agentRow,       \* dados.statusCode and the age of dados.lastSeen
    agent,          \* the agent's process
    beat,           \* POST /agents/:id/heartbeat in progress
    sweep,          \* sweepOfflineAgents in progress
    said,           \* auxiliary: the last agent.online or agent.offline
    crossings,      \* auxiliary: what happened so far
    stops           \* auxiliary: stops of the backend

statusVars == <<agentRow, agent, beat, sweep, said, crossings, stops>>

Codes   == {"NEVER_CONNECTED", "ONLINE", "OFFLINE"}
Ages    == {"never", "fresh", "old"}
NoBeat  == [pc |-> "idle", was |-> "NEVER_CONNECTED", at |-> "fresh"]
NoSweep == [pc |-> "idle", seen |-> "never"]

StatusTypeOK ==
    /\ agentRow \in [code: Codes, seen: Ages]
    /\ agent \in {"up", "down"}
    /\ beat \in [Beats -> [pc: {"idle", "write", "emit"}, was: Codes, at: {"fresh", "old"}]]
    /\ sweep \in [Sweeps -> [pc: {"idle", "write", "emit"}, seen: Ages]]
    /\ said \in {"nothing", "online", "offline"}
    /\ crossings \subseteq {"overlap", "stop"}
    /\ stops \in 0..MaxStops

\* What AgentsService.install writes.
StatusInit ==
    /\ agentRow = [code |-> "NEVER_CONNECTED", seen |-> "never"]
    /\ agent = "down"
    /\ beat = [b \in Beats |-> NoBeat]
    /\ sweep = [s \in Sweeps |-> NoSweep]
    /\ said = "nothing" /\ crossings = {} /\ stops = 0

-----------------------------------------------------------------------------

Beating  == \E b \in Beats : beat[b].pc # "idle"
Sweeping == \E s \in Sweeps : sweep[s].pc # "idle"

\* The agent starts or stops.
AgentSwitch ==
    /\ agent' \in {"up", "down"}
    /\ UNCHANGED <<agentRow, beat, sweep, said, crossings, stops>>

\* The guard reads the agent; heartbeat takes the time.
BeatBegin(b) ==
    /\ agent = "up"
    /\ beat[b].pc = "idle"
    /\ beat' = [beat EXCEPT ![b] = [pc |-> "write", was |-> agentRow.code, at |-> "fresh"]]
    /\ crossings' = crossings \cup {k \in {"overlap"} : Sweeping}
    /\ UNCHANGED <<agentRow, agent, sweep, said, stops>>

\* {...agent.dados, statusCode: ONLINE, lastSeen: now}.
BeatWrite(b) ==
    /\ beat[b].pc = "write"
    /\ agentRow' = [code |-> "ONLINE", seen |-> beat[b].at]
    /\ beat' = [beat EXCEPT ![b] = IF @.was = "OFFLINE" THEN [@ EXCEPT !.pc = "emit"]
                                   ELSE NoBeat]
    /\ UNCHANGED <<agent, sweep, said, crossings, stops>>

BeatEmit(b) ==
    /\ beat[b].pc = "emit"
    /\ said' = "online"
    /\ beat' = [beat EXCEPT ![b] = NoBeat]
    /\ UNCHANGED <<agentRow, agent, sweep, crossings, stops>>

\* findMany and the filter.  The slip inverts the test of the code.
StaleOrOffline(r) == r.code = "OFFLINE" /\ r.seen = "old"
Stale(r)          == r.code = "ONLINE" /\ r.seen = "old"

SweepRead(s) ==
    /\ sweep[s].pc = "idle"
    /\ Stale(agentRow)
    /\ sweep' = [sweep EXCEPT ![s] = [pc |-> "write", seen |-> agentRow.seen]]
    /\ crossings' = crossings \cup {k \in {"overlap"} : Beating \/ Sweeping}
    /\ UNCHANGED <<agentRow, agent, beat, said, stops>>

\* {...dados, statusCode: OFFLINE}: the lastSeen of the copy goes back with it.  The slip
\* writes the code alone.
CodeAlone(c, r) == [r EXCEPT !.code = "OFFLINE"]
Swept(c, r)     == [code |-> "OFFLINE", seen |-> c.seen]

SweepWrite(s) ==
    /\ sweep[s].pc = "write"
    /\ agentRow' = Swept(sweep[s], agentRow)
    /\ sweep' = [sweep EXCEPT ![s].pc = "emit"]
    /\ UNCHANGED <<agent, beat, said, crossings, stops>>

SweepEmit(s) ==
    /\ sweep[s].pc = "emit"
    /\ said' = "offline"
    /\ sweep' = [sweep EXCEPT ![s] = NoSweep]
    /\ UNCHANGED <<agentRow, agent, beat, crossings, stops>>

\* Ninety seconds pass: for the row, or for a heartbeat that waits for its transaction.
AgeRow ==
    /\ agentRow.seen = "fresh"
    /\ agentRow' = [agentRow EXCEPT !.seen = "old"]
    /\ UNCHANGED <<agent, beat, sweep, said, crossings, stops>>

AgeBeat(b) ==
    /\ beat[b].pc = "write" /\ beat[b].at = "fresh"
    /\ beat' = [beat EXCEPT ![b].at = "old"]
    /\ UNCHANGED <<agentRow, agent, sweep, said, crossings, stops>>

\* The backend stops and starts again.
BackendStop ==
    /\ stops < MaxStops
    /\ stops' = stops + 1
    /\ beat' = [b \in Beats |-> NoBeat]
    /\ sweep' = [s \in Sweeps |-> NoSweep]
    /\ crossings' = crossings \cup {"stop"}
    /\ UNCHANGED <<agentRow, agent, said>>

StatusNext ==
    \/ AgentSwitch \/ AgeRow \/ BackendStop
    \/ \E b \in Beats : BeatBegin(b) \/ BeatWrite(b) \/ BeatEmit(b) \/ AgeBeat(b)
    \/ \E s \in Sweeps : SweepRead(s) \/ SweepWrite(s) \/ SweepEmit(s)

\* The cron job runs every 30 seconds, an agent that runs beats every 30 seconds, a
\* request that began goes on, and time passes.
StatusFairness ==
    /\ WF_statusVars(AgeRow)
    /\ \A b \in Beats :
          WF_statusVars(BeatBegin(b)) /\ WF_statusVars(BeatWrite(b)) /\ WF_statusVars(BeatEmit(b))
    /\ \A s \in Sweeps :
          WF_statusVars(SweepRead(s)) /\ WF_statusVars(SweepWrite(s)) /\ WF_statusVars(SweepEmit(s))

StatusSpec     == StatusInit /\ [][StatusNext]_statusVars
FairStatusSpec == StatusSpec /\ StatusFairness

-----------------------------------------------------------------------------
(* Correctness.                                                            *)

\* An agent is OFFLINE only while the lastSeen in its row is old, whatever heartbeats
\* and sweeps overlap: no write mixes the code of one copy with the time of another.
OfflineIsOld == agentRow.code = "OFFLINE" => agentRow.seen = "old"

\* An agent that was announced offline and is ONLINE again has been announced online,
\* unless a heartbeat and a sweep overlapped or the backend stopped.
OnlineAnnounced ==
    crossings = {} /\ ~Beating /\ agentRow.code = "ONLINE" => said # "offline"

StatusSound == OfflineIsOld /\ OnlineAnnounced

\* An agent that is gone for good is at last not ONLINE any more, and one that stays is
\* ONLINE again and again, also after stops and overlapping writes.
StatusFollows ==
    /\ <>[](agent = "down") => <>[](agentRow.code # "ONLINE")
    /\ <>[](agent = "up") => []<>(agentRow.code = "ONLINE")
=============================================================================
