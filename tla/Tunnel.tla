------------------------------- MODULE Tunnel -------------------------------
(* The agent's reverse tunnel (agent/src/tunnel/autossh.wrapper.ts): one    *)
(* autossh child, started again after a pause when it ends, and after a     *)
(* longer one when it ended too often within a minute.  Timers and the      *)
(* child's events come in any order the event loop allows; how long a pause *)
(* is, is left out.  A child that could not be created comes back without a *)
(* PID and emits 'error', which nobody listens to there (line 350): the     *)
(* process ends and systemd starts it again.                                *)
EXTENDS Naturals

CONSTANTS
    CrashThreshold,   \* crashes within the window that open the circuit
    MaxChanges        \* bound: changes of the machine's condition

ASSUME TunnelAssumption == CrashThreshold \in Nat \ {0} /\ MaxChanges \in Nat

VARIABLES
    state,           \* what status() answers
    child,           \* the autossh process; "none" when the wrapper holds no child
    stopRequested,   \* set by stop()
    crashes,         \* how many crashTimestamps are within the window
    timers,          \* pending timers: reconnect, circuit, uptime, grace
    agentUp,         \* the agent's process runs
    machine,         \* what spawning does now: works, throws or makes no PID
    changes          \* bound on the changes of machine

tunnelVars == <<state, child, stopRequested, crashes, timers, agentUp, machine, changes>>

TunnelStatus == {"idle", "running", "reconnecting", "circuit_open", "stopped"}
Machines == {"works", "throws", "no pid"}

TunnelTypeOK ==
    /\ state \in TunnelStatus
    /\ child \in {"none", "alive", "signalled", "dead"}
    /\ stopRequested \in BOOLEAN /\ agentUp \in BOOLEAN
    /\ crashes \in 0..CrashThreshold
    /\ timers \subseteq {"reconnect", "circuit", "uptime", "grace"}
    /\ machine \in Machines /\ changes \in 0..MaxChanges

Fresh == state = "idle" /\ child = "none" /\ stopRequested = FALSE /\ crashes = 0 /\ timers = {}

TunnelInit == Fresh /\ agentUp = TRUE /\ machine \in Machines /\ changes = 0

-----------------------------------------------------------------------------
(* spawnAutossh *)

(* A crash: the circuit opens, or a reconnection is scheduled. *)
Crashed(count) ==
    /\ crashes' = count /\ child' = "none"
    /\ IF count >= CrashThreshold
       THEN state' = "circuit_open" /\ timers' = {"circuit"}
       ELSE state' = "reconnecting" /\ timers' = {"reconnect"}

(* The child runs and its uptime is timed. *)
Spawned(count) ==
    /\ machine = "works"
    /\ crashes' = count /\ child' = "alive" /\ state' = "running" /\ timers' = {"uptime"}
    /\ UNCHANGED agentUp

SpawnThrows(count) ==
    machine = "throws" /\ Crashed(count + 1) /\ UNCHANGED agentUp

(* Counted and scheduled as a crash, but without the circuit; then the event *)
(* nobody listens to ends the process before any timer fires.                *)
NoPid(count) ==
    /\ machine = "no pid"
    /\ crashes' = count + 1 /\ child' = "none"
    /\ state' = "reconnecting" /\ timers' = {"reconnect"}
    /\ agentUp' = FALSE

SpawnAutossh(count) == Spawned(count) \/ SpawnThrows(count) \/ NoPid(count)

(* A slip: after the pause of the circuit nothing is started. *)
StayOpen(count) == /\ crashes' = count /\ timers' = {}
                   /\ UNCHANGED <<state, child, agentUp>>

Respawn(count) == SpawnAutossh(count)

(* start(), called once by the bootstrap of the agent. *)
Start ==
    /\ agentUp /\ state = "idle"
    /\ SpawnAutossh(crashes)
    /\ UNCHANGED <<stopRequested, machine, changes>>

ReconnectFires ==
    /\ agentUp /\ "reconnect" \in timers
    /\ Respawn(crashes)
    /\ UNCHANGED <<stopRequested, machine, changes>>

CircuitFires ==
    /\ agentUp /\ "circuit" \in timers
    /\ Respawn(0)
    /\ UNCHANGED <<stopRequested, machine, changes>>

(* A minute of uptime clears the counters. *)
UptimeFires ==
    /\ agentUp /\ "uptime" \in timers
    /\ timers' = timers \ {"uptime"}
    /\ crashes' = IF state = "running" THEN 0 ELSE crashes
    /\ UNCHANGED <<state, child, stopRequested, agentUp, machine, changes>>

(* The child ends by itself or by a signal; 'exit' is handled later. *)
ChildEnds ==
    /\ agentUp /\ child \in {"alive", "signalled"} /\ child' = "dead"
    /\ UNCHANGED <<state, stopRequested, crashes, timers, agentUp, machine, changes>>

(* A slip: an exit that follows stop() is taken for a crash. *)
ExitIsCrash ==
    /\ agentUp /\ child = "dead" /\ Crashed(crashes + 1)
    /\ UNCHANGED <<stopRequested, agentUp, machine, changes>>

(* The handler of 'exit'; after stop() it also ends the wait for it. *)
ExitEvent ==
    /\ agentUp /\ child = "dead"
    /\ IF stopRequested
       THEN child' = "none" /\ state' = "stopped" /\ timers' = {} /\ UNCHANGED crashes
       ELSE Crashed(crashes + 1)
    /\ UNCHANGED <<stopRequested, agentUp, machine, changes>>

(* stop(), from the one shutdown: timers go, the child gets SIGTERM. *)
Stop ==
    /\ agentUp /\ ~stopRequested /\ state # "idle"
    /\ stopRequested' = TRUE
    /\ IF child = "none"
       THEN state' = "stopped" /\ timers' = {} /\ UNCHANGED child
       ELSE /\ timers' = {"grace"} /\ UNCHANGED state
            /\ child' = IF child = "alive" THEN "signalled" ELSE child
    /\ UNCHANGED <<crashes, agentUp, machine, changes>>

(* SIGKILL; the 'exit' that follows changes nothing more. *)
GraceFires ==
    /\ agentUp /\ "grace" \in timers
    /\ timers' = {} /\ child' = "none" /\ state' = "stopped"
    /\ UNCHANGED <<stopRequested, crashes, agentUp, machine, changes>>

(* A crash leaves the window of a minute. *)
WindowSlides ==
    /\ agentUp /\ crashes > 0 /\ state # "circuit_open" /\ crashes' = crashes - 1
    /\ UNCHANGED <<state, child, stopRequested, timers, agentUp, machine, changes>>

(* systemd: Restart=always, with a new wrapper. *)
AgentRestarts ==
    /\ ~agentUp /\ agentUp' = TRUE
    /\ state' = "idle" /\ child' = "none" /\ stopRequested' = FALSE /\ crashes' = 0
    /\ timers' = {}
    /\ UNCHANGED <<machine, changes>>

MachineChanges == \E m \in Machines \ {machine} :
    /\ changes < MaxChanges /\ changes' = changes + 1 /\ machine' = m
    /\ UNCHANGED <<state, child, stopRequested, crashes, timers, agentUp>>

TunnelStep ==
    Start \/ ReconnectFires \/ CircuitFires \/ ExitEvent \/ GraceFires \/ AgentRestarts

TunnelNext ==
    TunnelStep \/ UptimeFires \/ ChildEnds \/ Stop \/ WindowSlides \/ MachineChanges

(* Timers fire, events are delivered, systemd restarts the agent. *)
TunnelFairness == WF_tunnelVars(TunnelStep)

TunnelSpec == TunnelInit /\ [][TunnelNext]_tunnelVars /\ TunnelFairness

-----------------------------------------------------------------------------
(* The tunnel is said to be healthy (isHealthy, which every heartbeat       *)
(* reports) only while the wrapper holds a child; a child and a timer that  *)
(* would start another are never there together, nor are two such timers;   *)
(* and a wrapper that waits has the timer that ends its waiting             *)
(* (autossh.wrapper.ts:236-298, 398-447).                                   *)
TunnelSound ==
    /\ state = "running" => child # "none"
    /\ timers \cap {"reconnect", "circuit"} # {} => child = "none" /\ ~stopRequested
    /\ state = "reconnecting" => timers = {"reconnect"}
    /\ state = "circuit_open" => timers = {"circuit"}
    /\ state = "stopped" => child = "none" /\ timers = {}

(* Whatever crashes, throws and opens circuits on the way: while the machine *)
(* can start autossh again, a tunnel that nobody stops comes back, over and  *)
(* over (autossh.wrapper.ts:268-280, 292-297, 332-346).                      *)
TunnelReturns == []<>(machine = "works") => []<>(state = "running" \/ stopRequested)
=============================================================================
