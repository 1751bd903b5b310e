---------------------------- MODULE AgentInstall ----------------------------
(***************************************************************************)
(* POST /agents/install: one transaction that consumes a one-shot token,   *)
(* takes the first free tunnel port and inserts the agent.                 *)
(*                                                                         *)
(* The row of the token is locked by SELECT ... FOR UPDATE and the search  *)
(* for a port by an advisory lock; both are held to the end of the         *)
(* transaction, which other transactions do not see before it commits.     *)
(***************************************************************************)
EXTENDS Naturals

CONSTANTS
    InstallTokens,  \* rows of class INSTALL_TOKEN
    NoInstallToken,
    MinPort,        \* AGENT_PORT_MIN
    MaxPort,        \* AGENT_PORT_MAX
    Installs,       \* requests; each makes at most one agent
    NoPort

ASSUME InstallAssumption ==
    /\ MinPort \in Nat /\ MaxPort \in Nat
    /\ NoPort \notin MinPort..MaxPort
    /\ NoInstallToken \notin InstallTokens

VARIABLES
    install,        \* the requests and, once done, the agents they inserted
    tokenState      \* dados.used and dados.expiresAt of the tokens

installVars == <<install, tokenState>>

Ports     == MinPort..MaxPort
NoInstall == [pc |-> "idle", token |-> NoInstallToken, port |-> NoPort]

InstallTypeOK ==
    /\ install \in [Installs -> [pc: {"idle", "token", "port", "insert", "done"},
                                 token: InstallTokens \cup {NoInstallToken},
                                 port: Ports \cup {NoPort}]]
    /\ tokenState \in [InstallTokens -> {"none", "fresh", "used", "expired"}]

InstallInit ==
    /\ install = [i \in Installs |-> NoInstall]
    /\ tokenState = [t \in InstallTokens |-> "none"]

-----------------------------------------------------------------------------

\* createInstallToken, and expiresAt passes.
IssueToken(t) ==
    /\ tokenState[t] = "none"
    /\ tokenState' = [tokenState EXCEPT ![t] = "fresh"]
    /\ UNCHANGED install

ExpireToken(t) ==
    /\ tokenState[t] = "fresh"
    /\ tokenState' = [tokenState EXCEPT ![t] = "expired"]
    /\ UNCHANGED install

InstallBegin(i, t) ==
    /\ install[i].pc = "idle"
    /\ tokenState[t] # "none"
    /\ install' = [install EXCEPT ![i] = [NoInstall EXCEPT !.pc = "token", !.token = t]]
    /\ UNCHANGED tokenState

GiveUp(i) == install' = [install EXCEPT ![i] = NoInstall]

\* consumeInstallToken: waits for the row, looks at it and marks it.
LocksRow(i) == install[i].pc \in {"port", "insert"}
RowFree(t)  == \A i \in Installs : ~(install[i].token = t /\ LocksRow(i))

ConsumeToken(i) ==
    /\ install[i].pc = "token"
    /\ RowFree(install[i].token)
    /\ IF tokenState[install[i].token] = "fresh"
       THEN install' = [install EXCEPT ![i].pc = "port"]
       ELSE GiveUp(i)
    /\ UNCHANGED tokenState

\* allocate: waits for the lock and takes the first port that no live agent has.  The
\* slips are a lock that ends with its statement and a search that ends one too late.
Agents    == {i \in Installs : install[i].pc = "done"}
UsedPorts == {install[i].port : i \in Agents}

PastTheEnd == (MinPort..MaxPort + 1) \ UsedPorts
Candidates == Ports \ UsedPorts

EndsAtOnce == TRUE
PortsFree  == \A i \in Installs : install[i].pc # "insert"

AllocatePort(i) ==
    /\ install[i].pc = "port"
    /\ PortsFree
    /\ \/ \E p \in Candidates :
             /\ \A o \in Candidates : p <= o
             /\ install' = [install EXCEPT ![i].pc = "insert", ![i].port = p]
       \/ /\ Candidates = {}
          /\ GiveUp(i)
    /\ UNCHANGED tokenState

CommitInstall(i) ==
    /\ install[i].pc = "insert"
    /\ install' = [install EXCEPT ![i].pc = "done"]
    /\ tokenState' = [tokenState EXCEPT ![install[i].token] = "used"]

\* The transaction is rolled back: a timeout, an error, a stop of the backend.
RollBack(i) ==
    /\ install[i].pc \in {"token", "port", "insert"}
    /\ GiveUp(i)
    /\ UNCHANGED tokenState

InstallNext ==
    \/ \E t \in InstallTokens : IssueToken(t) \/ ExpireToken(t)
    \/ \E i \in Installs, t \in InstallTokens : InstallBegin(i, t)
    \/ \E i \in Installs :
          ConsumeToken(i) \/ AllocatePort(i) \/ CommitInstall(i) \/ RollBack(i)

InstallSpec == InstallInit /\ [][InstallNext]_installVars

-----------------------------------------------------------------------------
(* Correctness.                                                            *)

\* Two agents never share a tunnel port, nor the one-shot token they were installed
\* with, however the requests overlap, wait and are rolled back.
InstalledApart ==
    \A i, j \in Agents : i # j =>
        install[i].port # install[j].port /\ install[i].token # install[j].token
=============================================================================
