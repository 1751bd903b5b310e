---------------------------- MODULE Fleet_proofs ----------------------------
(***************************************************************************)
(* Proofs about AgentStatus and AgentInstall: type correctness and their   *)
(* invariants, for any number of heartbeats, sweeps, requests, tokens and  *)
(* ports.                                                                  *)
(***************************************************************************)
EXTENDS AgentStatus, AgentInstall, TLAPS

-----------------------------------------------------------------------------
(* AgentStatus.                                                            *)

LEMMA StatusInitType == StatusInit => StatusTypeOK
BY StatusAssumption DEF StatusInit, StatusTypeOK, NoBeat, NoSweep, Codes, Ages

LEMMA StatusStepType == StatusTypeOK /\ [StatusNext]_statusVars => StatusTypeOK'
<1> SUFFICES ASSUME StatusTypeOK, [StatusNext]_statusVars
             PROVE  StatusTypeOK'
  OBVIOUS
<1> USE DEF StatusTypeOK, Codes, Ages, NoBeat, NoSweep
<1>1. CASE AgentSwitch \/ AgeRow \/ BackendStop
  BY <1>1, StatusAssumption DEF AgentSwitch, AgeRow, BackendStop
<1>2. ASSUME NEW b \in Beats,
             BeatBegin(b) \/ BeatWrite(b) \/ BeatEmit(b) \/ AgeBeat(b)
      PROVE  StatusTypeOK'
  BY <1>2 DEF BeatBegin, BeatWrite, BeatEmit, AgeBeat
<1>3. ASSUME NEW s \in Sweeps, SweepRead(s) \/ SweepWrite(s) \/ SweepEmit(s)
      PROVE  StatusTypeOK'
  BY <1>3 DEF SweepRead, SweepWrite, SweepEmit, Swept
<1>4. CASE UNCHANGED statusVars
  BY <1>4 DEF statusVars
<1>5. QED
  BY <1>1, <1>2, <1>3, <1>4 DEF StatusNext

\* Every copy a sweep will write back is old.
CopiesOld == \A s \in Sweeps : sweep[s].pc = "write" => sweep[s].seen = "old"

\* Without overlap and stops: a sweep has the row for itself, and an announcement of
\* offline that no longer holds is about to be followed by one of online.
Announcing == \E b \in Beats : beat[b].pc = "emit"
InTurn ==
    crossings = {} =>
        /\ Sweeping => ~Beating
        /\ \A s, t \in Sweeps : sweep[s].pc # "idle" /\ sweep[t].pc # "idle" => s = t
        /\ \A s \in Sweeps : sweep[s].pc = "emit" => agentRow.code = "OFFLINE"
        /\ agentRow.code = "NEVER_CONNECTED" => said # "offline"
        /\ agentRow.code = "ONLINE" /\ said = "offline" => Announcing \/ Sweeping
        /\ agentRow.code = "ONLINE" /\ said = "offline" => Announcing
        /\ \A b \in Beats :
              beat[b].pc = "write" /\ beat[b].was # "OFFLINE" /\ said = "offline" => Announcing

StatusInv == StatusTypeOK /\ OfflineIsOld /\ CopiesOld /\ InTurn

LEMMA StatusInductive == StatusInv /\ [StatusNext]_statusVars => StatusInv'
<1> SUFFICES ASSUME StatusInv, StatusTypeOK', [StatusNext]_statusVars
             PROVE  OfflineIsOld' /\ CopiesOld' /\ InTurn'
  BY StatusStepType DEF StatusInv
<1>1. OfflineIsOld' /\ CopiesOld'
  BY DEF StatusInv, StatusTypeOK, OfflineIsOld, CopiesOld, StatusNext, statusVars, AgentSwitch,
         AgeRow, BackendStop, BeatBegin, BeatWrite, BeatEmit, AgeBeat, SweepRead, SweepWrite,
         SweepEmit, Swept, Stale, NoSweep
<1>2. InTurn'
  <2> USE DEF StatusInv, StatusTypeOK, InTurn, Announcing, Sweeping, Beating, NoBeat, NoSweep
  <2>1. CASE AgentSwitch \/ AgeRow \/ BackendStop
    BY <2>1 DEF AgentSwitch, AgeRow, BackendStop
  <2>2. ASSUME NEW b \in Beats, BeatBegin(b)
        PROVE  InTurn'
    BY <2>2 DEF BeatBegin, Codes
  <2>3. ASSUME NEW b \in Beats, BeatWrite(b)
        PROVE  InTurn'
    BY <2>3 DEF BeatWrite
  <2>4. ASSUME NEW b \in Beats, BeatEmit(b)
        PROVE  InTurn'
    BY <2>4 DEF BeatEmit
  <2>10. ASSUME NEW b \in Beats, AgeBeat(b)
         PROVE  InTurn'
    <3>1. \A c \in Beats : beat'[c].pc = beat[c].pc /\ beat'[c].was = beat[c].was
      BY <2>10 DEF AgeBeat
    <3>2. UNCHANGED <<agentRow, sweep, said, crossings>>
      BY <2>10 DEF AgeBeat
    <3>3. QED
      BY <3>1, <3>2
  <2>5. ASSUME NEW s \in Sweeps, SweepRead(s)
        PROVE  InTurn'
    BY <2>5 DEF SweepRead
  <2>6. ASSUME NEW s \in Sweeps, SweepWrite(s)
        PROVE  InTurn'
    BY <2>6 DEF SweepWrite, Swept
  <2>7. ASSUME NEW s \in Sweeps, SweepEmit(s)
        PROVE  InTurn'
    BY <2>7 DEF SweepEmit
  <2>8. CASE UNCHANGED statusVars
    BY <2>8 DEF statusVars
  <2>9. QED
    BY <2>1, <2>2, <2>3, <2>4, <2>5, <2>6, <2>7, <2>8, <2>10 DEF StatusNext
<1>3. QED
  BY <1>1, <1>2

\* Whatever heartbeats and sweeps overlap, OFFLINE stands next to an old lastSeen, and
\* an agent that is back is announced as long as nothing overlapped or stopped.
THEOREM StatusSoundHolds == StatusSpec => []StatusSound
<1>1. StatusInit => StatusInv
  BY StatusAssumption
     DEF StatusInit, StatusInv, StatusTypeOK, OfflineIsOld, CopiesOld, InTurn, Sweeping,
         Beating, Announcing, NoBeat, NoSweep, Codes, Ages
<1>2. StatusInv => StatusSound
  BY DEF StatusInv, StatusSound, OnlineAnnounced, InTurn, Beating, Announcing
<1>3. QED
  BY <1>1, <1>2, StatusInductive, PTL DEF StatusSpec

-----------------------------------------------------------------------------
(* AgentInstall.                                                           *)

\* Who holds a lock, and what has been taken so far.
LocksHeld ==
    /\ \A i, j \in Installs : LocksRow(i) /\ LocksRow(j) /\ install[i].token = install[j].token
                                 => i = j
    /\ \A i, j \in Installs : install[i].pc = "insert" /\ install[j].pc = "insert" => i = j
    /\ \A i \in Installs : install[i].pc \in {"token", "port", "insert", "done"}
                              => install[i].token \in InstallTokens
    /\ \A i, j \in Installs : LocksRow(i) /\ install[j].pc = "done"
                                 => install[i].token # install[j].token
    /\ \A i \in Installs : install[i].pc = "done" => tokenState[install[i].token] = "used"
    /\ \A i, j \in Installs : install[i].pc = "insert" /\ install[j].pc = "done"
                                 => install[i].port # install[j].port

InstallInv == InstallTypeOK /\ LocksHeld /\ InstalledApart

LEMMA InstallInductive == InstallInv /\ [InstallNext]_installVars => InstallInv'
<1> SUFFICES ASSUME InstallInv, [InstallNext]_installVars
             PROVE  InstallInv'
  OBVIOUS
<1> USE InstallAssumption
    DEF InstallInv, InstallTypeOK, LocksHeld, InstalledApart, LocksRow, Agents, NoInstall
<1>1. ASSUME NEW t \in InstallTokens, IssueToken(t) \/ ExpireToken(t)
      PROVE  InstallInv'
  BY <1>1 DEF IssueToken, ExpireToken
<1>2. ASSUME NEW i \in Installs, NEW t \in InstallTokens, InstallBegin(i, t)
      PROVE  InstallInv'
  <2>1. \A j \in Installs \ {i} : install'[j] = install[j]
    BY <1>2 DEF InstallBegin
  <2>2. install'[i] = [pc |-> "token", token |-> t, port |-> NoPort] /\ tokenState' = tokenState
    BY <1>2 DEF InstallBegin
  <2>3. InstallTypeOK'
    BY <1>2 DEF InstallBegin
  <2>4. QED
    BY <2>1, <2>2, <2>3
<1>3. ASSUME NEW i \in Installs, ConsumeToken(i)
      PROVE  InstallInv'
  BY <1>3 DEF ConsumeToken, RowFree, GiveUp
<1>4. ASSUME NEW i \in Installs, AllocatePort(i)
      PROVE  InstallInv'
  <2>1. CASE install' = [install EXCEPT ![i] = NoInstall]
    <3>1. tokenState' = tokenState
      BY <1>4 DEF AllocatePort
    <3>2. QED
      BY <2>1, <3>1
  <2>2. CASE \E p \in Candidates :
                install' = [install EXCEPT ![i].pc = "insert", ![i].port = p]
    <3>1. PICK p \in Candidates :
              install' = [install EXCEPT ![i].pc = "insert", ![i].port = p]
      BY <2>2
    <3>2. p \in Ports /\ \A j \in Installs : install[j].pc = "done" => install[j].port # p
      BY <3>1 DEF Candidates, UsedPorts
    <3>3. /\ install[i].pc = "port" /\ tokenState' = tokenState
          /\ \A j \in Installs : install[j].pc # "insert"
      BY <1>4 DEF AllocatePort, PortsFree
    <3>4. \A j \in Installs \ {i} : install'[j] = install[j]
      BY <3>1
    <3>5. install'[i] = [install[i] EXCEPT !.pc = "insert", !.port = p]
      BY <3>1
    <3>6. /\ install'[i].pc = "insert" /\ install'[i].port = p
          /\ install'[i].token = install[i].token
      BY <3>5
    <3>7. InstallTypeOK'
      <4>1. install[i] \in [pc: {"idle", "token", "port", "insert", "done"},
                            token: InstallTokens \cup {NoInstallToken},
                            port: Ports \cup {NoPort}]
        OBVIOUS
      <4>2. install' = [install EXCEPT ![i] = [install[i] EXCEPT !.pc = "insert", !.port = p]]
        BY <3>1
      <4>3. QED
        BY <4>1, <4>2, <3>2, <3>3
    <3>8. LocksHeld'
      BY <3>2, <3>3, <3>4, <3>6
    <3>9. InstalledApart'
      BY <3>3, <3>4, <3>6
    <3>10. QED
      BY <3>7, <3>8, <3>9
  <2>3. QED
    BY <1>4, <2>1, <2>2 DEF AllocatePort, GiveUp
<1>5. ASSUME NEW i \in Installs, CommitInstall(i)
      PROVE  InstallInv'
  BY <1>5 DEF CommitInstall
<1>6. ASSUME NEW i \in Installs, RollBack(i)
      PROVE  InstallInv'
  BY <1>6 DEF RollBack, GiveUp
<1>7. CASE UNCHANGED installVars
  BY <1>7 DEF installVars
<1>8. QED
  BY <1>1, <1>2, <1>3, <1>4, <1>5, <1>6, <1>7 DEF InstallNext

LEMMA InstallInitInv == InstallInit => InstallInv
BY InstallAssumption
   DEF InstallInit, InstallInv, InstallTypeOK, LocksHeld, InstalledApart, LocksRow, Agents,
       NoInstall

\* No two agents share a port or a token.
THEOREM InstalledApartHolds == InstallSpec => []InstalledApart
<1>1. InstallInv => InstalledApart
  BY DEF InstallInv
<1>2. QED
  BY <1>1, InstallInitInv, InstallInductive, PTL DEF InstallSpec
=============================================================================
