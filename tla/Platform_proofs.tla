--------------------------- MODULE Platform_proofs ---------------------------
(***************************************************************************)
(* Proofs about Tunnel, CacheWarmer, Invites, Teams, PhaseProgress and     *)
(* Backfill, and from them what MCPlatform says of their composition: for  *)
(* any number of ticks, days, requests, invitations, teams, persons, rows, *)
(* projects and keys.                                                      *)
(***************************************************************************)
EXTENDS MCPlatform, Fleet_proofs, NaturalsInduction, FiniteSetTheorems, TLAPS

-----------------------------------------------------------------------------
(* Tunnel.                                                                 *)

\* What each timer and a held child say of the state, and how near the circuit is.
TunnelAgrees ==
    /\ child # "none" => state = "running"
    /\ "reconnect" \in timers => state = "reconnecting"
    /\ "circuit" \in timers => state = "circuit_open"
    /\ state = "idle" => crashes = 0 /\ ~stopRequested
    /\ agentUp /\ crashes = CrashThreshold => state \in {"circuit_open", "stopped"}

TunnelInv == TunnelTypeOK /\ TunnelSound /\ TunnelAgrees

LEMMA TunnelInitInv == TunnelInit => TunnelInv
<1> SUFFICES ASSUME TunnelInit
             PROVE  TunnelInv
  OBVIOUS
<1>1. agentUp \in BOOLEAN /\ stopRequested \in BOOLEAN /\ ~stopRequested
  BY DEF TunnelInit, Fresh
<1>2. machine \in Machines /\ changes = 0
  BY DEF TunnelInit
<1>3. state = "idle" /\ child = "none" /\ crashes = 0 /\ timers = {}
  BY DEF TunnelInit, Fresh
<1>4. QED
  BY <1>1, <1>2, <1>3, TunnelAssumption
     DEF TunnelInv, TunnelTypeOK, TunnelSound, TunnelAgrees, TunnelStatus

\* Starting autossh keeps the invariant, whether it comes up, throws or has no PID.
LEMMA SpawnKeeps ==
    ASSUME TunnelInv, ~stopRequested, agentUp,
           NEW count \in 0..(CrashThreshold - 1), SpawnAutossh(count),
           UNCHANGED <<stopRequested, machine, changes>>
    PROVE  TunnelInv'
<1> USE TunnelAssumption DEF TunnelInv, TunnelTypeOK, TunnelSound, TunnelAgrees, TunnelStatus
<1>1. CASE Spawned(count)
  BY <1>1 DEF Spawned
<1>2. CASE SpawnThrows(count)
  BY <1>2 DEF SpawnThrows, Crashed
<1>3. CASE NoPid(count)
  <2>1. ~agentUp' /\ agentUp' \in BOOLEAN
    BY <1>3 DEF NoPid
  <2>2. crashes' = count + 1 /\ child' = "none" /\ state' = "reconnecting"
    BY <1>3 DEF NoPid
  <2>3. timers' = {"reconnect"} /\ UNCHANGED <<stopRequested, machine, changes>>
    BY <1>3 DEF NoPid
  <2>4. QED
    BY <2>1, <2>2, <2>3
<1>4. QED
  BY <1>1, <1>2, <1>3 DEF SpawnAutossh

LEMMA TunnelNextInv == TunnelInv /\ [TunnelNext]_tunnelVars => TunnelInv'
<1> SUFFICES ASSUME TunnelInv, [TunnelNext]_tunnelVars
             PROVE  TunnelInv'
  OBVIOUS
<1> USE TunnelAssumption
<1>1. CASE Start
  <2>2. crashes \in 0..(CrashThreshold - 1) /\ agentUp /\ ~stopRequested
    BY <1>1 DEF Start, TunnelInv, TunnelAgrees
  <2>3. QED
    BY <1>1, <2>2, SpawnKeeps DEF Start, TunnelInv, TunnelAgrees
<1>2. CASE ReconnectFires
  <2>1. crashes \in 0..(CrashThreshold - 1) /\ agentUp /\ ~stopRequested
    BY <1>2 DEF ReconnectFires, TunnelInv, TunnelAgrees, TunnelTypeOK, TunnelSound
  <2>2. QED
    BY <1>2, <2>1, SpawnKeeps DEF ReconnectFires, Respawn
<1>3. CASE CircuitFires
  <2>1. 0 \in 0..(CrashThreshold - 1) /\ agentUp /\ ~stopRequested
    BY <1>3 DEF CircuitFires, TunnelInv, TunnelSound
  <2>2. QED
    BY <1>3, <2>1, SpawnKeeps DEF CircuitFires, Respawn
<1> USE DEF TunnelInv, TunnelTypeOK, TunnelSound, TunnelAgrees, TunnelStatus
<1>4. CASE ExitEvent
  BY <1>4 DEF ExitEvent, Crashed
<1>5. CASE GraceFires
  BY <1>5 DEF GraceFires
<1>6. CASE AgentRestarts
  <2>1. agentUp' \in BOOLEAN /\ stopRequested' \in BOOLEAN /\ ~stopRequested'
    BY <1>6 DEF AgentRestarts
  <2>2. state' = "idle" /\ child' = "none" /\ crashes' = 0 /\ timers' = {}
    BY <1>6 DEF AgentRestarts
  <2>3. UNCHANGED <<machine, changes>>
    BY <1>6 DEF AgentRestarts
  <2>4. QED
    BY <2>1, <2>2, <2>3
<1>7. CASE UptimeFires
  BY <1>7 DEF UptimeFires
<1>8. CASE ChildEnds
  BY <1>8 DEF ChildEnds
<1>9. CASE Stop
  BY <1>9 DEF Stop
<1>10. CASE WindowSlides
  BY <1>10 DEF WindowSlides
<1>11. CASE MachineChanges
  BY <1>11 DEF MachineChanges
<1>12. CASE UNCHANGED tunnelVars
  BY <1>12 DEF tunnelVars
<1>13. QED
  BY <1>1, <1>2, <1>3, <1>4, <1>5, <1>6, <1>7, <1>8, <1>9, <1>10, <1>11, <1>12
     DEF TunnelNext, TunnelStep

-----------------------------------------------------------------------------
(* CacheWarmer.                                                            *)

LEMMA LessTimes ==
    ASSUME NEW m \in Nat, NEW a \in Nat, NEW b \in Nat, a <= b
    PROVE  m * a <= m * b /\ m * a \in Nat /\ m * b \in Nat
<1>1. PICK k \in Nat : b = a + k
  <2>1. b - a \in Nat /\ b = a + (b - a)
    OBVIOUS
  <2>2. QED
    BY <2>1
<1>2. m * k \in Nat /\ m * a \in Nat
  OBVIOUS
<1>3. m * b = m * a + m * k
  BY <1>1
<1>4. QED
  BY <1>2, <1>3

LEMMA OneMore ==
    ASSUME NEW m \in Nat, NEW a \in Nat
    PROVE  m * (a + 1) = m * a + m /\ m * a \in Nat
OBVIOUS

LEMMA DaysAre == 0 \in Days /\ (\A d \in Days : d \in Nat) /\ NoTick.day \in Days
BY WarmerAssumption DEF Days, NoTick

\* What is spent on a day, and what the warms that run may still add to it, stays below
\* the cap but for one warm per tick that ran; the total that the cap is compared with is
\* never behind the day it counts; and a warm after stop() is the last of its tick.
SpendingBounded ==
    DailyCap > 0 =>
        \A d \in Days :
            spent[d] + MaxCost * Cardinality(Warming(d)) < DailyCap + MaxCost * width[d]
TotalCounts ==
    /\ costs.day <= today
    /\ spent[costs.day] <= costs.total
    /\ \A t \in Ticks : tick[t].pc = "warming" => tick[t].day <= costs.day
    /\ \A d \in Days : d > costs.day => spent[d] = 0
LastWarm ==
    \A t \in Ticks : \/ afterStop[t] = 0
                     \/ afterStop[t] = 1 /\ stopped /\ tick[t].pc # "sleeping"

WarmerInv == WarmerTypeOK /\ SpendingBounded /\ TotalCounts /\ LastWarm

LEMMA WarmingFinite ==
    \A d \in Days : /\ IsFiniteSet(Warming(d)) /\ Cardinality(Warming(d)) \in Nat
                    /\ Cardinality(Warming(d)) <= Cardinality(Ticks)
                    /\ Cardinality(Ticks) \in Nat
<1> TAKE d \in Days
<1>1. Warming(d) \subseteq Ticks /\ IsFiniteSet(Ticks)
  BY WarmerAssumption DEF Warming
<1>2. QED
  BY <1>1, FS_Subset, FS_CardinalityType

LEMMA WarmerInitInv == WarmerInit => WarmerInv
<1> SUFFICES ASSUME WarmerInit
             PROVE  WarmerInv
  OBVIOUS
<1>0. Cardinality(Ticks) \in Nat /\ 0 \in Days /\ \A d \in Days : d \in Nat
  BY DaysAre, WarmingFinite
<1> USE DEF WarmerInit, NoTick
<1>1. WarmerTypeOK
  <2>1. stopped \in BOOLEAN /\ today \in Days /\ costs \in [day: Days, total: Nat]
    BY <1>0
  <2>2. tick \in [Ticks -> [pc: {"idle", "sleeping", "warming"}, project: 0..Projects,
                           day: Days]]
    BY <1>0, WarmerAssumption
  <2>3. /\ spent \in [Days -> Nat] /\ width \in [Days -> 0..Cardinality(Ticks)]
        /\ afterStop \in [Ticks -> Nat]
    BY <1>0
  <2>4. QED
    BY <2>1, <2>2, <2>3 DEF WarmerTypeOK
<1>2. SpendingBounded
  <2> SUFFICES ASSUME DailyCap > 0, NEW d \in Days
               PROVE  spent[d] + MaxCost * Cardinality(Warming(d))
                        < DailyCap + MaxCost * width[d]
    BY DEF SpendingBounded
  <2>1. Warming(d) = {}
    BY DEF Warming
  <2>2. Cardinality(Warming(d)) = 0
    BY <2>1, FS_EmptySet
  <2>3. QED
    BY <2>2, WarmerAssumption
<1>3. TotalCounts /\ LastWarm
  BY <1>0 DEF TotalCounts, LastWarm
<1>4. QED
  BY <1>1, <1>2, <1>3 DEF WarmerInv

LEMMA RefreshedIs ==
    ASSUME WarmerInv
    PROVE  /\ Refreshed \in [day: Days, total: Nat] /\ Refreshed.day = today
           /\ spent[today] <= Refreshed.total
BY DEF WarmerInv, WarmerTypeOK, TotalCounts, Refreshed, Days

LEMMA BeginWarmKeeps ==
    ASSUME WarmerInv, NEW t \in Ticks, NEW project \in 0..Projects,
           tick[t].pc # "warming", stopped => tick[t].pc = "sleeping",
           costs' = Refreshed, ~Capped(Refreshed), BeginWarm(t, project),
           UNCHANGED <<stopped, today, spent>>
    PROVE  WarmerInv'
<1> USE DEF WarmerInv, WarmerTypeOK
<1> DEFINE w == Cardinality(Warming(today))
           m == width[today]
<1>0. Cardinality(Ticks) \in Nat /\ \A d \in Days : d \in Nat
  BY DaysAre, WarmingFinite
<1>1. today \in Days /\ w \in Nat /\ IsFiniteSet(Warming(today)) /\ m \in Nat
  <2>1. today \in Days /\ width[today] \in 0..Cardinality(Ticks)
    OBVIOUS
  <2>2. QED
    BY <2>1, <1>0, WarmingFinite
<1>2. /\ Warming(today)' = Warming(today) \cup {t} /\ t \notin Warming(today)
      /\ \A d \in Days : d # today => Warming(d)' = Warming(d)
  BY DEF BeginWarm, Warming
<1>3. Cardinality(Warming(today)') = w + 1
  BY <1>1, <1>2, FS_AddElement
<1>4. /\ width' \in [Days -> Nat] /\ width'[today] >= w + 1
      /\ \A d \in Days : d # today => width'[d] = width[d]
  BY <1>1 DEF BeginWarm, Days
<1>5. WarmerTypeOK'
  <2>1. w + 1 <= Cardinality(Ticks) /\ Cardinality(Ticks) \in Nat
    <3>1. Warming(today) \cup {t} \subseteq Ticks /\ IsFiniteSet(Ticks)
      BY WarmerAssumption DEF Warming
    <3>2. Cardinality(Warming(today) \cup {t}) = w + 1
      BY <1>2, <1>3
    <3>3. QED
      BY <3>1, <3>2, FS_Subset, FS_CardinalityType
  <2>2. width' \in [Days -> 0..Cardinality(Ticks)]
    BY <2>1, <1>1 DEF BeginWarm
  <2>3. costs' \in [day: Days, total: Nat]
    BY RefreshedIs
  <2>4. tick' \in [Ticks -> [pc: {"idle", "sleeping", "warming"}, project: 0..Projects,
                             day: Days]]
    BY DEF BeginWarm
  <2>5. afterStop' \in [Ticks -> Nat]
    BY DEF BeginWarm
  <2>6. QED
    BY <2>2, <2>3, <2>4, <2>5
<1>6. SpendingBounded'
  <2> SUFFICES ASSUME DailyCap > 0, NEW d \in Days
               PROVE  spent[d] + MaxCost * Cardinality(Warming(d)')
                        < DailyCap + MaxCost * width'[d]
    BY DEF SpendingBounded
  <2>1. CASE d = today
    <3>1. spent[today] < DailyCap /\ spent[today] \in Nat
      BY RefreshedIs, WarmerAssumption, <1>1 DEF Capped
    <3>2. MaxCost * (w + 1) <= MaxCost * width'[today] /\ MaxCost * (w + 1) \in Nat
          /\ MaxCost * width'[today] \in Nat
      <4>1. w + 1 \in Nat /\ width'[today] \in Nat
        BY <1>1, <1>4
      <4>2. QED
        BY <4>1, <1>4, LessTimes, WarmerAssumption
    <3>3. QED
      BY <2>1, <3>1, <3>2, <1>3, WarmerAssumption
  <2>2. CASE d # today
    BY <2>2, <1>2, <1>4 DEF SpendingBounded
  <2>3. QED
    BY <2>1, <2>2
<1>7. TotalCounts'
  <2>1. costs'.day = today /\ spent[today] <= costs'.total
    BY RefreshedIs
  <2>2. costs.day <= today /\ costs.day \in Nat /\ today \in Nat
    BY <1>0 DEF TotalCounts
  <2>3. \A s \in Ticks : tick'[s].pc = "warming" => tick'[s].day <= costs'.day
    <3> SUFFICES ASSUME NEW s \in Ticks, tick'[s].pc = "warming"
                 PROVE  tick'[s].day <= costs'.day
      OBVIOUS
    <3>1. CASE s = t
      BY <3>1, <2>1, <2>2 DEF BeginWarm
    <3>2. CASE s # t
      <4>1. tick[s].pc = "warming" /\ tick'[s].day = tick[s].day /\ tick[s].day \in Nat
        BY <3>2, <1>0 DEF BeginWarm
      <4>2. QED
        BY <4>1, <2>1, <2>2 DEF TotalCounts
    <3>3. QED
      BY <3>1, <3>2
  <2>4. \A d \in Days : d > costs'.day => spent'[d] = 0
    BY <2>1, <2>2, <1>0 DEF TotalCounts
  <2>5. QED
    BY <2>1, <2>2, <2>3, <2>4 DEF TotalCounts
<1>8. LastWarm'
  BY DEF LastWarm, BeginWarm
<1>9. QED
  BY <1>5, <1>6, <1>7, <1>8

LEMMA WakeKeeps == ASSUME WarmerInv, NEW t \in Ticks, Wake(t) PROVE WarmerInv'
<1>1. CASE ~Capped(Refreshed)
  BY <1>1, BeginWarmKeeps DEF Wake, WarmerInv, WarmerTypeOK
<1>2. CASE Capped(Refreshed)
  <2> USE DEF WarmerInv, WarmerTypeOK
  <2>1. GoIdle(t) /\ costs' = Refreshed /\ UNCHANGED <<stopped, today, spent>>
    BY <1>2 DEF Wake
  <2>2. \A d \in Days : Warming(d)' = Warming(d)
    BY <2>1 DEF GoIdle, Warming, Wake, NoTick
  <2>8. \A d \in Days : d \in Nat
    BY DaysAre
  <2>9. costs'.day = today /\ spent[today] <= costs'.total /\ costs' \in [day: Days, total: Nat]
    BY <2>1, RefreshedIs
  <2>10. NoTick \in [pc: {"idle", "sleeping", "warming"}, project: 0..Projects, day: Days]
    BY DaysAre, WarmerAssumption DEF NoTick
  <2>3. WarmerTypeOK'
    BY <2>1, <2>9, <2>10 DEF GoIdle
  <2>4. SpendingBounded'
    BY <2>1, <2>2 DEF SpendingBounded, GoIdle
  <2>5. TotalCounts'
    <3>1. costs.day <= today /\ costs.day \in Nat /\ today \in Nat
      BY <2>8 DEF TotalCounts
    <3>2. \A x \in Ticks : tick'[x].pc = "warming" => tick'[x].day <= today
      <4> SUFFICES ASSUME NEW x \in Ticks, tick'[x].pc = "warming"
                   PROVE  tick'[x].day <= today
        OBVIOUS
      <4>1. x # t /\ tick'[x] = tick[x]
        BY <2>1 DEF GoIdle, NoTick
      <4>2. tick[x].day <= costs.day /\ tick[x].day \in Nat
        BY <4>1, <2>8 DEF TotalCounts
      <4>3. QED
        BY <4>1, <4>2, <3>1
    <3>3. \A d \in Days : d > today => spent'[d] = 0
      BY <3>1, <2>1, <2>8 DEF TotalCounts
    <3>4. QED
      BY <3>1, <3>2, <3>3, <2>1, <2>9 DEF TotalCounts
  <2>6. LastWarm'
    BY <2>1 DEF LastWarm, GoIdle, NoTick
  <2>7. QED
    BY <2>3, <2>4, <2>5, <2>6
<1>3. QED
  BY <1>1, <1>2

LEMMA WarmedKeeps == ASSUME WarmerInv, NEW t \in Ticks, Warmed(t) PROVE WarmerInv'
<1> USE DEF WarmerInv, WarmerTypeOK
<1>1. PICK cost \in 0..MaxCost :
         /\ tick[t].pc = "warming"
         /\ costs' = [costs EXCEPT !.total = @ + cost]
         /\ spent' = [spent EXCEPT ![tick[t].day] = @ + cost]
  BY DEF Warmed
<1>2. PICK e \in Days : e = tick[t].day
  OBVIOUS
<1>3. cost \in Nat /\ cost <= MaxCost /\ MaxCost \in Nat
  BY WarmerAssumption
<1>4. UNCHANGED <<stopped, today, width, afterStop>>
  BY DEF Warmed, GoIdle
<1>5. tick' \in [Ticks -> [pc: {"idle", "sleeping", "warming"}, project: 0..Projects,
                           day: Days]]
  <2>1. CASE LastProject(t)
    <3>1. NoTick \in [pc: {"idle", "sleeping", "warming"}, project: 0..Projects, day: Days]
      BY DaysAre, WarmerAssumption DEF NoTick
    <3>2. QED
      BY <2>1, <3>1 DEF Warmed, GoIdle
  <2>2. CASE ~LastProject(t)
    <3>1. tick[t].project # Projects /\ tick[t].project \in 0..Projects
      BY <2>2 DEF LastProject
    <3>2. tick[t].project + 1 \in 0..Projects
      BY <3>1, WarmerAssumption
    <3>3. QED
      BY <2>2, <3>2 DEF Warmed
  <2>3. QED
    BY <2>1, <2>2
<1>6. /\ tick'[t].pc # "warming" /\ \A s \in Ticks : s # t => tick'[s] = tick[s]
      /\ stopped => tick'[t].pc = "idle"
  BY DEF Warmed, GoIdle, NoTick, LastProject
<1>7. /\ Warming(e)' = Warming(e) \ {t} /\ t \in Warming(e)
      /\ \A d \in Days : d # e => Warming(d)' = Warming(d)
  BY <1>1, <1>2, <1>6 DEF Warming
<1>8. WarmerTypeOK'
  BY <1>1, <1>3, <1>4, <1>5
<1>9. SpendingBounded'
  <2> SUFFICES ASSUME DailyCap > 0, NEW d \in Days
               PROVE  spent'[d] + MaxCost * Cardinality(Warming(d)')
                        < DailyCap + MaxCost * width[d]
    BY <1>4 DEF SpendingBounded
  <2>1. CASE d = e
    <3> DEFINE k == Cardinality(Warming(e)')
    <3>1. k \in Nat /\ Cardinality(Warming(e)) = k + 1
      <4>1. IsFiniteSet(Warming(e)) /\ Cardinality(Warming(e)) \in Nat
        BY WarmingFinite
      <4>2. Cardinality(Warming(e) \ {t}) = Cardinality(Warming(e)) - 1
            /\ IsFiniteSet(Warming(e) \ {t})
        BY <4>1, <1>7, FS_RemoveElement
      <4>3. Cardinality(Warming(e) \ {t}) \in Nat
        BY <4>2, FS_CardinalityType
      <4>4. QED
        BY <4>1, <4>2, <4>3, <1>7
    <3>2. spent[e] + MaxCost * (k + 1) < DailyCap + MaxCost * width[e]
      BY <3>1 DEF SpendingBounded
    <3>3. MaxCost * (k + 1) = MaxCost * k + MaxCost /\ MaxCost * k \in Nat
      BY <3>1, <1>3, OneMore
    <3>4. spent'[e] = spent[e] + cost /\ spent[e] \in Nat /\ width[e] \in Nat
      BY <1>1, <1>2, WarmingFinite
    <3>5. MaxCost * width[e] \in Nat /\ DailyCap \in Nat
      BY <3>4, <1>3, WarmerAssumption
    <3>6. QED
      BY <2>1, <3>2, <3>3, <3>4, <3>5, <1>3
  <2>2. CASE d # e
    BY <2>2, <1>1, <1>2, <1>7 DEF SpendingBounded
  <2>3. QED
    BY <2>1, <2>2
<1>10. TotalCounts'
  <2>1. costs'.day = costs.day /\ costs'.total = costs.total + cost
    BY <1>1
  <2>2. e <= costs.day
    BY <1>1, <1>2 DEF TotalCounts
  <2>3. \A d \in Days : spent'[d] = IF d = e THEN spent[d] + cost ELSE spent[d]
    BY <1>1, <1>2
  <2>4. costs.day \in Days /\ costs.day \in Nat /\ e \in Nat
    BY DEF Days
  <2>5. costs'.day <= today'
    BY <2>1, <1>4 DEF TotalCounts
  <2>6. spent'[costs'.day] <= costs'.total
    <3>1. spent[costs.day] <= costs.total /\ spent[costs.day] \in Nat /\ costs.total \in Nat
      BY <2>4 DEF TotalCounts
    <3>2. spent'[costs.day] <= spent[costs.day] + cost
      BY <2>3, <2>4, <3>1, <1>3
    <3>3. spent'[costs.day] \in Nat
      BY <2>3, <2>4, <3>1, <1>3
    <3>4. QED
      BY <2>1, <3>1, <3>2, <3>3, <1>3
  <2>7. \A s \in Ticks : tick'[s].pc = "warming" => tick'[s].day <= costs'.day
    BY <1>6, <2>1 DEF TotalCounts
  <2>8. \A d \in Days : d > costs'.day => spent'[d] = 0
    BY <2>1, <2>2, <2>3, <2>4 DEF TotalCounts, Days
  <2>9. QED
    BY <2>5, <2>6, <2>7, <2>8 DEF TotalCounts
<1>11. LastWarm'
  BY <1>1, <1>4, <1>6 DEF LastWarm
<1>12. QED
  BY <1>8, <1>9, <1>10, <1>11

LEMMA WarmerNextInv == WarmerInv /\ [WarmerNext]_warmerVars => WarmerInv'
<1> SUFFICES ASSUME WarmerInv, [WarmerNext]_warmerVars
             PROVE  WarmerInv'
  OBVIOUS
<1>1. ASSUME NEW t \in Ticks, Tick(t)
      PROVE  WarmerInv'
  <2>1. 1 \in 0..Projects
    BY WarmerAssumption
  <2>2. QED
    BY <1>1, <2>1, BeginWarmKeeps DEF Tick
<1>2. CASE StopWarmer
  <2>1. stopped' = TRUE /\ UNCHANGED <<today, costs, tick, spent, width, afterStop>>
    BY <1>2 DEF StopWarmer
  <2>2. \A d : Warming(d)' = Warming(d)
    BY <2>1 DEF Warming
  <2>3. WarmerTypeOK' /\ SpendingBounded' /\ TotalCounts'
    BY <2>1, <2>2 DEF WarmerInv, WarmerTypeOK, SpendingBounded, TotalCounts
  <2>4. LastWarm'
    BY <2>1, <1>2 DEF WarmerInv, LastWarm, StopWarmer
  <2>5. QED
    BY <2>3, <2>4 DEF WarmerInv
<1>3. CASE Midnight
  <2>1. UNCHANGED <<stopped, costs, tick, spent, width, afterStop>>
    BY <1>3 DEF Midnight
  <2>2. \A d : Warming(d)' = Warming(d)
    BY <2>1 DEF Warming
  <2>3. today' \in Days /\ today' > today /\ today \in Nat
    BY <1>3, WarmerAssumption DEF Midnight, WarmerInv, WarmerTypeOK, Days
  <2>4. costs.day \in Nat /\ costs.day <= today
    BY DEF WarmerInv, WarmerTypeOK, TotalCounts, Days
  <2>5. costs.day <= today'
    BY <2>3, <2>4 DEF Days
  <2>6. QED
    BY <2>1, <2>2, <2>3, <2>5
       DEF WarmerInv, WarmerTypeOK, SpendingBounded, TotalCounts, LastWarm
<1>4. CASE UNCHANGED warmerVars
  BY <1>4 DEF warmerVars, WarmerInv, WarmerTypeOK, SpendingBounded, TotalCounts, LastWarm,
              Warming
<1>5. QED
  BY <1>1, <1>2, <1>3, <1>4, WakeKeeps, WarmedKeeps DEF WarmerNext

LEMMA WarmerInvSound == WarmerInv => WarmerSound
<1> SUFFICES ASSUME WarmerInv
             PROVE  CapHolds /\ StopsSoon
  BY DEF WarmerSound
<1>1. CapHolds
  <2> SUFFICES ASSUME DailyCap > 0, NEW d \in Days
               PROVE  spent[d] < DailyCap + MaxCost * width[d]
    BY DEF CapHolds
  <2>1. spent[d] + MaxCost * Cardinality(Warming(d)) < DailyCap + MaxCost * width[d]
    BY DEF WarmerInv, SpendingBounded
  <2>2. MaxCost * Cardinality(Warming(d)) \in Nat
    BY WarmingFinite, WarmerAssumption
  <2>3. spent[d] \in Nat /\ MaxCost * width[d] \in Nat /\ DailyCap \in Nat
    BY WarmingFinite, WarmerAssumption DEF WarmerInv, WarmerTypeOK
  <2>4. QED
    BY <2>1, <2>2, <2>3
<1>2. StopsSoon
  BY DEF WarmerInv, LastWarm, StopsSoon
<1>3. QED
  BY <1>1, <1>2

-----------------------------------------------------------------------------
(* Invites.                                                                *)

\* A request that is under way is about a row that is there or was, so that nobody
\* decides its flow again.
RowsKnown ==
    /\ \A i \in creating : invite[i] = "none"
    /\ \A a \in Acceptors : accept[a].pc # "idle" =>
          accept[a].row \in InviteRows /\ invite[accept[a].row] # "none"
    /\ \A c \in Cancellers : cancel[c].pc = "delete" =>
          cancel[c].row \in InviteRows /\ invite[cancel[c].row] # "none"

\* An INSERT of the account that is not committed stands alone, and before any account;
\* an acceptance for an existing account has seen it.
AccountGuarded ==
    /\ \A a \in Acceptors : accept[a].pc = "insert" => flow[accept[a].row] = "new_user"
    /\ \A a, b \in Inserted : a = b
    /\ \A a \in Acceptors : accept[a].pc = "mark" =>
          (account <=> flow[accept[a].row] = "existing_user")

Busy(a) == accept[a].pc \notin {"idle", "done"}
BusyCrossed == \A a, b \in Acceptors : a # b /\ Busy(a) /\ Busy(b) => crossed

\* Who joined is done; and whoever is about to join is the first, or crossed another.
JoinsGuarded ==
    /\ \A a \in joined : accept[a].pc = "done" /\ account
    /\ \A a \in Acceptors : accept[a].pc = "mark" => joined = {} \/ crossed

InviteInv ==
    InviteTypeOK /\ RowsKnown /\ AccountGuarded /\ BusyCrossed /\ JoinsGuarded /\ JoinedOnce

LEMMA InviteInitInv == InviteInit => InviteInv
<1> SUFFICES ASSUME InviteInit
             PROVE  InviteInv
  OBVIOUS
<1>1. /\ \A a \in Acceptors : accept[a].pc = "idle"
      /\ \A c \in Cancellers : cancel[c].pc = "idle"
      /\ creating = {} /\ joined = {}
  BY DEF InviteInit, NotAsking, NotCancelling
<1>2. InviteTypeOK
  BY DEF InviteInit, InviteTypeOK, NotAsking, NotCancelling, Flows
<1>3. Inserted = {}
  BY <1>1 DEF Inserted
<1>4. QED
  BY <1>1, <1>2, <1>3
     DEF InviteInv, RowsKnown, AccountGuarded, BusyCrossed, Busy, JoinsGuarded, JoinedOnce

\* A step that leaves the acceptances, what they made and the flow of rows that are there.
LEMMA AcceptsLeft ==
    ASSUME InviteInv, InviteTypeOK', UNCHANGED <<accept, account, joined>>,
           \A i \in InviteRows : invite[i] # "none" => flow'[i] = flow[i] /\ invite'[i] # "none",
           crossed => crossed'
    PROVE  /\ AccountGuarded' /\ BusyCrossed' /\ JoinsGuarded' /\ JoinedOnce'
           /\ \A a \in Acceptors : accept'[a].pc # "idle" =>
                 accept'[a].row \in InviteRows /\ invite'[accept'[a].row] # "none"
<1> USE DEF InviteInv
<1>1. \A a \in Acceptors : accept[a].pc # "idle" =>
         /\ accept[a].row \in InviteRows /\ invite'[accept[a].row] # "none"
         /\ flow'[accept[a].row] = flow[accept[a].row]
  BY DEF RowsKnown
<1>2. Inserted' = Inserted
  BY <1>1 DEF Inserted
<1>3. AccountGuarded'
  BY <1>1, <1>2 DEF AccountGuarded
<1>4. BusyCrossed'
  BY DEF BusyCrossed, Busy
<1>5. JoinsGuarded'
  BY DEF JoinsGuarded
<1>6. JoinedOnce'
  <2>1. \A a \in joined : accept[a].pc = "done" /\ a \in Acceptors
    BY DEF JoinsGuarded, InviteTypeOK
  <2>2. QED
    BY <1>1, <2>1 DEF JoinedOnce
<1>7. QED
  BY <1>1, <1>3, <1>4, <1>5, <1>6

\* The acceptance a goes on to pc, or fails, and nothing else changes.
LEMMA AcceptMoves ==
    ASSUME InviteInv, NEW a \in Acceptors, accept[a].pc \in {"hash", "check", "insert"},
           NEW pc \in {"idle", "check", "insert", "mark"},
           pc = "idle" => Fails(a), pc # "idle" => Goes(a, pc),
           pc = "insert" => flow[accept[a].row] = "new_user",
           pc = "mark" => /\ account <=> flow[accept[a].row] = "existing_user"
                          /\ ~account => Inserted = {}
                          /\ joined = {},
           UNCHANGED <<invite, flow, lapsed, creating, cancel, account, joined, crossed>>
    PROVE  InviteInv'
<1> USE DEF InviteInv
<1>1. /\ accept'[a].pc = pc
      /\ pc # "idle" => accept'[a].row = accept[a].row
      /\ \A b \in Acceptors : b # a => accept'[b] = accept[b]
      /\ accept' \in [Acceptors -> [pc: {"idle", "hash", "check", "insert", "mark", "done"},
                                    row: InviteRows \cup {NoInvite}]]
  BY DEF Fails, Goes, NotAsking, InviteTypeOK
<1>2. InviteTypeOK'
  BY <1>1 DEF InviteTypeOK
<1>3. RowsKnown'
  <2>1. \A b \in Acceptors : accept'[b].pc # "idle" =>
           accept'[b].row \in InviteRows /\ invite[accept'[b].row] # "none"
    BY <1>1 DEF RowsKnown
  <2>2. QED
    BY <2>1 DEF RowsKnown
<1>4. AccountGuarded'
  <2>1. \A b \in Acceptors : accept'[b].pc = "insert" => flow[accept'[b].row] = "new_user"
    BY <1>1 DEF AccountGuarded
  <2>2. \A b \in Acceptors : accept'[b].pc = "mark" =>
           (account <=> flow[accept'[b].row] = "existing_user")
    BY <1>1 DEF AccountGuarded
  <2>3. \A b \in Inserted' : b \in Inserted \/ (b = a /\ pc = "mark" /\ ~account)
    <3> SUFFICES ASSUME NEW b \in Acceptors, accept'[b].pc = "mark",
                        flow[accept'[b].row] = "new_user"
                 PROVE  b \in Inserted \/ (b = a /\ pc = "mark" /\ ~account)
      BY DEF Inserted
    <3>1. CASE b # a
      BY <3>1, <1>1 DEF Inserted
    <3>2. CASE b = a
      BY <3>2, <1>1
    <3>3. QED
      BY <3>1, <3>2
  <2>4. \A b, c \in Inserted' : b = c
    BY <2>3 DEF AccountGuarded
  <2>5. QED
    BY <2>1, <2>2, <2>4 DEF AccountGuarded
<1>5. BusyCrossed'
  BY <1>1 DEF BusyCrossed, Busy
<1>6. a \notin joined
  BY DEF JoinsGuarded
<1>7. JoinsGuarded'
  BY <1>1, <1>6 DEF JoinsGuarded, InviteTypeOK
<1>8. JoinedOnce'
  <2>1. \A b \in joined : accept'[b] = accept[b]
    BY <1>1, <1>6 DEF InviteTypeOK
  <2>2. QED
    BY <2>1 DEF JoinedOnce
<1>9. QED
  BY <1>2, <1>3, <1>4, <1>5, <1>7, <1>8

LEMMA AcceptBeginKeeps ==
    ASSUME InviteInv, NEW a \in Acceptors, AcceptBegin(a)
    PROVE  InviteInv'
<1> USE DEF InviteInv
<1>1. PICK i \in InviteRows : Valid(i) /\ accept' = [accept EXCEPT ![a] = [pc |-> "hash", row |-> i]]
  BY DEF AcceptBegin
<1>2. /\ UNCHANGED <<invite, flow, lapsed, creating, cancel, account, joined>>
      /\ accept[a].pc = "idle" /\ crossed' = (crossed \/ UnderWay)
  BY DEF AcceptBegin, Enters
<1>3. /\ accept'[a].pc = "hash" /\ accept'[a].row = i
      /\ \A b \in Acceptors : b # a => accept'[b] = accept[b]
  BY <1>1 DEF InviteTypeOK
<1>4. InviteTypeOK'
  <2>1. crossed' \in BOOLEAN
    BY <1>2 DEF InviteTypeOK
  <2>2. accept' \in [Acceptors -> [pc: {"idle", "hash", "check", "insert", "mark", "done"},
                                    row: InviteRows \cup {NoInvite}]]
    BY <1>1 DEF InviteTypeOK
  <2>3. QED
    BY <1>2, <2>1, <2>2 DEF InviteTypeOK
<1>5. RowsKnown'
  BY <1>1, <1>2, <1>3 DEF RowsKnown, Valid
<1>6. Inserted' = Inserted
  BY <1>2, <1>3 DEF Inserted
<1>7. AccountGuarded'
  BY <1>2, <1>3, <1>6 DEF AccountGuarded
<1>8. BusyCrossed'
  <2> SUFFICES ASSUME NEW b \in Acceptors, NEW c \in Acceptors, b # c, Busy(b)', Busy(c)'
               PROVE  crossed'
    BY DEF BusyCrossed
  <2>1. CASE b # a /\ c # a
    BY <2>1, <1>2, <1>3 DEF BusyCrossed, Busy
  <2>2. CASE b = a
    BY <2>2, <1>2, <1>3 DEF Busy, UnderWay
  <2>3. CASE c = a
    BY <2>3, <1>2, <1>3 DEF Busy, UnderWay
  <2>4. QED
    BY <2>1, <2>2, <2>3
<1>9. JoinsGuarded' /\ JoinedOnce'
  <2>1. a \notin joined /\ joined \subseteq Acceptors
    BY <1>2 DEF JoinsGuarded, InviteTypeOK
  <2>2. crossed => crossed'
    BY <1>2
  <2>3. JoinsGuarded'
    BY <2>1, <2>2, <1>2, <1>3 DEF JoinsGuarded
  <2>4. JoinedOnce'
    BY <2>1, <2>2, <1>2, <1>3 DEF JoinedOnce
  <2>5. QED
    BY <2>3, <2>4
<1>10. QED
  BY <1>4, <1>5, <1>7, <1>8, <1>9

LEMMA AcceptCommitKeeps ==
    ASSUME InviteInv, NEW a \in Acceptors, AcceptCommit(a)
    PROVE  InviteInv'
<1> USE DEF InviteInv
<1>1. PICK i \in InviteRows : i = accept[a].row /\ accept[a].pc = "mark"
  BY DEF AcceptCommit, RowsKnown
<1>2. UNCHANGED <<flow, lapsed, creating, cancel, crossed>>
  BY DEF AcceptCommit
<1>3. invite[i] # "none" /\ (account <=> flow[i] = "existing_user")
  BY <1>1 DEF RowsKnown, AccountGuarded
<1>4. a \notin joined /\ joined \subseteq Acceptors
  BY <1>1 DEF JoinsGuarded, InviteTypeOK
<1>5. CASE RowThere(i)
  <2>1. /\ invite' = [invite EXCEPT ![i] = IF @ = "deleted" THEN @ ELSE "ACCEPTED"]
        /\ account' = TRUE /\ joined' = joined \cup {a} /\ Goes(a, "done")
    BY <1>1, <1>5 DEF AcceptCommit
  <2>2. /\ accept'[a].pc = "done" /\ accept'[a].row = i
        /\ \A b \in Acceptors : b # a => accept'[b] = accept[b]
    BY <2>1, <1>1 DEF Goes, InviteTypeOK
  <2>3. /\ \A j \in InviteRows : invite[j] # "none" => invite'[j] # "none"
        /\ \A j \in InviteRows : invite[j] = "none" => invite'[j] = "none"
    BY <2>1, <1>3 DEF InviteTypeOK
  <2>4. account' /\ account' \in BOOLEAN
    BY <2>1
  <2>5. InviteTypeOK'
    <3>1. invite' \in [InviteRows -> {"none", "PENDING", "ACCEPTED", "deleted"}]
      BY <2>1 DEF InviteTypeOK
    <3>2. accept' \in [Acceptors -> [pc: {"idle", "hash", "check", "insert", "mark", "done"},
                                     row: InviteRows \cup {NoInvite}]]
      BY <2>1 DEF Goes, InviteTypeOK
    <3>3. QED
      BY <3>1, <3>2, <2>1, <2>4, <1>2, <1>4 DEF InviteTypeOK
  <2>6. RowsKnown'
    <3>1. \A j \in creating : j \in InviteRows
      BY DEF InviteTypeOK
    <3>2. \A b \in Acceptors : accept'[b].pc # "idle" =>
             accept'[b].row \in InviteRows /\ invite'[accept'[b].row] # "none"
      BY <2>2, <2>3, <1>3 DEF RowsKnown
    <3>3. QED
      BY <3>1, <3>2, <2>3, <1>2 DEF RowsKnown
  <2>7. \A b \in Acceptors : accept'[b].pc \in {"mark", "insert"} =>
           b # a /\ accept'[b] = accept[b]
    BY <2>2
  <2>8. \A b \in Acceptors : accept'[b].pc = "mark" => flow[accept[b].row] = "existing_user"
    <3> SUFFICES ASSUME NEW b \in Acceptors, b # a, accept[b].pc = "mark"
                 PROVE  flow[accept[b].row] = "existing_user"
      BY <2>7
    <3>1. CASE account
      BY <3>1 DEF AccountGuarded
    <3>2. CASE ~account
      <4>1. flow[i] = "new_user" /\ flow[accept[b].row] \in Flows
        BY <3>2, <1>3 DEF InviteTypeOK, Flows, RowsKnown
      <4>2. a \in Inserted
        BY <4>1, <1>1 DEF Inserted
      <4>3. flow[accept[b].row] = "new_user" => b \in Inserted
        BY DEF Inserted
      <4>4. QED
        BY <4>1, <4>2, <4>3 DEF AccountGuarded, Flows
    <3>3. QED
      BY <3>1, <3>2
  <2>9. AccountGuarded'
    <3>1. Inserted' = {}
      BY <2>7, <2>8, <1>2 DEF Inserted
    <3>2. \A b \in Acceptors : accept'[b].pc = "insert" => flow'[accept'[b].row] = "new_user"
      BY <2>7, <1>2 DEF AccountGuarded
    <3>3. \A b \in Acceptors : accept'[b].pc = "mark" =>
             (account' <=> flow'[accept'[b].row] = "existing_user")
      BY <2>4, <2>7, <2>8, <1>2
    <3>4. QED
      BY <3>1, <3>2, <3>3 DEF AccountGuarded
  <2>10. BusyCrossed'
    BY <2>2, <1>2 DEF BusyCrossed, Busy
  <2>11. JoinsGuarded'
    <3>1. \A b \in joined' : accept'[b].pc = "done" /\ account'
      BY <2>1, <2>2, <2>4, <1>4 DEF JoinsGuarded
    <3>2. \A b \in Acceptors : accept'[b].pc = "mark" => crossed'
      BY <2>7, <1>1, <1>2 DEF BusyCrossed, Busy
    <3>3. QED
      BY <3>1, <3>2 DEF JoinsGuarded
  <2>12. JoinedOnce'
    <3>1. ASSUME NEW b \in joined, b # a
          PROVE  crossed /\ flow[i] = "existing_user"
      BY <3>1, <1>1, <1>3 DEF JoinsGuarded
    <3> SUFFICES ASSUME NEW b \in joined', NEW c \in joined', b # c
                 PROVE  /\ crossed
                        /\ \/ flow[accept'[b].row] = "existing_user"
                           \/ flow[accept'[c].row] = "existing_user"
      BY <1>2 DEF JoinedOnce
    <3>2. CASE b = a
      BY <3>1, <3>2, <2>1, <2>2
    <3>3. CASE c = a
      BY <3>1, <3>3, <2>1, <2>2
    <3>4. CASE b # a /\ c # a
      BY <3>4, <2>1, <2>2, <1>4 DEF JoinedOnce
    <3>5. QED
      BY <3>2, <3>3, <3>4
  <2>13. QED
    BY <2>5, <2>6, <2>9, <2>10, <2>11, <2>12
<1>6. CASE ~RowThere(i)
  <2>1. Fails(a) /\ UNCHANGED <<invite, account, joined>>
    BY <1>1, <1>6 DEF AcceptCommit
  <2>2. /\ accept'[a].pc = "idle"
        /\ \A b \in Acceptors : b # a => accept'[b] = accept[b]
    BY <2>1 DEF Fails, NotAsking, InviteTypeOK
  <2>3. InviteTypeOK'
    <3>1. accept' \in [Acceptors -> [pc: {"idle", "hash", "check", "insert", "mark", "done"},
                                     row: InviteRows \cup {NoInvite}]]
      BY <2>1 DEF Fails, NotAsking, InviteTypeOK
    <3>2. QED
      BY <3>1, <2>1, <1>2 DEF InviteTypeOK
  <2>4. RowsKnown'
    BY <2>1, <2>2, <1>2 DEF RowsKnown
  <2>5. Inserted' \subseteq Inserted
    BY <2>1, <2>2, <1>2 DEF Inserted
  <2>6. AccountGuarded'
    BY <2>1, <2>2, <2>5, <1>2 DEF AccountGuarded
  <2>7. BusyCrossed' /\ JoinsGuarded'
    BY <2>1, <2>2, <1>2, <1>4 DEF BusyCrossed, Busy, JoinsGuarded
  <2>8. JoinedOnce'
    BY <2>1, <2>2, <1>2, <1>4 DEF JoinedOnce
  <2>9. QED
    BY <2>3, <2>4, <2>6, <2>7, <2>8
<1>7. QED
  BY <1>5, <1>6

LEMMA InviteNextInv == InviteInv /\ [InviteNext]_inviteVars => InviteInv'
<1> SUFFICES ASSUME InviteInv, [InviteNext]_inviteVars
             PROVE  InviteInv'
  OBVIOUS
<1> USE DEF InviteInv
<1>1. ASSUME NEW i \in InviteRows, CreateChecked(i)
      PROVE  InviteInv'
  <2>1. UNCHANGED <<invite, lapsed, accept, cancel, account, joined>> /\ invite[i] = "none"
    BY <1>1 DEF CreateChecked
  <2>2. /\ creating' = creating \cup {i} /\ crossed' = (crossed \/ UnderWay)
        /\ flow' = [flow EXCEPT ![i] = IF account THEN "existing_user" ELSE "new_user"]
    BY <1>1 DEF CreateChecked, Enters
  <2>3. InviteTypeOK'
    <3>1. crossed' \in BOOLEAN /\ flow' \in [InviteRows -> Flows]
      BY <2>2 DEF InviteTypeOK, Flows
    <3>2. QED
      BY <2>1, <2>2, <3>1 DEF InviteTypeOK
  <2>4. \A j \in InviteRows : invite[j] # "none" => flow'[j] = flow[j]
    BY <2>1, <2>2 DEF InviteTypeOK
  <2>5. RowsKnown'
    BY <2>1, <2>2 DEF RowsKnown
  <2>6. QED
    BY <2>1, <2>2, <2>3, <2>4, <2>5, AcceptsLeft
<1>2. ASSUME NEW i \in InviteRows, CreateInsert(i)
      PROVE  InviteInv'
  <2>1. UNCHANGED <<flow, lapsed, accept, cancel, account, joined, crossed>>
    BY <1>2 DEF CreateInsert
  <2>2. creating' = creating \ {i} /\ invite' = [invite EXCEPT ![i] = "PENDING"]
    BY <1>2 DEF CreateInsert
  <2>3. InviteTypeOK'
    BY <2>1, <2>2 DEF InviteTypeOK
  <2>4. \A j \in InviteRows : invite[j] # "none" => invite'[j] # "none"
    BY <2>2 DEF InviteTypeOK
  <2>5. \A a \in Acceptors : accept'[a].pc # "idle" =>
           accept'[a].row \in InviteRows /\ invite'[accept'[a].row] # "none"
    BY <2>1, <2>3, <2>4, AcceptsLeft
  <2>6. RowsKnown'
    BY <2>1, <2>2, <2>4, <2>5 DEF RowsKnown, InviteTypeOK
  <2>7. QED
    BY <2>1, <2>3, <2>4, <2>6, AcceptsLeft
<1>3. ASSUME NEW i \in InviteRows, Lapse(i)
      PROVE  InviteInv'
  <2>1. /\ UNCHANGED <<invite, flow, creating, accept, cancel, account, joined, crossed>>
        /\ lapsed' = lapsed \cup {i}
    BY <1>3 DEF Lapse
  <2>2. InviteTypeOK' /\ RowsKnown'
    BY <2>1 DEF InviteTypeOK, RowsKnown
  <2>3. QED
    BY <2>1, <2>2, AcceptsLeft
<1>4. ASSUME NEW a \in Acceptors, AcceptFind(a)
      PROVE  InviteInv'
  <2>1. CASE Valid(accept[a].row)
    BY <2>1, <1>4, AcceptMoves DEF AcceptFind
  <2>2. CASE ~Valid(accept[a].row)
    BY <2>2, <1>4, AcceptMoves DEF AcceptFind
  <2>3. QED
    BY <2>1, <2>2
<1>5. ASSUME NEW a \in Acceptors, AcceptCheck(a)
      PROVE  InviteInv'
  <2>1. flow[accept[a].row] \in Flows
    BY <1>5 DEF AcceptCheck, RowsKnown, InviteTypeOK
  <2>2. CASE Fails(a)
    BY <2>2, <1>5, AcceptMoves DEF AcceptCheck
  <2>3. CASE flow[accept[a].row] = "existing_user" /\ account /\ joined = {}
    BY <2>3, <1>5, AcceptMoves DEF AcceptCheck
  <2>4. CASE flow[accept[a].row] = "new_user" /\ ~account
    BY <2>4, <1>5, AcceptMoves DEF AcceptCheck
  <2>5. QED
    BY <2>1, <2>2, <2>3, <2>4, <1>5 DEF AcceptCheck, Flows
<1>6. ASSUME NEW a \in Acceptors, AcceptInsert(a)
      PROVE  InviteInv'
  <2>1. CASE account
    BY <2>1, <1>6, AcceptMoves DEF AcceptInsert
  <2>2. CASE ~account
    <3>1. flow[accept[a].row] = "new_user" /\ joined = {}
      BY <2>2, <1>6 DEF AcceptInsert, AccountGuarded, JoinsGuarded
    <3>2. QED
      BY <2>2, <3>1, <1>6, AcceptMoves DEF AcceptInsert
  <2>3. QED
    BY <2>1, <2>2
<1>7. ASSUME NEW c \in Cancellers, CancelRead(c)
      PROVE  InviteInv'
  <2>1. PICK i \in InviteRows :
           cancel' = [cancel EXCEPT ![c] = [pc |-> "delete", row |-> i]] /\ invite[i] = "PENDING"
    BY <1>7 DEF CancelRead
  <2>2. /\ UNCHANGED <<invite, flow, lapsed, creating, accept, account, joined>>
        /\ crossed' = (crossed \/ UnderWay)
    BY <1>7 DEF CancelRead, Enters
  <2>3. InviteTypeOK'
    <3>1. crossed' \in BOOLEAN
      BY <2>2 DEF InviteTypeOK
    <3>2. QED
      BY <2>1, <2>2, <3>1 DEF InviteTypeOK
  <2>4. RowsKnown'
    <3>1. invite[i] # "none"
      BY <1>7, <2>1 DEF CancelRead, InviteTypeOK
    <3>2. QED
      BY <2>1, <2>2, <3>1 DEF RowsKnown, InviteTypeOK
  <2>5. QED
    BY <2>2, <2>3, <2>4, AcceptsLeft
<1>8. ASSUME NEW c \in Cancellers, CancelDelete(c)
      PROVE  InviteInv'
  <2>1. UNCHANGED <<flow, lapsed, creating, accept, account, joined, crossed>>
    BY <1>8 DEF CancelDelete
  <2>2. PICK i \in InviteRows : i = cancel[c].row /\ invite[i] # "none"
    BY <1>8 DEF CancelDelete, RowsKnown
  <2>3. invite' = [invite EXCEPT ![i] = "deleted"] /\ cancel' = [cancel EXCEPT ![c] = NotCancelling]
    BY <1>8, <2>2 DEF CancelDelete
  <2>4. InviteTypeOK'
    BY <2>1, <2>3 DEF InviteTypeOK, NotCancelling
  <2>5. \A j \in InviteRows : invite[j] # "none" => invite'[j] # "none"
    BY <2>3 DEF InviteTypeOK
  <2>6. RowsKnown'
    <3>1. \A a \in Acceptors : accept'[a].pc # "idle" =>
             accept'[a].row \in InviteRows /\ invite'[accept'[a].row] # "none"
      BY <2>1, <2>4, <2>5, AcceptsLeft
    <3>2. \A j \in creating' : invite'[j] = "none"
      BY <2>1, <2>2, <2>3 DEF RowsKnown, InviteTypeOK
    <3>3. \A d \in Cancellers : cancel'[d].pc = "delete" =>
             cancel'[d].row \in InviteRows /\ invite'[cancel'[d].row] # "none"
      BY <2>3, <2>5 DEF RowsKnown, InviteTypeOK, NotCancelling
    <3>4. QED
      BY <3>1, <3>2, <3>3 DEF RowsKnown
  <2>7. QED
    BY <2>1, <2>4, <2>5, <2>6, AcceptsLeft
<1>9. CASE UNCHANGED inviteVars
  <2>1. InviteTypeOK' /\ RowsKnown'
    BY <1>9 DEF inviteVars, InviteTypeOK, RowsKnown
  <2>2. QED
    BY <1>9, <2>1, AcceptsLeft DEF inviteVars
<1>10. QED
  BY <1>1, <1>2, <1>3, <1>4, <1>5, <1>6, <1>7, <1>8, <1>9, AcceptBeginKeeps, AcceptCommitKeeps
     DEF InviteNext
-----------------------------------------------------------------------------
(* Teams.                                                                  *)

\* Where a request of each kind waits, and what it holds there.
CallShape(q) ==
    /\ q.op = "create" => q.pc \in {"idle", "prefix", "write"}
    /\ q.op \in {"add", "cargo", "remove"} => q.pc \in {"look", "write"}
    /\ q.op \in {"delete", "deleteOrg"} => q.pc = "write"
    /\ q.op \in {"add", "cargo", "remove", "delete"} => q.team \in TeamIds
    /\ q.op \in {"cargo", "remove"} /\ q.pc = "write" => q.row \in TeamRows
    /\ q.op = "create" /\ q.pc = "write" => q.prefix \in Prefixes

Makes(q) == q.op = "create" /\ q.pc # "idle"
Inserts(q) == q.op = "add" /\ q.pc = "write"
LiveRow(r) == member[r].state = "live"

\* Members and requests are of teams that were created.
TeamsCreated ==
    /\ \A r \in TeamRows : LiveRow(r) =>
          member[r].team \in TeamIds /\ team[member[r].team].state # "free"
    /\ \A c \in TeamCalls : /\ CallShape(teamCall[c])
                            /\ teamCall[c].op \in {"add", "cargo", "remove", "delete"} =>
                                  team[teamCall[c].team].state # "free"

\* A creation that is alone has read every team, and then chosen a prefix of its own.
PrefixGuarded ==
    mishaps \cap {"creations", "exhausted"} = {} =>
        /\ \A c, d \in TeamCalls : Makes(teamCall[c]) /\ Makes(teamCall[d]) => c = d
        /\ \A c \in TeamCalls : Makes(teamCall[c]) /\ teamCall[c].pc = "prefix" =>
              LiveTeams \subseteq teamCall[c].known
        /\ \A c \in TeamCalls : Makes(teamCall[c]) /\ teamCall[c].pc = "write" =>
              \A t \in LiveTeams : team[t].prefix # teamCall[c].prefix

\* An addition about to be written finds no row of the person, nor another addition.
AdditionGuarded ==
    "additions" \notin mishaps =>
        /\ \A r, s \in TeamRows :
              /\ LiveRow(r) /\ LiveRow(s)
              /\ member[r].team = member[s].team /\ member[r].user = member[s].user
              => r = s
        /\ \A c \in TeamCalls, r \in TeamRows :
              /\ Inserts(teamCall[c]) /\ LiveRow(r)
              /\ member[r].team = teamCall[c].team
              => member[r].user # teamCall[c].user
        /\ \A c, d \in TeamCalls :
              /\ Inserts(teamCall[c]) /\ Inserts(teamCall[d])
              /\ teamCall[c].team = teamCall[d].team /\ teamCall[c].user = teamCall[d].user
              => c = d

\* Additions and members are of live teams; a deletion of the organization knows every
\* live team, and no creation is under way beside it or after it.
DeletionGuarded ==
    "late" \notin mishaps =>
        /\ \A r \in TeamRows : LiveRow(r) => team[member[r].team].state = "live"
        /\ \A c \in TeamCalls : teamCall[c].op = "add" => team[teamCall[c].team].state = "live"
        /\ \A c, d \in TeamCalls : ~(Makes(teamCall[c]) /\ teamCall[d].op = "deleteOrg")
        /\ \A c \in TeamCalls : teamCall[c].op = "deleteOrg" => LiveTeams \subseteq teamCall[c].known
        /\ ~orgLive => \A c \in TeamCalls : ~Makes(teamCall[c])
        /\ ~orgLive => LiveTeams = {}

TeamInv == TeamTypeOK /\ TeamsCreated /\ PrefixGuarded /\ PrefixesApart /\ AdditionGuarded
           /\ DeletionGuarded

LEMMA NoTeamCallType == NoTeamCall \in TeamCall /\ CallShape(NoTeamCall) /\ ~Makes(NoTeamCall)
BY DEF NoTeamCall, TeamCall, CallShape, Makes, Cargos

LEMMA TeamInvSound == TeamInv => TeamsSound
<1> SUFFICES ASSUME TeamInv
             PROVE  PrefixesApart /\ OneTeamRow /\ NothingLeft
  BY DEF TeamsSound
<1>1. OneTeamRow
  BY DEF TeamInv, AdditionGuarded, OneTeamRow, RowsOf, MembersOf, LiveRow
<1>2. NothingLeft
  BY DEF TeamInv, DeletionGuarded, NothingLeft, MembersOf, LiveRow
<1>3. QED
  BY <1>1, <1>2 DEF TeamInv

LEMMA TeamInitInv == TeamInit => TeamInv
<1> SUFFICES ASSUME TeamInit
             PROVE  TeamInv
  OBVIOUS
<1>1. /\ orgLive \in BOOLEAN /\ orgLive /\ mishaps = {}
      /\ \A c \in TeamCalls : teamCall[c] = NoTeamCall
  BY DEF TeamInit
<1>2. /\ team \in [TeamIds -> TeamRow]
      /\ \A t \in TeamIds : team[t].state = "live" <=> t = DefaultTeam
      /\ team[DefaultTeam].state = "live"
  BY TeamAssumption DEF TeamInit, TeamRow, Prefixes
<1>3. /\ member \in [TeamRows -> MemberRow]
      /\ \A r \in TeamRows : LiveRow(r) => r = DefaultRow /\ member[r].team = DefaultTeam
  BY TeamAssumption DEF TeamInit, MemberRow, Cargos, LiveRow
<1>4. TeamTypeOK
  <2>1. teamCall \in [TeamCalls -> TeamCall]
    BY NoTeamCallType DEF TeamInit
  <2>2. QED
    BY <1>1, <1>2, <1>3, <2>1 DEF TeamTypeOK, Mishaps
<1>5. \A c \in TeamCalls : /\ CallShape(teamCall[c]) /\ ~Makes(teamCall[c])
                           /\ teamCall[c].op = "create" /\ ~Inserts(teamCall[c])
  BY <1>1, NoTeamCallType DEF NoTeamCall, Inserts
<1>6. TeamsCreated
  BY <1>2, <1>3, <1>5, TeamAssumption DEF TeamsCreated
<1>7. PrefixGuarded /\ PrefixesApart
  BY <1>2, <1>5 DEF PrefixGuarded, PrefixesApart, LiveTeams
<1>8. AdditionGuarded
  BY <1>3, <1>5 DEF AdditionGuarded
<1>9. DeletionGuarded
  BY <1>1, <1>2, <1>3, <1>5 DEF DeletionGuarded
<1>10. QED
  BY <1>4, <1>6, <1>7, <1>8, <1>9 DEF TeamInv

LEMMA OthersCall ==
    ASSUME teamCall \in [TeamCalls -> TeamCall], NEW c \in TeamCalls, NEW q \in TeamCall,
           teamCall' = [teamCall EXCEPT ![c] = q]
    PROVE  /\ teamCall' \in [TeamCalls -> TeamCall] /\ teamCall'[c] = q
           /\ \A d \in TeamCalls : d # c => teamCall'[d] = teamCall[d]
OBVIOUS

\* A request comes or goes on, and writes neither a team nor a row.
LEMMA CallMoves ==
    ASSUME TeamInv, NEW c \in TeamCalls, NEW q \in TeamCall, CallShape(q),
           teamCall' = [teamCall EXCEPT ![c] = q], UNCHANGED <<orgLive, team, member>>,
           mishaps \subseteq mishaps', mishaps' \subseteq Mishaps,
           q.op \in {"add", "cargo", "remove", "delete"} => team[q.team].state # "free",
           mishaps' \cap {"creations", "exhausted"} = {} /\ Makes(q) =>
              /\ \A d \in TeamCalls : d # c => ~Makes(teamCall[d])
              /\ q.pc = "prefix" => LiveTeams \subseteq q.known
              /\ q.pc = "write" => \A t \in LiveTeams : team[t].prefix # q.prefix,
           "additions" \notin mishaps' /\ Inserts(q) =>
              /\ \A r \in TeamRows : LiveRow(r) /\ member[r].team = q.team => member[r].user # q.user
              /\ \A d \in TeamCalls : /\ d # c /\ Inserts(teamCall[d])
                                      /\ teamCall[d].team = q.team
                                      => teamCall[d].user # q.user,
           "late" \notin mishaps' =>
              /\ q.op = "add" => team[q.team].state = "live"
              /\ Makes(q) => /\ \A d \in TeamCalls : d # c => teamCall[d].op # "deleteOrg"
                             /\ orgLive
              /\ q.op = "deleteOrg" => /\ \A d \in TeamCalls : d # c => ~Makes(teamCall[d])
                                       /\ LiveTeams \subseteq q.known
    PROVE  TeamInv'
<1> USE DEF TeamInv
<1>1. /\ teamCall' \in [TeamCalls -> TeamCall] /\ teamCall'[c] = q
      /\ \A d \in TeamCalls : d # c => teamCall'[d] = teamCall[d]
  BY OthersCall DEF TeamTypeOK
<1>2. LiveTeams' = LiveTeams /\ \A r : LiveRow(r)' <=> LiveRow(r)
  BY DEF LiveTeams, LiveRow
<1>3. TeamTypeOK'
  BY <1>1 DEF TeamTypeOK
<1>4. TeamsCreated'
  BY <1>1, <1>2 DEF TeamsCreated
<1>5. PrefixesApart'
  BY <1>2 DEF PrefixesApart
<1>6. PrefixGuarded'
  <2> SUFFICES ASSUME mishaps' \cap {"creations", "exhausted"} = {}
               PROVE  /\ \A d, e \in TeamCalls : Makes(teamCall'[d]) /\ Makes(teamCall'[e]) => d = e
                      /\ \A d \in TeamCalls : Makes(teamCall'[d]) /\ teamCall'[d].pc = "prefix" =>
                            LiveTeams \subseteq teamCall'[d].known
                      /\ \A d \in TeamCalls : Makes(teamCall'[d]) /\ teamCall'[d].pc = "write" =>
                            \A t \in LiveTeams : team[t].prefix # teamCall'[d].prefix
    BY <1>2 DEF PrefixGuarded, Makes
  <2>1. mishaps \cap {"creations", "exhausted"} = {}
    OBVIOUS
  <2>2. \A d, e \in TeamCalls : Makes(teamCall'[d]) /\ Makes(teamCall'[e]) => d = e
    BY <1>1, <2>1 DEF PrefixGuarded
  <2>3. \A d \in TeamCalls : Makes(teamCall'[d]) /\ teamCall'[d].pc = "prefix" =>
           LiveTeams \subseteq teamCall'[d].known
    BY <1>1, <2>1 DEF PrefixGuarded
  <2>4. \A d \in TeamCalls : Makes(teamCall'[d]) /\ teamCall'[d].pc = "write" =>
           \A t \in LiveTeams : team[t].prefix # teamCall'[d].prefix
    BY <1>1, <2>1 DEF PrefixGuarded
  <2>5. QED
    BY <2>2, <2>3, <2>4
<1>7. AdditionGuarded'
  <2> SUFFICES ASSUME "additions" \notin mishaps'
               PROVE  /\ \A d \in TeamCalls, r \in TeamRows :
                            /\ Inserts(teamCall'[d]) /\ LiveRow(r)
                            /\ member[r].team = teamCall'[d].team
                            => member[r].user # teamCall'[d].user
                      /\ \A d, e \in TeamCalls :
                            /\ Inserts(teamCall'[d]) /\ Inserts(teamCall'[e])
                            /\ teamCall'[d].team = teamCall'[e].team
                            /\ teamCall'[d].user = teamCall'[e].user
                            => d = e
    BY <1>2 DEF AdditionGuarded, Inserts, LiveRow
  <2>1. "additions" \notin mishaps
    OBVIOUS
  <2>2. \A d \in TeamCalls, r \in TeamRows :
           Inserts(teamCall'[d]) /\ LiveRow(r) /\ member[r].team = teamCall'[d].team
              => member[r].user # teamCall'[d].user
    BY <1>1, <2>1 DEF AdditionGuarded
  <2>3. ASSUME NEW d \in TeamCalls, NEW e \in TeamCalls,
               Inserts(teamCall'[d]), Inserts(teamCall'[e]),
               teamCall'[d].team = teamCall'[e].team, teamCall'[d].user = teamCall'[e].user
        PROVE  d = e
    BY <1>1, <2>1, <2>3 DEF AdditionGuarded
  <2>4. QED
    BY <2>2, <2>3
<1>8. DeletionGuarded'
  <2> SUFFICES ASSUME "late" \notin mishaps'
               PROVE  /\ \A d \in TeamCalls : teamCall'[d].op = "add" =>
                            team[teamCall'[d].team].state = "live"
                      /\ \A d, e \in TeamCalls :
                            ~(Makes(teamCall'[d]) /\ teamCall'[e].op = "deleteOrg")
                      /\ \A d \in TeamCalls : teamCall'[d].op = "deleteOrg" =>
                            LiveTeams \subseteq teamCall'[d].known
                      /\ ~orgLive => \A d \in TeamCalls : ~Makes(teamCall'[d])
    BY <1>2 DEF DeletionGuarded, Makes
  <2>1. "late" \notin mishaps
    OBVIOUS
  <2>2. \A d \in TeamCalls : teamCall'[d].op = "add" => team[teamCall'[d].team].state = "live"
    BY <1>1, <2>1 DEF DeletionGuarded
  <2>3. ASSUME NEW d \in TeamCalls, NEW e \in TeamCalls,
               Makes(teamCall'[d]), teamCall'[e].op = "deleteOrg"
        PROVE  FALSE
    BY <1>1, <2>1, <2>3 DEF DeletionGuarded, Makes
  <2>4. \A d \in TeamCalls : teamCall'[d].op = "deleteOrg" => LiveTeams \subseteq teamCall'[d].known
    BY <1>1, <2>1 DEF DeletionGuarded
  <2>5. ~orgLive => \A d \in TeamCalls : ~Makes(teamCall'[d])
    BY <1>1, <2>1 DEF DeletionGuarded
  <2>6. QED
    BY <2>2, <2>3, <2>4, <2>5
<1>9. QED
  BY <1>3, <1>4, <1>5, <1>6, <1>7, <1>8

LEMMA MishapAdds ==
    ASSUME NEW kind \in Mishaps, NEW when, Mishap(kind, when), mishaps \subseteq Mishaps
    PROVE  /\ mishaps \subseteq mishaps' /\ mishaps' \subseteq Mishaps
           /\ kind \notin mishaps' => ~when
BY DEF Mishap, Mishaps

LEMMA TeamAnswerKeeps ==
    ASSUME TeamInv, NEW c \in TeamCalls, TeamAnswer(c), UNCHANGED <<orgLive, team, member>>,
           mishaps \subseteq mishaps', mishaps' \subseteq Mishaps
    PROVE  TeamInv'
<1>1. NoTeamCall \in TeamCall /\ CallShape(NoTeamCall) /\ ~Makes(NoTeamCall)
  BY NoTeamCallType
<1>2. ~Inserts(NoTeamCall) /\ NoTeamCall.op = "create"
  BY DEF NoTeamCall, Inserts
<1>3. QED
  BY <1>1, <1>2, CallMoves DEF TeamAnswer

LEMMA CreateBeginKeeps ==
    ASSUME TeamInv, NEW c \in TeamCalls, CreateBegin(c)
    PROVE  TeamInv'
<1> USE DEF TeamInv
<1>1. PICK u \in Persons, p \in Prefixes \cup {0} :
         Serve(c, [NoTeamCall EXCEPT !.pc = "prefix", !.user = u, !.prefix = p,
                                     !.known = LiveTeams])
  BY DEF CreateBegin
<1>2. PICK q \in TeamCall : /\ q.op = "create" /\ q.pc = "prefix" /\ q.known = LiveTeams
                            /\ teamCall' = [teamCall EXCEPT ![c] = q]
  <2>1. LiveTeams \in SUBSET TeamIds
    BY DEF LiveTeams
  <2> DEFINE q == [NoTeamCall EXCEPT !.pc = "prefix", !.user = u, !.prefix = p,
                                     !.known = LiveTeams]
  <2>2. q \in TeamCall /\ q.op = "create" /\ q.pc = "prefix" /\ q.known = LiveTeams
    BY <2>1, NoTeamCallType DEF TeamCall, NoTeamCall
  <2>3. QED
    BY <1>1, <2>2 DEF Serve
<1>3. /\ orgLive /\ UNCHANGED <<orgLive, team, member>>
      /\ mishaps' = mishaps \cup {k \in {"creations"} : Serving("create") # {}}
                            \cup {k \in {"late"} : Serving("deleteOrg") # {}}
  BY DEF CreateBegin
<1>4. mishaps \subseteq mishaps' /\ mishaps' \subseteq Mishaps
  BY <1>3 DEF Mishaps, TeamTypeOK
<1>5. "creations" \notin mishaps' => \A d \in TeamCalls : ~Makes(teamCall[d])
  BY <1>3 DEF Serving, Makes
<1>6. "late" \notin mishaps' => \A d \in TeamCalls : teamCall[d].op # "deleteOrg"
  BY <1>3 DEF Serving, TeamsCreated, CallShape
<1>7. CallShape(q) /\ ~Inserts(q)
  BY <1>2 DEF CallShape, Inserts
<1>8. QED
  BY <1>2, <1>3, <1>4, <1>5, <1>6, <1>7, CallMoves

\* The search for a suffix always ends with one of the prefixes.
LEMMA SuffixIs == ASSUME NEW used PROVE Suffix(used) \in Prefixes
<1> DEFINE S == {i \in 2..LastSuffix : i \notin used \/ i = LastSuffix}
<1>1. S \subseteq Nat /\ LastSuffix \in S
  BY TeamAssumption
<1>2. \E i \in S : \A j \in S : ~(j < i)
  <2>1. IsWellFoundedOn(OpToRel(<, Nat), Nat)
    BY NatLessThanWellFounded
  <2>4. S # {}
    BY <1>1
  <2> HIDE DEF S
  <2>2. PICK i \in S : \A j \in S : ~(<<j, i>> \in OpToRel(<, Nat))
    BY <1>1, <2>1, <2>4, WFMin, Zenon
  <2>3. \A j \in S : ~(j < i)
    BY <1>1, <2>2 DEF OpToRel
  <2>5. QED
    BY <2>3
<1>3. PICK i \in S : \A j \in S : ~(j < i)
  BY <1>2
<1>4. i \in 2..LastSuffix /\ (i \notin used \/ i = LastSuffix)
  OBVIOUS
<1>5. \A j \in 2..(i - 1) : j \in used
  <2> TAKE j \in 2..(i - 1)
  <2>1. j \in 2..LastSuffix /\ j < i
    BY <1>4, TeamAssumption
  <2>2. QED
    BY <2>1, <1>3
<1>6. Suffix(used) \in 2..LastSuffix
  BY <1>4, <1>5 DEF Suffix
<1>7. QED
  BY <1>6, TeamAssumption DEF Prefixes

LEMMA FreePrefixesAre ==
    ASSUME NEW asked \in Prefixes \cup {0}, NEW used, NEW p \in FreePrefixes(asked, used)
    PROVE  /\ p \in Prefixes
           /\ asked # 0 => p \notin used
           /\ ~(FreePrefixes(asked, used) \subseteq used) => p \notin used
<1>1. 1 \in Prefixes /\ Suffix(used) \in Prefixes
  BY SuffixIs, TeamAssumption DEF Prefixes
<1>2. QED
  BY <1>1 DEF FreePrefixes

LEMMA ChoosePrefixKeeps ==
    ASSUME TeamInv, NEW c \in TeamCalls, ChoosePrefix(c)
    PROVE  TeamInv'
<1> USE DEF TeamInv
<1> DEFINE used == {team[t].prefix : t \in teamCall[c].known \cap LiveTeams}
           free == FreePrefixes(teamCall[c].prefix, used)
<1>1. teamCall[c].pc = "prefix" /\ UNCHANGED <<orgLive, team, member>>
  BY DEF ChoosePrefix
<1>2. teamCall[c] \in TeamCall /\ CallShape(teamCall[c])
  BY DEF TeamTypeOK, TeamsCreated
<1>3. teamCall[c].op = "create"
  BY <1>1, <1>2 DEF CallShape, TeamCall
<1>4. /\ mishaps \subseteq mishaps' /\ mishaps' \subseteq Mishaps
      /\ "exhausted" \notin mishaps' => ~(teamCall[c].prefix = 0 /\ free \subseteq used)
  <2>1. Mishap("exhausted", teamCall[c].prefix = 0 /\ free \subseteq used)
    BY DEF ChoosePrefix
  <2>2. QED
    BY <2>1, MishapAdds DEF TeamTypeOK, Mishaps
<1>5. CASE TeamAnswer(c)
  BY <1>1, <1>4, <1>5, TeamAnswerKeeps
<1>6. ASSUME NEW p \in free, teamCall' = [teamCall EXCEPT ![c].pc = "write", ![c].prefix = p]
      PROVE  TeamInv'
  <2>1. p \in Prefixes /\ (teamCall[c].prefix # 0 => p \notin used)
        /\ (~(free \subseteq used) => p \notin used)
    <3>1. PICK asked \in Prefixes \cup {0} : asked = teamCall[c].prefix
      BY <1>2 DEF TeamCall
    <3>2. p \in FreePrefixes(asked, used)
      BY <3>1
    <3> HIDE DEF used
    <3>3. p \in Prefixes /\ (asked # 0 => p \notin used)
          /\ (~(FreePrefixes(asked, used) \subseteq used) => p \notin used)
      BY <3>2, FreePrefixesAre
    <3>4. QED
      BY <3>1, <3>3
  <2>2. PICK q \in TeamCall : /\ q.op = "create" /\ q.pc = "write" /\ q.prefix = p
                              /\ teamCall' = [teamCall EXCEPT ![c] = q]
    <3> DEFINE q == [teamCall[c] EXCEPT !.pc = "write", !.prefix = p]
    <3>1. q \in TeamCall /\ q.op = "create" /\ q.pc = "write" /\ q.prefix = p
      BY <1>2, <1>3, <2>1 DEF TeamCall
    <3>2. teamCall' = [teamCall EXCEPT ![c] = q]
      BY <1>6 DEF TeamTypeOK
    <3>3. QED
      BY <3>1, <3>2
  <2>3. CallShape(q) /\ ~Inserts(q) /\ Makes(teamCall[c])
    BY <2>1, <2>2, <1>1, <1>3 DEF CallShape, Inserts, Makes
  <2>4. ASSUME mishaps' \cap {"creations", "exhausted"} = {}
        PROVE  /\ \A d \in TeamCalls : d # c => ~Makes(teamCall[d])
               /\ \A t \in LiveTeams : team[t].prefix # q.prefix
    <3>1. mishaps \cap {"creations", "exhausted"} = {}
      BY <2>4, <1>4
    <3>2. \A d \in TeamCalls : d # c => ~Makes(teamCall[d])
      BY <3>1, <2>3 DEF PrefixGuarded
    <3>3. LiveTeams \subseteq teamCall[c].known
      BY <3>1, <2>3, <1>1 DEF PrefixGuarded
    <3>4. p \notin used
      BY <2>1, <2>4, <1>4
    <3>5. QED
      BY <3>2, <3>3, <3>4, <2>2
  <2>5. ASSUME "late" \notin mishaps'
        PROVE  /\ \A d \in TeamCalls : d # c => teamCall[d].op # "deleteOrg"
               /\ orgLive
    <3>1. "late" \notin mishaps
      BY <2>5, <1>4
    <3>2. QED
      BY <3>1, <2>3 DEF DeletionGuarded
  <2> HIDE DEF used, free
  <2>6. q.pc # "prefix" /\ q.op # "add" /\ q.op # "deleteOrg"
        /\ q.op \notin {"add", "cargo", "remove", "delete"}
    BY <2>2
  <2>7. QED
    BY <1>1, <1>4, <2>2, <2>3, <2>4, <2>5, <2>6, CallMoves
<1>7. QED
  BY <1>5, <1>6 DEF ChoosePrefix

LEMMA ManageKeeps ==
    ASSUME TeamInv, NEW c \in TeamCalls, Manage(c)
    PROVE  TeamInv'
<1> USE DEF TeamInv
<1>1. PICK t \in LiveTeams, op \in {"add", "cargo", "remove", "delete"},
           u \in Persons, cargo \in Cargos :
         Serve(c, [NoTeamCall EXCEPT !.op = op, !.team = t, !.user = u, !.cargo = cargo,
                                     !.pc = IF op = "delete" THEN "write" ELSE "look"])
  BY DEF Manage
<1>2. UNCHANGED <<orgLive, team, member, mishaps>>
  BY DEF Manage
<1>3. t \in TeamIds /\ team[t].state = "live"
  BY DEF LiveTeams
<1>4. PICK q \in TeamCall : /\ q.op = op /\ q.team = t /\ q.pc = IF op = "delete" THEN "write" ELSE "look"
                            /\ teamCall' = [teamCall EXCEPT ![c] = q]
  <2> DEFINE q == [NoTeamCall EXCEPT !.op = op, !.team = t, !.user = u, !.cargo = cargo,
                                     !.pc = IF op = "delete" THEN "write" ELSE "look"]
  <2>1. /\ q \in TeamCall /\ q.op = op /\ q.team = t
        /\ q.pc = IF op = "delete" THEN "write" ELSE "look"
    BY <1>3, NoTeamCallType DEF TeamCall, NoTeamCall
  <2>2. QED
    BY <1>1, <2>1 DEF Serve
<1>5. CallShape(q) /\ ~Makes(q) /\ ~Inserts(q) /\ q.op # "deleteOrg"
  BY <1>3, <1>4 DEF CallShape, Makes, Inserts
<1>6. team[q.team].state # "free" /\ team[q.team].state = "live"
  BY <1>3, <1>4
<1>7. mishaps \subseteq mishaps' /\ mishaps' \subseteq Mishaps
  BY <1>2 DEF TeamTypeOK
<1>8. QED
  BY <1>2, <1>4, <1>5, <1>6, <1>7, CallMoves

LEMMA LookForMemberKeeps ==
    ASSUME TeamInv, NEW c \in TeamCalls, LookForMember(c)
    PROVE  TeamInv'
<1> USE DEF TeamInv
<1>1. /\ teamCall[c].op = "add" /\ teamCall[c].pc = "look"
      /\ UNCHANGED <<orgLive, team, member>>
  BY DEF LookForMember
<1>2. PICK o \in TeamCall : o = teamCall[c]
  BY DEF TeamTypeOK
<1>3. /\ mishaps \subseteq mishaps' /\ mishaps' \subseteq Mishaps
      /\ "additions" \notin mishaps' =>
            ~\E d \in AddingTo(o.team) : teamCall[d].pc = "write" /\ teamCall[d].user = o.user
  <2>1. Mishap("additions", \E d \in AddingTo(o.team) : /\ teamCall[d].pc = "write"
                                                        /\ teamCall[d].user = o.user)
    BY <1>2 DEF LookForMember
  <2>2. QED
    BY <2>1, MishapAdds DEF TeamTypeOK, Mishaps
<1>4. CASE TeamAnswer(c)
  BY <1>1, <1>3, <1>4, TeamAnswerKeeps
<1>5. ASSUME RowsOf(o.team, o.user) = {}, teamCall' = [teamCall EXCEPT ![c].pc = "write"]
      PROVE  TeamInv'
  <2>1. PICK q \in TeamCall : /\ q.op = "add" /\ q.pc = "write" /\ q.team = o.team
                              /\ q.user = o.user /\ teamCall' = [teamCall EXCEPT ![c] = q]
    <3> DEFINE q == [o EXCEPT !.pc = "write"]
    <3>1. q \in TeamCall /\ q.op = "add" /\ q.pc = "write" /\ q.team = o.team /\ q.user = o.user
      BY <1>1, <1>2 DEF TeamCall
    <3>2. teamCall' = [teamCall EXCEPT ![c] = q]
      BY <1>2, <1>5
    <3>3. QED
      BY <3>1, <3>2
  <2>2. o.team \in TeamIds /\ team[o.team].state # "free"
    BY <1>1, <1>2 DEF TeamsCreated, CallShape
  <2>3. CallShape(q) /\ ~Makes(q) /\ q.op # "deleteOrg" /\ q.op # "create"
    BY <2>1, <2>2 DEF CallShape, Makes
  <2>4. \A r \in TeamRows : LiveRow(r) /\ member[r].team = q.team => member[r].user # q.user
    BY <1>5, <2>1 DEF RowsOf, MembersOf, LiveRow
  <2>5. "additions" \notin mishaps' =>
           \A d \in TeamCalls : /\ d # c /\ Inserts(teamCall[d]) /\ teamCall[d].team = q.team
                                => teamCall[d].user # q.user
    BY <1>3, <2>1 DEF AddingTo, Serving, Inserts
  <2>6. "late" \notin mishaps' => team[q.team].state = "live"
    BY <1>1, <1>2, <1>3, <2>1 DEF DeletionGuarded
  <2>7. team[q.team].state # "free"
    BY <2>1, <2>2
  <2>8. QED
    BY <1>1, <1>3, <2>1, <2>3, <2>4, <2>5, <2>6, <2>7, CallMoves
<1>6. QED
  BY <1>2, <1>4, <1>5 DEF LookForMember

LEMMA LookForRowKeeps ==
    ASSUME TeamInv, NEW c \in TeamCalls, LookForRow(c)
    PROVE  TeamInv'
<1> USE DEF TeamInv
<1>1. /\ teamCall[c].op \in {"cargo", "remove"} /\ teamCall[c].pc = "look"
      /\ UNCHANGED <<orgLive, team, member, mishaps>>
  BY DEF LookForRow
<1>2. PICK o \in TeamCall : o = teamCall[c]
  BY DEF TeamTypeOK
<1>3. mishaps \subseteq mishaps' /\ mishaps' \subseteq Mishaps
  BY <1>1 DEF TeamTypeOK
<1>4. CASE TeamAnswer(c)
  BY <1>1, <1>3, <1>4, TeamAnswerKeeps
<1>5. ASSUME NEW r \in TeamRows,
             teamCall' = [teamCall EXCEPT ![c].pc = "write", ![c].row = r]
      PROVE  TeamInv'
  <2>1. PICK q \in TeamCall : /\ q.op = o.op /\ q.pc = "write" /\ q.team = o.team
                              /\ q.row = r /\ teamCall' = [teamCall EXCEPT ![c] = q]
    <3> DEFINE q == [o EXCEPT !.pc = "write", !.row = r]
    <3>1. q \in TeamCall /\ q.op = o.op /\ q.pc = "write" /\ q.team = o.team /\ q.row = r
      BY <1>1, <1>2 DEF TeamCall
    <3>2. teamCall' = [teamCall EXCEPT ![c] = q]
      BY <1>2, <1>5 DEF TeamTypeOK
    <3>3. QED
      BY <3>1, <3>2
  <2>2. o.team \in TeamIds /\ team[o.team].state # "free"
    BY <1>1, <1>2 DEF TeamsCreated, CallShape
  <2>3. CallShape(q) /\ ~Makes(q) /\ q.op # "deleteOrg" /\ ~Inserts(q) /\ q.op # "add"
    BY <1>1, <1>2, <2>1, <2>2 DEF CallShape, Makes, Inserts
  <2>4. team[q.team].state # "free"
    BY <2>1, <2>2
  <2>5. QED
    BY <1>1, <1>3, <2>1, <2>3, <2>4, CallMoves
<1>6. QED
  BY <1>4, <1>5 DEF LookForRow, RowsOf, MembersOf

LEMMA DeleteOrgBeginKeeps ==
    ASSUME TeamInv, NEW c \in TeamCalls, DeleteOrgBegin(c)
    PROVE  TeamInv'
<1> USE DEF TeamInv
<1>1. UNCHANGED <<orgLive, team, member>>
  BY DEF DeleteOrgBegin
<1>2. PICK q \in TeamCall : /\ q.op = "deleteOrg" /\ q.pc = "write" /\ q.known = LiveTeams
                            /\ teamCall' = [teamCall EXCEPT ![c] = q]
  <2>1. LiveTeams \in SUBSET TeamIds
    BY DEF LiveTeams
  <2> DEFINE q == [NoTeamCall EXCEPT !.op = "deleteOrg", !.pc = "write", !.known = LiveTeams]
  <2>2. q \in TeamCall /\ q.op = "deleteOrg" /\ q.pc = "write" /\ q.known = LiveTeams
    BY <2>1, NoTeamCallType DEF TeamCall, NoTeamCall
  <2>3. QED
    BY <2>2 DEF Serve, DeleteOrgBegin
<1>3. /\ mishaps \subseteq mishaps' /\ mishaps' \subseteq Mishaps
      /\ "late" \notin mishaps' => Serving("create") = {}
  <2>1. Mishap("late", Serving("create") # {})
    BY DEF DeleteOrgBegin
  <2>2. QED
    BY <2>1, MishapAdds DEF TeamTypeOK, Mishaps
<1>4. "late" \notin mishaps' => \A d \in TeamCalls : ~Makes(teamCall[d])
  BY <1>3 DEF Serving, Makes
<1>5. CallShape(q) /\ ~Makes(q) /\ ~Inserts(q)
  BY <1>2 DEF CallShape, Makes, Inserts
<1>6. q.op # "add" /\ q.op \notin {"add", "cargo", "remove", "delete"}
  BY <1>2
<1>7. QED
  BY <1>1, <1>2, <1>3, <1>4, <1>5, <1>6, CallMoves

\* What is left of the requests when c is answered.
LEMMA Answered ==
    ASSUME teamCall \in [TeamCalls -> TeamCall], NEW c \in TeamCalls, TeamAnswer(c)
    PROVE  /\ teamCall' \in [TeamCalls -> TeamCall]
           /\ \A d \in TeamCalls : d # c => teamCall'[d] = teamCall[d]
           /\ CallShape(teamCall'[c]) /\ ~Makes(teamCall'[c]) /\ ~Inserts(teamCall'[c])
           /\ teamCall'[c].op = "create"
<1>1. NoTeamCall \in TeamCall /\ CallShape(NoTeamCall) /\ ~Makes(NoTeamCall)
      /\ ~Inserts(NoTeamCall) /\ NoTeamCall.op = "create"
  BY NoTeamCallType DEF NoTeamCall, Inserts
<1>2. teamCall' = [teamCall EXCEPT ![c] = NoTeamCall]
  BY DEF TeamAnswer
<1>3. teamCall'[c] = NoTeamCall
  BY <1>2
<1>4. QED
  BY <1>1, <1>2, <1>3

LEMMA CreateWriteKeeps ==
    ASSUME TeamInv, NEW c \in TeamCalls, CreateWrite(c)
    PROVE  TeamInv'
<1> USE DEF TeamInv
<1>1. /\ teamCall[c].op = "create" /\ teamCall[c].pc = "write" /\ TeamAnswer(c)
      /\ UNCHANGED <<orgLive, mishaps>>
  BY DEF CreateWrite
<1>2. PICK o \in TeamCall : o = teamCall[c]
  BY DEF TeamTypeOK
<1>3. Makes(o) /\ o.prefix \in Prefixes /\ o.user \in Persons \cup {NoPerson}
  BY <1>1, <1>2 DEF Makes, TeamsCreated, CallShape, TeamCall
<1>4. PICK t \in TeamIds, r \in TeamRows :
         /\ team[t].state = "free"
         /\ team' = [team EXCEPT ![t] = [state |-> "live", prefix |-> o.prefix]]
         /\ InsertMember(r, t, o.user, "LEAD")
  BY <1>2 DEF CreateWrite
<1>5. /\ team' \in [TeamIds -> TeamRow] /\ team'[t].state = "live" /\ team'[t].prefix = o.prefix
      /\ \A s \in TeamIds : s # t => team'[s] = team[s]
  BY <1>3, <1>4 DEF TeamTypeOK, TeamRow
<1>6. /\ member' \in [TeamRows -> MemberRow] /\ ~LiveRow(r)
      /\ member'[r].team = t /\ member'[r].user = o.user /\ member'[r].state = "live"
      /\ \A s \in TeamRows : s # r => member'[s] = member[s]
  BY <1>3, <1>4 DEF InsertMember, TeamTypeOK, MemberRow, LiveRow, Cargos
<1>7. /\ teamCall' \in [TeamCalls -> TeamCall]
      /\ \A d \in TeamCalls : d # c => teamCall'[d] = teamCall[d]
      /\ CallShape(teamCall'[c]) /\ ~Makes(teamCall'[c]) /\ ~Inserts(teamCall'[c])
      /\ teamCall'[c].op = "create"
  BY <1>1, Answered DEF TeamTypeOK
<1>8. LiveTeams' = LiveTeams \cup {t} /\ t \notin LiveTeams
  BY <1>4, <1>5 DEF LiveTeams
<1>9. \A s \in TeamRows : LiveRow(s) => member[s].team # t /\ member[s].team \in TeamIds
  BY <1>4 DEF TeamsCreated
<1>10. \A s \in TeamRows : LiveRow(s)' => s = r \/ LiveRow(s)
  BY <1>6 DEF LiveRow
<1>11. TeamTypeOK'
  BY <1>1, <1>5, <1>6, <1>7 DEF TeamTypeOK
<1>12. \A d \in TeamCalls : teamCall[d].op \in {"add", "cargo", "remove", "delete"} =>
          teamCall[d].team # t /\ teamCall[d].team \in TeamIds
  BY <1>4 DEF TeamsCreated, CallShape
<1>13. TeamsCreated'
  <2>1. \A s \in TeamRows : LiveRow(s)' =>
           member'[s].team \in TeamIds /\ team'[member'[s].team].state # "free"
    BY <1>5, <1>6, <1>9, <1>10 DEF TeamsCreated
  <2>2. \A d \in TeamCalls : CallShape(teamCall'[d])
    BY <1>7 DEF TeamsCreated
  <2>3. \A d \in TeamCalls : teamCall'[d].op \in {"add", "cargo", "remove", "delete"} =>
           team'[teamCall'[d].team].state # "free"
    BY <1>5, <1>7, <1>12 DEF TeamsCreated
  <2>4. QED
    BY <2>1, <2>2, <2>3 DEF TeamsCreated
<1>14. PrefixGuarded' /\ PrefixesApart'
  <2> SUFFICES ASSUME mishaps \cap {"creations", "exhausted"} = {}
               PROVE  /\ \A d \in TeamCalls : ~Makes(teamCall'[d])
                      /\ \A s, v \in LiveTeams' : s # v => team'[s].prefix # team'[v].prefix
    BY <1>1 DEF PrefixGuarded, PrefixesApart
  <2>1. \A d \in TeamCalls : ~Makes(teamCall'[d])
    BY <1>2, <1>3, <1>7 DEF PrefixGuarded
  <2>2. \A s \in LiveTeams : team[s].prefix # o.prefix
    BY <1>1, <1>2, <1>3 DEF PrefixGuarded
  <2>3. \A s \in LiveTeams : s \in TeamIds /\ s # t /\ team'[s] = team[s]
    BY <1>5, <1>8 DEF LiveTeams
  <2>4. QED
    BY <2>1, <2>2, <2>3, <1>5, <1>8 DEF PrefixesApart
<1>15. AdditionGuarded'
  <2> SUFFICES ASSUME "additions" \notin mishaps
               PROVE  /\ \A s, v \in TeamRows :
                            /\ LiveRow(s)' /\ LiveRow(v)'
                            /\ member'[s].team = member'[v].team
                            /\ member'[s].user = member'[v].user
                            => s = v
                      /\ \A d \in TeamCalls, s \in TeamRows :
                            /\ Inserts(teamCall'[d]) /\ LiveRow(s)'
                            /\ member'[s].team = teamCall'[d].team
                            => member'[s].user # teamCall'[d].user
                      /\ \A d, e \in TeamCalls :
                            /\ Inserts(teamCall'[d]) /\ Inserts(teamCall'[e])
                            /\ teamCall'[d].team = teamCall'[e].team
                            /\ teamCall'[d].user = teamCall'[e].user
                            => d = e
    BY <1>1 DEF AdditionGuarded, Inserts
  <2>1. ASSUME NEW s \in TeamRows, NEW v \in TeamRows, LiveRow(s)', LiveRow(v)',
               member'[s].team = member'[v].team, member'[s].user = member'[v].user
        PROVE  s = v
    BY <2>1, <1>6, <1>9, <1>10 DEF AdditionGuarded
  <2>2. ASSUME NEW d \in TeamCalls, NEW s \in TeamRows, Inserts(teamCall'[d]), LiveRow(s)',
               member'[s].team = teamCall'[d].team
        PROVE  member'[s].user # teamCall'[d].user
    <3>1. d # c /\ teamCall'[d] = teamCall[d] /\ teamCall[d].op = "add"
      BY <2>2, <1>7 DEF Inserts
    <3>2. s # r /\ LiveRow(s) /\ member'[s] = member[s]
      BY <2>2, <3>1, <1>6, <1>10, <1>12
    <3>3. QED
      BY <2>2, <3>1, <3>2 DEF AdditionGuarded
  <2>3. ASSUME NEW d \in TeamCalls, NEW e \in TeamCalls,
               Inserts(teamCall'[d]), Inserts(teamCall'[e]),
               teamCall'[d].team = teamCall'[e].team, teamCall'[d].user = teamCall'[e].user
        PROVE  d = e
    BY <2>3, <1>7 DEF AdditionGuarded
  <2>4. QED
    BY <2>1, <2>2, <2>3
<1>16. DeletionGuarded'
  <2> SUFFICES ASSUME "late" \notin mishaps
               PROVE  /\ \A s \in TeamRows : LiveRow(s)' => team'[member'[s].team].state = "live"
                      /\ \A d \in TeamCalls : teamCall'[d].op = "add" =>
                            team'[teamCall'[d].team].state = "live"
                      /\ \A d, e \in TeamCalls :
                            ~(Makes(teamCall'[d]) /\ teamCall'[e].op = "deleteOrg")
                      /\ \A d \in TeamCalls : teamCall'[d].op # "deleteOrg"
                      /\ orgLive
    BY <1>1 DEF DeletionGuarded, Makes
  <2>1. orgLive /\ \A d \in TeamCalls : teamCall[d].op # "deleteOrg"
    BY <1>2, <1>3 DEF DeletionGuarded
  <2>2. \A d \in TeamCalls : teamCall'[d].op # "deleteOrg"
    BY <2>1, <1>7
  <2>3. \A s \in TeamRows : LiveRow(s)' => team'[member'[s].team].state = "live"
    BY <1>5, <1>6, <1>9, <1>10 DEF DeletionGuarded
  <2>4. \A d \in TeamCalls : teamCall'[d].op = "add" => team'[teamCall'[d].team].state = "live"
    BY <1>5, <1>7, <1>12 DEF DeletionGuarded
  <2>5. QED
    BY <2>1, <2>2, <2>3, <2>4
<1>17. QED
  BY <1>11, <1>13, <1>14, <1>15, <1>16

\* The teams are left, and no row becomes live but by the addition of c.
LEMMA RowsWritten ==
    ASSUME TeamInv, NEW c \in TeamCalls, TeamAnswer(c), UNCHANGED <<orgLive, team, mishaps>>,
           member' \in [TeamRows -> MemberRow],
           \A r \in TeamRows : LiveRow(r)' =>
              \/ /\ LiveRow(r) /\ member'[r].team = member[r].team
                 /\ member'[r].user = member[r].user
              \/ /\ Inserts(teamCall[c]) /\ ~LiveRow(r)
                 /\ member'[r].team = teamCall[c].team /\ member'[r].user = teamCall[c].user
                 /\ \A s \in TeamRows : LiveRow(s)' /\ ~LiveRow(s) => s = r
    PROVE  TeamInv'
<1> USE DEF TeamInv
<1>1. /\ teamCall' \in [TeamCalls -> TeamCall]
      /\ \A d \in TeamCalls : d # c => teamCall'[d] = teamCall[d]
      /\ CallShape(teamCall'[c]) /\ ~Makes(teamCall'[c]) /\ ~Inserts(teamCall'[c])
      /\ teamCall'[c].op = "create"
  BY Answered DEF TeamTypeOK
<1>2. LiveTeams' = LiveTeams
  BY DEF LiveTeams
<1>3. TeamTypeOK'
  BY <1>1 DEF TeamTypeOK
<1>4. Inserts(teamCall[c]) => teamCall[c].op = "add" /\ teamCall[c].team \in TeamIds
  BY DEF Inserts, TeamsCreated, CallShape
<1>5. TeamsCreated'
  <2>1. \A r \in TeamRows : LiveRow(r)' =>
           member'[r].team \in TeamIds /\ team[member'[r].team].state # "free"
    BY <1>4 DEF TeamsCreated
  <2>2. QED
    BY <1>1, <2>1 DEF TeamsCreated
<1>6. PrefixGuarded' /\ PrefixesApart'
  BY <1>1, <1>2 DEF PrefixGuarded, PrefixesApart
<1>7. AdditionGuarded'
  <2> SUFFICES ASSUME "additions" \notin mishaps
               PROVE  /\ \A s, v \in TeamRows :
                            /\ LiveRow(s)' /\ LiveRow(v)'
                            /\ member'[s].team = member'[v].team
                            /\ member'[s].user = member'[v].user
                            => s = v
                      /\ \A d \in TeamCalls, s \in TeamRows :
                            /\ Inserts(teamCall'[d]) /\ LiveRow(s)'
                            /\ member'[s].team = teamCall'[d].team
                            => member'[s].user # teamCall'[d].user
                      /\ \A d, e \in TeamCalls :
                            /\ Inserts(teamCall'[d]) /\ Inserts(teamCall'[e])
                            /\ teamCall'[d].team = teamCall'[e].team
                            /\ teamCall'[d].user = teamCall'[e].user
                            => d = e
    BY DEF AdditionGuarded, Inserts
  <2>1. ASSUME NEW s \in TeamRows, NEW v \in TeamRows, LiveRow(s)', LiveRow(v)',
               member'[s].team = member'[v].team, member'[s].user = member'[v].user
        PROVE  s = v
    <3>1. CASE LiveRow(s) /\ LiveRow(v)
      BY <2>1, <3>1 DEF AdditionGuarded
    <3>2. CASE ~LiveRow(s) /\ ~LiveRow(v)
      BY <2>1, <3>2
    <3>3. CASE LiveRow(s) /\ ~LiveRow(v)
      BY <2>1, <3>3 DEF AdditionGuarded
    <3>4. CASE ~LiveRow(s) /\ LiveRow(v)
      BY <2>1, <3>4 DEF AdditionGuarded
    <3>5. QED
      BY <3>1, <3>2, <3>3, <3>4
  <2>2. ASSUME NEW d \in TeamCalls, NEW s \in TeamRows, Inserts(teamCall'[d]), LiveRow(s)',
               member'[s].team = teamCall'[d].team
        PROVE  member'[s].user # teamCall'[d].user
    <3>1. d # c /\ teamCall'[d] = teamCall[d]
      BY <2>2, <1>1
    <3>2. CASE LiveRow(s)
      BY <2>2, <3>1, <3>2 DEF AdditionGuarded
    <3>3. CASE ~LiveRow(s)
      BY <2>2, <3>1, <3>3 DEF AdditionGuarded
    <3>4. QED
      BY <3>2, <3>3
  <2>3. ASSUME NEW d \in TeamCalls, NEW e \in TeamCalls,
               Inserts(teamCall'[d]), Inserts(teamCall'[e]),
               teamCall'[d].team = teamCall'[e].team, teamCall'[d].user = teamCall'[e].user
        PROVE  d = e
    BY <2>3, <1>1 DEF AdditionGuarded
  <2>4. QED
    BY <2>1, <2>2, <2>3
<1>8. DeletionGuarded'
  <2> SUFFICES ASSUME "late" \notin mishaps
               PROVE  /\ \A s \in TeamRows : LiveRow(s)' => team[member'[s].team].state = "live"
                      /\ \A d \in TeamCalls : teamCall'[d].op = "add" =>
                            team[teamCall'[d].team].state = "live"
                      /\ \A d, e \in TeamCalls :
                            ~(Makes(teamCall'[d]) /\ teamCall'[e].op = "deleteOrg")
                      /\ \A d \in TeamCalls : teamCall'[d].op = "deleteOrg" =>
                            LiveTeams \subseteq teamCall'[d].known
                      /\ ~orgLive => \A d \in TeamCalls : ~Makes(teamCall'[d])
                      /\ ~orgLive => LiveTeams = {}
    BY <1>2 DEF DeletionGuarded, Makes
  <2>1. \A s \in TeamRows : LiveRow(s)' => team[member'[s].team].state = "live"
    BY <1>4 DEF DeletionGuarded
  <2>2. QED
    BY <2>1, <1>1 DEF DeletionGuarded
<1>9. QED
  BY <1>3, <1>5, <1>6, <1>7, <1>8

LEMMA WriteMemberKeeps ==
    ASSUME TeamInv, NEW c \in TeamCalls, WriteMember(c)
    PROVE  TeamInv'
<1> USE DEF TeamInv
<1>1. teamCall[c].pc = "write" /\ TeamAnswer(c) /\ UNCHANGED <<orgLive, team, mishaps>>
  BY DEF WriteMember
<1>2. PICK o \in TeamCall : o = teamCall[c]
  BY DEF TeamTypeOK
<1>3. /\ o.op \in {"cargo", "remove"} => o.row \in TeamRows
      /\ o.op = "add" => o.team \in TeamIds /\ Inserts(teamCall[c])
      /\ o.user \in Persons \cup {NoPerson} /\ o.cargo \in Cargos
  BY <1>1, <1>2 DEF TeamsCreated, CallShape, Inserts, TeamCall
<1>4. ASSUME NEW r \in TeamRows, o.op = "add", InsertMember(r, o.team, o.user, o.cargo)
      PROVE  TeamInv'
  <2>1. /\ member' \in [TeamRows -> MemberRow] /\ ~LiveRow(r)
        /\ member'[r].team = o.team /\ member'[r].user = o.user
        /\ \A s \in TeamRows : s # r => member'[s] = member[s]
    BY <1>3, <1>4 DEF InsertMember, TeamTypeOK, MemberRow, LiveRow
  <2>2. \A s \in TeamRows : LiveRow(s)' => s = r \/ LiveRow(s)
    BY <2>1 DEF LiveRow
  <2>3. \A s \in TeamRows : LiveRow(s)' =>
           \/ /\ LiveRow(s) /\ member'[s].team = member[s].team /\ member'[s].user = member[s].user
           \/ /\ Inserts(teamCall[c]) /\ ~LiveRow(s)
              /\ member'[s].team = teamCall[c].team /\ member'[s].user = teamCall[c].user
              /\ \A v \in TeamRows : LiveRow(v)' /\ ~LiveRow(v) => v = s
    <3> SUFFICES ASSUME NEW s \in TeamRows, LiveRow(s)'
                 PROVE  \/ /\ LiveRow(s) /\ member'[s].team = member[s].team
                           /\ member'[s].user = member[s].user
                        \/ /\ Inserts(teamCall[c]) /\ ~LiveRow(s)
                           /\ member'[s].team = teamCall[c].team
                           /\ member'[s].user = teamCall[c].user
                           /\ \A v \in TeamRows : LiveRow(v)' /\ ~LiveRow(v) => v = s
      OBVIOUS
    <3>1. CASE s = r
      BY <3>1, <2>1, <2>2, <1>2, <1>3, <1>4
    <3>2. CASE s # r
      BY <3>2, <2>1, <2>2
    <3>3. QED
      BY <3>1, <3>2
  <2>4. QED
    BY <1>1, <2>1, <2>3, RowsWritten
<1>5. CASE o.op = "cargo" /\ member' = [member EXCEPT ![o.row].cargo = o.cargo]
  <2>1. PICK r \in TeamRows : r = o.row
    BY <1>3, <1>5
  <2>2. /\ member' \in [TeamRows -> MemberRow]
        /\ \A s \in TeamRows : /\ member'[s].state = member[s].state
                               /\ member'[s].team = member[s].team
                               /\ member'[s].user = member[s].user
    BY <2>1, <1>3, <1>5 DEF TeamTypeOK, MemberRow
  <2>3. QED
    BY <1>1, <2>2, RowsWritten DEF LiveRow
<1>6. CASE o.op = "remove" /\ member' = [member EXCEPT ![o.row].state = "deleted"]
  <2>1. PICK r \in TeamRows : r = o.row
    BY <1>3, <1>6
  <2>2. /\ member' \in [TeamRows -> MemberRow]
        /\ \A s \in TeamRows : /\ member'[s].state # "deleted" => member'[s].state = member[s].state
                               /\ member'[s].team = member[s].team
                               /\ member'[s].user = member[s].user
    BY <2>1, <1>6 DEF TeamTypeOK, MemberRow
  <2>3. \A s \in TeamRows : LiveRow(s)' => LiveRow(s)
    BY <2>2 DEF LiveRow
  <2>4. QED
    BY <1>1, <2>2, <2>3, RowsWritten
<1>7. QED
  BY <1>2, <1>4, <1>5, <1>6 DEF WriteMember

\* A deletion of the teams T, and of the organization with them.
LEMMA GoneKeeps ==
    ASSUME TeamInv, NEW c \in TeamCalls, TeamAnswer(c), NEW T \in SUBSET TeamIds, Gone(T),
           orgLive' \in BOOLEAN,
           orgLive /\ ~orgLive' => teamCall[c].op = "deleteOrg" /\ teamCall[c].known = T,
           orgLive' => orgLive
    PROVE  TeamInv'
<1> USE DEF TeamInv
<1>1. /\ teamCall' \in [TeamCalls -> TeamCall]
      /\ \A d \in TeamCalls : d # c => teamCall'[d] = teamCall[d]
      /\ CallShape(teamCall'[c]) /\ ~Makes(teamCall'[c]) /\ ~Inserts(teamCall'[c])
      /\ teamCall'[c].op = "create"
  BY Answered DEF TeamTypeOK
<1>2. /\ team' \in [TeamIds -> TeamRow]
      /\ \A t \in TeamIds : t \in T => team'[t].state = "deleted"
      /\ \A t \in TeamIds : t \notin T => team'[t] = team[t]
  BY DEF Gone, TeamTypeOK, TeamRow
<1>3. /\ member' \in [TeamRows -> MemberRow]
      /\ \A r \in TeamRows : /\ member'[r].team = member[r].team
                             /\ member'[r].user = member[r].user
                             /\ LiveRow(r)' => LiveRow(r) /\ member[r].team \notin T
  BY DEF Gone, TeamTypeOK, MemberRow, LiveRow
<1>4. /\ mishaps \subseteq mishaps' /\ mishaps' \subseteq Mishaps
      /\ "late" \notin mishaps' => \A t \in T : AddingTo(t) = {}
  <2>1. Mishap("late", \E t \in T : AddingTo(t) # {})
    BY DEF Gone
  <2>2. QED
    BY <2>1, MishapAdds DEF TeamTypeOK, Mishaps
<1>5. /\ LiveTeams' = LiveTeams \ T /\ LiveTeams \subseteq TeamIds
      /\ \A t \in LiveTeams' : team'[t] = team[t]
  BY <1>2 DEF LiveTeams
<1>6. TeamTypeOK'
  BY <1>1, <1>2, <1>3, <1>4 DEF TeamTypeOK
<1>7. \A t \in TeamIds : team[t].state # "free" => team'[t].state # "free"
  BY <1>2
<1>8. TeamsCreated'
  <2>1. \A r \in TeamRows : LiveRow(r)' =>
           member'[r].team \in TeamIds /\ team'[member'[r].team].state # "free"
    BY <1>3, <1>7 DEF TeamsCreated
  <2>2. \A d \in TeamCalls : teamCall'[d].op \in {"add", "cargo", "remove", "delete"} =>
           team'[teamCall'[d].team].state # "free"
    BY <1>1, <1>7 DEF TeamsCreated, CallShape
  <2>3. \A d \in TeamCalls : CallShape(teamCall'[d])
    BY <1>1 DEF TeamsCreated
  <2>4. QED
    BY <2>1, <2>2, <2>3 DEF TeamsCreated
<1>9. PrefixGuarded'
  <2> SUFFICES ASSUME mishaps' \cap {"creations", "exhausted"} = {}
               PROVE  /\ \A d, e \in TeamCalls : Makes(teamCall'[d]) /\ Makes(teamCall'[e]) => d = e
                      /\ \A d \in TeamCalls : Makes(teamCall'[d]) /\ teamCall'[d].pc = "prefix" =>
                            LiveTeams' \subseteq teamCall'[d].known
                      /\ \A d \in TeamCalls : Makes(teamCall'[d]) /\ teamCall'[d].pc = "write" =>
                            \A t \in LiveTeams' : team'[t].prefix # teamCall'[d].prefix
    BY DEF PrefixGuarded, Makes
  <2>1. mishaps \cap {"creations", "exhausted"} = {}
    BY <1>4
  <2>2. QED
    BY <2>1, <1>1, <1>5 DEF PrefixGuarded
<1>10. PrefixesApart'
  <2> SUFFICES ASSUME mishaps' \cap {"creations", "exhausted"} = {}
               PROVE  \A s, t \in LiveTeams' : s # t => team'[s].prefix # team'[t].prefix
    BY DEF PrefixesApart
  <2>1. mishaps \cap {"creations", "exhausted"} = {}
    BY <1>4
  <2>2. QED
    BY <2>1, <1>5 DEF PrefixesApart
<1>11. AdditionGuarded'
  <2> SUFFICES ASSUME "additions" \notin mishaps'
               PROVE  /\ \A s, v \in TeamRows :
                            /\ LiveRow(s)' /\ LiveRow(v)'
                            /\ member'[s].team = member'[v].team
                            /\ member'[s].user = member'[v].user
                            => s = v
                      /\ \A d \in TeamCalls, s \in TeamRows :
                            /\ Inserts(teamCall'[d]) /\ LiveRow(s)'
                            /\ member'[s].team = teamCall'[d].team
                            => member'[s].user # teamCall'[d].user
                      /\ \A d, e \in TeamCalls :
                            /\ Inserts(teamCall'[d]) /\ Inserts(teamCall'[e])
                            /\ teamCall'[d].team = teamCall'[e].team
                            /\ teamCall'[d].user = teamCall'[e].user
                            => d = e
    BY DEF AdditionGuarded, Inserts
  <2>1. "additions" \notin mishaps
    BY <1>4
  <2>2. QED
    BY <2>1, <1>1, <1>3 DEF AdditionGuarded
<1>12. DeletionGuarded'
  <2> SUFFICES ASSUME "late" \notin mishaps'
               PROVE  /\ \A s \in TeamRows : LiveRow(s)' => team'[member'[s].team].state = "live"
                      /\ \A d \in TeamCalls : teamCall'[d].op = "add" =>
                            team'[teamCall'[d].team].state = "live"
                      /\ \A d, e \in TeamCalls :
                            ~(Makes(teamCall'[d]) /\ teamCall'[e].op = "deleteOrg")
                      /\ \A d \in TeamCalls : teamCall'[d].op = "deleteOrg" =>
                            LiveTeams' \subseteq teamCall'[d].known
                      /\ ~orgLive' => \A d \in TeamCalls : ~Makes(teamCall'[d])
                      /\ ~orgLive' => LiveTeams' = {}
    BY DEF DeletionGuarded, Makes
  <2>1. "late" \notin mishaps
    BY <1>4
  <2>2. \A s \in TeamRows : LiveRow(s)' => team'[member'[s].team].state = "live"
    BY <2>1, <1>2, <1>3 DEF DeletionGuarded, TeamsCreated
  <2>3. \A d \in TeamCalls : teamCall'[d].op = "add" => team'[teamCall'[d].team].state = "live"
    <3> SUFFICES ASSUME NEW d \in TeamCalls, teamCall'[d].op = "add"
                 PROVE  team'[teamCall'[d].team].state = "live"
      OBVIOUS
    <3>1. d # c /\ teamCall'[d] = teamCall[d]
      BY <1>1
    <3>2. teamCall[d].team \in TeamIds /\ teamCall[d].pc # "idle" /\ teamCall[d].op = "add"
      BY <3>1 DEF TeamsCreated, CallShape
    <3>3. d \in AddingTo(teamCall[d].team)
      BY <3>2 DEF AddingTo, Serving
    <3>4. teamCall[d].team \notin T
      BY <3>3, <1>4
    <3>5. QED
      BY <2>1, <3>1, <3>2, <3>4, <1>2 DEF DeletionGuarded
  <2>4. ASSUME NEW d \in TeamCalls, NEW e \in TeamCalls,
               Makes(teamCall'[d]), teamCall'[e].op = "deleteOrg"
        PROVE  FALSE
    BY <2>1, <2>4, <1>1 DEF DeletionGuarded
  <2>5. \A d \in TeamCalls : teamCall'[d].op = "deleteOrg" => LiveTeams' \subseteq teamCall'[d].known
    BY <2>1, <1>1, <1>5 DEF DeletionGuarded
  <2>6. CASE orgLive'
    BY <2>2, <2>3, <2>4, <2>5, <2>6
  <2>7. CASE ~orgLive' /\ orgLive
    <3>1. LiveTeams' = {} /\ \A d \in TeamCalls : ~Makes(teamCall'[d])
      BY <2>1, <2>7, <1>1, <1>5 DEF DeletionGuarded
    <3>2. QED
      BY <3>1, <2>2, <2>3, <2>4, <2>5
  <2>8. CASE ~orgLive' /\ ~orgLive
    <3>1. LiveTeams' = {} /\ \A d \in TeamCalls : ~Makes(teamCall'[d])
      BY <2>1, <2>8, <1>1, <1>5 DEF DeletionGuarded
    <3>2. QED
      BY <3>1, <2>2, <2>3, <2>4, <2>5
  <2>9. QED
    BY <2>6, <2>7, <2>8
<1>13. QED
  BY <1>6, <1>8, <1>9, <1>10, <1>11, <1>12

LEMMA TeamNextInv == TeamInv /\ [TeamNext]_teamVars => TeamInv'
<1> SUFFICES ASSUME TeamInv, [TeamNext]_teamVars
             PROVE  TeamInv'
  OBVIOUS
<1>1. ASSUME NEW c \in TeamCalls, DeleteTeam(c)
      PROVE  TeamInv'
  <2>1. PICK t \in TeamIds : t = teamCall[c].team
    BY <1>1 DEF DeleteTeam, TeamInv, TeamsCreated, CallShape
  <2>2. Gone({t}) /\ TeamAnswer(c) /\ orgLive' = orgLive /\ orgLive \in BOOLEAN
    BY <1>1, <2>1 DEF DeleteTeam, TeamInv, TeamTypeOK
  <2>3. {t} \in SUBSET TeamIds
    OBVIOUS
  <2>4. QED
    BY <2>2, <2>3, GoneKeeps
<1>2. ASSUME NEW c \in TeamCalls, DeleteOrg(c)
      PROVE  TeamInv'
  <2>1. PICK T \in SUBSET TeamIds : T = teamCall[c].known
    BY DEF TeamInv, TeamTypeOK, TeamCall
  <2>2. Gone(T) /\ TeamAnswer(c) /\ teamCall[c].op = "deleteOrg"
    BY <1>2, <2>1 DEF DeleteOrg
  <2>3. ~orgLive' /\ orgLive' \in BOOLEAN
    BY <1>2 DEF DeleteOrg
  <2>4. QED
    BY <2>1, <2>2, <2>3, GoneKeeps
<1>3. CASE UNCHANGED teamVars
  BY <1>3 DEF teamVars, TeamInv, TeamTypeOK, TeamsCreated, PrefixGuarded, PrefixesApart,
              AdditionGuarded, DeletionGuarded, LiveRow, LiveTeams
<1>4. QED
  BY <1>1, <1>2, <1>3, CreateBeginKeeps, ChoosePrefixKeeps, CreateWriteKeeps, ManageKeeps,
     LookForMemberKeeps, LookForRowKeeps, WriteMemberKeeps, DeleteOrgBeginKeeps DEF TeamNext

\* Teams of an organization have prefixes of their own, nobody is a member of one twice,
\* and a deletion leaves nothing, unless requests overlapped in the way named.
THEOREM TeamsSoundHolds == TeamSpec => []TeamsSound
BY TeamInitInv, TeamNextInv, TeamInvSound, PTL DEF TeamSpec

-----------------------------------------------------------------------------
(* PhaseProgress.                                                          *)

LEMMA Quotient ==
    ASSUME NEW n \in Nat, NEW m \in Nat, m > 0
    PROVE  /\ n \div m \in Nat
           /\ m * (n \div m) <= n
           /\ n < m * (n \div m) + m
OBVIOUS

\* The percentage of done tasks, never more than 100; as it is rounded, 100 says that all
\* are done where they are fewer than 200.
LEMMA PercentIs ==
    ASSUME NEW total \in Nat, NEW done \in Nat, done <= total
    PROVE  /\ Percent(done, total) \in 0..100
           /\ Percent(done, total) = 100 /\ total < 200 => done = total /\ total > 0
<1>1. CASE total = 0
  BY <1>1 DEF Percent
<1>2. CASE total > 0
  <2> DEFINE n == 200 * done + total
             m == 2 * total
             k == n \div m
  <2>1. n \in Nat /\ m \in Nat /\ m > 0
    BY <1>2
  <2>2. k \in Nat /\ m * k <= n /\ n < m * k + m
    BY <2>1, Quotient
  <2>3. Percent(done, total) = k
    BY <1>2 DEF Percent
  <2> HIDE DEF k
  <2>4. k <= 100
    <3> SUFFICES ASSUME k >= 101
                 PROVE  FALSE
      BY <2>2
    <3>1. m * 101 <= m * k
      BY <2>1, <2>2, LessTimes
    <3>2. m * k \in Nat
      BY <2>1, <2>2
    <3>3. QED
      BY <1>2, <2>2, <3>1, <3>2
  <2>5. k = 100 /\ total < 200 => done = total
    BY <2>2
  <2>6. QED
    BY <1>2, <2>2, <2>3, <2>4, <2>5
<1>3. QED
  BY <1>1, <1>2

\* From 200 tasks on it may be 100 with one of them open.
LEMMA PercentRounds == Percent(199, 200) = 100
BY DEF Percent

\* A state without open tasks has been noticed; only a percentage of 100 is announced.
CompletionSeen ==
    /\ AllDone(status) => wasComplete
    /\ \A m \in Movers : detector[m].pc = "emit" => detector[m].now = 100

ProgressInv == ProgressTypeOK /\ CompletionSeen /\ CompletedTruthful

LEMMA CountsAre ==
    ASSUME IsFiniteSet(Leaves)
    PROVE  /\ Cardinality(DoneOnes(status)) \in Nat /\ Cardinality(Counting(status)) \in Nat
           /\ Cardinality(DoneOnes(status)) <= Cardinality(Counting(status))
           /\ Cardinality(Counting(status)) <= Cardinality(Leaves) /\ Cardinality(Leaves) \in Nat
           /\ Cardinality(DoneOnes(status)) = Cardinality(Counting(status)) =>
                 \A t \in Leaves : status[t] = "DONE" \/ status[t] = "CANCELLED"
<1>1. DoneOnes(status) \subseteq Counting(status) /\ Counting(status) \subseteq Leaves
  BY DEF DoneOnes, Counting
<1>2. IsFiniteSet(Counting(status)) /\ IsFiniteSet(DoneOnes(status))
  BY <1>1, FS_Subset
<1>3. Cardinality(DoneOnes(status)) = Cardinality(Counting(status)) =>
         DoneOnes(status) = Counting(status)
  BY <1>1, <1>2, FS_Subset
<1>4. DoneOnes(status) = Counting(status) =>
         \A t \in Leaves : status[t] = "DONE" \/ status[t] = "CANCELLED"
  BY DEF DoneOnes, Counting
<1>5. QED
  BY <1>1, <1>2, <1>3, <1>4, FS_Subset, FS_CardinalityType

LEMMA ProgressInitInv == ProgressInit => ProgressInv
<1> SUFFICES ASSUME ProgressInit
             PROVE  ProgressInv
  OBVIOUS
<1>1. ProgressTypeOK
  <2>1. NoCascade \in Cascades /\ NoDetector \in Detectors
    BY DEF NoCascade, Cascades, NoDetector, Detectors, States, Percents
  <2>2. [pc |-> "idle", task |-> FirstLeaf, to |-> "open"] \in Moves
    BY ProgressAssumption DEF Moves, States
  <2>3. /\ move \in [Movers -> Moves] /\ cascade \in [Movers -> Cascades]
        /\ detector \in [Movers -> Detectors]
    BY <2>1, <2>2 DEF ProgressInit
  <2>4. status \in [Leaves -> States] /\ snapshot \in Percents /\ tree \in Trees
    BY DEF ProgressInit, States, Percents
  <2>5. announced \in BOOLEAN /\ wasComplete \in BOOLEAN
    BY DEF ProgressInit
  <2>6. QED
    BY <2>3, <2>4, <2>5 DEF ProgressTypeOK
<1>2. CompletionSeen
  BY ProgressAssumption DEF ProgressInit, CompletionSeen, AllDone, NoDetector
<1>3. CompletedTruthful
  BY DEF ProgressInit, CompletedTruthful, NoDetector
<1>4. QED
  BY <1>1, <1>2, <1>3 DEF ProgressInv

\* The detector of m goes on, with a percentage that is not 100 or is so rightly.
LEMMA DetectorGoes ==
    ASSUME ProgressInv, NEW m \in Movers, NEW q \in Detectors,
           detector' = [detector EXCEPT ![m] = q],
           UNCHANGED <<tree, status, move, cascade, wasComplete>>,
           snapshot' \in Percents, announced' \in BOOLEAN,
           q.pc = "emit" => q.now = 100, q.now = 100 => wasComplete,
           snapshot' = 100 => wasComplete, announced' => wasComplete
    PROVE  ProgressInv'
<1> USE DEF ProgressInv
<1>1. /\ detector' \in [Movers -> Detectors] /\ detector'[m] = q
      /\ \A x \in Movers : x # m => detector'[x] = detector[x]
  BY DEF ProgressTypeOK
<1>2. ProgressTypeOK'
  BY <1>1 DEF ProgressTypeOK
<1>3. CompletionSeen'
  BY <1>1 DEF CompletionSeen, AllDone
<1>4. CompletedTruthful'
  BY <1>1 DEF CompletedTruthful
<1>5. QED
  BY <1>2, <1>3, <1>4

\* A status is written; detectors keep what they computed.
LEMMA StatusSet ==
    ASSUME ProgressInv, NEW t \in Leaves, NEW to \in States, SetStatus(t, to),
           UNCHANGED <<tree, snapshot, announced>>,
           move' \in [Movers -> Moves], cascade' \in [Movers -> Cascades],
           detector' \in [Movers -> Detectors],
           \A m \in Movers : /\ detector'[m].now = detector[m].now
                             /\ detector'[m].pc = "emit" => detector[m].pc = "emit"
    PROVE  ProgressInv'
<1> USE DEF ProgressInv
<1>1. /\ status' \in [Leaves -> States] /\ wasComplete' \in BOOLEAN
      /\ wasComplete => wasComplete'
      /\ AllDone(status)' => wasComplete'
  BY DEF SetStatus, ProgressTypeOK
<1>2. ProgressTypeOK'
  BY <1>1 DEF ProgressTypeOK
<1>3. CompletionSeen'
  BY <1>1 DEF CompletionSeen
<1>4. CompletedTruthful'
  BY <1>1 DEF CompletedTruthful
<1>5. QED
  BY <1>2, <1>3, <1>4

LEMMA ProgressNextType ==
    ASSUME IsFiniteSet(Leaves), ProgressTypeOK, [ProgressNext]_progressVars
    PROVE  ProgressTypeOK'
<1>1. ASSUME NEW m \in Movers, StatusRequest(m)
      PROVE  ProgressTypeOK'
  BY <1>1 DEF StatusRequest, ProgressTypeOK, Moves
<1>2. ASSUME NEW m \in Movers, StatusWrite(m)
      PROVE  ProgressTypeOK'
  <2>1. PICK o \in Moves : o = move[m]
    BY DEF ProgressTypeOK
  <2>2. [pc |-> "find", level |-> {o.task}, todo |-> {}, to |-> o.to] \in Cascades
    BY DEF Moves, Cascades
  <2>3. cascade' = [cascade EXCEPT ![m] = [pc |-> "find", level |-> {o.task}, todo |-> {},
                                           to |-> o.to]]
    BY <1>2, <2>1 DEF StatusWrite
  <2>4. cascade' \in [Movers -> Cascades]
    BY <2>2, <2>3 DEF ProgressTypeOK
  <2>5. status' \in [Leaves -> States] /\ wasComplete' \in BOOLEAN
    BY <1>2, <2>1 DEF StatusWrite, SetStatus, ProgressTypeOK, Moves
  <2>6. move' \in [Movers -> Moves] /\ detector' \in [Movers -> Detectors]
    BY <1>2 DEF StatusWrite, ProgressTypeOK, Moves, Detectors
  <2>7. QED
    BY <1>2, <2>4, <2>5, <2>6 DEF StatusWrite, ProgressTypeOK
<1>3. ASSUME NEW m \in Movers, CascadeFind(m)
      PROVE  ProgressTypeOK'
  <2>1. PICK q \in Cascades : q = cascade[m]
    BY DEF ProgressTypeOK
  <2>2. PICK below \in SUBSET Leaves : below = ChildrenOf(q.level)
    BY DEF ChildrenOf
  <2>3. NoCascade \in Cascades /\ [q EXCEPT !.pc = "write", !.level = below, !.todo = below] \in Cascades
    BY DEF Cascades, NoCascade, States
  <2>4. cascade' = [cascade EXCEPT ![m] =
                      IF below = {} THEN NoCascade
                      ELSE [q EXCEPT !.pc = "write", !.level = below, !.todo = below]]
    BY <1>3, <2>1, <2>2 DEF CascadeFind
  <2>5. cascade' \in [Movers -> Cascades]
    BY <2>3, <2>4 DEF ProgressTypeOK
  <2>6. UNCHANGED <<tree, status, snapshot, move, detector, announced, wasComplete>>
    BY <1>3 DEF CascadeFind
  <2>7. QED
    BY <2>5, <2>6 DEF ProgressTypeOK
<1>4. ASSUME NEW m \in Movers, CascadeWrite(m)
      PROVE  ProgressTypeOK'
  <2>1. PICK q \in Cascades : q = cascade[m]
    BY DEF ProgressTypeOK
  <2>2. PICK t \in q.todo :
           /\ SetStatus(t, q.to)
           /\ cascade' = [cascade EXCEPT ![m].todo = @ \ {t},
                                         ![m].pc = IF cascade[m].todo = {t} THEN "find"
                                                   ELSE "write"]
    BY <1>4, <2>1 DEF CascadeWrite
  <2>3. cascade' \in [Movers -> Cascades]
    BY <2>2 DEF ProgressTypeOK, Cascades
  <2>4. status' \in [Leaves -> States] /\ wasComplete' \in BOOLEAN
    BY <2>2 DEF SetStatus, ProgressTypeOK, Cascades
  <2>5. UNCHANGED <<tree, snapshot, move, detector, announced>>
    BY <1>4 DEF CascadeWrite
  <2>6. QED
    BY <2>3, <2>4, <2>5 DEF ProgressTypeOK
<1>5. ASSUME NEW m \in Movers, DetectorStep(m)
      PROVE  ProgressTypeOK'
  <2>1. NoDetector \in Detectors
    BY DEF NoDetector, Detectors, Percents
  <2>2. CASE DetectorCompute(m)
    <3>1. PICK n : n = Percent(Cardinality(DoneOnes(status)), Cardinality(Counting(status)))
      OBVIOUS
    <3>2. n \in Percents
      <4>1. PICK done \in Nat, total \in Nat :
               /\ done = Cardinality(DoneOnes(status)) /\ total = Cardinality(Counting(status))
               /\ done <= total
        BY CountsAre
      <4>2. n \in 0..100
        BY <3>1, <4>1, PercentIs
      <4>3. QED
        BY <4>2 DEF Percents
    <3>3. PICK q \in Detectors : q = detector[m]
      BY DEF ProgressTypeOK
    <3>4. PICK z \in Detectors : z = [q EXCEPT !.pc = "save", !.now = n]
      <4>1. [q EXCEPT !.pc = "save", !.now = n] \in Detectors
        BY <3>2 DEF Detectors
      <4>2. QED
        BY <4>1
    <3>5. detector' = [detector EXCEPT ![m] = z]
      BY <2>2, <3>1, <3>3, <3>4 DEF DetectorCompute, ProgressTypeOK
    <3>6. detector' \in [Movers -> Detectors]
      BY <3>5 DEF ProgressTypeOK
    <3>7. UNCHANGED <<tree, status, snapshot, move, cascade, announced, wasComplete>>
      BY <2>2 DEF DetectorCompute
    <3>8. QED
      BY <3>6, <3>7 DEF ProgressTypeOK
  <2>3. CASE DetectorRead(m)
    <3>1. detector' \in [Movers -> Detectors]
      BY <2>1, <2>3 DEF DetectorRead, ProgressTypeOK, Detectors
    <3>2. QED
      BY <2>3, <3>1 DEF DetectorRead, ProgressTypeOK
  <2>4. CASE DetectorSave(m)
    <3>1. PICK q \in Detectors : q = detector[m]
      BY DEF ProgressTypeOK
    <3>2. [q EXCEPT !.pc = "emit"] \in Detectors /\ q.now \in Percents
      BY DEF Detectors
    <3>3. /\ UNCHANGED <<tree, status, move, cascade, announced, wasComplete>>
          /\ snapshot' = IF q.now # q.last THEN q.now ELSE snapshot
      BY <2>4, <3>1 DEF DetectorSave
    <3>4. detector' = [detector EXCEPT ![m] = IF Emits(q) THEN [q EXCEPT !.pc = "emit"] ELSE NoDetector]
      BY <2>4, <3>1 DEF DetectorSave
    <3>5. detector' \in [Movers -> Detectors]
      BY <2>1, <3>2, <3>4 DEF ProgressTypeOK
    <3>6. QED
      BY <3>2, <3>3, <3>5 DEF ProgressTypeOK
  <2>5. CASE DetectorEmit(m)
    BY <2>1, <2>5 DEF DetectorEmit, ProgressTypeOK
  <2>6. QED
    BY <1>5, <2>2, <2>3, <2>4, <2>5 DEF DetectorStep
<1>6. CASE UNCHANGED progressVars
  BY <1>6 DEF progressVars, ProgressTypeOK
<1>7. QED
  BY <1>1, <1>2, <1>3, <1>4, <1>5, <1>6 DEF ProgressNext, CascadeStep

LEMMA ProgressNextInv ==
    ASSUME IsFiniteSet(Leaves), Cardinality(Leaves) < 200,
           ProgressInv, [ProgressNext]_progressVars
    PROVE  ProgressInv'
<1> USE DEF ProgressInv
<1>1. ASSUME NEW m \in Movers, StatusRequest(m)
      PROVE  ProgressInv'
  <2>1. move' \in [Movers -> Moves] /\ UNCHANGED <<tree, status, snapshot, cascade, detector,
                                                   announced, wasComplete>>
    BY <1>1 DEF StatusRequest, ProgressTypeOK, Moves
  <2>2. QED
    BY <2>1 DEF ProgressTypeOK, CompletionSeen, AllDone, CompletedTruthful
<1>2. ASSUME NEW m \in Movers, StatusWrite(m)
      PROVE  ProgressInv'
  <2>1. PICK o \in Moves : o = move[m]
    BY DEF ProgressTypeOK
  <2>2. o.task \in Leaves /\ o.to \in States
    BY DEF Moves
  <2>3. move' \in [Movers -> Moves]
    BY <1>2 DEF StatusWrite, ProgressTypeOK, Moves
  <2>4. cascade' \in [Movers -> Cascades]
    <3>1. [pc |-> "find", level |-> {o.task}, todo |-> {}, to |-> o.to] \in Cascades
      BY <2>2 DEF Cascades
    <3>2. cascade' = [cascade EXCEPT ![m] = [pc |-> "find", level |-> {o.task}, todo |-> {},
                                             to |-> o.to]]
      BY <1>2, <2>1 DEF StatusWrite
    <3>3. QED
      BY <3>1, <3>2 DEF ProgressTypeOK
  <2>5. /\ detector' \in [Movers -> Detectors]
        /\ \A x \in Movers : /\ detector'[x].now = detector[x].now
                             /\ detector'[x].pc = "emit" => detector[x].pc = "emit"
    <3>1. detector' = detector \/ detector' = [detector EXCEPT ![m].pc = "read"]
      BY <1>2 DEF StatusWrite
    <3>2. QED
      BY <3>1 DEF ProgressTypeOK, Detectors
  <2>6. SetStatus(o.task, o.to) /\ UNCHANGED <<tree, snapshot, announced>>
    BY <1>2, <2>1 DEF StatusWrite
  <2>7. QED
    BY <2>2, <2>3, <2>4, <2>5, <2>6, StatusSet
<1>3. ASSUME NEW m \in Movers, CascadeFind(m)
      PROVE  ProgressInv'
  <2>1. UNCHANGED <<tree, status, snapshot, move, detector, announced, wasComplete>>
    BY <1>3 DEF CascadeFind
  <2>2. PICK q \in Cascades : q = cascade[m]
    BY DEF ProgressTypeOK
  <2>3. PICK below \in SUBSET Leaves : below = ChildrenOf(q.level)
    BY DEF ChildrenOf
  <2>4. NoCascade \in Cascades /\ [q EXCEPT !.pc = "write", !.level = below, !.todo = below] \in Cascades
    BY DEF Cascades, NoCascade, States
  <2>5. cascade' = [cascade EXCEPT ![m] =
                      IF below = {} THEN NoCascade
                      ELSE [q EXCEPT !.pc = "write", !.level = below, !.todo = below]]
    BY <1>3, <2>2, <2>3 DEF CascadeFind
  <2>6. cascade' \in [Movers -> Cascades]
    BY <2>4, <2>5 DEF ProgressTypeOK
  <2>7. QED
    BY <2>1, <2>6 DEF ProgressTypeOK, CompletionSeen, AllDone, CompletedTruthful
<1>4. ASSUME NEW m \in Movers, CascadeWrite(m)
      PROVE  ProgressInv'
  <2>1. PICK q \in Cascades : q = cascade[m]
    BY DEF ProgressTypeOK
  <2>2. PICK t \in q.todo :
           /\ SetStatus(t, q.to)
           /\ cascade' = [cascade EXCEPT ![m].todo = @ \ {t},
                                         ![m].pc = IF cascade[m].todo = {t} THEN "find"
                                                   ELSE "write"]
    BY <1>4, <2>1 DEF CascadeWrite
  <2>3. t \in Leaves /\ q.to \in States
    BY DEF Cascades
  <2>4. cascade' \in [Movers -> Cascades]
    BY <2>2 DEF ProgressTypeOK, Cascades
  <2>5. UNCHANGED <<tree, snapshot, move, detector, announced>>
    BY <1>4 DEF CascadeWrite
  <2>6. move' \in [Movers -> Moves] /\ detector' \in [Movers -> Detectors]
    BY <2>5 DEF ProgressTypeOK
  <2>7. QED
    BY <2>2, <2>3, <2>4, <2>5, <2>6, StatusSet
<1>5. ASSUME NEW m \in Movers, DetectorStep(m)
      PROVE  ProgressInv'
  <2>1. PICK q \in Detectors : q = detector[m]
    BY DEF ProgressTypeOK
  <2>2. /\ snapshot \in Percents /\ announced \in BOOLEAN
        /\ NoDetector \in Detectors /\ NoDetector.pc # "emit" /\ NoDetector.now # 100
        /\ q.pc = "emit" => q.now = 100
        /\ q.now = 100 \/ snapshot = 100 \/ announced => wasComplete
    BY <2>1
       DEF ProgressTypeOK, NoDetector, Detectors, Percents, CompletionSeen, CompletedTruthful
  <2>3. CASE DetectorRead(m)
    <3>1. CASE snapshot = 100
      <4>1. detector' = [detector EXCEPT ![m] = NoDetector]
        BY <2>3, <3>1 DEF DetectorRead
      <4>2. UNCHANGED <<tree, status, snapshot, move, cascade, announced, wasComplete>>
        BY <2>3 DEF DetectorRead
      <4>3. /\ snapshot' \in Percents /\ announced' \in BOOLEAN
            /\ (snapshot' = 100 => wasComplete) /\ (announced' => wasComplete)
        BY <2>2, <4>2
      <4>4. QED
        BY <2>2, <4>1, <4>2, <4>3, DetectorGoes
    <3>2. CASE snapshot # 100
      <4>1. PICK z \in Detectors : z = [q EXCEPT !.pc = "compute", !.last = snapshot]
        BY <2>2 DEF Detectors
      <4>2. z.pc = "compute" /\ z.now = q.now
        BY <4>1 DEF Detectors
      <4>3. detector' = [detector EXCEPT ![m] = z]
        BY <2>1, <2>3, <3>2, <4>1 DEF DetectorRead
      <4>4. QED
        BY <2>2, <2>3, <4>2, <4>3, DetectorGoes DEF DetectorRead
    <3>3. QED
      BY <3>1, <3>2
  <2>4. CASE DetectorCompute(m)
    <3>1. PICK n \in 0..100 :
             /\ n = Percent(Cardinality(DoneOnes(status)), Cardinality(Counting(status)))
             /\ n = 100 => \A t \in Leaves : status[t] = "DONE" \/ status[t] = "CANCELLED"
      <4>1. PICK done \in Nat, total \in Nat :
               /\ done = Cardinality(DoneOnes(status)) /\ total = Cardinality(Counting(status))
               /\ done <= total /\ total < 200
               /\ done = total => \A t \in Leaves : status[t] = "DONE" \/ status[t] = "CANCELLED"
        BY CountsAre
      <4>2. QED
        BY <4>1, PercentIs
    <3>2. n = 100 => wasComplete
      BY <3>1 DEF CompletionSeen, AllDone
    <3>3. n \in Percents
      BY DEF Percents
    <3>4. PICK z \in Detectors : z = [q EXCEPT !.pc = "save", !.now = n]
      <4>1. [q EXCEPT !.pc = "save", !.now = n] \in Detectors
        BY <3>3 DEF Detectors
      <4>2. QED
        BY <4>1
    <3>5. z.pc = "save" /\ z.now = n
      BY <3>4 DEF Detectors
    <3>6. detector' = [detector EXCEPT ![m] = z]
      BY <2>1, <2>4, <3>1, <3>4 DEF DetectorCompute, ProgressTypeOK
    <3>7. UNCHANGED <<tree, status, snapshot, move, cascade, announced, wasComplete>>
      BY <2>4 DEF DetectorCompute
    <3>8. /\ snapshot' \in Percents /\ announced' \in BOOLEAN
          /\ (snapshot' = 100 => wasComplete) /\ (announced' => wasComplete)
      BY <2>2, <3>7
    <3>9. QED
      BY <3>2, <3>5, <3>6, <3>7, <3>8, DetectorGoes
  <2>5. CASE DetectorSave(m)
    <3>1. /\ UNCHANGED <<tree, status, move, cascade, announced, wasComplete>>
          /\ snapshot' = IF q.now # q.last THEN q.now ELSE snapshot
      BY <2>1, <2>5 DEF DetectorSave
    <3>2. snapshot' \in Percents /\ (snapshot' = 100 => wasComplete)
      BY <2>2, <3>1 DEF Detectors
    <3>3. CASE Emits(q)
      <4>1. PICK z \in Detectors : z = [q EXCEPT !.pc = "emit"]
        BY DEF Detectors
      <4>2. z.pc = "emit" /\ z.now = 100 /\ wasComplete
        BY <2>2, <3>3, <4>1 DEF Detectors, Emits
      <4>3. detector' = [detector EXCEPT ![m] = z]
        BY <2>1, <2>5, <3>3, <4>1 DEF DetectorSave
      <4>4. QED
        BY <2>2, <3>1, <3>2, <4>2, <4>3, DetectorGoes
    <3>4. CASE ~Emits(q)
      <4>1. detector' = [detector EXCEPT ![m] = NoDetector]
        BY <2>1, <2>5, <3>4 DEF DetectorSave
      <4>2. QED
        BY <2>2, <3>1, <3>2, <4>1, DetectorGoes
    <3>5. QED
      BY <3>3, <3>4
  <2>6. CASE DetectorEmit(m)
    <3>1. /\ UNCHANGED <<tree, status, snapshot, move, cascade, wasComplete>>
          /\ announced' \in BOOLEAN /\ detector' = [detector EXCEPT ![m] = NoDetector]
          /\ q.pc = "emit"
      BY <2>1, <2>6 DEF DetectorEmit
    <3>2. QED
      BY <2>2, <3>1, DetectorGoes
  <2>7. QED
    BY <1>5, <2>3, <2>4, <2>5, <2>6 DEF DetectorStep
<1>6. CASE UNCHANGED progressVars
  BY <1>6 DEF progressVars, ProgressTypeOK, CompletionSeen, AllDone, CompletedTruthful
<1>7. QED
  BY <1>1, <1>2, <1>3, <1>4, <1>5, <1>6 DEF ProgressNext, CascadeStep

\* phase.completed is emitted, and 100 saved, only after a moment at which no task of the
\* phase was open; for any tree of fewer than 200 tasks (from there on, PercentRounds).
THEOREM CompletionsAreTrue ==
    ASSUME IsFiniteSet(Leaves), Cardinality(Leaves) < 200
    PROVE  ProgressSpec => []CompletedTruthful
<1>1. ProgressInv /\ [ProgressNext]_progressVars => ProgressInv'
  BY ProgressNextInv
<1>2. ProgressInv => CompletedTruthful
  BY DEF ProgressInv
<1>3. QED
  BY <1>1, <1>2, ProgressInitInv, PTL DEF ProgressSpec

-----------------------------------------------------------------------------
(* Backfill.                                                               *)

\* A key is used up to seq; what is under it says whether a mirror is or was there.
KeysKnown ==
    \A e \in EntityKeys : /\ entity[e] = "none" <=> e > seq
                          /\ entity[e] = "mirror" => mirrorOf[e] # NoEntity
                          /\ entity[e] \in {"none", "other"} => mirrorOf[e] = NoEntity

\* e is, or was, a mirror of p, or of the project whose mirror p began with.
WasMirror(e, p) == entity[e] # "none" /\ mirrorOf[e] \in {p, source[p]}
PointersKnown ==
    /\ \A p \in Olds : ptr[p] # NoEntity => WasMirror(ptr[p], p)
    /\ \A p \in Olds \ born : ptr[p] = NoEntity /\ source[p] = p
    /\ app = NoApp \/ app.p \in born
    /\ app.read # NoEntity => WasMirror(app.read, app.p)

\* The pointer of a project names its living mirror, if it has one.
MirrorsPointed ==
    \A p \in Olds \ outrun, e \in EntityKeys :
        entity[e] = "mirror" /\ mirrorOf[e] = p => e = ptr[p]

\* A row is about the key of its project, or about something that is or was a mirror.
ValuesKnown ==
    \A w \in ScopeRows :
        value[w] # NoEntity => /\ entity[value[w]] # "none"
                               /\ value[w] = of[w] \/ mirrorOf[value[w]] # NoEntity

\* What a run knows: mirrors of its projects, and rows that it alone may write, as they are.
\* A row is about to be moved only if no entity stands under the key it names.
RunKnown(s, q) ==
    /\ q.projects \subseteq live
    /\ \A p \in Olds : /\ q.read[p] # NoEntity => WasMirror(q.read[p], p)
                       /\ q.mirror[p] # NoEntity => WasMirror(q.mirror[p], p)
    /\ q.pc = "create" => q.projects # {} /\ ~MirrorAlive(q.read[NextProject(q.projects)])
    /\ q.pc \in {"rows", "write"} =>
          \A w \in q.rows : FamilyOf[w] = s /\ value[w] # NoEntity /\ q.seen[w] = value[w]
    /\ q.pc = "write" => /\ q.row \in ScopeRows \ q.rows /\ FamilyOf[q.row] = s
                         /\ value[q.row] # NoEntity /\ q.seen[q.row] = value[q.row]
                         /\ value[q.row] \in live /\ entity[value[q.row]] = "deleted"
                         /\ q.mirror[value[q.row]] # NoEntity

\* While nobody else writes, what a run read of the pointers is true, and the rows it has
\* behind it are accounted for.
BehindIt(s, q) == {w \in ScopeRows : /\ FamilyOf[w] = s /\ value[w] # NoEntity
                                     /\ w \notin q.rows /\ (q.pc = "write" => w # q.row)}
AccountedIn(q, w) ==
    \/ w \in q.told
    \/ value[w] = ptr[of[w]]
    \/ of[w] \notin live \ outrun
    \/ mirrorOf[value[w]] \notin {of[w], NoEntity}
AloneKnown(s, q) ==
    q.pc # "idle" /\ q.apply /\ q.alone =>
        /\ \A p \in q.projects : q.read[p] = ptr[p]
        /\ \A p \in Olds : q.mirror[p] # NoEntity => q.mirror[p] = ptr[p] /\ MirrorAlive(ptr[p])
        /\ q.pc \in {"rows", "write"} => \A w \in BehindIt(s, q) : AccountedIn(q, w)

BackfillInv ==
    /\ BackfillTypeOK /\ KeysKnown /\ PointersKnown /\ MirrorsPointed /\ ValuesKnown
    /\ \A s \in Scripts : RunKnown(s, script[s]) /\ AloneKnown(s, script[s])

LEMMA RunRecords ==
    /\ NoRun \in ScriptRuns /\ NoRun.pc = "idle" /\ NoRun.alone = TRUE /\ NoRun.rows = {}
    /\ NoRun.projects = {} /\ NoRun.told = {}
    /\ \A p \in Olds : NoRun.read[p] = NoEntity /\ NoRun.mirror[p] = NoEntity
    /\ NoApp.p = NoEntity /\ NoApp.read = NoEntity
BY DEF NoRun, ScriptRuns, NoApp

LEMMA LeastKey ==
    ASSUME NEW S \in SUBSET Olds, S # {}
    PROVE  NextProject(S) \in S
<1>1. S \subseteq Nat
    BY BackfillAssumption
<1>2. \E p \in S : \A q \in S : p <= q
  <2>1. IsWellFoundedOn(OpToRel(<, Nat), Nat)
      BY NatLessThanWellFounded
  <2>2. PICK p \in S : \A q \in S : ~(<<q, p>> \in OpToRel(<, Nat))
      BY <1>1, <2>1, WFMin, Zenon
  <2>3. \A q \in S : ~(q < p)
      BY <1>1, <2>2 DEF OpToRel
  <2> QED BY <1>1, <2>3
<1> QED BY <1>2 DEF NextProject

LEMMA BackfillInitInv == BackfillInit => BackfillInv
<1> SUFFICES ASSUME BackfillInit PROVE BackfillInv
    OBVIOUS
<1>1. PICK k \in Olds \cup {0}, n \in Olds, D \in SUBSET Olds :
        /\ born = {p \in Olds : p <= n} /\ live = born \ D /\ live # {}
        /\ seq = k
        /\ entity = [e \in EntityKeys |-> IF e <= k THEN "other" ELSE "none"]
        /\ mirrorOf = [e \in EntityKeys |-> NoEntity]
        /\ ptr = [p \in Olds |-> NoEntity]
        /\ value = [w \in ScopeRows |-> NoEntity]
        /\ of = [w \in ScopeRows |-> NoEntity]
        /\ script = [s \in Scripts |-> NoRun]
        /\ app = NoApp
        /\ outrun = {}
        /\ source = [p \in Olds |-> p]
    BY DEF BackfillInit
<1>2. k \in 0..MaxKey
    BY BackfillAssumption
<1>3. BackfillTypeOK
    BY <1>1, <1>2, RunRecords DEF BackfillTypeOK, NoApp
<1>4. KeysKnown /\ PointersKnown /\ MirrorsPointed /\ ValuesKnown
  <2>1. KeysKnown
      BY <1>1, <1>2, BackfillAssumption DEF KeysKnown, EntityKeys
  <2> QED BY <1>1, <2>1, RunRecords DEF PointersKnown, MirrorsPointed, ValuesKnown
<1>5. \A s \in Scripts : RunKnown(s, script[s]) /\ AloneKnown(s, script[s])
    BY <1>1, RunRecords DEF RunKnown, AloneKnown
<1> QED BY <1>3, <1>4, <1>5 DEF BackfillInv

\* A step of one run that writes no table.
LEMMA BecomesInv ==
    ASSUME BackfillInv, NEW s \in Scripts, NEW q \in ScriptRuns, Becomes(s, q),
           RunKnown(s, q), AloneKnown(s, q)
    PROVE  BackfillInv'
<1>1. /\ script' \in [Scripts -> ScriptRuns] /\ script'[s] = q
      /\ \A x \in Scripts : x # s => script'[x] = script[x]
      /\ UNCHANGED <<born, live, seq, entity, mirrorOf, ptr, value, of, app, outrun, source>>
    BY DEF Becomes, After, BackfillInv, BackfillTypeOK
<1>2. \A x \in Scripts : RunKnown(x, script'[x]) /\ AloneKnown(x, script'[x])
    BY <1>1 DEF BackfillInv
<1>3. \A x \in Scripts : RunKnown(x, script[x])' /\ AloneKnown(x, script[x])'
    BY <1>1, <1>2 DEF RunKnown, WasMirror, MirrorAlive, AloneKnown, BehindIt, AccountedIn
<1>4. BackfillTypeOK'
    BY <1>1 DEF BackfillInv, BackfillTypeOK
<1>5. KeysKnown' /\ PointersKnown' /\ MirrorsPointed' /\ ValuesKnown'
    BY <1>1 DEF BackfillInv, KeysKnown, PointersKnown, WasMirror, MirrorsPointed, ValuesKnown
<1> QED BY <1>3, <1>4, <1>5 DEF BackfillInv

LEMMA StartRunInv == ASSUME BackfillInv, NEW s \in Scripts, StartRun(s) PROVE BackfillInv'
<1>1. PICK a \in BOOLEAN :
          Becomes(s, [NoRun EXCEPT !.pc = "projects", !.apply = a, !.projects = live,
                                   !.read = [p \in Olds |-> IF p \in live THEN ptr[p] ELSE NoEntity]])
    BY DEF StartRun
<1> DEFINE reads == [p \in Olds |-> IF p \in live THEN ptr[p] ELSE NoEntity]
           q     == [NoRun EXCEPT !.pc = "projects", !.apply = a, !.projects = live, !.read = reads]
<1>2. BackfillTypeOK /\ PointersKnown
    BY DEF BackfillInv
<1>3. reads \in [Olds -> EntityKeys \cup {NoEntity}]
    BY <1>2 DEF BackfillTypeOK
<1>4. /\ q \in ScriptRuns /\ q.pc = "projects" /\ q.projects = live /\ q.read = reads
      /\ q.mirror = [p \in Olds |-> NoEntity]
    BY <1>2, <1>3 DEF BackfillTypeOK, NoRun, ScriptRuns
<1>5. RunKnown(s, q)
    BY <1>2, <1>4 DEF RunKnown, PointersKnown
<1>6. AloneKnown(s, q)
    BY <1>2, <1>4 DEF AloneKnown, BackfillTypeOK
<1> QED BY <1>1, <1>4, <1>5, <1>6, BecomesInv

\* The record of a run, and what is known of it.
LEMMA RunIs ==
    ASSUME BackfillInv, NEW s \in Scripts
    PROVE  script[s] \in ScriptRuns /\ RunKnown(s, script[s]) /\ AloneKnown(s, script[s])
BY DEF BackfillInv, BackfillTypeOK

LEMMA VisitProjectInv == ASSUME BackfillInv, NEW s \in Scripts, VisitProject(s) PROVE BackfillInv'
<1>1. PICK q : q = script[s]
    OBVIOUS
<1>2. q \in ScriptRuns /\ RunKnown(s, q) /\ AloneKnown(s, q) /\ q.pc = "projects" /\ q.projects # {}
    BY <1>1, RunIs DEF VisitProject
<1>3. PICK p : p = NextProject(q.projects)
    OBVIOUS
<1>4. p \in q.projects /\ p \in Olds
    BY <1>2, <1>3, LeastKey DEF ScriptRuns
<1>5. CASE MirrorAlive(q.read[p])
  <2> DEFINE n == [q EXCEPT !.projects = q.projects \ {p}, !.mirror[p] = q.read[p]]
  <2>1. Becomes(s, n)
      BY <1>1, <1>3, <1>5 DEF VisitProject
  <2>2. /\ n \in ScriptRuns /\ n.pc = "projects" /\ n.projects = q.projects \ {p}
        /\ n.read = q.read /\ n.mirror = [q.mirror EXCEPT ![p] = q.read[p]]
        /\ n.apply = q.apply /\ n.alone = q.alone
      BY <1>2, <1>4 DEF ScriptRuns
  <2>3. /\ n.mirror[p] = q.read[p] /\ \A x \in Olds : x # p => n.mirror[x] = q.mirror[x]
      BY <1>2, <1>4, <2>2 DEF ScriptRuns
  <2> HIDE DEF n
  <2>4. RunKnown(s, n)
      BY <1>2, <1>4, <2>2, <2>3 DEF RunKnown
  <2>5. AloneKnown(s, n)
      BY <1>2, <1>4, <1>5, <2>2, <2>3 DEF AloneKnown
  <2> QED BY <2>1, <2>2, <2>4, <2>5, BecomesInv
<1>6. CASE ~MirrorAlive(q.read[p]) /\ q.apply
  <2> DEFINE n == [q EXCEPT !.pc = "create"]
  <2>1. Becomes(s, n)
      BY <1>1, <1>3, <1>6 DEF VisitProject
  <2>2. /\ n \in ScriptRuns /\ n.pc = "create" /\ n.projects = q.projects /\ n.read = q.read
        /\ n.mirror = q.mirror /\ n.apply = q.apply /\ n.alone = q.alone
      BY <1>2 DEF ScriptRuns
  <2> HIDE DEF n
  <2>3. RunKnown(s, n)
      BY <1>2, <1>3, <1>6, <2>2 DEF RunKnown
  <2>4. AloneKnown(s, n)
      BY <1>2, <2>2 DEF AloneKnown
  <2> QED BY <2>1, <2>2, <2>3, <2>4, BecomesInv
<1>7. CASE ~MirrorAlive(q.read[p]) /\ ~q.apply
  <2> DEFINE n == [q EXCEPT !.projects = q.projects \ {p}]
  <2>1. Becomes(s, n)
      BY <1>1, <1>3, <1>7 DEF VisitProject
  <2>2. /\ n \in ScriptRuns /\ n.pc = "projects" /\ n.projects = q.projects \ {p} /\ n.read = q.read
        /\ n.mirror = q.mirror /\ n.apply = q.apply
      BY <1>2 DEF ScriptRuns
  <2> HIDE DEF n
  <2>3. RunKnown(s, n)
      BY <1>2, <2>2 DEF RunKnown
  <2>4. AloneKnown(s, n)
      BY <1>7, <2>2 DEF AloneKnown
  <2> QED BY <2>1, <2>2, <2>3, <2>4, BecomesInv
<1> QED BY <1>5, <1>6, <1>7

LEMMA CreateFailsInv == ASSUME BackfillInv, NEW s \in Scripts, CreateFails(s) PROVE BackfillInv'
<1>1. PICK q : q = script[s]
    OBVIOUS
<1>2. q \in ScriptRuns /\ RunKnown(s, q) /\ AloneKnown(s, q) /\ q.pc = "create"
    BY <1>1, RunIs DEF CreateFails
<1>3. PICK p : p = NextProject(q.projects)
    OBVIOUS
<1> DEFINE n == [q EXCEPT !.pc = "projects", !.projects = q.projects \ {p}]
<1>4. Becomes(s, n)
    BY <1>1, <1>3 DEF CreateFails
<1>5. /\ n \in ScriptRuns /\ n.pc = "projects" /\ n.projects = q.projects \ {p} /\ n.read = q.read
      /\ n.mirror = q.mirror /\ n.apply = q.apply /\ n.alone = q.alone
    BY <1>2 DEF ScriptRuns
<1> HIDE DEF n
<1>6. RunKnown(s, n) /\ AloneKnown(s, n)
    BY <1>2, <1>5 DEF RunKnown, AloneKnown
<1> QED BY <1>4, <1>5, <1>6, BecomesInv

LEMMA ReadRowsInv == ASSUME BackfillInv, NEW s \in Scripts, ReadRows(s) PROVE BackfillInv'
<1>1. PICK q : q = script[s]
    OBVIOUS
<1>2. q \in ScriptRuns /\ RunKnown(s, q) /\ AloneKnown(s, q) /\ q.pc = "projects" /\ q.projects = {}
    BY <1>1, RunIs DEF ReadRows
<1> DEFINE found == {w \in ScopeRows : FamilyOf[w] = s /\ value[w] # NoEntity}
           sees  == [w \in ScopeRows |-> IF w \in found THEN value[w] ELSE NoEntity]
           n     == [q EXCEPT !.pc = "rows", !.rows = found, !.seen = sees]
<1>3. Becomes(s, n)
    BY <1>1 DEF ReadRows
<1>4. sees \in [ScopeRows -> EntityKeys \cup {NoEntity}] /\ found \in SUBSET ScopeRows
    BY DEF BackfillInv, BackfillTypeOK
<1>5. /\ n \in ScriptRuns /\ n.pc = "rows" /\ n.projects = {} /\ n.read = q.read /\ n.mirror = q.mirror
      /\ n.apply = q.apply /\ n.alone = q.alone /\ n.rows = found /\ n.seen = sees
    BY <1>2, <1>4 DEF ScriptRuns
<1>6. \A w \in found : FamilyOf[w] = s /\ value[w] # NoEntity /\ sees[w] = value[w]
    OBVIOUS
<1>7. BehindIt(s, n) = {}
    BY <1>5 DEF BehindIt
<1> HIDE DEF n, found, sees
<1>8. RunKnown(s, n)
    BY <1>2, <1>5, <1>6 DEF RunKnown
<1>9. AloneKnown(s, n)
    BY <1>2, <1>5, <1>7 DEF AloneKnown
<1> QED BY <1>3, <1>5, <1>8, <1>9, BecomesInv

LEMMA FinishRunInv == ASSUME BackfillInv, NEW s \in Scripts, Becomes(s, NoRun) PROVE BackfillInv'
<1>1. RunKnown(s, NoRun) /\ AloneKnown(s, NoRun)
    BY RunRecords DEF RunKnown, AloneKnown
<1> QED BY <1>1, RunRecords, BecomesInv

\* classifyValue, on a key of DEntidade.
LEMMA KindIs ==
    ASSUME BackfillTypeOK, NEW v \in EntityKeys
    PROVE  /\ Kind(v) = "projeto" <=> entity[v] \notin {"mirror", "other"} /\ v \in live
           /\ Kind(v) \notin {"ambiguo", "desconhecido", "projeto", "entidade"} => entity[v] = "mirror"
           /\ Kind(v) = "entidade" => entity[v] = "other" /\ v \notin live
<1>1. entity[v] \in {"none", "other", "mirror", "deleted"}
    BY DEF BackfillTypeOK
<1>2. CASE entity[v] = "mirror"
    BY <1>2 DEF Kind
<1>3. CASE entity[v] = "other" /\ v \in live
    BY <1>3 DEF Kind
<1>4. CASE entity[v] = "other" /\ v \notin live
    BY <1>4 DEF Kind
<1>5. CASE entity[v] \notin {"mirror", "other"} /\ v \in live
  <2>1. Kind(v) = "projeto"
      BY <1>5 DEF Kind
  <2> QED BY <1>5, <2>1
<1>6. CASE entity[v] \notin {"mirror", "other"} /\ v \notin live
  <2>1. Kind(v) = "desconhecido"
      BY <1>6 DEF Kind
  <2> QED BY <1>6, <2>1
<1> QED BY <1>2, <1>3, <1>4, <1>5, <1>6

\* A row a run leaves as it is, without a word, is accounted for.
LEMMA LeftInPlace ==
    ASSUME BackfillInv, NEW w \in ScopeRows, value[w] # NoEntity,
           ~Reported(FamilyOf[w], value[w]), Kind(value[w]) # "projeto"
    PROVE  \/ value[w] = ptr[of[w]]
           \/ of[w] \notin live \ outrun
           \/ mirrorOf[value[w]] \notin {of[w], NoEntity}
<1>1. PICK v : v = value[w]
    OBVIOUS
<1>2. /\ v \in EntityKeys /\ BackfillTypeOK /\ KeysKnown /\ MirrorsPointed /\ ValuesKnown
    BY <1>1 DEF BackfillInv, BackfillTypeOK
<1>3. CASE Kind(v) = "entidade"
  <2>1. entity[v] = "other" /\ v \notin live
      BY <1>2, <1>3, KindIs
  <2>2. v = of[w]
      BY <1>1, <1>2, <2>1 DEF KeysKnown, ValuesKnown
  <2> QED BY <2>1, <2>2
<1>4. CASE Kind(v) # "entidade"
  <2>1. entity[v] = "mirror"
      BY <1>1, <1>2, <1>4, KindIs DEF Reported
  <2>2. mirrorOf[v] # NoEntity /\ live \subseteq Olds
      BY <1>2, <2>1 DEF KeysKnown, BackfillTypeOK
  <2>3. of[w] \in live \ outrun /\ mirrorOf[v] = of[w] => v = ptr[of[w]]
      BY <1>2, <2>1, <2>2 DEF MirrorsPointed
  <2> QED BY <1>1, <2>2, <2>3
<1> QED BY <1>3, <1>4

LEMMA VisitRowInv == ASSUME BackfillInv, NEW s \in Scripts, VisitRow(s) PROVE BackfillInv'
<1>1. PICK q : q = script[s]
    OBVIOUS
<1>2. q \in ScriptRuns /\ RunKnown(s, q) /\ AloneKnown(s, q) /\ q.pc = "rows"
    BY <1>1, RunIs DEF VisitRow
<1>3. PICK w \in q.rows :
          Becomes(s, IF Reported(s, q.seen[w])
                          \/ (Kind(q.seen[w]) = "projeto" /\ q.apply /\ q.mirror[q.seen[w]] = NoEntity)
                     THEN [[q EXCEPT !.rows = q.rows \ {w}] EXCEPT !.told = q.told \cup {w}]
                     ELSE IF Kind(q.seen[w]) = "projeto" /\ q.apply
                     THEN [[q EXCEPT !.rows = q.rows \ {w}] EXCEPT !.pc = "write", !.row = w]
                     ELSE [q EXCEPT !.rows = q.rows \ {w}])
    BY <1>1 DEF VisitRow
<1>4. PICK v : v = value[w]
    OBVIOUS
<1>5. /\ w \in ScopeRows /\ FamilyOf[w] = s /\ v # NoEntity /\ q.seen[w] = v
      /\ v \in EntityKeys /\ entity[v] # "none"
  <2>1. w \in ScopeRows /\ FamilyOf[w] = s /\ v # NoEntity /\ q.seen[w] = v
      BY <1>2, <1>4 DEF ScriptRuns, RunKnown
  <2> QED BY <1>4, <2>1 DEF BackfillInv, BackfillTypeOK, ValuesKnown
<1>6. CASE Reported(s, v) \/ (Kind(v) = "projeto" /\ q.apply /\ q.mirror[v] = NoEntity)
  <2> DEFINE n == [[q EXCEPT !.rows = q.rows \ {w}] EXCEPT !.told = q.told \cup {w}]
  <2>1. Becomes(s, n)
      BY <1>3, <1>5, <1>6
  <2>2. /\ n \in ScriptRuns /\ n.pc = "rows" /\ n.projects = q.projects /\ n.read = q.read
        /\ n.mirror = q.mirror /\ n.apply = q.apply /\ n.alone = q.alone
        /\ n.rows = q.rows \ {w} /\ n.seen = q.seen /\ n.told = q.told \cup {w}
      BY <1>2, <1>5 DEF ScriptRuns
  <2> HIDE DEF n
  <2>3. RunKnown(s, n)
      BY <1>2, <2>2 DEF RunKnown
  <2>4. AloneKnown(s, n)
    <3>1. \A x \in BehindIt(s, n) : x = w \/ x \in BehindIt(s, q)
        BY <1>2, <2>2 DEF BehindIt
    <3> QED BY <1>2, <2>2, <3>1 DEF AloneKnown, AccountedIn
  <2> QED BY <2>1, <2>2, <2>3, <2>4, BecomesInv
<1>7. CASE /\ ~(Reported(s, v) \/ (Kind(v) = "projeto" /\ q.apply /\ q.mirror[v] = NoEntity))
           /\ Kind(v) = "projeto" /\ q.apply
  <2> DEFINE n == [[q EXCEPT !.rows = q.rows \ {w}] EXCEPT !.pc = "write", !.row = w]
  <2>1. Becomes(s, n)
      BY <1>3, <1>5, <1>7
  <2>2. /\ n \in ScriptRuns /\ n.pc = "write" /\ n.projects = q.projects /\ n.read = q.read
        /\ n.mirror = q.mirror /\ n.apply = q.apply /\ n.alone = q.alone
        /\ n.rows = q.rows \ {w} /\ n.seen = q.seen /\ n.told = q.told /\ n.row = w
      BY <1>2, <1>5 DEF ScriptRuns
  <2>3. v \in live /\ entity[v] = "deleted" /\ q.mirror[v] # NoEntity
    <3>1. BackfillTypeOK /\ entity[v] \in {"none", "other", "mirror", "deleted"}
        BY <1>5 DEF BackfillInv, BackfillTypeOK
    <3> QED BY <1>5, <1>7, <3>1, KindIs
  <2> HIDE DEF n
  <2>4. RunKnown(s, n)
      BY <1>2, <1>4, <1>5, <2>2, <2>3 DEF RunKnown
  <2>5. AloneKnown(s, n)
    <3>1. BehindIt(s, n) \subseteq BehindIt(s, q)
        BY <1>2, <2>2 DEF BehindIt
    <3> QED BY <1>2, <2>2, <3>1 DEF AloneKnown, AccountedIn
  <2> QED BY <2>1, <2>2, <2>4, <2>5, BecomesInv
<1>8. CASE /\ ~(Reported(s, v) \/ (Kind(v) = "projeto" /\ q.apply /\ q.mirror[v] = NoEntity))
           /\ ~(Kind(v) = "projeto" /\ q.apply)
  <2> DEFINE n == [q EXCEPT !.rows = q.rows \ {w}]
  <2>1. Becomes(s, n)
      BY <1>3, <1>5, <1>8
  <2>2. /\ n \in ScriptRuns /\ n.pc = "rows" /\ n.projects = q.projects /\ n.read = q.read
        /\ n.mirror = q.mirror /\ n.apply = q.apply /\ n.alone = q.alone
        /\ n.rows = q.rows \ {w} /\ n.seen = q.seen /\ n.told = q.told
      BY <1>2, <1>5 DEF ScriptRuns
  <2> HIDE DEF n
  <2>3. RunKnown(s, n)
      BY <1>2, <2>2 DEF RunKnown
  <2>4. AloneKnown(s, n)
    <3>1. \A x \in BehindIt(s, n) : x = w \/ x \in BehindIt(s, q)
        BY <1>2, <2>2 DEF BehindIt
    <3>2. n.apply => AccountedIn(n, w)
        BY <1>4, <1>5, <1>8, <2>2, LeftInPlace DEF AccountedIn
    <3> QED BY <1>2, <2>2, <3>1, <3>2 DEF AloneKnown, AccountedIn
  <2> QED BY <2>1, <2>2, <2>3, <2>4, BecomesInv
<1> QED BY <1>6, <1>7, <1>8

\* A row is told in the report, and the run goes on.
LEMMA VisitFailsInv == ASSUME BackfillInv, NEW s \in Scripts, VisitFails(s) PROVE BackfillInv'
<1>1. PICK q : q = script[s]
    OBVIOUS
<1>2. q \in ScriptRuns /\ RunKnown(s, q) /\ AloneKnown(s, q) /\ q.pc = "rows"
    BY <1>1, RunIs DEF VisitFails
<1>3. PICK w \in q.rows : Becomes(s, [q EXCEPT !.rows = q.rows \ {w}, !.told = q.told \cup {w}])
    BY <1>1 DEF VisitFails
<1> DEFINE n == [q EXCEPT !.rows = q.rows \ {w}, !.told = q.told \cup {w}]
<1>4. /\ n \in ScriptRuns /\ n.pc = "rows" /\ n.projects = q.projects /\ n.read = q.read
      /\ n.mirror = q.mirror /\ n.apply = q.apply /\ n.alone = q.alone
      /\ n.rows = q.rows \ {w} /\ n.seen = q.seen /\ n.told = q.told \cup {w}
    BY <1>2 DEF ScriptRuns
<1>5. Becomes(s, n)
    BY <1>3
<1> HIDE DEF n
<1>6. RunKnown(s, n)
    BY <1>2, <1>4 DEF RunKnown
<1>7. AloneKnown(s, n)
  <2>1. \A x \in BehindIt(s, n) : x = w \/ x \in BehindIt(s, q)
      BY <1>2, <1>4 DEF BehindIt
  <2> QED BY <1>2, <1>4, <2>1 DEF AloneKnown, AccountedIn
<1> QED BY <1>4, <1>5, <1>6, <1>7, BecomesInv

LEMMA RepairFailsInv == ASSUME BackfillInv, NEW s \in Scripts, RepairFails(s) PROVE BackfillInv'
<1>1. PICK q : q = script[s]
    OBVIOUS
<1>2. q \in ScriptRuns /\ RunKnown(s, q) /\ AloneKnown(s, q) /\ q.pc = "write"
    BY <1>1, RunIs DEF RepairFails
<1> DEFINE n == [q EXCEPT !.pc = "rows", !.row = NoRow, !.told = q.told \cup {q.row}]
<1>3. q.row \in ScopeRows /\ Becomes(s, n)
    BY <1>1, <1>2 DEF RepairFails, RunKnown
<1>4. /\ n \in ScriptRuns /\ n.pc = "rows" /\ n.projects = q.projects /\ n.read = q.read
      /\ n.mirror = q.mirror /\ n.apply = q.apply /\ n.alone = q.alone
      /\ n.rows = q.rows /\ n.seen = q.seen /\ n.told = q.told \cup {q.row}
    BY <1>2, <1>3 DEF ScriptRuns
<1> HIDE DEF n
<1>5. RunKnown(s, n)
    BY <1>2, <1>4 DEF RunKnown
<1>6. AloneKnown(s, n)
  <2>1. \A x \in BehindIt(s, n) : x = q.row \/ x \in BehindIt(s, q)
      BY <1>2, <1>4 DEF BehindIt
  <2> QED BY <1>2, <1>4, <2>1 DEF AloneKnown, AccountedIn
<1> QED BY <1>3, <1>4, <1>5, <1>6, BecomesInv

\* What the writes of anybody leave: projects stay, and what they began with; keys stay
\* taken, and are deleted for good; a mirror stays one of its project.  Nobody but script x
\* changes what is in the rows of its table.
TablesGrow ==
    /\ live \subseteq live'
    /\ \A p \in Olds : source'[p] = source[p] \/ source[p] = p
    /\ \A e \in EntityKeys :
          /\ entity[e] # "none" => entity'[e] # "none" /\ mirrorOf'[e] = mirrorOf[e]
          /\ entity[e] = "deleted" => entity'[e] = "deleted"
          /\ entity[e] # "none" /\ entity'[e] = "mirror" => entity[e] = "mirror"
RowsStay(x) ==
    \A w \in ScopeRows : FamilyOf[w] = x /\ value[w] # NoEntity => value'[w] = value[w]

LEMMA RunStaysKnown ==
    ASSUME BackfillInv, NEW x \in Scripts, NEW q \in ScriptRuns, RunKnown(x, q), TablesGrow, RowsStay(x)
    PROVE  RunKnown(x, q)'
<1>1. /\ \A p \in Olds : /\ q.read[p] \in EntityKeys \cup {NoEntity}
                         /\ q.mirror[p] \in EntityKeys \cup {NoEntity}
      /\ q.projects \subseteq Olds /\ q.rows \subseteq ScopeRows
    BY DEF ScriptRuns
<1>2. q.projects \subseteq live'
    BY DEF RunKnown, TablesGrow
<1>3. \A p \in Olds : /\ q.read[p] # NoEntity => WasMirror(q.read[p], p)'
                      /\ q.mirror[p] # NoEntity => WasMirror(q.mirror[p], p)'
    BY <1>1 DEF RunKnown, TablesGrow, WasMirror
<1>4. q.pc = "create" => q.projects # {} /\ ~MirrorAlive(q.read[NextProject(q.projects)])'
  <2> SUFFICES ASSUME q.pc = "create" PROVE q.projects # {} /\ ~MirrorAlive(q.read[NextProject(q.projects)])'
      OBVIOUS
  <2>1. PICK p : p = NextProject(q.projects)
      OBVIOUS
  <2>2. q.projects # {} /\ ~MirrorAlive(q.read[p]) /\ p \in Olds
      BY <1>1, <2>1, LeastKey DEF RunKnown
  <2>3. q.read[p] # NoEntity => entity[q.read[p]] # "none"
      BY <2>2 DEF RunKnown, WasMirror
  <2> QED BY <1>1, <2>1, <2>2, <2>3 DEF MirrorAlive, TablesGrow
<1>5. q.pc \in {"rows", "write"} =>
          \A w \in q.rows : FamilyOf[w] = x /\ value'[w] # NoEntity /\ q.seen[w] = value'[w]
    BY <1>1 DEF RunKnown, RowsStay
<1>6. q.pc = "write" => /\ q.row \in ScopeRows \ q.rows /\ FamilyOf[q.row] = x
                        /\ value'[q.row] # NoEntity /\ q.seen[q.row] = value'[q.row]
                        /\ value'[q.row] \in live' /\ entity'[value'[q.row]] = "deleted"
                        /\ q.mirror[value'[q.row]] # NoEntity
  <2> SUFFICES ASSUME q.pc = "write"
               PROVE  /\ q.row \in ScopeRows \ q.rows /\ FamilyOf[q.row] = x
                      /\ value'[q.row] # NoEntity /\ q.seen[q.row] = value'[q.row]
                      /\ value'[q.row] \in live' /\ entity'[value'[q.row]] = "deleted"
                      /\ q.mirror[value'[q.row]] # NoEntity
      OBVIOUS
  <2>1. q.row \in ScopeRows /\ value[q.row] \in EntityKeys /\ value'[q.row] = value[q.row]
      BY DEF RunKnown, RowsStay, BackfillInv, BackfillTypeOK
  <2> QED BY <2>1 DEF RunKnown, TablesGrow
<1> QED BY <1>2, <1>3, <1>4, <1>5, <1>6 DEF RunKnown

\* The other runs after a write: they are no longer alone.
LEMMA OthersAfter ==
    ASSUME BackfillInv, NEW s, NEW q, script' = After(s, q, TRUE), TablesGrow,
           NEW x \in Scripts, x # s, RowsStay(x)
    PROVE  script'[x] \in ScriptRuns /\ RunKnown(x, script[x])' /\ AloneKnown(x, script[x])'
<1>1. PICK o : o = script[x]
    OBVIOUS
<1>2. o \in ScriptRuns /\ RunKnown(x, o)'
    BY <1>1, RunIs, RunStaysKnown
<1>3. CASE x \in Active
  <2> DEFINE n == [o EXCEPT !.alone = FALSE]
  <2>1. script'[x] = n
      BY <1>1, <1>3 DEF After
  <2>2. /\ n \in ScriptRuns /\ n.pc = o.pc /\ n.projects = o.projects /\ n.read = o.read
        /\ n.mirror = o.mirror /\ n.alone = FALSE /\ n.rows = o.rows /\ n.seen = o.seen /\ n.row = o.row
      BY <1>2 DEF ScriptRuns
  <2> HIDE DEF n
  <2>3. PICK k : k = n
      OBVIOUS
  <2>4. RunKnown(x, k)'
      BY <1>2, <2>2, <2>3 DEF RunKnown
  <2>5. AloneKnown(x, k)'
      BY <2>2, <2>3 DEF AloneKnown
  <2>6. script'[x] = k /\ k \in ScriptRuns
      BY <2>1, <2>2, <2>3
  <2>7. RunKnown(x, script[x])'
      BY <2>4, <2>6 DEF RunKnown
  <2>8. AloneKnown(x, script[x])'
      BY <2>2, <2>3, <2>6 DEF AloneKnown
  <2> QED BY <2>6, <2>7, <2>8
<1>4. CASE x \notin Active
  <2>1. script'[x] = o /\ o.pc = "idle"
      BY <1>1, <1>4 DEF After, Active
  <2>2. RunKnown(x, script[x])' /\ AloneKnown(x, script[x])'
      BY <1>2, <2>1 DEF RunKnown, AloneKnown
  <2> QED BY <1>2, <2>1, <2>2
<1> QED BY <1>3, <1>4

\* A write of the application or of an older script.
LEMMA ElsewhereInv ==
    ASSUME BackfillInv, Elsewhere, TablesGrow, \A x \in Scripts : RowsStay(x)
    PROVE  /\ script' \in [Scripts -> ScriptRuns]
           /\ \A x \in Scripts : RunKnown(x, script[x])' /\ AloneKnown(x, script[x])'
<1>1. script' = After(NoRow, NoRun, TRUE) /\ NoRow \notin Scripts
    BY BackfillAssumption DEF Elsewhere
<1>2. \A x \in Scripts : x # NoRow
    BY <1>1
<1>3. \A x \in Scripts : script'[x] \in ScriptRuns /\ RunKnown(x, script[x])' /\ AloneKnown(x, script[x])'
    BY <1>1, <1>2, OthersAfter
<1>4. script' = [x \in Scripts |-> script'[x]]
    BY <1>1 DEF After
<1> QED BY <1>3, <1>4

\* A new mirror where the one read is not alive: the pointer names the only living one,
\* unless it is not as it was read.
LEMMA NewMirrorIs ==
    ASSUME BackfillInv, NEW p \in Olds, NEW read \in EntityKeys \cup {NoEntity}, NewMirror(p, read),
           ~MirrorAlive(read), live \subseteq live', source' = source,
           NEW e, e = seq + 1
    PROVE  /\ e \in EntityKeys /\ seq' \in 0..MaxKey
           /\ entity' \in [EntityKeys -> {"none", "other", "mirror", "deleted"}]
           /\ mirrorOf' \in [EntityKeys -> Olds \cup {NoEntity}]
           /\ ptr' \in [Olds -> EntityKeys \cup {NoEntity}] /\ outrun' \subseteq Olds
           /\ KeysKnown' /\ MirrorsPointed' /\ TablesGrow /\ WasMirror(e, p)'
           /\ ptr'[p] = e /\ \A x \in Olds : x # p => ptr'[x] = ptr[x]
           /\ \A x \in Olds : ptr'[x] # NoEntity => WasMirror(ptr[x], x)'
           /\ entity'[e] = "mirror" /\ \A k \in EntityKeys : MirrorAlive(k) => MirrorAlive(k)'
<1>1. e = seq + 1
    OBVIOUS
<1>2. /\ seq < MaxKey /\ seq' = e /\ entity' = [entity EXCEPT ![e] = "mirror"]
      /\ mirrorOf' = [mirrorOf EXCEPT ![e] = p] /\ ptr' = [ptr EXCEPT ![p] = e]
      /\ outrun' = IF ptr[p] # read THEN outrun \cup {p} ELSE outrun
    BY <1>1 DEF NewMirror
<1>3. BackfillTypeOK /\ KeysKnown /\ PointersKnown /\ MirrorsPointed
    BY DEF BackfillInv
<1>4. seq \in Nat /\ e \in EntityKeys /\ e > seq /\ e \in 0..MaxKey
    BY <1>1, <1>2, <1>3, BackfillAssumption DEF BackfillTypeOK, EntityKeys
<1>5. /\ entity' \in [EntityKeys -> {"none", "other", "mirror", "deleted"}]
      /\ mirrorOf' \in [EntityKeys -> Olds \cup {NoEntity}]
      /\ ptr' \in [Olds -> EntityKeys \cup {NoEntity}] /\ outrun' \subseteq Olds
      /\ entity'[e] = "mirror" /\ mirrorOf'[e] = p /\ ptr'[p] = e
      /\ \A k \in EntityKeys : k # e => entity'[k] = entity[k] /\ mirrorOf'[k] = mirrorOf[k]
      /\ \A x \in Olds : x # p => ptr'[x] = ptr[x]
    BY <1>2, <1>3, <1>4 DEF BackfillTypeOK
<1>6. entity[e] = "none" /\ p # NoEntity
    BY <1>3, <1>4, BackfillAssumption DEF KeysKnown
<1>7. KeysKnown'
  <2> SUFFICES ASSUME NEW k \in EntityKeys
               PROVE  /\ entity'[k] = "none" <=> k > e
                      /\ entity'[k] = "mirror" => mirrorOf'[k] # NoEntity
                      /\ entity'[k] \in {"none", "other"} => mirrorOf'[k] = NoEntity
      BY <1>2 DEF KeysKnown
  <2>1. CASE k = e
      BY <1>4, <1>5, <1>6, <2>1
  <2>2. CASE k # e
    <3>1. k > seq <=> k > e
      <4>1. k \in Int
          BY DEF EntityKeys
      <4> QED BY <1>1, <1>4, <2>2, <4>1
    <3> QED BY <1>3, <1>5, <2>2, <3>1 DEF KeysKnown
  <2> QED BY <2>1, <2>2
<1>8. TablesGrow
    BY <1>5, <1>6 DEF TablesGrow
<1>9. WasMirror(e, p)'
    BY <1>5 DEF WasMirror
<1>10. \A x \in Olds : ptr'[x] # NoEntity => WasMirror(ptr[x], x)'
  <2> SUFFICES ASSUME NEW x \in Olds, ptr'[x] # NoEntity
               PROVE  entity'[ptr'[x]] # "none" /\ mirrorOf'[ptr'[x]] \in {x, source[x]}
      BY DEF WasMirror
  <2>1. CASE x = p
      BY <1>5, <2>1
  <2>2. CASE x # p
    <3>1. ptr[x] \in EntityKeys /\ ptr'[x] = ptr[x]
          /\ entity[ptr[x]] # "none" /\ mirrorOf[ptr[x]] \in {x, source[x]}
        BY <1>3, <1>5, <2>2 DEF PointersKnown, WasMirror, BackfillTypeOK
    <3> QED BY <1>5, <1>6, <3>1
  <2> QED BY <2>1, <2>2
<1>11. MirrorsPointed'
  <2> SUFFICES ASSUME NEW x \in Olds \ outrun', NEW k \in EntityKeys,
                      entity'[k] = "mirror", mirrorOf'[k] = x
               PROVE  k = ptr'[x]
      BY DEF MirrorsPointed
  <2>1. outrun \subseteq outrun'
      BY <1>2
  <2>2. CASE k = e
      BY <1>5, <2>2
  <2>3. CASE k # e
    <3>1. k = ptr[x]
        BY <1>3, <1>5, <2>1, <2>3 DEF MirrorsPointed
    <3>2. x # p
      <4> SUFFICES ASSUME x = p PROVE FALSE
          OBVIOUS
      <4>1. ptr[p] = read
          BY <1>2
      <4> QED BY <1>5, <2>3, <3>1, <4>1, BackfillAssumption DEF MirrorAlive, EntityKeys
    <3> QED BY <1>5, <3>1, <3>2
  <2> QED BY <2>2, <2>3
<1>12. e \in EntityKeys /\ seq' \in 0..MaxKey
    BY <1>2, <1>4
<1>13. \A k \in EntityKeys : MirrorAlive(k) => MirrorAlive(k)'
    BY <1>5 DEF MirrorAlive
<1> QED BY <1>5, <1>7, <1>8, <1>9, <1>10, <1>11, <1>12, <1>13

LEMMA CreateMirrorInv == ASSUME BackfillInv, NEW s \in Scripts, CreateMirror(s) PROVE BackfillInv'
<1>1. PICK q : q = script[s]
    OBVIOUS
<1>2. q \in ScriptRuns /\ RunKnown(s, q) /\ AloneKnown(s, q) /\ q.pc = "create"
    BY <1>1, RunIs DEF CreateMirror
<1>3. PICK p : p = NextProject(q.projects)
    OBVIOUS
<1>4. /\ p \in Olds /\ p \in q.projects /\ ~MirrorAlive(q.read[p])
      /\ q.read[p] \in EntityKeys \cup {NoEntity} /\ q.projects \subseteq Olds
    BY <1>2, <1>3, LeastKey DEF ScriptRuns, RunKnown
<1>5. PICK e : e = seq + 1
    OBVIOUS
<1>6. PICK n : n = [q EXCEPT !.pc = "projects", !.projects = q.projects \ {p}, !.mirror[p] = e]
    OBVIOUS
<1>7. /\ NewMirror(p, q.read[p]) /\ script' = After(s, n, TRUE)
      /\ UNCHANGED <<born, live, value, of, app, source>>
    BY <1>1, <1>3, <1>5, <1>6 DEF CreateMirror
<1>8. /\ e \in EntityKeys /\ seq' \in 0..MaxKey
      /\ entity' \in [EntityKeys -> {"none", "other", "mirror", "deleted"}]
      /\ mirrorOf' \in [EntityKeys -> Olds \cup {NoEntity}]
      /\ ptr' \in [Olds -> EntityKeys \cup {NoEntity}] /\ outrun' \subseteq Olds
      /\ KeysKnown' /\ MirrorsPointed' /\ TablesGrow /\ WasMirror(e, p)'
      /\ ptr'[p] = e /\ \A x \in Olds : x # p => ptr'[x] = ptr[x]
      /\ \A x \in Olds : ptr'[x] # NoEntity => WasMirror(ptr[x], x)'
      /\ entity'[e] = "mirror" /\ \A k \in EntityKeys : MirrorAlive(k) => MirrorAlive(k)'
    BY <1>4, <1>5, <1>7, NewMirrorIs
<1>9. /\ n \in ScriptRuns /\ n.pc = "projects" /\ n.projects = q.projects \ {p} /\ n.read = q.read
      /\ n.mirror = [q.mirror EXCEPT ![p] = e] /\ n.apply = q.apply /\ n.alone = q.alone
    BY <1>2, <1>4, <1>8, <1>6 DEF ScriptRuns
<1>10. n.mirror[p] = e /\ \A x \in Olds : x # p => n.mirror[x] = q.mirror[x]
    BY <1>2, <1>4, <1>9 DEF ScriptRuns
<1>11. script'[s] = n
    BY <1>7 DEF After
<1>12. \A x \in Scripts : RowsStay(x)
    BY <1>7 DEF RowsStay
<1>13. RunKnown(s, n)'
  <2>1. RunKnown(s, q)'
      BY <1>2, <1>8, <1>12, RunStaysKnown
  <2> QED BY <1>8, <1>9, <1>10, <2>1 DEF RunKnown
<1>14. AloneKnown(s, n)'
  <2> SUFFICES ASSUME q.apply, q.alone
               PROVE  /\ \A x \in n.projects : n.read[x] = ptr'[x]
                      /\ \A x \in Olds : n.mirror[x] # NoEntity =>
                            n.mirror[x] = ptr'[x] /\ MirrorAlive(ptr[x])'
      BY <1>9 DEF AloneKnown
  <2>1. \A x \in n.projects : n.read[x] = ptr'[x]
      BY <1>2, <1>4, <1>8, <1>9 DEF AloneKnown
  <2>2. MirrorAlive(e)'
      BY <1>8, BackfillAssumption DEF MirrorAlive, EntityKeys
  <2>3. ASSUME NEW x \in Olds, x # p, q.mirror[x] # NoEntity
        PROVE  q.mirror[x] = ptr'[x] /\ MirrorAlive(ptr[x])'
    <3>1. q.mirror[x] = ptr[x] /\ MirrorAlive(ptr[x]) /\ ptr[x] \in EntityKeys /\ ptr'[x] = ptr[x]
        BY <1>2, <1>8, <2>3 DEF AloneKnown, MirrorAlive, BackfillInv, BackfillTypeOK
    <3> QED BY <1>8, <3>1 DEF MirrorAlive
  <2>4. \A x \in Olds : n.mirror[x] # NoEntity => n.mirror[x] = ptr'[x] /\ MirrorAlive(ptr[x])'
      BY <1>8, <1>10, <2>2, <2>3 DEF MirrorAlive
  <2> QED BY <2>1, <2>4
<1>15. RunKnown(s, script[s])' /\ AloneKnown(s, script[s])'
    BY <1>11, <1>13, <1>14 DEF RunKnown, AloneKnown, BehindIt, AccountedIn, MirrorAlive, WasMirror
<1>16. \A x \in Scripts : x # s =>
          script'[x] \in ScriptRuns /\ RunKnown(x, script[x])' /\ AloneKnown(x, script[x])'
    BY <1>7, <1>8, <1>12, OthersAfter
<1>17. BackfillTypeOK'
  <2>1. script' = [x \in Scripts |-> script'[x]]
      BY <1>7 DEF After
  <2>2. script' \in [Scripts -> ScriptRuns]
      BY <1>9, <1>11, <1>16, <2>1
  <2> QED BY <1>7, <1>8, <2>2 DEF BackfillInv, BackfillTypeOK
<1>18. PointersKnown' /\ ValuesKnown'
  <2>1. BackfillTypeOK /\ PointersKnown /\ ValuesKnown
      BY DEF BackfillInv
  <2>2. app.read # NoEntity => WasMirror(app.read, app.p)'
    <3>1. app.read \in EntityKeys \cup {NoEntity}
        BY <2>1 DEF BackfillTypeOK
    <3> QED BY <1>7, <1>8, <2>1, <3>1 DEF PointersKnown, WasMirror, TablesGrow
  <2>3. PointersKnown'
    <3>1. p \in born
        BY <1>2, <1>4 DEF RunKnown, BackfillInv, BackfillTypeOK
    <3>2. \A x \in Olds \ born' : ptr'[x] = NoEntity /\ source'[x] = x
        BY <1>7, <1>8, <2>1, <3>1 DEF PointersKnown
    <3> QED BY <1>7, <1>8, <2>1, <2>2, <3>2 DEF PointersKnown, WasMirror
  <2>4. ValuesKnown'
    <3>1. \A w \in ScopeRows : value[w] \in EntityKeys \cup {NoEntity}
        BY <2>1 DEF BackfillTypeOK
    <3> QED BY <1>7, <1>8, <2>1, <3>1 DEF ValuesKnown, TablesGrow
  <2> QED BY <2>3, <2>4
<1> QED BY <1>8, <1>15, <1>16, <1>17, <1>18 DEF BackfillInv

LEMMA RepairRowInv == ASSUME BackfillInv, NEW s \in Scripts, RepairRow(s) PROVE BackfillInv'
<1>1. PICK q : q = script[s]
    OBVIOUS
<1>2. q \in ScriptRuns /\ RunKnown(s, q) /\ AloneKnown(s, q) /\ q.pc = "write"
    BY <1>1, RunIs DEF RepairRow
<1>3. PICK w : w = q.row
    OBVIOUS
<1>4. PICK v : v = value[w]
    OBVIOUS
<1>5. PICK e : e = q.mirror[v]
    OBVIOUS
<1>6. PICK n : n = [q EXCEPT !.pc = "rows", !.row = NoRow]
    OBVIOUS
<1>7. /\ w \in ScopeRows \ q.rows /\ FamilyOf[w] = s /\ v # NoEntity /\ q.seen[w] = v
      /\ v \in live /\ entity[v] = "deleted" /\ e # NoEntity
    BY <1>2, <1>3, <1>4, <1>5 DEF RunKnown
<1>8. /\ BackfillTypeOK /\ KeysKnown /\ PointersKnown /\ MirrorsPointed /\ ValuesKnown
      /\ v \in Olds
    BY <1>7 DEF BackfillInv, BackfillTypeOK
<1>9. e \in EntityKeys /\ WasMirror(e, v)
    BY <1>2, <1>5, <1>7, <1>8 DEF ScriptRuns, RunKnown
<1>10. /\ value' = [value EXCEPT ![w] = e] /\ script' = After(s, n, TRUE)
       /\ UNCHANGED <<born, live, seq, entity, mirrorOf, ptr, of, app, outrun, source>>
    BY <1>1, <1>3, <1>4, <1>5, <1>6, <1>7 DEF RepairRow
<1>11. /\ n \in ScriptRuns /\ n.pc = "rows" /\ n.projects = q.projects /\ n.read = q.read
       /\ n.mirror = q.mirror /\ n.apply = q.apply /\ n.alone = q.alone
       /\ n.rows = q.rows /\ n.seen = q.seen /\ n.told = q.told
    BY <1>2, <1>6 DEF ScriptRuns
<1>12. /\ value' \in [ScopeRows -> EntityKeys \cup {NoEntity}] /\ value'[w] = e
       /\ \A x \in ScopeRows : x # w => value'[x] = value[x]
    BY <1>7, <1>8, <1>9, <1>10 DEF BackfillTypeOK
<1>13. TablesGrow
    BY <1>10 DEF TablesGrow
<1>14. RunKnown(s, n)'
  <2>1. \A x \in q.rows : FamilyOf[x] = s /\ value'[x] # NoEntity /\ q.seen[x] = value'[x]
      BY <1>2, <1>7, <1>12 DEF RunKnown, ScriptRuns
  <2> QED BY <1>2, <1>10, <1>11, <2>1 DEF RunKnown, WasMirror
\* The mirror of the project the row was written for, or the row is about another.
<1>15. q.apply /\ q.alone => AccountedIn(n, w)'
  <2> SUFFICES ASSUME q.apply, q.alone PROVE AccountedIn(n, w)'
      OBVIOUS
  <2>1. e = ptr[v] /\ entity[e] = "mirror"
      BY <1>2, <1>5, <1>7, <1>8 DEF AloneKnown, MirrorAlive
  <2>2. mirrorOf[e] # NoEntity
      BY <1>7, <1>8, <1>9, <2>1 DEF KeysKnown
  <2>3. mirrorOf[e] = of[w] /\ of[w] \in live \ outrun => e = ptr[of[w]]
    <3>1. live \subseteq Olds
        BY <1>8 DEF BackfillTypeOK
    <3> QED BY <1>8, <1>9, <2>1, <3>1 DEF MirrorsPointed
  <2> QED BY <1>10, <1>12, <2>2, <2>3 DEF AccountedIn
<1>16. AloneKnown(s, n)'
  <2> SUFFICES ASSUME q.apply, q.alone
               PROVE  /\ \A p \in q.projects : q.read[p] = ptr'[p]
                      /\ \A p \in Olds : q.mirror[p] # NoEntity =>
                            q.mirror[p] = ptr'[p] /\ MirrorAlive(ptr[p])'
                      /\ \A x \in BehindIt(s, n)' : AccountedIn(n, x)'
      BY <1>11 DEF AloneKnown
  <2>1. \A x \in BehindIt(s, n)' : AccountedIn(n, x)'
    <3> SUFFICES ASSUME NEW x \in BehindIt(s, n)' PROVE AccountedIn(n, x)'
        OBVIOUS
    <3>1. CASE x = w
        BY <1>15, <3>1
    <3>2. CASE x # w
      <4>1. x \in BehindIt(s, q) /\ value'[x] = value[x]
          BY <1>3, <1>11, <1>12, <3>2 DEF BehindIt
      <4>2. AccountedIn(q, x)
          BY <1>2, <4>1 DEF AloneKnown
      <4> QED BY <1>10, <1>11, <4>1, <4>2 DEF AccountedIn
    <3> QED BY <3>1, <3>2
  <2> QED BY <1>2, <1>10, <2>1 DEF AloneKnown, MirrorAlive
<1>17. script'[s] = n
    BY <1>10 DEF After
<1>18. RunKnown(s, script[s])' /\ AloneKnown(s, script[s])'
    BY <1>14, <1>16, <1>17 DEF RunKnown, AloneKnown, BehindIt, AccountedIn
<1>19. \A x \in Scripts : x # s =>
          script'[x] \in ScriptRuns /\ RunKnown(x, script[x])' /\ AloneKnown(x, script[x])'
  <2> SUFFICES ASSUME NEW x \in Scripts, x # s
               PROVE  script'[x] \in ScriptRuns /\ RunKnown(x, script[x])' /\ AloneKnown(x, script[x])'
      OBVIOUS
  <2>1. RowsStay(x)
      BY <1>7, <1>12 DEF RowsStay
  <2> QED BY <1>10, <1>13, <2>1, OthersAfter
<1>20. BackfillTypeOK'
  <2>1. script' = [x \in Scripts |-> script'[x]]
      BY <1>10 DEF After
  <2>2. script' \in [Scripts -> ScriptRuns]
      BY <1>11, <1>17, <1>19, <2>1
  <2> QED BY <1>8, <1>10, <1>12, <2>2 DEF BackfillTypeOK
<1>21. KeysKnown' /\ PointersKnown' /\ MirrorsPointed'
    BY <1>8, <1>10 DEF KeysKnown, PointersKnown, WasMirror, MirrorsPointed
<1>22. ValuesKnown'
  <2>1. entity[e] # "none" /\ mirrorOf[e] # NoEntity
    <3>1. source[v] # NoEntity /\ v # NoEntity
        BY <1>7, <1>8, BackfillAssumption DEF BackfillTypeOK
    <3> QED BY <1>9, <3>1 DEF WasMirror
  <2> QED BY <1>8, <1>10, <1>12, <2>1 DEF ValuesKnown
<1> QED BY <1>18, <1>19, <1>20, <1>21, <1>22 DEF BackfillInv

LEMMA AppReadsInv == ASSUME BackfillInv, AppReads PROVE BackfillInv'
<1>1. PICK p \in live : app' = [p |-> p, read |-> ptr[p]]
    BY DEF AppReads
<1>2. UNCHANGED <<born, live, seq, entity, mirrorOf, ptr, value, of, script, outrun, source>>
    BY DEF AppReads
<1>3. BackfillTypeOK /\ KeysKnown /\ PointersKnown /\ MirrorsPointed /\ ValuesKnown /\ p \in Olds
    BY DEF BackfillInv, BackfillTypeOK
<1>4. BackfillTypeOK'
    BY <1>1, <1>2, <1>3 DEF BackfillTypeOK
<1>5. PointersKnown'
  <2>1. app'.p \in born' /\ app'.read = ptr[app'.p] /\ app'.p \in Olds
      BY <1>1, <1>2, <1>3 DEF BackfillTypeOK
  <2> QED BY <1>2, <1>3, <2>1 DEF PointersKnown, WasMirror
<1>6. KeysKnown' /\ MirrorsPointed' /\ ValuesKnown'
    BY <1>2, <1>3 DEF KeysKnown, MirrorsPointed, ValuesKnown
<1>7. \A x \in Scripts : RunKnown(x, script[x])' /\ AloneKnown(x, script[x])'
    BY <1>2 DEF BackfillInv, RunKnown, WasMirror, MirrorAlive, AloneKnown, BehindIt, AccountedIn
<1> QED BY <1>4, <1>5, <1>6, <1>7 DEF BackfillInv

\* Rows are written where none were, about p or one of its mirrors.
LEMMA RowsAboutKnown ==
    ASSUME BackfillInv, TablesGrow, NEW W \in SUBSET ScopeRows, NEW p \in Olds,
           NEW v \in EntityKeys, RowsAbout(W, p, v),
           entity'[v] # "none", v = p \/ mirrorOf'[v] # NoEntity
    PROVE  /\ value' \in [ScopeRows -> EntityKeys \cup {NoEntity}]
           /\ of' \in [ScopeRows -> Olds \cup {NoEntity}]
           /\ ValuesKnown' /\ \A x \in Scripts : RowsStay(x)
<1>1. BackfillTypeOK /\ ValuesKnown
    BY DEF BackfillInv
<1>2. /\ value' \in [ScopeRows -> EntityKeys \cup {NoEntity}]
      /\ of' \in [ScopeRows -> Olds \cup {NoEntity}]
      /\ \A x \in W : value[x] = NoEntity /\ value'[x] = v /\ of'[x] = p
      /\ \A x \in ScopeRows \ W : value'[x] = value[x] /\ of'[x] = of[x]
    BY <1>1 DEF BackfillTypeOK, RowsAbout
<1>3. ValuesKnown'
  <2> SUFFICES ASSUME NEW x \in ScopeRows, value'[x] # NoEntity
               PROVE  /\ entity'[value'[x]] # "none"
                      /\ value'[x] = of'[x] \/ mirrorOf'[value'[x]] # NoEntity
      BY DEF ValuesKnown
  <2>1. CASE x \in W
      BY <1>2, <2>1
  <2>2. CASE x \notin W
    <3>1. /\ value[x] \in EntityKeys /\ entity[value[x]] # "none"
          /\ value[x] = of[x] \/ mirrorOf[value[x]] # NoEntity
          /\ value'[x] = value[x] /\ of'[x] = of[x]
        BY <1>1, <1>2, <2>2 DEF BackfillTypeOK, ValuesKnown
    <3> QED BY <3>1 DEF TablesGrow
  <2> QED BY <2>1, <2>2
<1>4. \A x \in Scripts : RowsStay(x)
    BY <1>2 DEF RowsStay
<1> QED BY <1>2, <1>3, <1>4

\* The mirror that rows about a project are written with is not NoEntity's.
LEMMA SomebodysMirror ==
    ASSUME NEW p \in Olds, NEW e, source' \in [Olds -> Olds], WasMirror(e, p)'
    PROVE  entity'[e] # "none" /\ mirrorOf'[e] # NoEntity
BY BackfillAssumption DEF WasMirror

LEMMA AppWritesInv == ASSUME BackfillInv, AppWrites PROVE BackfillInv'
<1>1. PICK p : p = app.p
    OBVIOUS
<1>2. PICK r : r = app.read
    OBVIOUS
<1>3. BackfillTypeOK /\ KeysKnown /\ PointersKnown /\ MirrorsPointed /\ ValuesKnown
    BY DEF BackfillInv
<1>4. /\ p \in born /\ p \in Olds /\ r \in EntityKeys \cup {NoEntity}
      /\ r # NoEntity => WasMirror(r, p)
    BY <1>1, <1>2, <1>3 DEF AppWrites, PointersKnown, BackfillTypeOK
<1>5. UNCHANGED <<born, live, source>> /\ app' = NoApp /\ Elsewhere
    BY DEF AppWrites
<1>6. PICK e : \/ /\ e = r /\ r # NoEntity /\ \E W \in SUBSET ScopeRows : RowsAbout(W, p, e)
                  /\ UNCHANGED <<seq, entity, mirrorOf, ptr, outrun>>
               \/ /\ e = seq + 1 /\ ~MirrorAlive(r) /\ NewMirror(p, r)
                  /\ \E W \in SUBSET ScopeRows : RowsAbout(W, p, e)
    BY <1>1, <1>2 DEF AppWrites
<1>7. PICK W \in SUBSET ScopeRows : RowsAbout(W, p, e)
    BY <1>6
<1>8. /\ e \in EntityKeys /\ seq' \in 0..MaxKey
      /\ entity' \in [EntityKeys -> {"none", "other", "mirror", "deleted"}]
      /\ mirrorOf' \in [EntityKeys -> Olds \cup {NoEntity}]
      /\ ptr' \in [Olds -> EntityKeys \cup {NoEntity}] /\ outrun' \subseteq Olds
      /\ KeysKnown' /\ MirrorsPointed' /\ TablesGrow /\ WasMirror(e, p)'
      /\ \A x \in Olds : ptr'[x] # NoEntity => WasMirror(ptr[x], x)'
      /\ \A x \in Olds : x # p => ptr'[x] = ptr[x]
  <2>1. CASE e = r /\ r # NoEntity /\ UNCHANGED <<seq, entity, mirrorOf, ptr, outrun>>
    <3>1. TablesGrow /\ WasMirror(e, p)' /\ KeysKnown' /\ MirrorsPointed'
        BY <1>3, <1>4, <1>5, <2>1 DEF TablesGrow, WasMirror, KeysKnown, MirrorsPointed
    <3>2. \A x \in Olds : ptr'[x] # NoEntity => WasMirror(ptr[x], x)'
        BY <1>3, <1>5, <2>1 DEF PointersKnown, WasMirror
    <3> QED BY <1>3, <1>4, <2>1, <3>1, <3>2 DEF BackfillTypeOK
  <2>2. CASE e = seq + 1 /\ ~MirrorAlive(r) /\ NewMirror(p, r)
      BY <1>4, <1>5, <2>2, NewMirrorIs
  <2> QED BY <1>6, <2>1, <2>2
<1>9. entity'[e] # "none" /\ mirrorOf'[e] # NoEntity /\ source' \in [Olds -> Olds]
  <2>1. source' \in [Olds -> Olds]
      BY <1>3, <1>5 DEF BackfillTypeOK
  <2> QED BY <1>4, <1>8, <2>1, SomebodysMirror
<1>10. /\ value' \in [ScopeRows -> EntityKeys \cup {NoEntity}]
       /\ of' \in [ScopeRows -> Olds \cup {NoEntity}]
       /\ ValuesKnown' /\ \A x \in Scripts : RowsStay(x)
    BY <1>4, <1>7, <1>8, <1>9, RowsAboutKnown
<1>11. /\ script' \in [Scripts -> ScriptRuns]
       /\ \A x \in Scripts : RunKnown(x, script[x])' /\ AloneKnown(x, script[x])'
    BY <1>5, <1>8, <1>10, ElsewhereInv
<1>12. BackfillTypeOK'
    BY <1>3, <1>5, <1>8, <1>10, <1>11 DEF BackfillTypeOK, NoApp
<1>13. PointersKnown'
  <2>1. \A x \in Olds \ born' : ptr'[x] = NoEntity /\ source'[x] = x
      BY <1>3, <1>4, <1>5, <1>8 DEF PointersKnown
  <2> QED BY <1>5, <1>8, <2>1, RunRecords DEF PointersKnown
<1> QED BY <1>8, <1>10, <1>11, <1>12, <1>13 DEF BackfillInv

\* A project begins with the mirror that it was given, or with one of its own.
LEMMA NewProjectInv ==
    ASSUME BackfillInv, NEW n \in Olds, NEW r \in EntityKeys \cup {NoEntity}, NewProject(n, r),
           app' \in {app, NoApp}
    PROVE  BackfillInv'
<1>1. BackfillTypeOK /\ KeysKnown /\ PointersKnown /\ MirrorsPointed /\ ValuesKnown
    BY DEF BackfillInv
<1>2. /\ n \notin born /\ born' = born \cup {n} /\ live' = live \cup {n} /\ Elsewhere
      /\ ptr[n] = NoEntity /\ source[n] = n
    BY <1>1 DEF NewProject, PointersKnown
<1>3. PICK e :
         \/ /\ e = r /\ MirrorAlive(r) /\ \E W \in SUBSET ScopeRows : RowsAbout(W, n, e)
            /\ ptr' = [ptr EXCEPT ![n] = r]
            /\ source' = [source EXCEPT ![n] = mirrorOf[r]]
            /\ UNCHANGED <<seq, entity, mirrorOf, outrun>>
         \/ /\ e = seq + 1 /\ NewMirror(n, NoEntity) /\ source' = source
            /\ \E W \in SUBSET ScopeRows : RowsAbout(W, n, e)
    BY DEF NewProject
<1>4. PICK W \in SUBSET ScopeRows : RowsAbout(W, n, e)
    BY <1>3
<1>5. /\ e \in EntityKeys /\ seq' \in 0..MaxKey
      /\ entity' \in [EntityKeys -> {"none", "other", "mirror", "deleted"}]
      /\ mirrorOf' \in [EntityKeys -> Olds \cup {NoEntity}]
      /\ ptr' \in [Olds -> EntityKeys \cup {NoEntity}] /\ outrun' \subseteq Olds
      /\ source' \in [Olds -> Olds] /\ \A x \in Olds : x # n => source'[x] = source[x]
      /\ KeysKnown' /\ MirrorsPointed' /\ TablesGrow /\ WasMirror(e, n)'
      /\ \A x \in Olds : ptr'[x] # NoEntity => WasMirror(ptr[x], x)'
      /\ \A x \in Olds : x # n => ptr'[x] = ptr[x]
  <2>1. CASE /\ e = r /\ MirrorAlive(r)
             /\ ptr' = [ptr EXCEPT ![n] = r] /\ source' = [source EXCEPT ![n] = mirrorOf[r]]
             /\ UNCHANGED <<seq, entity, mirrorOf, outrun>>
    <3>1. r \in EntityKeys /\ entity[r] = "mirror" /\ mirrorOf[r] \in Olds
        BY <1>1, <2>1 DEF MirrorAlive, KeysKnown, BackfillTypeOK
    <3>2. /\ ptr' \in [Olds -> EntityKeys \cup {NoEntity}] /\ ptr'[n] = r
          /\ \A x \in Olds : x # n => ptr'[x] = ptr[x]
          /\ source' \in [Olds -> Olds] /\ source'[n] = mirrorOf[r]
          /\ \A x \in Olds : x # n => source'[x] = source[x]
        BY <1>1, <2>1, <3>1 DEF BackfillTypeOK
    <3>3. TablesGrow /\ WasMirror(e, n)' /\ KeysKnown'
        BY <1>1, <1>2, <2>1, <3>1, <3>2 DEF TablesGrow, WasMirror, KeysKnown
    <3>4. MirrorsPointed'
      <4> SUFFICES ASSUME NEW x \in Olds \ outrun, NEW k \in EntityKeys,
                          entity[k] = "mirror", mirrorOf[k] = x
                   PROVE  k = ptr'[x]
          BY <2>1 DEF MirrorsPointed
      <4>1. k = ptr[x]
          BY <1>1 DEF MirrorsPointed
      <4>2. x # n
          BY <1>2, <4>1, BackfillAssumption DEF EntityKeys
      <4> QED BY <3>2, <4>1, <4>2
    <3>5. \A x \in Olds : ptr'[x] # NoEntity => WasMirror(ptr[x], x)'
        BY <1>1, <2>1, <3>1, <3>2 DEF PointersKnown, WasMirror
    <3> QED BY <1>1, <2>1, <3>1, <3>2, <3>3, <3>4, <3>5 DEF BackfillTypeOK
  <2>2. CASE e = seq + 1 /\ NewMirror(n, NoEntity) /\ source' = source
    <3>1. ~MirrorAlive(NoEntity) /\ live \subseteq live'
        BY <1>2 DEF MirrorAlive
    <3>2. source' \in [Olds -> Olds]
        BY <1>1, <2>2 DEF BackfillTypeOK
    <3> QED BY <2>2, <3>1, <3>2, NewMirrorIs
  <2> QED BY <1>3, <2>1, <2>2
<1>6. entity'[e] # "none" /\ mirrorOf'[e] # NoEntity
    BY <1>5, SomebodysMirror
<1>7. /\ value' \in [ScopeRows -> EntityKeys \cup {NoEntity}]
      /\ of' \in [ScopeRows -> Olds \cup {NoEntity}]
      /\ ValuesKnown' /\ \A x \in Scripts : RowsStay(x)
    BY <1>4, <1>5, <1>6, RowsAboutKnown
<1>8. /\ script' \in [Scripts -> ScriptRuns]
      /\ \A x \in Scripts : RunKnown(x, script[x])' /\ AloneKnown(x, script[x])'
    BY <1>2, <1>5, <1>7, ElsewhereInv
<1>9. app' \in [p: Olds \cup {NoEntity}, read: EntityKeys \cup {NoEntity}]
    BY <1>1 DEF BackfillTypeOK, NoApp
<1>10. BackfillTypeOK'
    BY <1>1, <1>2, <1>5, <1>7, <1>8, <1>9 DEF BackfillTypeOK
<1>11. PointersKnown'
  <2>1. \A x \in Olds \ born' : ptr'[x] = NoEntity /\ source'[x] = x
      BY <1>1, <1>2, <1>5 DEF PointersKnown
  <2>2. app' = NoApp \/ app'.p \in born'
      BY <1>1, <1>2 DEF PointersKnown
  <2>3. app'.read # NoEntity => WasMirror(app.read, app.p)'
    <3> SUFFICES ASSUME app'.read # NoEntity PROVE WasMirror(app.read, app.p)'
        OBVIOUS
    <3>1. app' = app /\ app.read # NoEntity
        BY RunRecords
    <3>2. /\ app.read \in EntityKeys /\ app.p \in Olds
          /\ entity[app.read] # "none" /\ mirrorOf[app.read] \in {app.p, source[app.p]}
        BY <1>1, <3>1, RunRecords DEF BackfillTypeOK, PointersKnown, WasMirror
    <3> QED BY <1>2, <1>5, <3>1, <3>2 DEF TablesGrow, WasMirror
  <2> QED BY <1>5, <2>1, <2>2, <2>3 DEF PointersKnown
<1> QED BY <1>5, <1>7, <1>8, <1>10, <1>11 DEF BackfillInv

LEMMA ProjectsInv == ASSUME BackfillInv, Create \/ Duplicate PROVE BackfillInv'
<1>1. CASE Create
    BY <1>1, NewProjectInv DEF Create
<1>2. CASE Duplicate
  <2>1. app.read \in EntityKeys \cup {NoEntity}
      BY DEF BackfillInv, BackfillTypeOK
  <2> QED BY <1>2, <2>1, NewProjectInv DEF Duplicate
<1> QED BY <1>1, <1>2

\* What goes on as it was where the keys of DEntidade stay.
LEMMA TablesStay ==
    ASSUME BackfillInv, TablesGrow, UNCHANGED <<born, ptr, app, source>>
    PROVE  PointersKnown'
<1>1. BackfillTypeOK /\ PointersKnown
    BY DEF BackfillInv
<1>2. \A p \in Olds : ptr'[p] # NoEntity => WasMirror(ptr[p], p)'
    BY <1>1 DEF BackfillTypeOK, PointersKnown, WasMirror, TablesGrow
<1>3. app'.read # NoEntity => WasMirror(app.read, app.p)'
  <2>1. app.read \in EntityKeys \cup {NoEntity}
      BY <1>1 DEF BackfillTypeOK
  <2> QED BY <1>1, <2>1 DEF PointersKnown, WasMirror, TablesGrow
<1> QED BY <1>1, <1>2, <1>3 DEF PointersKnown

LEMMA WrittenAboutInv ==
    ASSUME BackfillInv, NEW p \in Olds, NEW family, WrittenAbout(p, family)
    PROVE  BackfillInv'
<1>1. PICK w \in ScopeRows : RowsAbout({w}, p, p)
    BY DEF WrittenAbout
<1>2. /\ entity[p] # "none" /\ Elsewhere
      /\ UNCHANGED <<born, live, seq, entity, mirrorOf, ptr, app, outrun, source>>
    BY DEF WrittenAbout
<1>3. TablesGrow /\ p \in EntityKeys
    BY <1>2, BackfillAssumption DEF TablesGrow, EntityKeys
<1>4. /\ value' \in [ScopeRows -> EntityKeys \cup {NoEntity}]
      /\ of' \in [ScopeRows -> Olds \cup {NoEntity}]
      /\ ValuesKnown' /\ \A x \in Scripts : RowsStay(x)
    BY <1>1, <1>2, <1>3, RowsAboutKnown
<1>5. /\ script' \in [Scripts -> ScriptRuns]
      /\ \A x \in Scripts : RunKnown(x, script[x])' /\ AloneKnown(x, script[x])'
    BY <1>2, <1>3, <1>4, ElsewhereInv
<1>6. BackfillTypeOK' /\ KeysKnown' /\ MirrorsPointed'
    BY <1>2, <1>4, <1>5 DEF BackfillInv, BackfillTypeOK, KeysKnown, MirrorsPointed
<1>7. PointersKnown'
    BY <1>2, <1>3, TablesStay
<1> QED BY <1>4, <1>5, <1>6, <1>7 DEF BackfillInv

\* A key taken or given up by somebody who writes no row.
LEMMA KeyWritten ==
    ASSUME BackfillInv, Elsewhere, TablesGrow,
           UNCHANGED <<born, live, mirrorOf, ptr, value, of, app, outrun, source>>,
           seq' \in 0..MaxKey, entity' \in [EntityKeys -> {"none", "other", "mirror", "deleted"}], KeysKnown'
    PROVE  BackfillInv'
<1>1. \A x \in Scripts : RowsStay(x)
    BY DEF RowsStay
<1>2. /\ script' \in [Scripts -> ScriptRuns]
      /\ \A x \in Scripts : RunKnown(x, script[x])' /\ AloneKnown(x, script[x])'
    BY <1>1, ElsewhereInv
<1>3. BackfillTypeOK'
    BY <1>2 DEF BackfillInv, BackfillTypeOK
<1>4. MirrorsPointed'
  <2> SUFFICES ASSUME NEW p \in Olds \ outrun, NEW e \in EntityKeys, entity'[e] = "mirror", mirrorOf[e] = p
               PROVE  e = ptr[p]
      BY DEF MirrorsPointed
  <2>1. entity'[e] # "none" /\ mirrorOf[e] # NoEntity
      BY BackfillAssumption
  <2>2. entity[e] # "none"
      BY <2>1 DEF BackfillInv, KeysKnown
  <2>3. entity[e] = "mirror"
      BY <2>2 DEF TablesGrow
  <2> QED BY <2>3 DEF BackfillInv, MirrorsPointed
<1>5. ValuesKnown'
  <2> SUFFICES ASSUME NEW w \in ScopeRows, value[w] # NoEntity
               PROVE  /\ entity'[value[w]] # "none"
                      /\ value[w] = of[w] \/ mirrorOf[value[w]] # NoEntity
      BY DEF ValuesKnown
  <2>1. /\ value[w] \in EntityKeys /\ entity[value[w]] # "none"
        /\ value[w] = of[w] \/ mirrorOf[value[w]] # NoEntity
      BY DEF BackfillInv, BackfillTypeOK, ValuesKnown
  <2> QED BY <2>1 DEF TablesGrow
<1>6. PointersKnown'
    BY TablesStay
<1> QED BY <1>2, <1>3, <1>4, <1>5, <1>6 DEF BackfillInv

LEMMA OtherEntityInv == ASSUME BackfillInv, OtherEntity PROVE BackfillInv'
<1>1. PICK e : e = seq + 1
    OBVIOUS
<1>2. /\ seq < MaxKey /\ seq' = e /\ entity' = [entity EXCEPT ![e] = "other"] /\ Elsewhere
      /\ UNCHANGED <<born, live, mirrorOf, ptr, value, of, app, outrun, source>>
    BY <1>1 DEF OtherEntity
<1>3. BackfillTypeOK /\ KeysKnown
    BY DEF BackfillInv
<1>4. seq \in Nat /\ e \in EntityKeys /\ e > seq /\ e \in 0..MaxKey
    BY <1>1, <1>2, <1>3, BackfillAssumption DEF BackfillTypeOK, EntityKeys
<1>5. /\ entity' \in [EntityKeys -> {"none", "other", "mirror", "deleted"}] /\ entity'[e] = "other"
      /\ \A k \in EntityKeys : k # e => entity'[k] = entity[k]
    BY <1>2, <1>3, <1>4 DEF BackfillTypeOK
<1>6. entity[e] = "none" /\ mirrorOf[e] = NoEntity
    BY <1>3, <1>4 DEF KeysKnown
<1>7. KeysKnown'
  <2> SUFFICES ASSUME NEW k \in EntityKeys
               PROVE  /\ entity'[k] = "none" <=> k > e
                      /\ entity'[k] = "mirror" => mirrorOf[k] # NoEntity
                      /\ entity'[k] \in {"none", "other"} => mirrorOf[k] = NoEntity
      BY <1>2 DEF KeysKnown
  <2>1. CASE k = e
      BY <1>4, <1>5, <1>6, <2>1
  <2>2. CASE k # e
    <3>1. k > seq <=> k > e
      <4>1. k \in Int
          BY DEF EntityKeys
      <4> QED BY <1>1, <1>4, <2>2, <4>1
    <3> QED BY <1>3, <1>5, <2>2, <3>1 DEF KeysKnown
  <2> QED BY <2>1, <2>2
<1>8. TablesGrow
    BY <1>2, <1>5, <1>6 DEF TablesGrow
<1> QED BY <1>2, <1>4, <1>5, <1>7, <1>8, KeyWritten

LEMMA EntityDeletedInv == ASSUME BackfillInv, EntityDeleted PROVE BackfillInv'
<1>1. PICK e \in EntityKeys : /\ entity[e] \in {"other", "mirror"}
                              /\ entity' = [entity EXCEPT ![e] = "deleted"]
    BY DEF EntityDeleted
<1>2. Elsewhere /\ UNCHANGED <<born, live, seq, mirrorOf, ptr, value, of, app, outrun, source>>
    BY DEF EntityDeleted
<1>3. BackfillTypeOK /\ KeysKnown
    BY DEF BackfillInv
<1>4. /\ entity' \in [EntityKeys -> {"none", "other", "mirror", "deleted"}] /\ entity'[e] = "deleted"
      /\ \A k \in EntityKeys : k # e => entity'[k] = entity[k]
    BY <1>1, <1>3 DEF BackfillTypeOK
<1>5. KeysKnown' /\ TablesGrow
    BY <1>1, <1>2, <1>3, <1>4 DEF KeysKnown, TablesGrow
<1> QED BY <1>2, <1>3, <1>4, <1>5, KeyWritten DEF BackfillTypeOK

LEMMA BackfillNextInv == ASSUME BackfillInv, BackfillNext PROVE BackfillInv'
<1>1. CASE \E s \in Scripts :
              \/ StartRun(s) \/ VisitProject(s) \/ CreateMirror(s) \/ CreateFails(s)
              \/ ReadRows(s) \/ VisitRow(s) \/ VisitFails(s) \/ RepairRow(s) \/ RepairFails(s)
              \/ FinishRun(s) \/ RunDies(s)
  <2>1. PICK s \in Scripts :
              \/ StartRun(s) \/ VisitProject(s) \/ CreateMirror(s) \/ CreateFails(s)
              \/ ReadRows(s) \/ VisitRow(s) \/ VisitFails(s) \/ RepairRow(s) \/ RepairFails(s)
              \/ FinishRun(s) \/ RunDies(s)
      BY <1>1
  <2>2. CASE FinishRun(s) \/ RunDies(s)
    <3>1. Becomes(s, NoRun)
        BY <2>2 DEF FinishRun, RunDies
    <3> QED BY <3>1, FinishRunInv
  <2> QED BY <2>1, <2>2, StartRunInv, VisitProjectInv, CreateMirrorInv, CreateFailsInv, ReadRowsInv,
             VisitRowInv, VisitFailsInv, RepairRowInv, RepairFailsInv
<1>2. CASE LegacyTabela \/ LegacyVinculo
    BY <1>2, WrittenAboutInv DEF LegacyTabela, LegacyVinculo
<1> QED BY <1>1, <1>2, AppReadsInv, AppWritesInv, ProjectsInv, OtherEntityInv, EntityDeletedInv DEF BackfillNext

LEMMA BackfillStepInv == BackfillInv /\ [BackfillNext]_backfillVars => BackfillInv'
<1> SUFFICES ASSUME BackfillInv, [BackfillNext]_backfillVars PROVE BackfillInv'
    OBVIOUS
<1>1. CASE BackfillNext
    BY <1>1, BackfillNextInv
<1>2. CASE UNCHANGED backfillVars
    BY <1>2 DEF backfillVars, BackfillInv, BackfillTypeOK, KeysKnown, PointersKnown, WasMirror,
                MirrorsPointed, ValuesKnown, RunKnown, MirrorAlive, AloneKnown, BehindIt, AccountedIn
<1> QED BY <1>1, <1>2

LEMMA RowsMovedHome ==
    ASSUME BackfillInv, [BackfillNext]_backfillVars, NEW w \in ScopeRows
    PROVE  MovedHome(w)
<1> SUFFICES ASSUME value[w] # NoEntity, value'[w] # value[w]
             PROVE  mirrorOf[value'[w]] \in {of[w], source[of[w]]} \/ Forgotten(w)
    BY DEF MovedHome
<1>1. PICK s \in Scripts : RepairRow(s)
  <2>1. value' # value /\ BackfillNext
      BY DEF backfillVars
  <2>2. ~AppWrites /\ ~Create /\ ~Duplicate /\ ~LegacyTabela /\ ~LegacyVinculo
    <3>1. \A W \in SUBSET ScopeRows : \A p, e : ~RowsAbout(W, p, e)
        BY DEF RowsAbout
    <3>2. \A x \in ScopeRows : {x} \in SUBSET ScopeRows
        OBVIOUS
    <3> QED BY <3>1, <3>2 DEF AppWrites, Create, Duplicate, NewProject, LegacyTabela, LegacyVinculo,
               WrittenAbout
  <2>3. ~AppReads /\ ~OtherEntity /\ ~EntityDeleted
      BY <2>1 DEF AppReads, OtherEntity, EntityDeleted
  <2>4. \A x, n : ~Becomes(x, n)
      BY <2>1 DEF Becomes
  <2>5. \A s \in Scripts : ~CreateMirror(s)
      BY <2>1 DEF CreateMirror
  <2> QED BY <2>1, <2>2, <2>3, <2>4, <2>5
          DEF BackfillNext, StartRun, VisitProject, CreateFails, ReadRows, VisitRow, VisitFails,
              RepairFails, FinishRun, RunDies
<1>2. PICK q : q = script[s]
    OBVIOUS
<1>3. q \in ScriptRuns /\ RunKnown(s, q) /\ q.pc = "write"
    BY <1>1, <1>2, RunIs DEF RepairRow
<1>4. /\ value' = [value EXCEPT ![q.row] = q.mirror[q.seen[q.row]]]
      /\ UNCHANGED <<entity, mirrorOf>>
    BY <1>1, <1>2 DEF RepairRow
<1>5. q.row = w
    BY <1>4 DEF BackfillInv, BackfillTypeOK
<1>6. PICK v : v = value[w]
    OBVIOUS
<1>7. q.seen[w] = v /\ v \in Olds /\ entity[v] = "deleted" /\ q.mirror[v] # NoEntity
    BY <1>3, <1>5, <1>6 DEF RunKnown, BackfillInv, BackfillTypeOK
<1>8. value'[w] = q.mirror[v] /\ mirrorOf[q.mirror[v]] \in {v, source[v]}
    BY <1>3, <1>4, <1>5, <1>7 DEF RunKnown, WasMirror, BackfillInv, BackfillTypeOK
<1>9. CASE v = of[w]
    BY <1>4, <1>8, <1>9
<1>10. CASE v # of[w]
    BY <1>6, <1>7, <1>10 DEF Forgotten
<1> QED BY <1>9, <1>10

LEMMA PointedIsOne == ASSUME BackfillInv, NEW p \in Olds PROVE OneMirror(p)
<1> SUFFICES ASSUME p \notin outrun
             PROVE  Cardinality({e \in EntityKeys : entity[e] = "mirror" /\ mirrorOf[e] = p}) <= 1
    BY DEF OneMirror
<1> DEFINE alive == {e \in EntityKeys : entity[e] = "mirror" /\ mirrorOf[e] = p}
<1>1. alive \subseteq {ptr[p]}
    BY DEF BackfillInv, MirrorsPointed
<1>2. IsFiniteSet({ptr[p]}) /\ Cardinality({ptr[p]}) = 1
    BY FS_Singleton
<1>3. Cardinality(alive) <= Cardinality({ptr[p]})
    BY <1>1, <1>2, FS_Subset
<1> QED BY <1>2, <1>3

LEMMA FinishedIsAccounted ==
    ASSUME BackfillInv, NEW s \in Scripts, FinishRun(s), script[s].apply, script[s].alone,
           NEW w \in ScopeRows, FamilyOf[w] = s, value[w] # NoEntity
    PROVE  Accounted(s, w)
<1>1. PICK q : q = script[s]
    OBVIOUS
<1>2. AloneKnown(s, q) /\ q.apply /\ q.alone /\ q.pc = "rows" /\ q.rows = {}
    BY <1>1, RunIs DEF FinishRun
<1>3. w \in BehindIt(s, q)
    BY <1>2 DEF BehindIt
<1>4. AccountedIn(q, w)
    BY <1>2, <1>3 DEF AloneKnown
<1> QED BY <1>1, <1>4 DEF Accounted, AccountedIn

\* What the scripts promise of the rows they pass, for any number of projects, keys and rows,
\* whoever writes, creates or duplicates meanwhile and wherever a run dies: a row goes to a
\* mirror of its own project or of the one it was duplicated from, a project has one living
\* mirror unless somebody acted on an old pointer, and a run that nobody disturbed leaves no
\* row of its table that is neither about a mirror nor in its report.
THEOREM BackfillSoundHolds == BackfillSpec => BackfillSound
<1> DEFINE Step == /\ \A w \in ScopeRows : MovedHome(w)
                   /\ \A p \in Olds : OneMirror(p)'
                   /\ \A s \in Scripts :
                         FinishRun(s) /\ script[s].apply /\ script[s].alone =>
                             \A w \in ScopeRows :
                                 FamilyOf[w] = s /\ value[w] # NoEntity => Accounted(s, w)
<1>1. BackfillInit => BackfillInv
    BY BackfillInitInv
<1>2. BackfillInv /\ [BackfillNext]_backfillVars => BackfillInv'
    BY BackfillStepInv
<1>3. BackfillInv => \A p \in Olds : OneMirror(p)
    BY PointedIsOne
<1>4. BackfillInv /\ BackfillInv' /\ [BackfillNext]_backfillVars => [Step]_backfillVars
  <2> SUFFICES ASSUME BackfillInv, BackfillInv', [BackfillNext]_backfillVars PROVE Step
      OBVIOUS
  <2>1. \A w \in ScopeRows : MovedHome(w)
      BY RowsMovedHome
  <2>2. (\A p \in Olds : OneMirror(p))'
      BY <1>3, PTL
  <2>3. \A s \in Scripts :
              FinishRun(s) /\ script[s].apply /\ script[s].alone =>
                  \A w \in ScopeRows : FamilyOf[w] = s /\ value[w] # NoEntity => Accounted(s, w)
      BY FinishedIsAccounted
  <2> QED BY <2>1, <2>2, <2>3
<1> QED BY <1>1, <1>2, <1>4, PTL DEF BackfillSpec, BackfillSound

-----------------------------------------------------------------------------
(* The composition: a step of it is a step, or no step, of every part.     *)

LEMMA PartsMove ==
    ASSUME [PlatformNext]_platformVars
    PROVE  /\ [InviteNext]_inviteVars /\ [TeamNext]_teamVars /\ [ProgressNext]_progressVars
           /\ [WarmerNext]_warmerVars /\ [TunnelNext]_tunnelVars
           /\ [StatusNext]_statusVars /\ [InstallNext]_installVars
           /\ [BackfillNext]_backfillVars
<1>1. CASE InvitePart
  BY <1>1 DEF InvitePart
<1>2. CASE TeamPart
  BY <1>2 DEF TeamPart
<1>3. CASE ProgressPart
  BY <1>3 DEF ProgressPart
<1>4. CASE StatusPart
  BY <1>4 DEF StatusPart
<1>5. CASE InstallPart
  BY <1>5 DEF InstallPart
<1>6. CASE WarmerPart
  BY <1>6 DEF WarmerPart
<1>7. CASE TunnelPart
  BY <1>7 DEF TunnelPart
<1>8. CASE BackfillPart
  BY <1>8 DEF BackfillPart
<1>9. CASE UNCHANGED platformVars
  BY <1>9 DEF platformVars
<1>10. QED
  BY <1>1, <1>2, <1>3, <1>4, <1>5, <1>6, <1>7, <1>8, <1>9 DEF PlatformNext

\* What the warms cost stays within a warm per tick of the cap and ends with stop(), and
\* the tunnel's state, child and timers agree, in every order of ticks, days and events.
THEOREM LoopsSoundHolds == PlatformSpec => []LoopsSound
<1> DEFINE Both == WarmerInv /\ TunnelInv
<1>1. PlatformInit => Both
  BY WarmerInitInv, TunnelInitInv DEF PlatformInit
<1>2. Both /\ [PlatformNext]_platformVars => Both'
  BY PartsMove, WarmerNextInv, TunnelNextInv
<1>3. Both => LoopsSound
  BY WarmerInvSound DEF LoopsSound, TunnelInv
<1>4. QED
  BY <1>1, <1>2, <1>3, PTL DEF PlatformSpec

LEMMA CancelledStep ==
    [PlatformNext]_platformVars
        => [\A a \in joined' \ joined : invite[accept[a].row] # "deleted"]_inviteVars
<1> SUFFICES ASSUME [InviteNext]_inviteVars, NEW a \in joined' \ joined
             PROVE  invite[accept[a].row] # "deleted"
  BY PartsMove
<1>1. joined' # joined
  OBVIOUS
<1>2. PICK b \in Acceptors : AcceptCommit(b)
  BY <1>1
     DEF InviteNext, inviteVars, CreateChecked, CreateInsert, Lapse, AcceptBegin, AcceptFind,
         AcceptCheck, AcceptInsert, CancelRead, CancelDelete
<1>3. QED
  BY <1>1, <1>2 DEF AcceptCommit, RowThere

\* Nobody joins by an invitation once it is cancelled; a person joins an organization, or
\* a team, once; and deletions leave nothing, but where requests crossed as named.
THEOREM JoiningSoundHolds == PlatformSpec => JoiningSound
<1> DEFINE Both == InviteInv /\ TeamInv
<1>1. PlatformInit => Both
  BY InviteInitInv, TeamInitInv DEF PlatformInit
<1>2. Both /\ [PlatformNext]_platformVars => Both'
  BY PartsMove, InviteNextInv, TeamNextInv
<1>3. Both => JoinedOnce /\ TeamsSound
  BY TeamInvSound DEF InviteInv
<1>4. QED
  BY <1>1, <1>2, <1>3, CancelledStep, PTL
     DEF PlatformSpec, JoiningSound, InvitesSound, CancelledStaysOut

\* Invitations, teams, progress, agents, the agent's loops and the scripts keep their
\* types, all together.
THEOREM PlatformTypesOK ==
    ASSUME IsFiniteSet(Leaves)
    PROVE  PlatformSpec => []PlatformTypeOK
<1> DEFINE All == /\ InviteInv /\ TeamInv /\ ProgressTypeOK /\ StatusTypeOK /\ InstallInv
                  /\ WarmerInv /\ TunnelInv /\ BackfillInv
<1>1. PlatformInit => All
  BY InviteInitInv, TeamInitInv, ProgressInitInv, StatusInitType, InstallInitInv, WarmerInitInv,
     TunnelInitInv, BackfillInitInv
     DEF PlatformInit, ProgressInv
<1>2. All /\ [PlatformNext]_platformVars => All'
  BY PartsMove, InviteNextInv, TeamNextInv, ProgressNextType, StatusStepType, InstallInductive,
     WarmerNextInv, TunnelNextInv, BackfillStepInv
<1>3. All => PlatformTypeOK
  BY DEF PlatformTypeOK, InviteInv, TeamInv, InstallInv, WarmerInv, TunnelInv, BackfillInv
<1>4. QED
  BY <1>1, <1>2, <1>3, PTL DEF PlatformSpec
=============================================================================
