---------------------------- MODULE CacheWarmer ----------------------------
(* The loop of the agent that keeps the prompt cache of some projects warm  *)
(* (agent/src/lifecycle/cache-warmer-loop.ts).  Every tick warms the        *)
(* projects in turn; each warm is a paid run of Claude, and a daily cap     *)
(* stops the spending.  A tick awaits the warm itself and a pause between   *)
(* two projects, and the interval does not wait for it: ticks overlap.      *)
EXTENDS Naturals, FiniteSets

CONSTANTS
    Ticks,      \* runs of tick() that may be under way at once
    Projects,   \* how many projects the configuration names
    DailyCap,   \* dailyCostCapUsd, 0 for none
    MaxCost,    \* the most that one warm reports
    MaxDay      \* bound: days that pass

ASSUME WarmerAssumption ==
    /\ Projects \in Nat \ {0} /\ DailyCap \in Nat /\ MaxCost \in Nat /\ MaxDay \in Nat
    /\ IsFiniteSet(Ticks)

Days == 0..MaxDay

VARIABLES
    stopped,     \* of the closure, set by stop()
    today,       \* the clock's day, ymd(now())
    costs,     \* costAccumulator: the day it counts and its total
    tick,        \* of each tick: where it waits, at which project, since which day
    spent,       \* auxiliary: what the warms begun on a day reported
    width,       \* auxiliary: the most warms that ran at once, of those begun on a day
    afterStop    \* auxiliary: the ticks that began a warm after stop()

warmerVars == <<stopped, today, costs, tick, spent, width, afterStop>>

NoTick == [pc |-> "idle", project |-> 0, day |-> 0]

WarmerTypeOK ==
    /\ stopped \in BOOLEAN /\ today \in Days
    /\ costs \in [day: Days, total: Nat]
    /\ tick \in [Ticks -> [pc: {"idle", "sleeping", "warming"}, project: 0..Projects,
                           day: Days]]
    /\ spent \in [Days -> Nat] /\ width \in [Days -> 0..Cardinality(Ticks)]
    /\ afterStop \in [Ticks -> Nat]

WarmerInit ==
    /\ stopped = FALSE /\ today = 0 /\ costs = [day |-> 0, total |-> 0]
    /\ tick = [t \in Ticks |-> NoTick]
    /\ spent = [d \in Days |-> 0] /\ width = [d \in Days |-> 0]
    /\ afterStop = [t \in Ticks |-> 0]

-----------------------------------------------------------------------------
(* checkAndRefreshDailyCap *)

Refreshed == IF costs.day = today THEN costs ELSE [day |-> today, total |-> 0]

Capped(a) == DailyCap > 0 /\ a.total >= DailyCap

Warming(d) == {t \in Ticks : tick[t].pc = "warming" /\ tick[t].day = d}

(* A warm of the project begins: the last thing a tick does before it waits. *)
BeginWarm(t, project) ==
    /\ tick' = [tick EXCEPT ![t] = [pc |-> "warming", project |-> project, day |-> today]]
    /\ LET now == Cardinality(Warming(today)) + 1
       IN  width' = [width EXCEPT ![today] = IF @ < now THEN now ELSE @]
    /\ afterStop' = [afterStop EXCEPT ![t] = IF stopped THEN @ + 1 ELSE @]

GoIdle(t) == tick' = [tick EXCEPT ![t] = NoTick] /\ UNCHANGED <<width, afterStop>>

(* The interval, or triggerNow: the first project is not waited for. *)
Tick(t) ==
    /\ tick[t].pc = "idle" /\ ~stopped
    /\ costs' = Refreshed
    /\ ~Capped(Refreshed)
    /\ BeginWarm(t, 1)
    /\ UNCHANGED <<stopped, today, spent>>

(* The pause between two projects ends: the cap is looked at again, stopped is not. *)
Wake(t) ==
    /\ tick[t].pc = "sleeping"
    /\ costs' = Refreshed
    /\ IF Capped(Refreshed) THEN GoIdle(t) ELSE BeginWarm(t, tick[t].project)
    /\ UNCHANGED <<stopped, today, spent>>

LastProject(t) == stopped \/ tick[t].project = Projects

(* A warm ends with the cost it reports, 0 after a timeout or an output that *)
(* cannot be read; the loop goes on to its next pause or ends.               *)
Warmed(t) == \E cost \in 0..MaxCost :
    /\ tick[t].pc = "warming"
    /\ costs' = [costs EXCEPT !.total = @ + cost]
    /\ spent' = [spent EXCEPT ![tick[t].day] = @ + cost]
    /\ IF LastProject(t)
       THEN GoIdle(t)
       ELSE /\ tick' = [tick EXCEPT ![t].pc = "sleeping", ![t].project = @ + 1]
            /\ UNCHANGED <<width, afterStop>>
    /\ UNCHANGED <<stopped, today>>

StopWarmer ==
    /\ ~stopped /\ stopped' = TRUE
    /\ UNCHANGED <<today, costs, tick, spent, width, afterStop>>

Midnight ==
    /\ today < MaxDay /\ today' = today + 1
    /\ UNCHANGED <<stopped, costs, tick, spent, width, afterStop>>

WarmerNext ==
    \/ \E t \in Ticks : Tick(t) \/ Wake(t) \/ Warmed(t)
    \/ StopWarmer \/ Midnight

-----------------------------------------------------------------------------
(* What the warms of a day report stays below the cap, but for the warms    *)
(* that ran at once when it was reached: with one tick at a time one warm   *)
(* more, whatever the number of projects and wherever midnight falls        *)
(* (cache-warmer-loop.ts:117, 145); every overlapping tick adds one.        *)
CapHolds ==
    DailyCap > 0 =>
        \A d \in Days : spent[d] > 0 => spent[d] < DailyCap + MaxCost * width[d]

(* After stop() (shutdown.ts:88) a tick begins at most one warm more, the    *)
(* one whose pause was under way (cache-warmer-loop.ts:133, 140).            *)
StopsSoon == \A t \in Ticks : afterStop[t] <= 1

WarmerSound == CapHolds /\ StopsSoon
=============================================================================
