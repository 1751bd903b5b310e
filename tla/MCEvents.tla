------------------------------ MODULE MCEvents ------------------------------
(* Instances for TLC of the event bus and of the webhooks, which share no   *)
(* variable: part names the one that moves in a behaviour.  The first event *)
(* goes to the audit log and the notifications, the others to the log; one  *)
(* webhook.                                                                 *)
EXTENDS EventBus, WebhookDelivery

CONSTANTS ev1, ev2, audit, notification, h1, d1, d2, d3, m1

VARIABLE part

eventVars == <<busVars, vars, part>>

Routes  == [e \in Events |-> IF e = ev1 THEN {audit, notification} ELSE {audit}]
OneHook == [d \in Deliveries |-> h1]

EventsInit == BusInit /\ Init /\ part \in {"bus", "webhooks"}

EventsNext ==
    /\ \/ part = "bus" /\ BusNext /\ UNCHANGED vars
       \/ part = "webhooks" /\ Next /\ UNCHANGED busVars
    /\ UNCHANGED part

EventsSpec == EventsInit /\ [][EventsNext]_eventVars /\ Fairness /\ ProcessorFairness

EventsTypeOK == BusTypeOK /\ TypeOK
=============================================================================
