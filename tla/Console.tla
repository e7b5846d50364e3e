------------------------------ MODULE Console ------------------------------
(***************************************************************************)
(* The operator's side of the runtime: requests that pass the rate         *)
(* limiter, kill switches tripped by hand or by the monitor, the alerts    *)
(* and events that follow, and their way to browsers and integrations.     *)
(* Source: backend/app/api/routes.py, runtime.py, main.py.                 *)
(*                                                                         *)
(* What a trip does to orders and positions is TradingRuntime's OnTrip;    *)
(* here it is seen by the events it causes.  Tasks and requests take turns *)
(* on one event loop, so each handler is one action.                       *)
(***************************************************************************)
EXTENDS RateLimiter, KillSwitch, WsHub, Notifications
CONSTANTS OtherChannels,            \* what the runtime broadcasts besides
          MaxAlerts, MaxBroadcasts  \* bounds on what is emitted

ASSUME ConsoleAssumption == ManualReasons \union MentionsData \subseteq Causes

vars == <<limiterVars, switches, wsVars, notifyVars>>
Risk == <<"risk">>
Alerts == <<"alerts">>
NextAlert == Cardinality(Emitted) + 1

\* emit_alert, after the broadcasts its caller has made.
EmitAlert(before) ==
  /\ NextAlert <= MaxAlerts /\ Len(broadcasts) + Len(before) < MaxBroadcasts
  /\ Record(NextAlert)
  /\ Broadcast(Append(before, Alerts))

\* A trip that takes effect runs _on_kill_trip, any other changes nothing.
TripAndTell(scope, level, cause) ==
  /\ Trip(scope, level, cause)
  /\ IF TripTakesEffect(switches[scope], level) THEN EmitAlert(<<Risk>>)
     ELSE UNCHANGED <<wsVars, notifyVars>>

\* The routes that change something; a 404 or 409 leaves all as it was.
KillSwitchRoutes ==
  \/ \E scope \in Scopes, level \in Levels, reason \in ManualReasons :
       TripAndTell(scope, level, reason)
  \/ /\ \/ \E scope \in Scopes : Acknowledge(scope) \/ Rearm(scope)
        \/ UNCHANGED switches
     /\ UNCHANGED <<wsVars, notifyVars>>
AlertRoutes ==
  /\ \/ \E alert \in Emitted : AcknowledgeAlert(alert)
     \/ \E kind \in Kinds : AddIntegration(kind)
  /\ UNCHANGED <<switches, wsVars>>
Handled == KillSwitchRoutes \/ AlertRoutes

Request(client) ==
  \/ Admit(client) /\ Handled
  \/ Refuse(client) /\ UNCHANGED <<switches, wsVars, notifyVars>>

\* The monitor's trips for dead data; its other causes trip as the route does.
MonitorTrips(scope) == TripAndTell(scope, "soft", "stale") /\ UNCHANGED limiterVars
MonitorClears(scope) ==
  /\ switches[scope].cause \in MentionsData /\ AutoClear(scope)
  /\ EmitAlert(<<>>)
  /\ UNCHANGED limiterVars

BroadcastOther(channel) ==
  /\ Len(broadcasts) < MaxBroadcasts
  /\ Broadcast(<<channel>>)
  /\ UNCHANGED <<limiterVars, switches, notifyVars>>

Deliver(alert) == DeliveryStep(alert) /\ UNCHANGED <<limiterVars, switches, wsVars>>

ConsoleInit == LimiterInit /\ KillInit /\ WsInit /\ NotifyInit

ConsoleNext ==
  \/ Tick /\ UNCHANGED <<switches, wsVars, notifyVars>>
  \/ \E client \in Clients : Request(client)
  \/ \E scope \in Scopes : MonitorTrips(scope) \/ MonitorClears(scope)
  \/ \E channel \in OtherChannels : BroadcastOther(channel)
  \/ WsStep /\ UNCHANGED <<limiterVars, switches, notifyVars>>
  \/ \E alert \in Emitted : Deliver(alert)

\* The loop runs every task that is ready, and a send ends, in time.
ConsoleSpec ==
  /\ ConsoleInit /\ [][ConsoleNext]_vars
  /\ \A alert \in 1..MaxAlerts : WF_vars(alert \in Emitted /\ Deliver(alert))

-----------------------------------------------------------------------------
\* In the end every alert has an answer of every integration that was
\* configured when its delivery began, whichever of them fail, and whatever
\* is configured, acknowledged or dropped from the feed meanwhile.
EveryRouteAnswers ==
  \A alert \in 1..MaxAlerts : alert \in Emitted ~> AnsweredByAll(alert)
=============================================================================
