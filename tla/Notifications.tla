--------------------------- MODULE Notifications ---------------------------
(***************************************************************************)
(* Alerts: the feed of the alert center, and the task that delivers each   *)
(* alert to the integrations routed at the time, one after the other.      *)
(* Source: backend/app/services/notifications.py,                          *)
(* services/integrations/registry.py, runtime.py.                          *)
(*                                                                         *)
(* An alert is its number; an integration is its kind, of which there is   *)
(* one at a time.  A send answers or raises: its HTTP client gives up      *)
(* after ten seconds, and the status of the reply is not looked at.        *)
(***************************************************************************)
EXTENDS Naturals, Sequences, SequencesExt
CONSTANTS Kinds, RoutedKinds, \* integrations, and those that alerts go to
          FeedCap             \* alerts that the feed keeps

VARIABLES alerts,       \* NotificationService.alerts, newest first
          acknowledged, \* alerts somebody acknowledged
          integrations, \* Runtime.integrations: kinds, oldest first
          delivery,     \* the task of each alert: kinds left, once it runs
          delivered     \* Alert.delivered: the kinds that have an outcome
notifyVars == <<alerts, acknowledged, integrations, delivery, delivered>>

Emitted == DOMAIN delivered
Routes == SelectSeq(integrations, LAMBDA kind : kind \in RoutedKinds)

\* Ghost: owed, the integrations that were configured when the task began.
Waiting == [started |-> FALSE, left |-> <<>>, owed |-> {}]

\* record, and the task that emit_alert makes of deliver.
Record(alert) ==
  /\ alerts' = SubSeq(<<alert>> \o alerts, 1, IF Len(alerts) < FeedCap THEN Len(alerts) + 1 ELSE FeedCap)
  /\ delivery' = [a \in Emitted \union {alert} |-> IF a = alert THEN Waiting ELSE delivery[a]]
  /\ delivered' = [a \in Emitted \union {alert} |-> IF a = alert THEN {} ELSE delivered[a]]
  /\ UNCHANGED <<acknowledged, integrations>>

AcknowledgeAlert(alert) ==
  /\ acknowledged' = acknowledged \union ({alert} \intersect ToSet(alerts))
  /\ UNCHANGED <<alerts, integrations, delivery, delivered>>

\* An integration of a kind replaces the one before it, in its place.
AddIntegration(kind) ==
  /\ integrations' = IF Contains(integrations, kind) THEN integrations ELSE Append(integrations, kind)
  /\ UNCHANGED <<alerts, acknowledged, delivery, delivered>>

StartDelivery(alert) ==
  /\ ~delivery[alert].started
  /\ delivery' = [delivery EXCEPT ![alert] = [started |-> TRUE, left |-> Routes, owed |-> ToSet(Routes)]]
  /\ UNCHANGED <<alerts, acknowledged, integrations, delivered>>

\* What is left to do once one integration has answered.
\* Bug: a failure ends the delivery.
LeftUnlessFailed(left, outcome) == IF outcome = "ok" THEN Tail(left) ELSE <<>>
LeftAfter(left, outcome) == Tail(left)

Answered(alert, outcome) ==
  LET left == delivery[alert].left
  IN /\ left # <<>>
     /\ delivered' = [delivered EXCEPT ![alert] = @ \union {Head(left)}]
     /\ delivery' = [delivery EXCEPT ![alert].left = LeftAfter(left, outcome)]
     /\ UNCHANGED <<alerts, acknowledged, integrations>>

DeliveryStep(alert) ==
  StartDelivery(alert) \/ \E outcome \in {"ok", "error"} : Answered(alert, outcome)

NotifyInit ==
  alerts = <<>> /\ acknowledged = {} /\ integrations = <<>> /\ delivery = <<>> /\ delivered = <<>>

-----------------------------------------------------------------------------
\* The delivery of an alert is over and every integration it was for answered.
AnsweredByAll(alert) ==
  /\ alert \in Emitted /\ delivery[alert].started
  /\ delivered[alert] = delivery[alert].owed
=============================================================================
