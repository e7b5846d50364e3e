----------------------------- MODULE KillSwitch -----------------------------
(***************************************************************************)
(* The kill-switch registry: one switch per scope (global, a symbol, a     *)
(* strategy), tripped softly or hard, acknowledged and re-armed by people, *)
(* and cleared by the system when a soft cause has gone away.              *)
(* Source: backend/app/services/risk/killswitch.py.                        *)
(*                                                                         *)
(* A switch that nobody has touched is not in the code's dictionary; it is *)
(* armed, which is what _active makes of a missing one.  The reason of a   *)
(* trip, a text, is its cause.  Nothing but the monitor reads it, which    *)
(* looks for the words "stale" and "no data" in it, so a cause says who    *)
(* has tripped, for what, and whether the text has those words: a person   *)
(* writes what he likes ("manual", or with the words "manual_stale").      *)
(***************************************************************************)
CONSTANTS Scopes,  \* "global" and the scopes of symbols and strategies
          Causes   \* what may trip a switch

Levels == {"soft", "hard"}
Armed == [state |-> "armed", level |-> "none", cause |-> "none", latched |-> FALSE]
Switches == [state : {"armed", "tripped", "acknowledged"},
             level : Levels \union {"none"}, cause : Causes \union {"none"},
             latched : BOOLEAN]  \* ghost: tripped hard and not re-armed since

\* The reasons a person may give, and those in which the monitor finds its words.
ManualReasons == {"manual", "manual_stale"}
MentionsData == {"stale", "manual_stale"}

VARIABLE switches  \* KillSwitchRegistry.switches

Active(scope) == switches[scope].state # "armed"
Hard(scope) == Active(scope) /\ switches[scope].level = "hard"

-----------------------------------------------------------------------------
\* What each call makes of one switch

\* trip acts on an armed switch, and escalates a soft one; it ignores the rest.
TripTakesEffect(switch, level) ==
  switch.state # "armed" => switch.level = "soft" /\ level = "hard"

Tripped(switch, level, cause) ==
  IF TripTakesEffect(switch, level)
  THEN [state |-> "tripped", level |-> level, cause |-> cause,
        latched |-> switch.latched \/ level = "hard"]
  ELSE switch

\* Re-arming ends the latch.
Rearmed(switch) == Armed

\* auto_clear: soft trips that nobody has acknowledged.
Clearable(switch) == switch.state = "tripped" /\ switch.level = "soft"
Cleared(switch) ==
  IF Clearable(switch) THEN [Armed EXCEPT !.latched = switch.latched] ELSE switch

\* The two queries of the execution gate, over the scopes of an order.
EntriesBlocked(scopes) == \E scope \in scopes : Active(scope)
ExitsBlocked(scopes) == \E scope \in scopes : Hard(scope)

-----------------------------------------------------------------------------
Trip(scope, level, cause) ==
  switches' = [switches EXCEPT ![scope] = Tripped(@, level, cause)]

\* Bug: acknowledging a hard trip makes it a soft one.
AcknowledgeSoftens(scope) ==
  /\ switches[scope].state = "tripped"
  /\ switches' = [switches EXCEPT ![scope].state = "acknowledged", ![scope].level = "soft"]
Acknowledge(scope) ==
  /\ switches[scope].state = "tripped"
  /\ switches' = [switches EXCEPT ![scope].state = "acknowledged"]

\* Bug: a switch is re-armed that nobody has acknowledged.
RearmUnacknowledged(scope) ==
  /\ switches[scope].state # "armed"
  /\ switches' = [switches EXCEPT ![scope] = Rearmed(@)]
Rearm(scope) ==
  /\ switches[scope].state = "acknowledged"
  /\ switches' = [switches EXCEPT ![scope] = Rearmed(@)]

AutoClear(scope) ==
  /\ Clearable(switches[scope])
  /\ switches' = [switches EXCEPT ![scope] = Cleared(@)]

KillInit == switches = [scope \in Scopes |-> Armed]

KillNext ==
  \/ \E scope \in Scopes, level \in Levels, cause \in Causes : Trip(scope, level, cause)
  \/ \E scope \in Scopes : Acknowledge(scope)
  \/ \E scope \in Scopes : Rearm(scope)
  \/ \E scope \in Scopes : AutoClear(scope)

KillSpec == KillInit /\ [][KillNext]_switches

-----------------------------------------------------------------------------
\* An armed switch remembers nothing of its last trip; any other has a level.
KillTypeOK ==
  /\ switches \in [Scopes -> Switches]
  /\ \A scope \in Scopes : switches[scope].state = "armed" <=> switches[scope].level = "none"

\* A hard trip holds, at its level, through any later trips, clears and
\* acknowledgements, until somebody re-arms the switch; nothing but a hard
\* trip makes a switch hard.
HardTripIsLatched == \A scope \in Scopes : switches[scope].latched <=> Hard(scope)

\* A switch stops blocking in two ways only: a person re-arms what a person
\* has acknowledged, or the system clears a soft trip nobody has acknowledged.
\* An escalation takes the acknowledgement of the soft trip back.
EarnedRelease(scope) ==
  LET before == switches[scope]
      after == switches'[scope]
  IN /\ before.state # "armed" /\ after.state = "armed" =>
          before.state = "acknowledged" \/ before.level = "soft"
     /\ before.state = "acknowledged" /\ after.state = "tripped" =>
          before.level = "soft" /\ after.level = "hard"
ReleaseIsEarned == [][\A scope \in Scopes : EarnedRelease(scope)]_switches
=============================================================================
