--------------------------- MODULE MCAlarmManager ---------------------------
(***************************************************************************)
(* AlarmManager on a small instance, with the history the duration         *)
(* properties speak of: since when the readings an alarm watches have      *)
(* satisfied its condition without a break.                                *)
(***************************************************************************)
EXTENDS AlarmManager

VARIABLES
  heldFrom,  \* the first of the present run of matching readings of alarm i, -1 for none
  heldTo     \* the last of them since the alarms were edited, -1 for none

mcVars == <<vars, heldFrom, heldTo>>

High5 == [name |-> "high", enabled |-> TRUE, condition |-> "Above", id |-> 0, source |-> AnySource,
          a |-> 1, b |-> 0, seconds |-> 2, hysteresis |-> 1, tint |-> TRUE]
Quiet == [High5 EXCEPT !.name = "quiet", !.condition = "NoReadings", !.tint = FALSE]
Band  == [High5 EXCEPT !.name = "band", !.condition = "Outside", !.a = 2, !.b = 0, !.id = 1, !.source = "dmm",
                       !.seconds = 0, !.hysteresis = -1]

\* Edits that keep what an alarm watches: order, duration, enabled, gone and back.
KeepingLists == {
  <<High5, Quiet>>,
  <<Quiet, [High5 EXCEPT !.seconds = 1]>>,
  <<[High5 EXCEPT !.enabled = FALSE], Band>>,
  <<Band, [Quiet EXCEPT !.tint = TRUE]>> }

MCReadings ==
  {[id |-> 0, source |-> "dmm", value |-> v, overload |-> FALSE] : v \in 0..2}
  \cup {[id |-> 0, source |-> "dmm", value |-> 0, overload |-> TRUE]}
  \cup {[id |-> 1, source |-> s, value |-> v, overload |-> FALSE] : s \in {"dmm", "other"}, v \in {1, 3}}

-----------------------------------------------------------------------------
MCInit == Init /\ heldFrom = <<>> /\ heldTo = <<>>

MCSetAlarms(list) ==
  LET same(i) == {j \in DOMAIN alarms : /\ alarms[j].name = list[i].name
                                        /\ alarms[j].condition = list[i].condition
                                        /\ alarms[j].enabled /\ list[i].enabled}
  IN /\ SetAlarms(list)
     /\ heldFrom' = [i \in DOMAIN list |-> IF same(i) = {} THEN -1 ELSE heldFrom[CHOOSE j \in same(i) : TRUE]]
     /\ heldTo' = [i \in DOMAIN list |-> -1]

MCFeed(rd) ==
  /\ Feed(rd)
  /\ heldFrom' = [i \in DOMAIN alarms |->
       IF ~Watches(alarms[i], rd) \/ ~alarms[i].enabled THEN heldFrom[i]
       ELSE IF ~Matches(alarms[i], rd) THEN -1
       ELSE IF heldFrom[i] >= 0 THEN heldFrom[i] ELSE now]
  /\ heldTo' = [i \in DOMAIN alarms |->
       IF ~Watches(alarms[i], rd) \/ ~alarms[i].enabled THEN heldTo[i]
       ELSE IF Matches(alarms[i], rd) THEN now ELSE -1]

MCNext ==
  \/ \E list \in AlarmLists : MCSetAlarms(list)
  \/ \E rd \in Readings : MCFeed(rd)
  \/ /\ \/ \E on \in BOOLEAN : SetConnected(on)
        \/ Tick
        \/ \E i \in DOMAIN state : Acknowledge(i)
        \/ AcknowledgeAll
        \/ Pass
     /\ UNCHANGED <<heldFrom, heldTo>>

MCSpec == MCInit /\ [][MCNext]_mcVars

\* An alarm raises only when its condition has held for its duration (alarm.h: "condition must hold this long
\* before the alarm raises"): through spikes, other values' readings, reconnections and edits in between.
RaisedHasHeld ==
  \A i \in DOMAIN signals :
    signals[i] = "raised" /\ alarms[i].condition # "NoReadings"
      => heldFrom[i] >= 0 /\ now - heldFrom[i] >= alarms[i].seconds

\* And then it does raise: no alarm stays off or pending past the reading that completes its duration.
HeldIsRaised ==
  \A i \in DOMAIN alarms :
    heldTo[i] >= 0 /\ heldTo[i] - heldFrom[i] >= alarms[i].seconds => state[i] \in Active
=============================================================================
