-------------------------- MODULE MCMeterController --------------------------
(***************************************************************************)
(* The alarms of a meter, first by themselves in every detail of time and  *)
(* of edits (MCAlarmManager), then with all they set off (MeterController, *)
(* of three alarms: a value too high, a value too low, and silence). A     *)
(* behaviour is one of the part it chose.                                  *)
(***************************************************************************)
EXTENDS MCAlarmManager

CONSTANTS Lists, Values, EndTime, MaxActs, Dialogs  \* of MeterController

ASSUME ControllerAssumption ==
  /\ EndTime \in Nat /\ MaxActs \in Nat /\ Dialogs \in BOOLEAN
  /\ \A list \in Lists : Len(list) \in Nat /\ DOMAIN list = 1..Len(list) /\ \A i \in DOMAIN list :
       /\ list[i].enabled \in BOOLEAN /\ list[i].tint \in BOOLEAN
       /\ list[i].condition \in Conditions
       /\ list[i].seconds \in Nat
       /\ list[i].a \in Int /\ list[i].b \in Int /\ list[i].hysteresis \in Int
       /\ list[i].program \in BOOLEAN /\ list[i].recorder \in {"none", "start", "stop"}
       /\ list[i].plays \in Nat \cup {-1}
  /\ \A rd \in Values : rd.value \in Int /\ rd.overload \in BOOLEAN

VARIABLES
  part,  \* "alarms" or "controller"
  wanted, link, open, half, dialogs, queue, draining, startPending, connectPending, recorder, externalPending, external,
  reopenAfter, playing, asked, lent, acts  \* of MeterController

ownVars == <<wanted, link, open, half, dialogs, queue, draining, startPending, connectPending, recorder, externalPending,
             external, reopenAfter, playing, asked, lent, acts>>

Controller == INSTANCE MeterController WITH AlarmLists <- Lists, Readings <- Values, MaxTime <- EndTime

CtlInit == MCInit /\ Controller!Init /\ part \in {"alarms", "controller"}

CtlNext ==
  /\ UNCHANGED part
  /\ \/ part = "alarms" /\ MCNext /\ UNCHANGED ownVars
     \/ part = "controller" /\ Controller!Next /\ UNCHANGED <<heldFrom, heldTo>>

CtlSpec == CtlInit /\ [][CtlNext]_<<part, mcVars, ownVars>>

-----------------------------------------------------------------------------
(* The properties of the parts. SilenceRaises and ClearedWasRaised hold of both. *)

\* An alarm is raised if and only if its readings have satisfied its condition for its time, through spikes, other
\* values' readings, reconnections and edits (alarm.h: "condition must hold this long before the alarm raises"), and
\* one that is raised and tints the display is the one displayColor() finds.
AlarmsShowWhatHolds == part = "alarms" => RaisedHasHeld /\ HeldIsRaised /\ RaisedTintsDisplay

\* What plays repeatedly is the sound of an alarm that is raised, whatever edits did to the list (AlarmSound::next).
SoundIsOfItsAlarm == part = "controller" => Controller!SoundIsOfItsAlarm

\* What SCPI clients ask for happens, once and as asked last, behind whatever dialogs (m_startPending, m_connectPending).
RequestsAreKept == part = "controller" => Controller!RequestsAreKept

\* The port is an alarm's program's or the meter's, and a meter that is read has its silence watched
\* (MeterController::onAlarmRaised).
PortHasOneUser == part = "controller" => Controller!PortHasOneUser

\* No SCPI client's start throws an unsaved recording away (MeterController::mayStartRecording).
UnsavedIsKept == Controller!UnsavedIsKept

-----------------------------------------------------------------------------
Over  == [name |-> "high", enabled |-> TRUE, condition |-> "Above", id |-> 0, source |-> "any", a |-> 0, b |-> 0,
          seconds |-> 0, hysteresis |-> 0, tint |-> FALSE, program |-> TRUE, recorder |-> "start", plays |-> -1]
Under == [Over EXCEPT !.name = "low", !.condition = "Below", !.program = FALSE, !.recorder = "stop", !.plays = 1]
Gone  == [Over EXCEPT !.name = "gone", !.condition = "NoReadings", !.seconds = 1, !.recorder = "none", !.plays = 2]

MCLists == { <<Over, Gone>>, <<Gone, Under>> }

MCValues == {[id |-> 0, source |-> "dmm", value |-> v, overload |-> FALSE] : v \in {-1, 1}}
=============================================================================
