---------------------------- MODULE AlarmManager ----------------------------
(***************************************************************************)
(* The alarms of one meter: core/alarm.cpp.  Every alarm is a condition on *)
(* one value of the meter; the manager turns the stream of readings into   *)
(* Off / Pending / Raised / Acknowledged, one state per alarm, and says so *)
(* with the signals raised() and cleared().                                *)
(*                                                                         *)
(* One unit of time is one second of the wall clock.  Values are small     *)
(* integers in base units; an overload ("OL") is a flag of the reading.    *)
(***************************************************************************)
EXTENDS Integers, Sequences, FiniteSets

CONSTANTS
  AlarmLists,  \* the lists the user may set up: sequences of Alarm records
  Readings,    \* the readings the meter may send: [id, source, value, overload]
  MaxTime      \* the clock stops here (bounds the state space)

Conditions == {"Below", "Above", "Outside", "Inside", "Overload", "NoReadings"}
States     == {"Off", "Pending", "Raised", "Acknowledged"}
AnySource  == "any"  \* ValueRef::source is empty: whichever meter

ASSUME AlarmListsAssumption ==
  \A list \in AlarmLists : Len(list) \in Nat /\ DOMAIN list = 1..Len(list) /\ \A i \in DOMAIN list :
    /\ list[i].enabled \in BOOLEAN /\ list[i].tint \in BOOLEAN
    /\ list[i].condition \in Conditions
    /\ list[i].seconds \in Nat
    /\ list[i].a \in Int /\ list[i].b \in Int /\ list[i].hysteresis \in Int
ASSUME ReadingsAssumption == \A rd \in Readings : rd.value \in Int /\ rd.overload \in BOOLEAN
ASSUME TimeAssumption == MaxTime \in Nat

VARIABLES
  alarms,       \* m_alarms
  state,        \* m_state, one per alarm
  since,        \* m_since: when the condition started to hold
  lastReading,  \* m_lastReading: when the last main reading came, -1 for none
  silenceFrom,  \* m_silenceFrom: when the meter was connected, -1 while it is not
  raiseOrder,   \* m_raiseOrder: names in the order they raised, last = newest
  signals,      \* what the last call emitted: "none", "raised" or "cleared" per alarm, in the list's order
  ticked,       \* auxiliary: the last call was tick()
  now           \* the clock the calls are stamped with

vars == <<alarms, state, since, lastReading, silenceFrom, raiseOrder, signals, ticked, now>>

Active == {"Raised", "Acknowledged"}

-----------------------------------------------------------------------------
(* The condition of an alarm, pure. *)

Low(al)  == IF al.a <= al.b THEN al.a ELSE al.b
High(al) == IF al.a <= al.b THEN al.b ELSE al.a

\* Alarm::matches: OL is neither below nor above anything.
Matches(al, rd) ==
  CASE al.condition = "Overload"   -> rd.overload
    [] al.condition = "NoReadings" -> FALSE
    [] OTHER -> /\ ~rd.overload
                /\ CASE al.condition = "Below"   -> rd.value < al.a
                     [] al.condition = "Above"   -> rd.value > al.a
                     [] al.condition = "Outside" -> rd.value < Low(al) \/ rd.value > High(al)
                     [] al.condition = "Inside"  -> rd.value >= Low(al) /\ rd.value <= High(al)

\* Alarm::released: back beyond the hysteresis band.
Released(al, rd) ==
  LET h == IF al.hysteresis < 0 THEN -al.hysteresis ELSE al.hysteresis IN
  CASE al.condition = "Overload"   -> ~rd.overload
    [] al.condition = "NoReadings" -> TRUE
    [] OTHER -> /\ ~rd.overload
                /\ CASE al.condition = "Below"   -> rd.value >= al.a + h
                     [] al.condition = "Above"   -> rd.value <= al.a - h
                     [] al.condition = "Outside" -> rd.value >= Low(al) + h /\ rd.value <= High(al) - h
                     [] al.condition = "Inside"  -> rd.value < Low(al) - h \/ rd.value > High(al) + h

\* ValueRef::matches: the value's id, from this meter or from any.
Watches(al, rd) == al.id = rd.id /\ al.source \in {AnySource, rd.source}

-----------------------------------------------------------------------------
(* One alarm after one reading: AlarmManager::evaluate and the NoReadings  *)
(* branch of feed.                                                         *)

Evaluate(al, s, t, rd) ==
  CASE ~al.enabled -> "Off"
    [] al.enabled /\ s = "Off" ->
         IF ~Matches(al, rd) THEN "Off" ELSE IF al.seconds <= 0 THEN "Raised" ELSE "Pending"
    [] al.enabled /\ s = "Pending" ->
         IF ~Matches(al, rd) THEN "Off" ELSE IF now - t >= al.seconds THEN "Raised" ELSE "Pending"
    [] al.enabled /\ s \in Active -> IF Released(al, rd) THEN "Off" ELSE s

Fed(al, s, t, rd) ==
  CASE al.condition = "NoReadings" -> IF rd.id = 0 THEN "Off" ELSE s
    [] al.condition # "NoReadings" /\ Watches(al, rd) -> Evaluate(al, s, t, rd)
    [] OTHER -> s

FedSince(al, s, t, rd) ==
  CASE al.condition = "NoReadings" -> IF rd.id = 0 THEN now ELSE t
    [] al.condition # "NoReadings" /\ Watches(al, rd) /\ al.enabled /\ s = "Off" /\ Matches(al, rd) -> now
    [] OTHER -> t

\* A slip: clearing is told whatever the alarm was.
SignalOfAnyEnd(al, s, t) ==
  IF t = "Raised" /\ s \notin Active THEN "raised" ELSE IF t = "Off" /\ s # "Off" THEN "cleared" ELSE "none"

\* The signal a step of alarm al from s to t emits: clearing is silent from Pending, except that the end of
\* a silence is always told.
SignalOf(al, s, t) ==
  CASE t = "Raised" /\ s \notin Active -> "raised"
    [] t = "Off" /\ s # "Off" /\ (s \in Active \/ al.condition = "NoReadings" \/ ~al.enabled) -> "cleared"
    [] OTHER -> "none"

\* A call that emits nothing.
Quietly(list) == [i \in DOMAIN list |-> "none"]

\* A slip: the raised names are taken out and not put at the end.
ReorderedWithoutAppend(order, sig) ==
  SelectSeq(order, LAMBDA n : \A i \in DOMAIN sig : sig[i] = "raised" => alarms[i].name # n)

\* QList::removeAll(n)
Without(names, n) ==
  LET rest[k \in 0..Len(names)] ==
        IF k = 0 THEN <<>> ELSE IF names[k] = n THEN rest[k - 1] ELSE Append(rest[k - 1], names[k])
  IN rest[Len(names)]

\* The constructor's slot, at each raised() in the list's order: the name goes to the end, once.
Reordered(order, sig) ==
  LET after[i \in 0..Len(alarms)] ==
        IF i = 0 THEN order
        ELSE IF sig[i] # "raised" THEN after[i - 1]
        ELSE Append(Without(after[i - 1], alarms[i].name), alarms[i].name)
  IN after[Len(alarms)]

-----------------------------------------------------------------------------
Init ==
  /\ alarms = <<>> /\ state = <<>> /\ since = <<>>
  /\ lastReading = -1 /\ silenceFrom = -1
  /\ raiseOrder = <<>>
  /\ signals = <<>> /\ ticked = FALSE
  /\ now = 0

\* setAlarms: an alarm that has the name of an earlier one takes over its state (the last of that name) while
\* it is enabled.
SetAlarms(list) ==
  LET old(i)  == {j \in DOMAIN alarms : alarms[j].name = list[i].name /\ list[i].enabled}
      from(i) == CHOOSE j \in old(i) : \A k \in old(i) : k <= j
  IN /\ alarms' = list
     /\ state' = [i \in DOMAIN list |-> IF old(i) = {} THEN "Off" ELSE state[from(i)]]
     /\ since' = [i \in DOMAIN list |-> IF old(i) = {} THEN 0 ELSE since[from(i)]]
     /\ signals' = Quietly(list) /\ ticked' = FALSE
     /\ UNCHANGED <<lastReading, silenceFrom, raiseOrder, now>>

Feed(rd) ==
  LET next == [i \in DOMAIN alarms |-> Fed(alarms[i], state[i], since[i], rd)]
      sig  == [i \in DOMAIN alarms |-> SignalOf(alarms[i], state[i], next[i])]
  IN /\ lastReading' = IF rd.id = 0 THEN now ELSE lastReading
     /\ state' = next
     /\ since' = [i \in DOMAIN alarms |-> FedSince(alarms[i], state[i], since[i], rd)]
     /\ raiseOrder' = Reordered(raiseOrder, sig)
     /\ signals' = sig /\ ticked' = FALSE
     /\ UNCHANGED <<alarms, silenceFrom, now>>

\* setConnected: the silence is counted from the connection; nothing is expected from a meter that is not
\* connected.  Only a raised alarm says that it cleared.
SetConnected(on) ==
  LET ends(i) == ~on /\ alarms[i].condition = "NoReadings" /\ state[i] # "Off"
      sig     == [i \in DOMAIN alarms |-> IF ends(i) /\ state[i] # "Pending" THEN "cleared" ELSE "none"]
  IN /\ on # (silenceFrom >= 0)
     /\ silenceFrom' = IF on THEN now ELSE -1
     /\ lastReading' = -1
     /\ state' = [i \in DOMAIN alarms |-> IF ends(i) THEN "Off" ELSE state[i]]
     /\ signals' = sig /\ ticked' = FALSE
     /\ UNCHANGED <<alarms, since, raiseOrder, now>>

SilentSince == IF lastReading >= 0 THEN lastReading ELSE silenceFrom

\* The silence that alarm i waits for has lasted long enough.
Silent(i) ==
  /\ alarms[i].condition = "NoReadings" /\ alarms[i].enabled
  /\ SilentSince >= 0
  /\ now - SilentSince >= alarms[i].seconds

\* A slip: without a reading there is no silence yet.
TickAfterReading ==
  LET sig == [i \in DOMAIN alarms |-> IF Silent(i) /\ lastReading >= 0 /\ state[i] = "Off" THEN "raised" ELSE "none"]
  IN /\ state' = [i \in DOMAIN alarms |-> IF sig[i] = "raised" THEN "Raised" ELSE state[i]]
     /\ raiseOrder' = Reordered(raiseOrder, sig)
     /\ signals' = sig /\ ticked' = TRUE
     /\ UNCHANGED <<alarms, since, lastReading, silenceFrom, now>>

Tick ==
  LET sig == [i \in DOMAIN alarms |-> IF Silent(i) /\ state[i] = "Off" THEN "raised" ELSE "none"]
  IN /\ state' = [i \in DOMAIN alarms |-> IF sig[i] = "raised" THEN "Raised" ELSE state[i]]
     /\ raiseOrder' = Reordered(raiseOrder, sig)
     /\ signals' = sig /\ ticked' = TRUE
     /\ UNCHANGED <<alarms, since, lastReading, silenceFrom, now>>

Acknowledge(i) ==
  /\ i \in DOMAIN state /\ state[i] = "Raised"
  /\ state' = [state EXCEPT ![i] = "Acknowledged"]
  /\ signals' = Quietly(alarms) /\ ticked' = FALSE
  /\ UNCHANGED <<alarms, since, lastReading, silenceFrom, raiseOrder, now>>

AcknowledgeAll ==
  /\ state' = [i \in DOMAIN state |-> IF state[i] = "Raised" THEN "Acknowledged" ELSE state[i]]
  /\ signals' = Quietly(alarms) /\ ticked' = FALSE
  /\ UNCHANGED <<alarms, since, lastReading, silenceFrom, raiseOrder, now>>

\* A second of the wall clock.
Pass ==
  /\ now < MaxTime
  /\ now' = now + 1
  /\ signals' = Quietly(alarms) /\ ticked' = FALSE
  /\ UNCHANGED <<alarms, state, since, lastReading, silenceFrom, raiseOrder>>

Next ==
  \/ \E list \in AlarmLists : SetAlarms(list)
  \/ \E rd \in Readings : Feed(rd)
  \/ \E on \in BOOLEAN : SetConnected(on)
  \/ Tick
  \/ \E i \in DOMAIN state : Acknowledge(i)
  \/ AcknowledgeAll
  \/ Pass

Spec == Init /\ [][Next]_vars

-----------------------------------------------------------------------------
(* displayColor: the alarm whose colour the display takes, 0 when none: the one raised last among those still  *)
(* raised (acknowledged or not) that tint the display.                                                       *)

DisplayAlarm ==
  LET tinted(k) == {i \in DOMAIN alarms : /\ alarms[i].name = raiseOrder[k]
                                          /\ alarms[i].tint /\ state[i] \in Active}
      held      == {k \in DOMAIN raiseOrder : tinted(k) # {}}
  IN IF held = {} THEN 0
     ELSE LET k == CHOOSE m \in held : \A n \in held : n <= m
          IN CHOOSE i \in tinted(k) : \A j \in tinted(k) : i <= j

-----------------------------------------------------------------------------
TypeOK ==
  /\ alarms \in AlarmLists \cup {<<>>}
  /\ state \in [DOMAIN alarms -> States]
  /\ since \in [DOMAIN alarms -> 0..MaxTime]
  /\ lastReading \in -1..MaxTime /\ silenceFrom \in -1..MaxTime
  /\ now \in 0..MaxTime /\ ticked \in BOOLEAN
  /\ signals \in [DOMAIN alarms -> {"none", "raised", "cleared"}]

\* displayColor() finds its alarm through the list of names, which only raised() extends and which an edit of the
\* alarms leaves alone: an alarm that is raised and tints the display must colour it however it got there.
RaisedTintsDisplay ==
  (\E i \in DOMAIN alarms : state[i] \in Active /\ alarms[i].tint) <=> DisplayAlarm # 0

\* A disabled alarm is off, whatever it was before it was disabled and wherever it was in the old list: nothing
\* evaluates it again that could clear it (evaluate() and tick() skip it).
DisabledIsOff == \A i \in DOMAIN alarms : ~alarms[i].enabled => state[i] = "Off"

\* A connected meter that has been silent for the time of an enabled "no readings" alarm has raised it once tick()
\* was called (alarm.h: "NoReadings: the silence"), through every edit and reconnection before.
SilenceRaises == ticked => \A i \in DOMAIN alarms : Silent(i) => state[i] \in Active

\* cleared() answers a raised(): it never comes for an alarm that was not raised (alarm.h: "The condition no
\* longer holds"), so the "OK" sound and the info line have a cause.
ClearedWasRaised ==
  [][\A i \in DOMAIN signals' : signals'[i] = "cleared" => state[i] \in Active]_vars
=============================================================================
