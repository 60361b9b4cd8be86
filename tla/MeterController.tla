--------------------------- MODULE MeterController ---------------------------
(***************************************************************************)
(* The controller of one meter: service/metercontroller.cpp.  It composes  *)
(* the connection (by its promise, MeterLink) with the alarms              *)
(* (AlarmManager), and adds what they set off: the recorder, a program     *)
(* that gets the port to itself, the sounds (ui/alarmsound.cpp), and what  *)
(* SCPI clients ask for, which runs after their command.                   *)
(*                                                                         *)
(* The event loop runs posted calls, then what sockets, timers and ports   *)
(* bring.  A port that is refused for lack of permission is told in a      *)
(* dialog, whose own event loop runs all of these inside the call.         *)
(***************************************************************************)
EXTENDS Integers, Sequences, FiniteSets

CONSTANTS
  AlarmLists,   \* lists of alarms; besides AlarmManager's fields: program, recorder, plays (-1: while raised, 0: silent)
  Readings,     \* as in AlarmManager
  MaxTime,      \* the clock stops here
  MaxActs,      \* SCPI commands and uses of the window
  Dialogs       \* whether a port may be refused for lack of permission, which is told in a dialog

VARIABLES
  alarms, state, since, lastReading, silenceFrom, raiseOrder, signals, ticked, now,  \* AlarmManager
  wanted, link, open,  \* MeterLink
  half,             \* openPort() has created a port that does not open, and shows why
  dialogs,          \* who waits for such a dialog, innermost last: "call", "program", "window" or "retry"
  queue,            \* the posted calls: "start", "stop", "on", "off"
  draining,         \* the event loop is running them
  startPending,     \* m_startPending
  connectPending,   \* m_connectPending: at most one element
  recorder,         \* the recorder: "Idle", "Record" or "Unsaved" (in View, not saved)
  externalPending,  \* m_externalPending: the calls that will take the port for a program
  external,         \* m_external is running
  reopenAfter,      \* m_reopenAfter
  playing,          \* AlarmSound::m_playing: by place in the list, [sound, left]
  asked,            \* auxiliary: what INPut asked for last, {} once something else decided
  lent,             \* auxiliary: the program has got the port, nobody has asked for the meter since
  acts              \* bound: commands and uses of the window so far

alarmVars == <<alarms, state, since, lastReading, silenceFrom, raiseOrder, signals, ticked, now>>
linkVars  == <<wanted, link, open, half>>
callVars  == <<queue, draining, startPending, connectPending>>
portVars  == <<externalPending, external, reopenAfter>>
auxVars   == <<asked, lent>>
vars == <<alarmVars, linkVars, dialogs, callVars, recorder, portVars, playing, auxVars, acts>>

Alarms == INSTANCE AlarmManager
Link   == INSTANCE MeterLink

Init ==
  /\ Alarms!Init /\ Link!Init /\ half = FALSE /\ dialogs = <<>>
  /\ queue = <<>> /\ draining = FALSE /\ startPending = FALSE /\ connectPending = {}
  /\ recorder = "Idle"
  /\ externalPending = 0 /\ external = FALSE /\ reopenAfter = FALSE
  /\ playing = <<>>
  /\ asked = {} /\ lent = FALSE /\ acts = 0

-----------------------------------------------------------------------------
(* connectMeter(): the connection, then the clock of the "no readings" alarms. *)

\* The manager of the alarms is not called.
AlarmsRest ==
  /\ signals' = Alarms!Quietly(alarms) /\ ticked' = FALSE
  /\ UNCHANGED <<alarms, state, since, lastReading, silenceFrom, raiseOrder, now>>

AlarmsConnected(on) == IF on = (silenceFrom >= 0) THEN AlarmsRest ELSE Alarms!SetConnected(on)

Disconnect == Link!Close /\ half' = FALSE /\ AlarmsConnected(FALSE) /\ UNCHANGED dialogs

\* open() by who: it succeeds, fails, or waits in the dialog.
Connect(who) ==
  \/ Link!Open /\ half' = FALSE /\ AlarmsConnected(TRUE) /\ UNCHANGED dialogs
  \/ Link!OpenFails /\ half' = FALSE /\ AlarmsConnected(FALSE) /\ UNCHANGED dialogs
  \/ /\ Dialogs /\ Len(dialogs) < 2
     /\ wanted' = TRUE /\ open' = FALSE /\ half' = TRUE /\ UNCHANGED link
     /\ dialogs' = Append(dialogs, who)
     /\ AlarmsRest

\* The dialog is answered: openPort() closes the port that is there now, open() or the retry has failed.
Answer ==
  /\ dialogs # <<>>
  /\ dialogs' = SubSeq(dialogs, 1, Len(dialogs) - 1)
  /\ open' = FALSE /\ half' = FALSE
  /\ IF dialogs[Len(dialogs)] = "retry"
     THEN link' = "Error" /\ UNCHANGED wanted /\ AlarmsRest
     ELSE wanted' = FALSE /\ UNCHANGED link /\ AlarmsConnected(FALSE)
  /\ IF dialogs[Len(dialogs)] = "call"
     THEN connectPending' = connectPending \ {TRUE} /\ draining' = (queue # <<>>)
     ELSE UNCHANGED <<connectPending, draining>>
  /\ asked' = {}
  /\ UNCHANGED <<queue, startPending, recorder, portVars, playing, lent, acts>>

-----------------------------------------------------------------------------
(* What an alarm sets off. *)

MayStart == recorder = "Idle"

\* A slip: every alarm gets its call.
AskForPortAnyway(raised) ==
  externalPending' = externalPending + (IF \E i \in raised : alarms[i].program THEN 1 ELSE 0)

\* onAlarmRaised: one program at a time has the port; the first alarm that asks gets it, later.
AskForPort(raised) ==
  externalPending' = IF externalPending = 0 /\ ~external /\ \E i \in raised : alarms[i].program
                     THEN 1 ELSE externalPending

\* The alarms raised in one call act in the order of the list: a start does nothing while there is a recording that
\* goes on or is not saved, a stop nothing while none goes on.
Acted(before) ==
  LET raised(what) == {i \in DOMAIN alarms : signals'[i] = "raised" /\ alarms[i].recorder = what}
      goesOn(i)    == before = "Record" \/ (before = "Idle" /\ \E j \in raised("start") : j < i)
  IN IF \E i \in raised("stop") : goesOn(i) THEN "Unsaved"
     ELSE IF goesOn(Len(alarms) + 1) THEN "Record" ELSE before

\* AlarmSound::start: at once, and as often as it is left every second.
Sounding(raised) ==
  LET left(i)  == IF alarms[i].plays = -1 THEN -1 ELSE alarms[i].plays - 1
      goOn     == {i \in raised : alarms[i].plays # 0 /\ left(i) # 0}
  IN [i \in goOn \cup (DOMAIN playing \ raised) |->
        IF i \in goOn THEN [sound |-> alarms[i].name, left |-> left(i)] ELSE playing[i]]

\* Alarms raised by a reading or by a tick.
React ==
  LET raised == {i \in DOMAIN signals' : signals'[i] = "raised"}
  IN /\ AskForPort(raised)
     /\ recorder' = Acted(recorder)
     /\ playing' = Sounding(raised)
     /\ UNCHANGED <<external, reopenAfter>>

Frame(rd) ==
  /\ Link!Frame /\ UNCHANGED half
  /\ Alarms!Feed(rd) /\ React
  /\ UNCHANGED <<dialogs, callVars, auxVars, acts>>

Tick ==
  /\ Alarms!Tick /\ React
  /\ UNCHANGED <<linkVars, dialogs, callVars, auxVars, acts>>

\* AlarmSound::next
SoundTimer(i) ==
  /\ i \in DOMAIN playing
  /\ playing' = IF state[i] # "Raised" \/ playing[i].left = 1
                THEN [j \in DOMAIN playing \ {i} |-> playing[j]]
                ELSE [playing EXCEPT ![i].left = IF @ = -1 THEN -1 ELSE @ - 1]

Sound(i) ==
  /\ SoundTimer(i)
  /\ UNCHANGED <<alarmVars, linkVars, dialogs, callVars, recorder, portVars, auxVars, acts>>

-----------------------------------------------------------------------------
(* The program that has the port to itself. *)

\* Closed and opened again in one call: the silence is counted anew.
AlarmsReconnected ==
  /\ silenceFrom' = now /\ lastReading' = -1
  /\ state' = [i \in DOMAIN state |-> IF alarms[i].condition = "NoReadings" THEN "Off" ELSE state[i]]
  /\ signals' = Alarms!Quietly(alarms) /\ ticked' = FALSE
  /\ UNCHANGED <<alarms, since, raiseOrder, now>>

\* The call onAlarmRaised() planned.  When the program does not start in time the port is taken back.
TakePort ==
  /\ externalPending > 0 /\ externalPending' = externalPending - 1
  /\ \/ external' = TRUE /\ reopenAfter' = open /\ lent' = (open \/ lent)
        /\ IF open THEN Disconnect ELSE AlarmsRest /\ UNCHANGED <<linkVars, dialogs>>
     \/ external' \in BOOLEAN /\ reopenAfter' = FALSE /\ lent' = FALSE
        /\ IF ~open THEN AlarmsRest /\ UNCHANGED <<linkVars, dialogs>>
           ELSE \/ Link!Open /\ half' = FALSE /\ AlarmsReconnected /\ UNCHANGED dialogs
                \/ Disconnect
                \/ /\ Dialogs /\ Len(dialogs) < 2 /\ dialogs' = Append(dialogs, "program")
                   /\ wanted' = TRUE /\ open' = FALSE /\ half' = TRUE /\ link' = "Closed"
                   /\ AlarmsConnected(FALSE)
  /\ asked' = IF open THEN {} ELSE asked
  /\ UNCHANGED <<callVars, recorder, playing, acts>>

\* QProcess::finished: the meter again, whatever was asked for meanwhile.
ProgramEnds ==
  /\ external /\ external' = FALSE /\ lent' = FALSE
  /\ reopenAfter' = FALSE
  /\ IF reopenAfter THEN Connect("program") /\ asked' = {}
                    ELSE AlarmsRest /\ UNCHANGED <<linkVars, dialogs, asked>>
  /\ UNCHANGED <<callVars, recorder, externalPending, playing, acts>>

-----------------------------------------------------------------------------
(* SCPI commands, between two runs of the posted calls. *)

Command == /\ ~draining /\ acts < MaxActs /\ acts' = acts + 1
           /\ AlarmsRest /\ UNCHANGED <<linkVars, dialogs, draining, recorder, portVars, playing>>

\* A slip: a start that is posted already does not count.
InitiateAgain ==
  /\ Command
  /\ IF MayStart THEN startPending' = TRUE /\ queue' = Append(queue, "start")
                 ELSE UNCHANGED <<startPending, queue>>
  /\ UNCHANGED <<connectPending, auxVars>>

\* INITiate: refused (-213) at once, or posted.
Initiate ==
  /\ Command
  /\ IF ~startPending /\ MayStart THEN startPending' = TRUE /\ queue' = Append(queue, "start")
                                  ELSE UNCHANGED <<startPending, queue>>
  /\ UNCHANGED <<connectPending, auxVars>>

Abort ==
  /\ Command /\ queue' = Append(queue, "stop")
  /\ UNCHANGED <<startPending, connectPending, auxVars>>

Planned == IF connectPending = {} THEN {wanted} ELSE connectPending

\* INPut ON, OFF: not when it is so, or will be.
Input(on) ==
  /\ Command /\ asked' = {on}
  /\ IF on \in Planned THEN UNCHANGED <<connectPending, queue>>
     ELSE connectPending' = {on} /\ queue' = Append(queue, IF on THEN "on" ELSE "off")
  /\ UNCHANGED <<startPending, lent>>

Acknowledge ==
  /\ ~draining /\ Alarms!AcknowledgeAll /\ state' # state
  /\ UNCHANGED <<linkVars, dialogs, callVars, recorder, portVars, playing, auxVars, acts>>

-----------------------------------------------------------------------------
(* The posted calls, in their order. *)

\* A slip: the start is not checked again.
RunStartUnchecked ==
  /\ Head(queue) = "start"
  /\ recorder' = "Record" /\ startPending' = FALSE
  /\ AlarmsRest /\ UNCHANGED <<linkVars, dialogs, connectPending, auxVars>>

RunStart ==
  /\ Head(queue) = "start"
  /\ recorder' = IF MayStart THEN "Record" ELSE recorder
  /\ startPending' = FALSE
  /\ AlarmsRest /\ UNCHANGED <<linkVars, dialogs, connectPending, auxVars>>

RunStop ==
  /\ Head(queue) = "stop"
  /\ recorder' = IF recorder = "Record" THEN "Unsaved" ELSE recorder
  /\ AlarmsRest /\ UNCHANGED <<linkVars, dialogs, startPending, connectPending, auxVars>>

\* The request is pending until open() returns; an opening that failed leaves nothing to be obeyed.
RunConnect(on) ==
  /\ Head(queue) = IF on THEN "on" ELSE "off"
  /\ IF on = wanted THEN AlarmsRest /\ UNCHANGED <<linkVars, dialogs>>
     ELSE IF on THEN Connect("call") ELSE Disconnect
  /\ connectPending' = IF dialogs' = dialogs THEN connectPending \ {on} ELSE connectPending
  /\ asked' = IF on /\ on # wanted /\ ~open' THEN {} ELSE asked
  /\ lent' = (lent /\ ~on)
  /\ UNCHANGED <<startPending, recorder>>

RunPosted ==
  /\ queue # <<>> /\ queue' = Tail(queue) /\ draining' = (Tail(queue) # <<>>)
  /\ RunStart \/ RunStop \/ (\E on \in BOOLEAN : RunConnect(on))
  /\ UNCHANGED <<portVars, playing, acts>>

-----------------------------------------------------------------------------
(* The window, which a dialog keeps from being used. *)

Use == dialogs = <<>> /\ acts < MaxActs /\ acts' = acts + 1

\* The sidebar and the Connect button, which also opens what is open.
UseConnect(on) ==
  /\ Use
  /\ IF on THEN Connect("window") ELSE Disconnect
  /\ asked' = {} /\ lent' = (lent /\ ~on)
  /\ UNCHANGED <<callVars, recorder, portVars, playing>>

\* The Record button with its questions, and the file that saves.
UseRecorder ==
  /\ Use
  /\ \/ recorder \in {"Idle", "Unsaved"} /\ recorder' = "Record"
     \/ recorder = "Record" /\ recorder' = "Unsaved"
     \/ recorder = "Unsaved" /\ recorder' = "Idle"
  /\ AlarmsRest
  /\ UNCHANGED <<linkVars, dialogs, callVars, portVars, playing, auxVars>>

\* A slip: sounds go on at the places they have.
UseAlarmsSoundsStay(list) ==
  /\ Use /\ list # alarms
  /\ Alarms!SetAlarms(list)
  /\ UNCHANGED <<linkVars, dialogs, callVars, recorder, portVars, playing, auxVars>>

\* setAlarms() with another list: alarmsChanged() stops the sounds.
UseAlarms(list) ==
  /\ Use /\ list # alarms
  /\ Alarms!SetAlarms(list)
  /\ playing' = <<>>
  /\ UNCHANGED <<linkVars, dialogs, callVars, recorder, portVars, auxVars>>

-----------------------------------------------------------------------------
(* The meter, its port and the clock. *)

Lose ==
  /\ Link!Lose /\ UNCHANGED half /\ AlarmsRest
  /\ UNCHANGED <<dialogs, callVars, recorder, portVars, playing, auxVars, acts>>

\* A lost port is opened again by the connection's timer, which may show the dialog too.
Retry ==
  /\ wanted /\ ~open /\ ~half /\ link = "Error"
  /\ \/ Link!Reopen /\ UNCHANGED <<half, dialogs>>
     \/ /\ Dialogs /\ Len(dialogs) < 2 /\ dialogs' = Append(dialogs, "retry")
        /\ half' = TRUE /\ UNCHANGED <<wanted, link, open>>
  /\ AlarmsRest
  /\ UNCHANGED <<callVars, recorder, portVars, playing, auxVars, acts>>

Silence ==
  /\ wanted /\ (open \/ half) /\ link \in {"Connecting", "Connected"} /\ link' = "Timeout"
  /\ AlarmsRest
  /\ UNCHANGED <<wanted, open, half, dialogs, callVars, recorder, portVars, playing, auxVars, acts>>

Pass ==
  /\ Alarms!Pass
  /\ UNCHANGED <<linkVars, dialogs, callVars, recorder, portVars, playing, auxVars, acts>>

Next ==
  \/ \E rd \in Readings : Frame(rd)
  \/ Tick \/ (\E i \in DOMAIN playing : Sound(i))
  \/ TakePort \/ ProgramEnds
  \/ Initiate \/ Abort \/ (\E on \in BOOLEAN : Input(on)) \/ Acknowledge
  \/ RunPosted \/ Answer
  \/ (\E on \in BOOLEAN : UseConnect(on)) \/ UseRecorder \/ (\E list \in AlarmLists : UseAlarms(list))
  \/ Lose \/ Retry \/ Silence \/ Pass

Spec == Init /\ [][Next]_vars

-----------------------------------------------------------------------------
Names == {"start", "stop", "on", "off"}

TypeOK ==
  /\ Alarms!TypeOK
  /\ wanted \in BOOLEAN /\ link \in Link!Up \cup {"Closed", "Error"} /\ open \in BOOLEAN /\ half \in BOOLEAN
  /\ \A k \in DOMAIN dialogs : dialogs[k] \in {"call", "program", "window", "retry"}
  /\ \A k \in DOMAIN queue : queue[k] \in Names
  /\ draining \in BOOLEAN /\ startPending \in BOOLEAN /\ connectPending \in SUBSET BOOLEAN
  /\ recorder \in {"Idle", "Record", "Unsaved"}
  /\ externalPending \in 0..1 /\ external \in BOOLEAN /\ reopenAfter \in BOOLEAN
  /\ \A i \in DOMAIN playing : playing[i].left \in Nat \cup {-1} /\ playing[i].left # 0

\* m_startPending stands for exactly one posted start: "INIT;INIT" starts once, and no answer to a start that has
\* run leaves the next INITiate refused for good.
StartIsPostedOnce ==
  Cardinality({k \in DOMAIN queue : queue[k] = "start"}) = IF startPending THEN 1 ELSE 0

\* While m_connectPending has a value, a call that will reset it is posted or waits in its dialog: no client is
\* answered for good by a request that has run.
PendingIsUnderWay ==
  \A on \in connectPending : \/ \E k \in DOMAIN queue : queue[k] = (IF on THEN "on" ELSE "off")
                             \/ on /\ \E k \in DOMAIN dialogs : dialogs[k] = "call"

\* What the clients asked for last with INPut holds once nothing is posted any more, through every order of requests,
\* posted calls and dialogs - unless the window, a program or a port that does not open decided otherwise since.
InputObeyed == queue = <<>> /\ dialogs = <<>> => \A on \in asked : wanted = on

\* A recording that is not saved is replaced by the window only, which asks: never by an alarm, nor by a start that
\* was checked while there was nothing to lose.
UnsavedIsKept == [][recorder = "Unsaved" /\ recorder' = "Record" => UseRecorder]_vars

\* The program that closed the port has it to itself, and the controller knows that it has to open it again
\* (docs/user/alarms.md: "closes the port before the program starts and opens it again when the program has
\* ended"), whatever else raises, until somebody asks for the meter.
ProgramHasPort == lent => external /\ ~wanted /\ ~open /\ reopenAfter

\* The "no readings" alarms watch exactly the meters that are wanted, lost ones included, once no port is being opened.
SilenceIsWatched == dialogs = <<>> => (silenceFrom >= 0 <=> wanted)

\* The sounds under way are those of the alarms at their places: an edit that moves alarms takes the sounds along.
SoundIsOfItsAlarm == \A i \in DOMAIN playing : i \in DOMAIN alarms /\ playing[i].sound = alarms[i].name

\* What SCPI clients asked for is under way exactly once until it is done, and then holds.
RequestsAreKept == TypeOK /\ StartIsPostedOnce /\ PendingIsUnderWay /\ InputObeyed

\* The port is the program's while it has it, and the meter is watched for silence exactly while it is wanted.
PortHasOneUser == ProgramHasPort /\ SilenceIsWatched
=============================================================================
