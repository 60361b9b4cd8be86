------------------------ MODULE MeterControllerProofs ------------------------
(***************************************************************************)
(* What the controller of a meter keeps, whatever alarms are set up,       *)
(* whatever the meter sends, and in every order of SCPI commands, posted   *)
(* calls, dialogs, programs, uses of the window and losses of the port.    *)
(***************************************************************************)
EXTENDS MCMeterController, AlarmManagerProofs

\* What is proved of AlarmManager, for the controller's alarms.
AP == INSTANCE AlarmManagerProofs WITH AlarmLists <- Lists, Readings <- Values, MaxTime <- EndTime

-----------------------------------------------------------------------------
(* The elements of the event loop's queue and of the dialogs' stack. *)

LEMMA AppendElements ==
  ASSUME NEW S, NEW q \in Seq(S), NEW x \in S
  PROVE  /\ Append(q, x) \in Seq(S) /\ DOMAIN q = 1..Len(q) /\ Len(q) \in Nat
         /\ DOMAIN Append(q, x) = 1..(Len(q) + 1)
         /\ \A k \in DOMAIN q : Append(q, x)[k] = q[k]
         /\ Append(q, x)[Len(q) + 1] = x
OBVIOUS

LEMMA TailElements ==
  ASSUME NEW S, NEW q \in Seq(S), q # <<>>
  PROVE  /\ Tail(q) \in Seq(S) /\ DOMAIN q = 1..Len(q) /\ Len(q) \in Nat \ {0}
         /\ DOMAIN Tail(q) = 1..(Len(q) - 1)
         /\ \A k \in DOMAIN Tail(q) : Tail(q)[k] = q[k + 1]
         /\ Head(q) = q[1] /\ Head(q) \in S
OBVIOUS

LEMMA FrontElements ==
  ASSUME NEW S, NEW q \in Seq(S), q # <<>>
  PROVE  /\ SubSeq(q, 1, Len(q) - 1) \in Seq(S) /\ DOMAIN q = 1..Len(q) /\ Len(q) \in Nat \ {0}
         /\ DOMAIN SubSeq(q, 1, Len(q) - 1) = 1..(Len(q) - 1)
         /\ \A k \in 1..(Len(q) - 1) : SubSeq(q, 1, Len(q) - 1)[k] = q[k]
         /\ q[Len(q)] \in S
OBVIOUS

-----------------------------------------------------------------------------
(* The alarms: each step of the controller is one of AlarmManager, or leaves the states but for silences. *)

ListsTyped ==
  /\ EndTime \in Nat
  /\ \A list \in Lists : Len(list) \in Nat /\ DOMAIN list = 1..Len(list) /\ \A i \in DOMAIN list :
       /\ list[i].enabled \in BOOLEAN /\ list[i].tint \in BOOLEAN
       /\ list[i].condition \in AP!Conditions
       /\ list[i].seconds \in Nat
       /\ list[i].a \in Int /\ list[i].b \in Int /\ list[i].hysteresis \in Int
  /\ \A rd \in Values : rd.value \in Int /\ rd.overload \in BOOLEAN

LEMMA ListsAreTyped == ListsTyped
BY ControllerAssumption DEF ListsTyped, Conditions, AP!Conditions

AlarmsTyped == AP!StateInv /\ AP!ClocksTyped /\ ticked \in BOOLEAN

LEMMA AlarmsTypedInit == Controller!Init => AlarmsTyped
<1> SUFFICES ASSUME Controller!Init PROVE AlarmsTyped
  OBVIOUS
<1>1. AP!StateInv
  BY DEF Controller!Init, Controller!Alarms!Init, AP!StateInv, AP!StateTyped, AP!DisabledIsOff
<1>2. AP!ClocksTyped
  BY ListsAreTyped DEF ListsTyped, Controller!Init, Controller!Alarms!Init, AP!ClocksTyped
<1> QED
  BY <1>1, <1>2 DEF Controller!Init, Controller!Alarms!Init, AlarmsTyped

\* A call of the manager.
LEMMA AlarmsCalled ==
  ASSUME AlarmsTyped, AP!Next
  PROVE  AlarmsTyped'
<1>1. AP!StateInv /\ [AP!Next]_(AP!vars) => AP!StateInv'
  BY ListsAreTyped, AP!StateInvNext DEF ListsTyped
<1>2. AP!StateInv /\ AP!ClocksTyped /\ [AP!Next]_(AP!vars) => AP!ClocksTyped'
  BY ListsAreTyped, AP!ClocksTypedNext DEF ListsTyped
<1>3. ticked' \in BOOLEAN
  BY DEF AP!Next, AP!SetAlarms, AP!Feed, AP!SetConnected, AP!Tick, AP!Acknowledge, AP!AcknowledgeAll, AP!Pass
<1> QED
  BY <1>1, <1>2, <1>3 DEF AlarmsTyped

\* The manager is not called, or told of the connection.
Kept == Controller!AlarmsRest \/ (\E on \in BOOLEAN : Controller!Alarms!SetConnected(on)) \/ Controller!AlarmsReconnected

LEMMA AlarmsKept ==
  ASSUME AlarmsTyped, Kept
  PROVE  AlarmsTyped' /\ UNCHANGED <<alarms, now>>
<1>1. CASE Controller!AlarmsRest
  BY <1>1 DEF AlarmsTyped, Controller!AlarmsRest, Controller!Alarms!Quietly, AP!StateInv, AP!StateTyped,
              AP!DisabledIsOff, AP!ClocksTyped
<1>2. ASSUME NEW on \in BOOLEAN, Controller!Alarms!SetConnected(on) PROVE AlarmsTyped' /\ UNCHANGED <<alarms, now>>
  <2>1. AP!SetConnected(on)
    BY <1>2 DEF Controller!Alarms!SetConnected, AP!SetConnected
  <2>2. AP!Next
    BY <2>1 DEF AP!Next
  <2> QED
    BY <1>2, <2>2, AlarmsCalled DEF Controller!Alarms!SetConnected
<1>3. CASE Controller!AlarmsReconnected
  <2>1. AP!StateInv'
    BY <1>3 DEF AlarmsTyped, Controller!AlarmsReconnected, Controller!Alarms!Quietly, AP!StateInv, AP!StateTyped,
                AP!DisabledIsOff, AP!States
  <2>2. AP!ClocksTyped'
    BY <1>3, ListsAreTyped DEF ListsTyped, AlarmsTyped, Controller!AlarmsReconnected, AP!ClocksTyped
  <2> QED
    BY <1>3, <2>1, <2>2 DEF AlarmsTyped, Controller!AlarmsReconnected
<1> QED
  BY <1>1, <1>2, <1>3 DEF Kept

LEMMA ConnectKeeps ==
  ASSUME NEW who, Controller!Connect(who)
  PROVE  Kept
BY DEF Controller!Connect, Controller!AlarmsConnected, Kept

LEMMA DisconnectKeeps == Controller!Disconnect => Kept
BY DEF Controller!Disconnect, Controller!AlarmsConnected, Kept

\* The steps by what they do to the alarms and to their sounds.
LEMMA StepsOfAlarms ==
  ASSUME Controller!Next
  PROVE  \/ \E rd \in Values : Controller!Frame(rd)
         \/ Controller!Tick
         \/ \E i \in DOMAIN playing : Controller!Sound(i)
         \/ \E list \in Lists : Controller!UseAlarms(list)
         \/ Controller!Alarms!AcknowledgeAll /\ UNCHANGED playing
         \/ Controller!Alarms!Pass /\ UNCHANGED playing
         \/ Kept /\ UNCHANGED playing
<1> DEFINE Rests == Kept /\ UNCHANGED playing
<1>1. CASE Controller!TakePort
  BY <1>1, DisconnectKeeps DEF Controller!TakePort, Controller!AlarmsConnected, Kept
<1>2. CASE Controller!ProgramEnds
  BY <1>2, ConnectKeeps DEF Controller!ProgramEnds, Controller!portVars, Kept
<1>3. CASE Controller!Initiate \/ Controller!Abort \/ \E on \in BOOLEAN : Controller!Input(on)
  BY <1>3 DEF Controller!Initiate, Controller!Abort, Controller!Input, Controller!Command, Kept
<1>4. CASE Controller!Acknowledge
  BY <1>4 DEF Controller!Acknowledge
<1>5. CASE Controller!RunPosted
  <2>1. Kept
    BY <1>5, ConnectKeeps, DisconnectKeeps DEF Controller!RunPosted, Controller!RunStart, Controller!RunStop,
       Controller!RunConnect, Kept
  <2> QED
    BY <1>5, <2>1 DEF Controller!RunPosted
<1>6. CASE Controller!Answer
  BY <1>6 DEF Controller!Answer, Controller!AlarmsConnected, Kept
<1>7. ASSUME NEW on \in BOOLEAN, Controller!UseConnect(on) PROVE Rests
  BY <1>7, ConnectKeeps, DisconnectKeeps DEF Controller!UseConnect
<1>8. CASE Controller!UseRecorder \/ Controller!Lose \/ Controller!Retry \/ Controller!Silence
  BY <1>8 DEF Controller!UseRecorder, Controller!Lose, Controller!Retry, Controller!Silence, Kept
<1>9. CASE Controller!Pass
  BY <1>9 DEF Controller!Pass
<1> QED
  BY <1>1, <1>2, <1>3, <1>4, <1>5, <1>6, <1>7, <1>8, <1>9 DEF Controller!Next

LEMMA AlarmsTypedNext ==
  ASSUME AlarmsTyped, [Controller!Next]_(Controller!vars)
  PROVE  AlarmsTyped'
<1>1. ASSUME NEW rd \in Values, Controller!Frame(rd) PROVE AlarmsTyped'
  <2>1. AP!Feed(rd)
    BY <1>1 DEF Controller!Frame, Controller!Alarms!Feed, AP!Feed, Controller!Alarms!Fed, AP!Fed, Controller!Alarms!FedSince,
       AP!FedSince, Controller!Alarms!SignalOf, AP!SignalOf, Controller!Alarms!Reordered, AP!Reordered, Controller!Alarms!Without, AP!Without,
       Controller!Alarms!Evaluate, AP!Evaluate, Controller!Alarms!Watches, AP!Watches, Controller!Alarms!Matches, AP!Matches,
       Controller!Alarms!Released, AP!Released, Controller!Alarms!Low, AP!Low, Controller!Alarms!High, AP!High,
       Controller!Alarms!Active, AP!Active, Controller!Alarms!AnySource, AP!AnySource
  <2> QED
    BY <2>1, AlarmsCalled DEF AP!Next
<1>2. CASE Controller!Tick
  <2>1. AP!Tick
    BY <1>2 DEF Controller!Tick, Controller!Alarms!Tick, AP!Tick, Controller!Alarms!Silent, AP!Silent,
       Controller!Alarms!SilentSince, AP!SilentSince, Controller!Alarms!Reordered, AP!Reordered, Controller!Alarms!Without, AP!Without
  <2> QED
    BY <2>1, AlarmsCalled DEF AP!Next
<1>3. ASSUME NEW list \in Lists, Controller!UseAlarms(list) PROVE AlarmsTyped'
  <2>1. AP!SetAlarms(list)
    BY <1>3 DEF Controller!UseAlarms, Controller!Alarms!SetAlarms, AP!SetAlarms, Controller!Alarms!Quietly, AP!Quietly
  <2> QED
    BY <2>1, AlarmsCalled DEF AP!Next
<1>4. CASE Controller!Alarms!AcknowledgeAll
  <2>1. AP!AcknowledgeAll
    BY <1>4 DEF Controller!Alarms!AcknowledgeAll, AP!AcknowledgeAll, Controller!Alarms!Quietly, AP!Quietly
  <2> QED
    BY <2>1, AlarmsCalled DEF AP!Next
<1>5. CASE Controller!Alarms!Pass
  <2>1. AP!Pass
    BY <1>5 DEF Controller!Alarms!Pass, AP!Pass, Controller!Alarms!Quietly, AP!Quietly
  <2> QED
    BY <2>1, AlarmsCalled DEF AP!Next
<1>6. CASE UNCHANGED Controller!alarmVars
  BY <1>6 DEF Controller!alarmVars, AlarmsTyped, AP!StateInv, AP!StateTyped, AP!DisabledIsOff, AP!ClocksTyped
<1>7. ASSUME NEW i \in DOMAIN playing, Controller!Sound(i) PROVE AlarmsTyped'
  BY <1>6, <1>7 DEF Controller!Sound
<1> QED
  BY <1>1, <1>2, <1>3, <1>4, <1>5, <1>6, <1>7, StepsOfAlarms, AlarmsKept DEF Controller!vars

-----------------------------------------------------------------------------
(* The sounds (AlarmSound). *)

LEMMA ReactKeepsSounds ==
  ASSUME Controller!SoundIsOfItsAlarm, Controller!React, UNCHANGED alarms, DOMAIN signals' = DOMAIN alarms
  PROVE  Controller!SoundIsOfItsAlarm'
BY DEF Controller!SoundIsOfItsAlarm, Controller!React, Controller!Sounding

LEMMA SoundsNext ==
  ASSUME Controller!SoundIsOfItsAlarm, AlarmsTyped, [Controller!Next]_(Controller!vars)
  PROVE  Controller!SoundIsOfItsAlarm'
<1>1. ASSUME NEW rd \in Values, Controller!Frame(rd) PROVE Controller!SoundIsOfItsAlarm'
  BY <1>1, ReactKeepsSounds DEF Controller!Frame, Controller!Alarms!Feed
<1>2. CASE Controller!Tick
  BY <1>2, ReactKeepsSounds DEF Controller!Tick, Controller!Alarms!Tick
<1>3. ASSUME NEW i \in DOMAIN playing, Controller!Sound(i) PROVE Controller!SoundIsOfItsAlarm'
  BY <1>3 DEF Controller!Sound, Controller!SoundTimer, Controller!SoundIsOfItsAlarm, Controller!alarmVars
<1>4. ASSUME NEW list \in Lists, Controller!UseAlarms(list) PROVE Controller!SoundIsOfItsAlarm'
  BY <1>4 DEF Controller!UseAlarms, Controller!SoundIsOfItsAlarm
<1>5. CASE UNCHANGED <<alarms, playing>>
  BY <1>5 DEF Controller!SoundIsOfItsAlarm
<1>6. CASE Kept /\ UNCHANGED playing
  BY <1>5, <1>6, AlarmsKept
<1> QED
  BY <1>1, <1>2, <1>3, <1>4, <1>5, <1>6, StepsOfAlarms
     DEF Controller!vars, Controller!alarmVars, Controller!Alarms!AcknowledgeAll, Controller!Alarms!Pass

-----------------------------------------------------------------------------
(* The connection, the dialogs and the port: types, the program's turn and the watch for silence. *)

Waiters == {"call", "program", "window", "retry"}

LinkTyped ==
  /\ wanted \in BOOLEAN /\ open \in BOOLEAN /\ half \in BOOLEAN
  /\ link \in {"Connecting", "Connected", "Timeout", "Closed", "Error"}
  /\ dialogs \in Seq(Waiters)

LEMMA ConnectTyped ==
  ASSUME LinkTyped, NEW who \in Waiters, Controller!Connect(who)
  PROVE  LinkTyped' /\ dialogs' \in {dialogs, Append(dialogs, who)}
<1>1. CASE dialogs' = Append(dialogs, who) /\ wanted' = TRUE /\ open' = FALSE /\ half' = TRUE /\ UNCHANGED link
  <2>1. dialogs' \in Seq(Waiters)
    BY <1>1, AppendElements DEF LinkTyped
  <2> QED
    BY <1>1, <2>1 DEF LinkTyped
<1>2. CASE (Controller!Link!Open \/ Controller!Link!OpenFails) /\ half' = FALSE /\ UNCHANGED dialogs
  BY <1>2 DEF LinkTyped, Controller!Link!Open, Controller!Link!OpenFails
<1> QED
  BY <1>1, <1>2 DEF Controller!Connect

LEMMA DisconnectTyped ==
  ASSUME LinkTyped, Controller!Disconnect
  PROVE  LinkTyped' /\ dialogs' = dialogs
BY DEF LinkTyped, Controller!Disconnect, Controller!Link!Close

\* The steps by what they do to the connection.
LEMMA StepsOfLink ==
  ASSUME Controller!Next
  PROVE  \/ \E rd \in Values : Controller!Frame(rd)
         \/ Controller!TakePort \/ Controller!ProgramEnds
         \/ (Controller!RunPosted /\ \E on \in BOOLEAN : Controller!RunConnect(on))
         \/ Controller!Answer \/ (\E on \in BOOLEAN : Controller!UseConnect(on))
         \/ Controller!Lose \/ Controller!Retry \/ Controller!Silence
         \/ UNCHANGED <<Controller!linkVars, dialogs>>
BY DEF Controller!Next, Controller!Tick, Controller!Sound, Controller!Initiate, Controller!Abort, Controller!Input,
       Controller!Command, Controller!Acknowledge, Controller!RunPosted, Controller!RunStart, Controller!RunStop,
       Controller!UseRecorder, Controller!UseAlarms, Controller!Pass

LEMMA LinkTypedNext ==
  ASSUME LinkTyped, [Controller!Next]_(Controller!vars)
  PROVE  LinkTyped'
<1>1. ASSUME NEW rd \in Values, Controller!Frame(rd) PROVE LinkTyped'
  BY <1>1 DEF Controller!Frame, Controller!Link!Frame, LinkTyped
<1>2. CASE Controller!TakePort
  <2>1. CASE Controller!Disconnect
    BY <2>1, DisconnectTyped
  <2>2. CASE UNCHANGED <<Controller!linkVars, dialogs>>
    BY <2>2 DEF Controller!linkVars, LinkTyped
  <2>3. CASE Controller!Link!Open /\ half' = FALSE /\ UNCHANGED dialogs
    BY <2>3 DEF Controller!Link!Open, LinkTyped
  <2>4. CASE dialogs' = Append(dialogs, "program") /\ wanted' = TRUE /\ open' = FALSE /\ half' = TRUE /\ link' = "Closed"
    <3>1. dialogs' \in Seq(Waiters)
      BY <2>4, AppendElements DEF LinkTyped, Waiters
    <3> QED
      BY <2>4, <3>1 DEF LinkTyped
  <2> QED
    BY <1>2, <2>1, <2>2, <2>3, <2>4 DEF Controller!TakePort
<1>3. CASE Controller!ProgramEnds
  BY <1>3, ConnectTyped DEF Controller!ProgramEnds, Controller!linkVars, LinkTyped, Waiters
<1>4. ASSUME NEW on \in BOOLEAN, Controller!RunConnect(on) PROVE LinkTyped'
  BY <1>4, ConnectTyped, DisconnectTyped DEF Controller!RunConnect, Controller!linkVars, LinkTyped, Waiters
<1>5. CASE Controller!Answer
  BY <1>5, FrontElements DEF Controller!Answer, LinkTyped
<1>6. ASSUME NEW on \in BOOLEAN, Controller!UseConnect(on) PROVE LinkTyped'
  BY <1>6, ConnectTyped, DisconnectTyped DEF Controller!UseConnect, Waiters
<1>7. CASE Controller!Lose
  BY <1>7 DEF Controller!Lose, Controller!Link!Lose, LinkTyped
<1>8. CASE Controller!Retry
  BY <1>8, AppendElements DEF Controller!Retry, Controller!Link!Reopen, LinkTyped, Waiters
<1>9. CASE Controller!Silence
  BY <1>9 DEF Controller!Silence, LinkTyped
<1>10. CASE UNCHANGED <<Controller!linkVars, dialogs>>
  BY <1>10 DEF Controller!linkVars, LinkTyped
<1> QED
  BY <1>1, <1>2, <1>3, <1>4, <1>5, <1>6, <1>7, <1>8, <1>9, <1>10, StepsOfLink DEF Controller!vars

\* One program at a time: while it runs none is planned. The one that got the port has it to itself.
PortInv ==
  /\ externalPending \in 0..1 /\ external \in BOOLEAN /\ reopenAfter \in BOOLEAN /\ lent \in BOOLEAN
  /\ external => externalPending = 0
  /\ Controller!ProgramHasPort

LEMMA PortInvNext ==
  ASSUME PortInv, LinkTyped, [Controller!Next]_(Controller!vars)
  PROVE  PortInv'
<1>1. ASSUME Controller!React, UNCHANGED <<wanted, lent>>, lent => ~open' PROVE PortInv'
  BY <1>1 DEF Controller!React, Controller!AskForPort, PortInv, Controller!ProgramHasPort
<1>2. ASSUME NEW rd \in Values, Controller!Frame(rd) PROVE PortInv'
  BY <1>1, <1>2 DEF Controller!Frame, Controller!Link!Frame, Controller!auxVars, PortInv, Controller!ProgramHasPort
<1>3. CASE Controller!Tick
  BY <1>1, <1>3 DEF Controller!Tick, Controller!linkVars, Controller!auxVars, PortInv, Controller!ProgramHasPort
<1>4. CASE Controller!TakePort
  <2>1. externalPending = 1 /\ externalPending' = 0 /\ ~external /\ ~lent
    BY <1>4 DEF Controller!TakePort, PortInv, Controller!ProgramHasPort
  <2>2. external' \in BOOLEAN /\ reopenAfter' \in BOOLEAN /\ lent' \in BOOLEAN
    BY <1>4, <2>1 DEF Controller!TakePort, LinkTyped
  <2>3. lent' => external' /\ reopenAfter' /\ open /\ Controller!Disconnect
    <3>1. CASE /\ external' = TRUE /\ reopenAfter' = open /\ lent' = (open \/ lent)
               /\ IF open THEN Controller!Disconnect
                          ELSE Controller!AlarmsRest /\ UNCHANGED <<Controller!linkVars, dialogs>>
      BY <2>1, <3>1 DEF LinkTyped
    <3>2. CASE lent' = FALSE
      BY <3>2
    <3> QED
      BY <1>4, <3>1, <3>2 DEF Controller!TakePort
  <2>4. Controller!ProgramHasPort'
    BY <2>3 DEF Controller!ProgramHasPort, Controller!Disconnect, Controller!Link!Close
  <2> QED
    BY <2>1, <2>2, <2>4 DEF PortInv
<1>5. CASE Controller!ProgramEnds
  BY <1>5 DEF Controller!ProgramEnds, PortInv, Controller!ProgramHasPort
<1>6. ASSUME UNCHANGED Controller!portVars, lent' \in BOOLEAN, lent' => lent /\ ~wanted' /\ ~open' PROVE PortInv'
  BY <1>6 DEF Controller!portVars, PortInv, Controller!ProgramHasPort
<1>7. CASE Controller!RunPosted
  <2>1. ASSUME NEW on \in BOOLEAN, Controller!RunConnect(on) PROVE PortInv'
    BY <1>6, <1>7, <2>1 DEF Controller!RunPosted, Controller!RunConnect, Controller!Disconnect, Controller!Link!Close,
       Controller!linkVars, PortInv, Controller!ProgramHasPort
  <2>2. CASE Controller!RunStart \/ Controller!RunStop
    BY <1>6, <1>7, <2>2 DEF Controller!RunPosted, Controller!RunStart, Controller!RunStop, Controller!linkVars,
       Controller!auxVars, PortInv, Controller!ProgramHasPort
  <2> QED
    BY <1>7, <2>1, <2>2 DEF Controller!RunPosted
<1>8. CASE Controller!Answer
  BY <1>6, <1>8 DEF Controller!Answer, PortInv, Controller!ProgramHasPort
<1>9. ASSUME NEW on \in BOOLEAN, Controller!UseConnect(on) PROVE PortInv'
  BY <1>6, <1>9 DEF Controller!UseConnect, Controller!Disconnect, Controller!Link!Close, PortInv,
     Controller!ProgramHasPort
<1>10. CASE Controller!Lose \/ Controller!Retry \/ Controller!Silence
  BY <1>6, <1>10 DEF Controller!Lose, Controller!Link!Lose, Controller!Retry, Controller!Silence, Controller!auxVars,
     PortInv, Controller!ProgramHasPort
<1>11. CASE UNCHANGED <<Controller!linkVars, Controller!portVars, lent>>
  BY <1>6, <1>11 DEF Controller!linkVars, PortInv, Controller!ProgramHasPort
<1> QED
  <2>1. \/ (\E rd \in Values : Controller!Frame(rd)) \/ Controller!Tick
        \/ Controller!TakePort \/ Controller!ProgramEnds \/ Controller!RunPosted
        \/ Controller!Answer \/ (\E on \in BOOLEAN : Controller!UseConnect(on))
        \/ Controller!Lose \/ Controller!Retry \/ Controller!Silence
        \/ UNCHANGED <<Controller!linkVars, Controller!portVars, lent>>
    BY DEF Controller!Next, Controller!Sound, Controller!Initiate, Controller!Abort, Controller!Input, Controller!Command,
       Controller!Acknowledge, Controller!UseRecorder, Controller!UseAlarms, Controller!Pass, Controller!auxVars,
       Controller!vars
  <2> QED
    BY <1>2, <1>3, <1>4, <1>5, <1>7, <1>8, <1>9, <1>10, <1>11, <2>1

\* While every dialog that is shown is a retry's, the alarms watch the silence of the meter that is wanted: an answer
\* to any other has the connection given up, and tells the alarms.
Watched == silenceFrom >= 0 <=> wanted

WatchInv == (\A k \in DOMAIN dialogs : dialogs[k] = "retry") => Watched

LEMMA AlarmsAreTold ==
  ASSUME AlarmsTyped, NEW on \in BOOLEAN, Controller!AlarmsConnected(on), wanted' = on
  PROVE  Watched'
<1>1. now >= 0 /\ now \in Int /\ silenceFrom \in Int
  BY ListsAreTyped DEF ListsTyped, AlarmsTyped, AP!ClocksTyped
<1>2. CASE on = (silenceFrom >= 0) /\ Controller!AlarmsRest
  BY <1>2 DEF Controller!AlarmsRest, Watched
<1>3. CASE Controller!Alarms!SetConnected(on)
  <2>1. silenceFrom' = IF on THEN now ELSE -1
    BY <1>3 DEF Controller!Alarms!SetConnected
  <2>2. silenceFrom' >= 0 <=> on
    BY <1>1, <2>1
  <2> QED
    BY <2>2 DEF Watched
<1> QED
  BY <1>2, <1>3 DEF Controller!AlarmsConnected

LEMMA DisconnectIsTold ==
  ASSUME AlarmsTyped, Controller!Disconnect
  PROVE  Watched' /\ UNCHANGED dialogs
BY AlarmsAreTold DEF Controller!Disconnect, Controller!Link!Close

\* A dialog that is not a retry's is on top of the others.
LEMMA AsksOnTop ==
  ASSUME LinkTyped, NEW who \in Waiters, who # "retry", dialogs' = Append(dialogs, who)
  PROVE  WatchInv'
<1>1. Len(dialogs) + 1 \in DOMAIN dialogs' /\ dialogs'[Len(dialogs) + 1] = who
  BY AppendElements DEF LinkTyped
<1> QED
  BY <1>1 DEF WatchInv

LEMMA ConnectIsTold ==
  ASSUME AlarmsTyped, LinkTyped, NEW who \in Waiters, who # "retry", Controller!Connect(who)
  PROVE  WatchInv'
<1>1. CASE Controller!Link!Open /\ Controller!AlarmsConnected(TRUE)
  BY <1>1, AlarmsAreTold DEF Controller!Link!Open, WatchInv
<1>2. CASE Controller!Link!OpenFails /\ Controller!AlarmsConnected(FALSE)
  BY <1>2, AlarmsAreTold DEF Controller!Link!OpenFails, WatchInv
<1>3. CASE dialogs' = Append(dialogs, who)
  BY <1>3, AsksOnTop
<1> QED
  BY <1>1, <1>2, <1>3 DEF Controller!Connect

LEMMA WatchInvNext ==
  ASSUME WatchInv, AlarmsTyped, LinkTyped, [Controller!Next]_(Controller!vars)
  PROVE  WatchInv'
<1>1. CASE UNCHANGED <<wanted, dialogs, silenceFrom>>
  BY <1>1 DEF WatchInv, Watched
<1>2. ASSUME NEW rd \in Values, Controller!Frame(rd) PROVE WatchInv'
  BY <1>1, <1>2 DEF Controller!Frame, Controller!Link!Frame, Controller!Alarms!Feed
<1>3. CASE Controller!TakePort
  <2>1. CASE Controller!Disconnect
    BY <2>1, DisconnectIsTold DEF WatchInv
  <2>2. CASE Controller!AlarmsRest /\ UNCHANGED <<Controller!linkVars, dialogs>>
    BY <1>1, <2>2 DEF Controller!AlarmsRest, Controller!linkVars
  <2>3. CASE Controller!Link!Open /\ Controller!AlarmsReconnected
    <3>1. now >= 0
      BY ListsAreTyped DEF ListsTyped, AlarmsTyped, AP!ClocksTyped
    <3>2. silenceFrom' >= 0 /\ wanted' = TRUE
      BY <2>3, <3>1 DEF Controller!Link!Open, Controller!AlarmsReconnected
    <3> QED
      BY <3>2 DEF WatchInv, Watched
  <2>4. CASE dialogs' = Append(dialogs, "program")
    BY <2>4, AsksOnTop DEF Waiters
  <2> QED
    BY <1>3, <2>1, <2>2, <2>3, <2>4 DEF Controller!TakePort
<1>4. CASE Controller!ProgramEnds
  BY <1>1, <1>4, ConnectIsTold DEF Controller!ProgramEnds, Controller!linkVars, Controller!AlarmsRest, Waiters
<1>5. ASSUME NEW on \in BOOLEAN, Controller!RunConnect(on) PROVE WatchInv'
  BY <1>1, <1>5, ConnectIsTold, DisconnectIsTold
     DEF Controller!RunConnect, Controller!linkVars, Controller!AlarmsRest, Waiters, WatchInv
<1>6. CASE Controller!Answer
  <2>1. CASE dialogs[Len(dialogs)] = "retry"
    <3>1. (\A k \in DOMAIN dialogs' : dialogs'[k] = "retry") => \A k \in DOMAIN dialogs : dialogs[k] = "retry"
      <4>1. /\ dialogs # <<>> /\ dialogs \in Seq(Waiters)
            /\ dialogs' = SubSeq(dialogs, 1, Len(dialogs) - 1)
        BY <1>6 DEF Controller!Answer, LinkTyped
      <4>2. /\ DOMAIN dialogs = 1..Len(dialogs) /\ DOMAIN dialogs' = 1..(Len(dialogs) - 1)
            /\ \A k \in 1..(Len(dialogs) - 1) : dialogs'[k] = dialogs[k]
            /\ Len(dialogs) \in Nat \ {0}
        BY <4>1, FrontElements
      <4> QED
        BY <2>1, <4>2
    <3>2. UNCHANGED <<wanted, silenceFrom>>
      BY <1>6, <2>1 DEF Controller!Answer, Controller!AlarmsRest
    <3> QED
      BY <3>1, <3>2 DEF WatchInv, Watched
  <2>2. CASE wanted' = FALSE /\ Controller!AlarmsConnected(FALSE)
    BY <2>2, AlarmsAreTold DEF WatchInv
  <2> QED
    BY <1>6, <2>1, <2>2 DEF Controller!Answer
<1>7. ASSUME NEW on \in BOOLEAN, Controller!UseConnect(on) PROVE WatchInv'
  BY <1>7, ConnectIsTold, DisconnectIsTold DEF Controller!UseConnect, Waiters, WatchInv
<1>8. CASE Controller!Lose \/ Controller!Silence
  BY <1>1, <1>8 DEF Controller!Lose, Controller!Link!Lose, Controller!Silence, Controller!AlarmsRest
<1>9. CASE Controller!Retry
  <2>1. UNCHANGED <<wanted, silenceFrom>>
    BY <1>9 DEF Controller!Retry, Controller!Link!Reopen, Controller!AlarmsRest
  <2>2. (\A k \in DOMAIN dialogs' : dialogs'[k] = "retry") => \A k \in DOMAIN dialogs : dialogs[k] = "retry"
    <3>1. CASE UNCHANGED dialogs
      BY <3>1
    <3>2. CASE dialogs' = Append(dialogs, "retry")
      <4>1. /\ DOMAIN dialogs = 1..Len(dialogs) /\ DOMAIN dialogs' = 1..(Len(dialogs) + 1) /\ Len(dialogs) \in Nat
            /\ \A k \in DOMAIN dialogs : dialogs'[k] = dialogs[k]
        BY <3>2, AppendElements DEF LinkTyped, Waiters
      <4> QED
        BY <4>1
    <3> QED
      BY <1>9, <3>1, <3>2 DEF Controller!Retry
  <2> QED
    BY <2>1, <2>2 DEF WatchInv, Watched
<1>10. CASE UNCHANGED <<Controller!linkVars, dialogs, silenceFrom>>
  BY <1>1, <1>10 DEF Controller!linkVars
<1> QED
  <2>1. \/ (\E rd \in Values : Controller!Frame(rd))
        \/ Controller!TakePort \/ Controller!ProgramEnds
        \/ (Controller!RunPosted /\ \E on \in BOOLEAN : Controller!RunConnect(on))
        \/ Controller!Answer \/ (\E on \in BOOLEAN : Controller!UseConnect(on))
        \/ Controller!Lose \/ Controller!Retry \/ Controller!Silence
        \/ UNCHANGED <<Controller!linkVars, dialogs, silenceFrom>>
    BY DEF Controller!Next, Controller!Tick, Controller!Alarms!Tick, Controller!Sound, Controller!Initiate,
       Controller!Abort, Controller!Input, Controller!Command, Controller!Acknowledge, Controller!Alarms!AcknowledgeAll,
       Controller!RunPosted, Controller!RunStart, Controller!RunStop, Controller!UseRecorder, Controller!UseAlarms,
       Controller!Alarms!SetAlarms, Controller!Pass, Controller!Alarms!Pass, Controller!AlarmsRest, Controller!alarmVars,
       Controller!vars
  <2> QED
    BY <1>2, <1>3, <1>4, <1>5, <1>6, <1>7, <1>8, <1>9, <1>10, <2>1

-----------------------------------------------------------------------------
(* The posted calls: what SCPI clients asked for. *)

Names == {"start", "stop", "on", "off"}

QueueTyped == queue \in Seq(Names) /\ draining \in BOOLEAN

LEMMA Posted ==
  ASSUME QueueTyped, NEW x \in Names, queue' = Append(queue, x)
  PROVE  /\ Len(queue) \in Nat /\ DOMAIN queue = 1..Len(queue) /\ DOMAIN queue' = 1..(Len(queue) + 1)
         /\ \A k \in DOMAIN queue : queue'[k] = queue[k]
         /\ queue'[Len(queue) + 1] = x
         /\ queue' \in Seq(Names)
BY AppendElements DEF QueueTyped

LEMMA Run ==
  ASSUME QueueTyped, queue # <<>>, queue' = Tail(queue)
  PROVE  /\ Len(queue) \in Nat \ {0} /\ DOMAIN queue = 1..Len(queue) /\ DOMAIN queue' = 1..(Len(queue) - 1)
         /\ \A k \in DOMAIN queue' : queue'[k] = queue[k + 1]
         /\ Head(queue) = queue[1] /\ Head(queue) \in Names
         /\ queue' \in Seq(Names)
         /\ queue' = <<>> => DOMAIN queue' = {}
BY TailElements DEF QueueTyped

\* The steps by what they do to the posted calls.
LEMMA StepsOfCalls ==
  ASSUME Controller!Next
  PROVE  \/ Controller!Initiate \/ Controller!Abort \/ (\E on \in BOOLEAN : Controller!Input(on))
         \/ Controller!RunPosted \/ Controller!Answer
         \/ UNCHANGED Controller!callVars
BY DEF Controller!Next, Controller!Frame, Controller!Tick, Controller!Sound, Controller!TakePort, Controller!ProgramEnds,
       Controller!Acknowledge, Controller!UseConnect, Controller!UseRecorder, Controller!UseAlarms, Controller!Lose,
       Controller!Retry, Controller!Silence, Controller!Pass

LEMMA QueueTypedNext ==
  ASSUME QueueTyped, [Controller!Next]_(Controller!vars)
  PROVE  QueueTyped'
<1>1. CASE UNCHANGED Controller!callVars
  BY <1>1 DEF Controller!callVars, QueueTyped
<1>2. ASSUME NEW x \in Names, queue' = Append(queue, x), draining' = draining PROVE QueueTyped'
  BY <1>2, Posted DEF QueueTyped
<1>3. CASE Controller!Initiate
  BY <1>2, <1>3 DEF Controller!Initiate, Controller!Command, QueueTyped, Names
<1>4. CASE Controller!Abort
  BY <1>2, <1>4 DEF Controller!Abort, Controller!Command, Names
<1>5. ASSUME NEW on \in BOOLEAN, Controller!Input(on) PROVE QueueTyped'
  BY <1>2, <1>5 DEF Controller!Input, Controller!Command, QueueTyped, Names
<1>6. CASE Controller!RunPosted
  BY <1>6, Run DEF Controller!RunPosted, QueueTyped
<1>7. CASE Controller!Answer
  BY <1>7 DEF Controller!Answer, QueueTyped
<1> QED
  BY <1>1, <1>3, <1>4, <1>5, <1>6, <1>7, StepsOfCalls DEF Controller!vars

\* m_startPending is set while one start is posted, and no other.
StartInv ==
  /\ startPending \in BOOLEAN
  /\ startPending <=> \E k \in DOMAIN queue : queue[k] = "start"
  /\ \A k, m \in DOMAIN queue : queue[k] = "start" /\ queue[m] = "start" => k = m

LEMMA StartInvNext ==
  ASSUME StartInv, QueueTyped, [Controller!Next]_(Controller!vars)
  PROVE  StartInv'
<1>1. CASE UNCHANGED <<queue, startPending>>
  BY <1>1 DEF StartInv
<1>2. ASSUME NEW x \in Names, x # "start", queue' = Append(queue, x), UNCHANGED startPending PROVE StartInv'
  BY <1>2, Posted DEF StartInv
<1>3. CASE Controller!Initiate
  <2>1. CASE ~startPending /\ startPending' = TRUE /\ queue' = Append(queue, "start")
    BY <2>1, Posted DEF StartInv, Names
  <2> QED
    BY <1>1, <1>3, <2>1 DEF Controller!Initiate
<1>4. CASE Controller!Abort
  BY <1>2, <1>4 DEF Controller!Abort, Names
<1>5. ASSUME NEW on \in BOOLEAN, Controller!Input(on) PROVE StartInv'
  BY <1>1, <1>2, <1>5 DEF Controller!Input, Names
<1>6. CASE Controller!RunPosted
  <2>1. queue # <<>> /\ queue' = Tail(queue)
    BY <1>6 DEF Controller!RunPosted
  <2>2. CASE Controller!RunStart
    <3>1. startPending' = FALSE /\ queue[1] = "start"
      BY <2>1, <2>2, Run DEF Controller!RunStart
    <3>2. \A k \in DOMAIN queue' : queue'[k] # "start"
      BY <2>1, <3>1, Run DEF StartInv
    <3> QED
      BY <3>1, <3>2 DEF StartInv
  <2>3. CASE UNCHANGED startPending /\ queue[1] # "start"
    <3>1. \A k \in DOMAIN queue : queue[k] = "start" => k - 1 \in DOMAIN queue' /\ queue'[k - 1] = "start"
      BY <2>1, <2>3, Run
    <3>2. \A k \in DOMAIN queue' : k + 1 \in DOMAIN queue /\ queue'[k] = queue[k + 1]
      BY <2>1, Run
    <3>3. (\E k \in DOMAIN queue : queue[k] = "start") <=> \E k \in DOMAIN queue' : queue'[k] = "start"
      BY <3>1, <3>2
    <3>4. \A k, m \in DOMAIN queue' : queue'[k] = "start" /\ queue'[m] = "start" => k = m
      BY <2>1, <3>2, Run DEF StartInv
    <3> QED
      BY <2>3, <3>3, <3>4 DEF StartInv
  <2>4. CASE Controller!RunStop
    BY <2>1, <2>3, <2>4, Run DEF Controller!RunStop
  <2>5. ASSUME NEW on \in BOOLEAN, Controller!RunConnect(on) PROVE StartInv'
    BY <2>1, <2>3, <2>5, Run DEF Controller!RunConnect
  <2> QED
    BY <1>6, <2>2, <2>4, <2>5 DEF Controller!RunPosted
<1>7. CASE Controller!Answer
  BY <1>1, <1>7 DEF Controller!Answer
<1> QED
  BY <1>1, <1>3, <1>4, <1>5, <1>6, <1>7, StepsOfCalls DEF Controller!callVars, Controller!vars

LEMMA StartIsPosted == StartInv => Controller!StartIsPostedOnce
<1> SUFFICES ASSUME StartInv PROVE Controller!StartIsPostedOnce
  OBVIOUS
<1> DEFINE starts == {k \in DOMAIN queue : queue[k] = "start"}
<1> DEFINE many == IF startPending THEN 1 ELSE 0
<1>0. Controller!StartIsPostedOnce <=> Cardinality(starts) = many
  BY Zenon DEF Controller!StartIsPostedOnce, Controller!Cardinality, Cardinality
<1>1. CASE startPending
  <2>1. PICK k \in DOMAIN queue : queue[k] = "start"
    BY <1>1 DEF StartInv
  <2>2. starts = {k}
    BY <2>1 DEF StartInv
  <2>3. Cardinality(starts) = 1
    BY <2>2, FS_Singleton
  <2> QED
    BY <1>0, <1>1, <2>3
<1>2. CASE ~startPending
  <2>1. starts = {}
    BY <1>2 DEF StartInv
  <2>2. Cardinality(starts) = 0
    BY <2>1, FS_EmptySet
  <2> QED
    BY <1>0, <1>2, <2>2
<1> QED
  BY <1>1, <1>2 DEF StartInv

Call(on) == IF on THEN "on" ELSE "off"

\* m_connectPending, and the call or the dialog that will reset it.
PendingInv == connectPending \in SUBSET BOOLEAN /\ Controller!PendingIsUnderWay

LEMMA PendingInvNext ==
  ASSUME PendingInv, QueueTyped, LinkTyped, [Controller!Next]_(Controller!vars)
  PROVE  PendingInv'
<1> DEFINE HasCall(on) == \E k \in DOMAIN queue : queue[k] = Call(on)
           Waits       == \E k \in DOMAIN dialogs : dialogs[k] = "call"
           UnderWay(on) == HasCall(on) \/ (on /\ Waits)
<1>1. Controller!PendingIsUnderWay <=> \A on \in connectPending : UnderWay(on)
  BY DEF Controller!PendingIsUnderWay, Call
<1>2. Controller!PendingIsUnderWay' <=> \A on \in connectPending' : UnderWay(on)'
  BY DEF Controller!PendingIsUnderWay, Call
<1>3. Waits => Waits' \/ Controller!Answer
  <2>1. \/ UNCHANGED dialogs
        \/ \E who \in Waiters : dialogs' = Append(dialogs, who)
        \/ Controller!Answer
    BY DEF Controller!Next, Controller!Frame, Controller!Tick, Controller!Sound, Controller!TakePort, Controller!ProgramEnds,
       Controller!Initiate, Controller!Abort, Controller!Input, Controller!Command, Controller!Acknowledge,
       Controller!RunPosted, Controller!RunStart, Controller!RunStop, Controller!RunConnect, Controller!Connect,
       Controller!Disconnect, Controller!UseConnect, Controller!UseRecorder, Controller!UseAlarms, Controller!Lose,
       Controller!Retry, Controller!Silence, Controller!Pass, Controller!vars, Waiters
  <2>2. ASSUME NEW who \in Waiters, dialogs' = Append(dialogs, who), Waits PROVE Waits'
    BY <2>2, AppendElements DEF LinkTyped
  <2> QED
    BY <2>1, <2>2
<1>4. CASE UNCHANGED Controller!callVars /\ ~Controller!Answer
  BY <1>1, <1>2, <1>3, <1>4 DEF Controller!callVars, PendingInv
<1>5. ASSUME NEW x \in Names, queue' = Append(queue, x) PROVE \A on \in BOOLEAN : HasCall(on) => HasCall(on)'
  BY <1>5, Posted
<1>6. CASE Controller!Initiate \/ Controller!Abort
  <2>1. UNCHANGED <<connectPending, dialogs>>
    BY <1>6 DEF Controller!Initiate, Controller!Abort, Controller!Command
  <2>2. queue' = queue \/ \E x \in Names : queue' = Append(queue, x)
    BY <1>6 DEF Controller!Initiate, Controller!Abort, Names
  <2>3. \A on \in BOOLEAN : HasCall(on) => HasCall(on)'
    BY <1>5, <2>2
  <2> QED
    BY <1>1, <1>2, <2>1, <2>3 DEF PendingInv
<1>7. ASSUME NEW on \in BOOLEAN, Controller!Input(on) PROVE PendingInv'
  <2>1. CASE UNCHANGED <<connectPending, queue>>
    BY <1>1, <1>2, <1>7, <2>1 DEF Controller!Input, Controller!Command, PendingInv
  <2>2. CASE connectPending' = {on} /\ queue' = Append(queue, Call(on))
    <3>1. HasCall(on)'
      BY <2>2, Posted DEF Call, Names
    <3> QED
      BY <1>2, <2>2, <3>1 DEF PendingInv
  <2> QED
    BY <1>7, <2>1, <2>2 DEF Controller!Input, Call
<1>8. CASE Controller!RunPosted
  <2>1. queue # <<>> /\ queue' = Tail(queue)
    BY <1>8 DEF Controller!RunPosted
  <2>2. ASSUME NEW on \in BOOLEAN, HasCall(on), Head(queue) # Call(on) PROVE HasCall(on)'
    <3>1. PICK k \in DOMAIN queue : queue[k] = Call(on)
      BY <2>2
    <3>2. k - 1 \in DOMAIN queue' /\ queue'[k - 1] = Call(on)
      BY <2>1, <2>2, <3>1, Run
    <3> QED
      BY <3>2
  <2>3. CASE Controller!RunStart \/ Controller!RunStop
    <3>1. UNCHANGED <<connectPending, dialogs>>
      BY <2>3 DEF Controller!RunStart, Controller!RunStop
    <3>2. \A on \in BOOLEAN : Head(queue) # Call(on)
      BY <2>3 DEF Controller!RunStart, Controller!RunStop, Call
    <3> QED
      BY <1>1, <1>2, <2>2, <3>1, <3>2 DEF PendingInv
  <2>4. ASSUME NEW on \in BOOLEAN, Controller!RunConnect(on) PROVE PendingInv'
    <3>1. Head(queue) = Call(on)
      BY <2>4 DEF Controller!RunConnect, Call
    <3>2. \A b \in BOOLEAN : b # on => Head(queue) # Call(b)
      BY <3>1 DEF Call
    <3>3. CASE UNCHANGED dialogs
      <4>1. connectPending' = connectPending \ {on}
        BY <2>4, <3>3 DEF Controller!RunConnect
      <4> QED
        BY <1>1, <1>2, <2>2, <3>2, <3>3, <4>1 DEF PendingInv
    <3>4. CASE dialogs' # dialogs
      <4>1. connectPending' = connectPending
        BY <2>4, <3>4 DEF Controller!RunConnect
      <4>2. on = TRUE /\ dialogs' = Append(dialogs, "call")
        BY <2>4, <3>4 DEF Controller!RunConnect, Controller!Connect, Controller!Disconnect
      <4>3. Waits'
        BY <4>2, AppendElements DEF LinkTyped, Waiters
      <4> QED
        BY <1>1, <1>2, <2>2, <3>2, <4>1, <4>2, <4>3 DEF PendingInv
    <3> QED
      BY <3>3, <3>4
  <2> QED
    BY <1>8, <2>3, <2>4 DEF Controller!RunPosted
<1>9. CASE Controller!Answer
  <2>1. UNCHANGED queue
    BY <1>9 DEF Controller!Answer
  <2>2. CASE dialogs[Len(dialogs)] = "call"
    <3>1. connectPending' = connectPending \ {TRUE}
      BY <1>9, <2>2 DEF Controller!Answer
    <3> QED
      BY <1>1, <1>2, <2>1, <3>1 DEF PendingInv
  <2>3. CASE dialogs[Len(dialogs)] # "call"
    <3>1. UNCHANGED connectPending
      BY <1>9, <2>3 DEF Controller!Answer
    <3>2. Waits => Waits'
      <4>1. dialogs # <<>> /\ dialogs' = SubSeq(dialogs, 1, Len(dialogs) - 1)
        BY <1>9 DEF Controller!Answer
      <4>2. /\ DOMAIN dialogs = 1..Len(dialogs) /\ DOMAIN dialogs' = 1..(Len(dialogs) - 1)
            /\ \A k \in 1..(Len(dialogs) - 1) : dialogs'[k] = dialogs[k]
            /\ Len(dialogs) \in Nat \ {0}
        BY <4>1, FrontElements DEF LinkTyped
      <4> QED
        BY <2>3, <4>2
    <3> QED
      BY <1>1, <1>2, <2>1, <3>1, <3>2 DEF PendingInv
  <2> QED
    BY <2>2, <2>3
<1> QED
  BY <1>4, <1>6, <1>7, <1>8, <1>9, StepsOfCalls DEF Controller!callVars, Controller!vars

IsCall(name) == name \in {"on", "off"}
NoCall       == \A k \in DOMAIN queue : ~IsCall(queue[k])
LastCall(on) == \E k \in DOMAIN queue : queue[k] = Call(on) /\ \A m \in DOMAIN queue : m > k => ~IsCall(queue[m])

LEMMA NoneIsLast == \A on \in BOOLEAN : NoCall => ~LastCall(on)
BY DEF NoCall, LastCall, IsCall, Call

\* What a post and a run do to the last call.
LEMMA PostedLast ==
  ASSUME QueueTyped, NEW x \in Names, queue' = Append(queue, x)
  PROVE  /\ ~IsCall(x) => (NoCall => NoCall') /\ \A on \in BOOLEAN : LastCall(on) => LastCall(on)'
         /\ \A on \in BOOLEAN : x = Call(on) => LastCall(on)'
<1>1. ~IsCall(x) => (NoCall => NoCall')
  BY Posted DEF NoCall
<1>2. ASSUME NEW on \in BOOLEAN, ~IsCall(x), LastCall(on) PROVE LastCall(on)'
  BY <1>2, Posted DEF LastCall
<1>3. ASSUME NEW on \in BOOLEAN, x = Call(on) PROVE LastCall(on)'
  BY <1>3, Posted DEF LastCall
<1> QED
  BY <1>1, <1>2, <1>3

LEMMA RunLast ==
  ASSUME QueueTyped, queue # <<>>, queue' = Tail(queue)
  PROVE  /\ NoCall => NoCall'
         /\ \A on \in BOOLEAN : LastCall(on) => LastCall(on)' \/ (Head(queue) = Call(on) /\ NoCall')
<1>1. NoCall => NoCall'
  BY Run DEF NoCall
<1>2. ASSUME NEW on \in BOOLEAN, LastCall(on), ~LastCall(on)' PROVE Head(queue) = Call(on) /\ NoCall'
  <2>1. PICK k \in DOMAIN queue : queue[k] = Call(on) /\ \A m \in DOMAIN queue : m > k => ~IsCall(queue[m])
    BY <1>2 DEF LastCall
  <2>2. k = 1
    <3>1. SUFFICES ASSUME k # 1 PROVE FALSE
      OBVIOUS
    <3>2. k - 1 \in DOMAIN queue' /\ queue'[k - 1] = Call(on)
      BY <2>1, <3>1, Run
    <3>3. \A m \in DOMAIN queue' : m > k - 1 => m + 1 \in DOMAIN queue /\ m + 1 > k /\ queue'[m] = queue[m + 1]
      BY <2>1, Run
    <3>4. LastCall(on)'
      BY <2>1, <3>2, <3>3 DEF LastCall
    <3> QED
      BY <1>2, <3>4
  <2>3. NoCall'
    <3>1. \A m \in DOMAIN queue' : m + 1 \in DOMAIN queue /\ m + 1 > 1 /\ queue'[m] = queue[m + 1]
      BY Run
    <3> QED
      BY <2>1, <2>2, <3>1 DEF NoCall
  <2> QED
    BY <2>1, <2>2, <2>3, Run
<1> QED
  BY <1>1, <1>2

\* Between two runs of the posted calls m_connectPending is what the last of them asks for.
CallsInv == ~draining => NoCall \/ \E on \in BOOLEAN : connectPending = {on} /\ LastCall(on)

LEMMA CallsInvNext ==
  ASSUME CallsInv, QueueTyped, [Controller!Next]_(Controller!vars)
  PROVE  CallsInv'
<1>1. CASE UNCHANGED <<queue, connectPending, draining>>
  BY <1>1 DEF CallsInv, NoCall, LastCall
<1>2. CASE queue' = <<>> \/ draining'
  BY <1>2 DEF CallsInv, NoCall
<1>3. ASSUME NEW x \in Names, ~IsCall(x), queue' = Append(queue, x), UNCHANGED <<connectPending, draining>>
      PROVE  CallsInv'
  BY <1>3, PostedLast DEF CallsInv
<1>4. CASE Controller!Initiate
  BY <1>1, <1>3, <1>4 DEF Controller!Initiate, Controller!Command, Names, IsCall
<1>5. CASE Controller!Abort
  BY <1>3, <1>5 DEF Controller!Abort, Controller!Command, Names, IsCall
<1>6. ASSUME NEW on \in BOOLEAN, Controller!Input(on) PROVE CallsInv'
  <2>1. CASE connectPending' = {on} /\ queue' = Append(queue, Call(on))
    <3>1. LastCall(on)'
      BY <2>1, PostedLast DEF Call, Names
    <3> QED
      BY <2>1, <3>1 DEF CallsInv
  <2> QED
    BY <1>1, <1>6, <2>1 DEF Controller!Input, Controller!Command, Call
<1>7. CASE Controller!RunPosted
  <2>1. queue' = <<>> \/ draining'
    BY <1>7 DEF Controller!RunPosted
  <2> QED
    BY <1>2, <2>1
<1>8. CASE Controller!Answer
  <2>1. UNCHANGED queue
    BY <1>8 DEF Controller!Answer
  <2>2. CASE dialogs[Len(dialogs)] = "call"
    <3>1. draining' = (queue # <<>>)
      BY <1>8, <2>2 DEF Controller!Answer
    <3> QED
      BY <1>2, <2>1, <3>1
  <2>3. CASE dialogs[Len(dialogs)] # "call"
    BY <1>1, <1>8, <2>1, <2>3 DEF Controller!Answer
  <2> QED
    BY <2>2, <2>3
<1> QED
  BY <1>1, <1>4, <1>5, <1>6, <1>7, <1>8, StepsOfCalls DEF Controller!callVars, Controller!vars

\* What INPut asked for last is the last call that is posted, or it is so, or a dialog is still to be answered.
ObeyedOrAsked(on) == LastCall(on) \/ (NoCall /\ (wanted = on \/ dialogs # <<>>))

AskedInv == asked \in SUBSET BOOLEAN /\ \A on \in asked : ObeyedOrAsked(on)

LEMMA InputIsPosted ==
  ASSUME AskedInv, CallsInv, PendingInv, QueueTyped, LinkTyped, NEW on \in BOOLEAN, Controller!Input(on)
  PROVE  AskedInv'
<1>1. asked' = {on} /\ ~draining /\ UNCHANGED <<wanted, dialogs>>
  BY DEF Controller!Input, Controller!Command, Controller!linkVars
<1>2. CASE queue' = Append(queue, Call(on))
  BY <1>1, <1>2, PostedLast DEF AskedInv, ObeyedOrAsked, Call, Names
<1>3. CASE on \in Controller!Planned /\ UNCHANGED queue
  <2>1. ObeyedOrAsked(on)
    <3>1. CASE connectPending = {}
      <4>1. NoCall
        BY <1>1, <3>1 DEF CallsInv
      <4>2. wanted = on
        BY <1>3, <3>1 DEF Controller!Planned
      <4> QED
        BY <4>1, <4>2 DEF ObeyedOrAsked
    <3>2. CASE on \in connectPending /\ NoCall
      <4>1. \/ \E k \in DOMAIN queue : queue[k] = Call(on)
            \/ \E k \in DOMAIN dialogs : dialogs[k] = "call"
        BY <3>2 DEF PendingInv, Controller!PendingIsUnderWay, Call
      <4>2. ~\E k \in DOMAIN queue : queue[k] = Call(on)
        BY <3>2 DEF NoCall, IsCall, Call
      <4>3. dialogs # <<>>
        BY <4>1, <4>2
      <4> QED
        BY <3>2, <4>3 DEF ObeyedOrAsked
    <3>3. CASE on \in connectPending /\ ~NoCall
      <4>1. PICK b \in BOOLEAN : connectPending = {b} /\ LastCall(b)
        BY <1>1, <3>3 DEF CallsInv
      <4>2. b = on
        BY <3>3, <4>1
      <4> QED
        BY <4>1, <4>2 DEF ObeyedOrAsked
    <3> QED
      BY <1>3, <3>1, <3>2, <3>3 DEF Controller!Planned
  <2>2. ObeyedOrAsked(on)'
    BY <1>1, <1>3, <2>1 DEF ObeyedOrAsked, LastCall, NoCall
  <2> QED
    BY <1>1, <2>2 DEF AskedInv
<1> QED
  BY <1>2, <1>3 DEF Controller!Input, Call

LEMMA AskedInvNext ==
  ASSUME AskedInv, CallsInv, PendingInv, QueueTyped, LinkTyped, [Controller!Next]_(Controller!vars)
  PROVE  AskedInv'
<1>1. CASE asked' = {}
  BY <1>1 DEF AskedInv
<1>2. ASSUME UNCHANGED <<asked, queue, wanted>>, dialogs' = dialogs \/ \E who \in Waiters : dialogs' = Append(dialogs, who)
      PROVE  AskedInv'
  <2>1. dialogs # <<>> => dialogs' # <<>>
    <3>1. ASSUME NEW who \in Waiters, dialogs' = Append(dialogs, who) PROVE dialogs' # <<>>
      <4>1. DOMAIN dialogs' = 1..(Len(dialogs) + 1) /\ Len(dialogs) \in Nat
        BY <3>1, AppendElements DEF LinkTyped
      <4>2. 1 \in DOMAIN dialogs'
        BY <4>1
      <4> QED
        BY <4>2
    <3> QED
      BY <1>2, <3>1
  <2>2. ASSUME NEW on \in asked, ObeyedOrAsked(on) PROVE ObeyedOrAsked(on)'
    BY <1>2, <2>1, <2>2 DEF ObeyedOrAsked, LastCall, NoCall
  <2> QED
    BY <1>2, <2>2 DEF AskedInv
<1>3. ASSUME NEW x \in Names, ~IsCall(x), queue' = Append(queue, x), UNCHANGED <<asked, wanted, dialogs>>
      PROVE  AskedInv'
  BY <1>3, PostedLast DEF AskedInv, ObeyedOrAsked
<1>4. CASE Controller!Initiate
  BY <1>2, <1>3, <1>4 DEF Controller!Initiate, Controller!Command, Controller!auxVars, Controller!linkVars, Names, IsCall
<1>5. CASE Controller!Abort
  BY <1>3, <1>5 DEF Controller!Abort, Controller!Command, Controller!auxVars, Controller!linkVars, Names, IsCall
<1>6. CASE Controller!RunPosted
  <2>1. queue # <<>> /\ queue' = Tail(queue)
    BY <1>6 DEF Controller!RunPosted
  <2>2. CASE Controller!RunStart \/ Controller!RunStop
    <3>1. UNCHANGED <<asked, wanted, dialogs>>
      BY <2>2 DEF Controller!RunStart, Controller!RunStop, Controller!auxVars, Controller!linkVars
    <3>2. \A on \in BOOLEAN : Head(queue) # Call(on)
      BY <2>2 DEF Controller!RunStart, Controller!RunStop, Call
    <3>3. ASSUME NEW on \in asked PROVE ObeyedOrAsked(on)'
      BY <2>1, <3>1, <3>2, RunLast DEF AskedInv, ObeyedOrAsked
    <3> QED
      BY <3>1, <3>3 DEF AskedInv
  <2>3. ASSUME NEW on \in BOOLEAN, Controller!RunConnect(on) PROVE AskedInv'
    <3>1. IsCall(Head(queue)) /\ Head(queue) = Call(on)
      BY <2>3 DEF Controller!RunConnect, Call, IsCall
    <3>2. ~NoCall
      BY <2>1, <3>1, Run DEF NoCall
    <3>3. asked' = {} \/ (asked' = asked /\ wanted' = on)
      <4>1. CASE on = wanted
        BY <2>3, <4>1 DEF Controller!RunConnect, Controller!linkVars
      <4>2. CASE on # wanted /\ ~on
        BY <2>3, <4>2 DEF Controller!RunConnect, Controller!Disconnect, Controller!Link!Close
      <4>3. CASE on # wanted /\ on
        <5>1. Controller!Connect("call") /\ asked' = IF ~open' THEN {} ELSE asked
          BY <2>3, <4>3 DEF Controller!RunConnect
        <5>2. (wanted' = TRUE /\ open' = TRUE) \/ open' = FALSE
          BY <5>1 DEF Controller!Connect, Controller!Link!Open, Controller!Link!OpenFails
        <5> QED
          BY <4>3, <5>1, <5>2
      <4> QED
        BY <4>1, <4>2, <4>3
    <3>4. ASSUME NEW b \in asked, wanted' = on PROVE ObeyedOrAsked(b)'
      <4>1. b \in BOOLEAN /\ LastCall(b)
        BY <3>2 DEF AskedInv, ObeyedOrAsked
      <4>2. LastCall(b)' \/ (Head(queue) = Call(b) /\ NoCall')
        BY <2>1, <4>1, RunLast
      <4>3. Head(queue) = Call(b) => b = on
        BY <3>1, <4>1 DEF Call
      <4> QED
        BY <3>4, <4>2, <4>3 DEF ObeyedOrAsked
    <3> QED
      BY <1>1, <3>3, <3>4 DEF AskedInv
  <2> QED
    BY <1>6, <2>2, <2>3 DEF Controller!RunPosted
<1>7. CASE Controller!TakePort
  <2>1. CASE open
    BY <1>1, <1>7, <2>1 DEF Controller!TakePort
  <2>2. CASE ~open
    BY <1>2, <1>7, <2>2 DEF Controller!TakePort, Controller!linkVars, Controller!callVars
  <2> QED
    BY <2>1, <2>2
<1>8. CASE Controller!ProgramEnds
  BY <1>1, <1>2, <1>8 DEF Controller!ProgramEnds, Controller!linkVars, Controller!callVars
<1>9. CASE Controller!Retry
  BY <1>2, <1>9 DEF Controller!Retry, Controller!Link!Reopen, Controller!callVars, Controller!auxVars, Waiters
<1>10. CASE UNCHANGED <<asked, queue, wanted, dialogs>>
  BY <1>2, <1>10
<1> QED
  <2>1. \/ Controller!Initiate \/ Controller!Abort \/ (\E on \in BOOLEAN : Controller!Input(on))
        \/ Controller!RunPosted \/ Controller!TakePort \/ Controller!ProgramEnds \/ Controller!Retry
        \/ asked' = {}
        \/ UNCHANGED <<asked, queue, wanted, dialogs>>
    BY DEF Controller!Next, Controller!Frame, Controller!Link!Frame, Controller!Tick, Controller!Sound,
       Controller!Acknowledge, Controller!Answer, Controller!UseConnect, Controller!UseRecorder, Controller!UseAlarms,
       Controller!Lose, Controller!Link!Lose, Controller!Silence, Controller!Pass, Controller!linkVars,
       Controller!callVars, Controller!auxVars, Controller!vars
  <2> QED
    BY <1>1, <1>4, <1>5, <1>6, <1>7, <1>8, <1>9, <1>10, <2>1, InputIsPosted

LEMMA AskedIsObeyed == AskedInv => Controller!InputObeyed
<1> SUFFICES ASSUME AskedInv, queue = <<>>, dialogs = <<>>, NEW on \in asked PROVE wanted = on
  BY DEF Controller!InputObeyed
<1>1. ~LastCall(on)
  BY DEF LastCall
<1> QED
  BY <1>1 DEF AskedInv, ObeyedOrAsked

-----------------------------------------------------------------------------
(* The recorder and what is left of the sounds. *)

RestTyped ==
  /\ recorder \in {"Idle", "Record", "Unsaved"}
  /\ \A i \in DOMAIN playing : /\ playing[i] = [sound |-> playing[i].sound, left |-> playing[i].left]
                               /\ playing[i].left \in Nat \cup {-1} /\ playing[i].left # 0

LEMMA ReactTyped ==
  ASSUME RestTyped, AlarmsTyped, Controller!React, DOMAIN signals' = DOMAIN alarms
  PROVE  RestTyped'
<1>1. recorder' \in {"Idle", "Record", "Unsaved"}
  BY DEF RestTyped, Controller!React, Controller!Acted
<1> DEFINE left(i) == IF alarms[i].plays = -1 THEN -1 ELSE alarms[i].plays - 1
<1>2. ASSUME NEW i \in DOMAIN playing'
      PROVE  \/ i \in DOMAIN playing /\ playing'[i] = playing[i]
             \/ /\ i \in DOMAIN alarms /\ alarms[i].plays # 0 /\ left(i) # 0
                /\ playing'[i] = [sound |-> alarms[i].name, left |-> left(i)]
  BY DEF Controller!React, Controller!Sounding
<1>3. ASSUME NEW i \in DOMAIN alarms PROVE alarms[i].plays \in Nat \cup {-1}
  <2>1. alarms \in Lists
    BY <1>3 DEF AlarmsTyped, AP!StateInv, AP!StateTyped
  <2> QED
    BY <2>1, ControllerAssumption
<1>4. ASSUME NEW i \in DOMAIN alarms, alarms[i].plays # 0, left(i) # 0 PROVE left(i) \in Nat \cup {-1}
  BY <1>3, <1>4
<1> HIDE DEF left
<1>5. ASSUME NEW i \in DOMAIN playing'
      PROVE  /\ playing'[i] = [sound |-> playing'[i].sound, left |-> playing'[i].left]
             /\ playing'[i].left \in Nat \cup {-1} /\ playing'[i].left # 0
  BY <1>2, <1>4, <1>5 DEF RestTyped
<1> QED
  BY <1>1, <1>5 DEF RestTyped

LEMMA RestTypedNext ==
  ASSUME RestTyped, AlarmsTyped, [Controller!Next]_(Controller!vars)
  PROVE  RestTyped'
<1>1. ASSUME NEW rd \in Values, Controller!Frame(rd) PROVE RestTyped'
  BY <1>1, ReactTyped DEF Controller!Frame, Controller!Alarms!Feed
<1>2. CASE Controller!Tick
  BY <1>2, ReactTyped DEF Controller!Tick, Controller!Alarms!Tick
<1>3. ASSUME NEW i \in DOMAIN playing, Controller!Sound(i) PROVE RestTyped'
  <2>1. playing[i].left \in Nat \cup {-1} /\ playing[i].left # 0
    BY DEF RestTyped
  <2>2. CASE playing' = [j \in DOMAIN playing \ {i} |-> playing[j]]
    BY <1>3, <2>2 DEF Controller!Sound, RestTyped
  <2>3. CASE playing[i].left # 1 /\ playing' = [playing EXCEPT ![i].left = IF @ = -1 THEN -1 ELSE @ - 1]
    <3> DEFINE next == IF playing[i].left = -1 THEN -1 ELSE playing[i].left - 1
    <3>1. next \in Nat \cup {-1} /\ next # 0
      BY <2>1, <2>3
    <3>2. playing'[i] = [sound |-> playing[i].sound, left |-> next]
      BY <2>3 DEF RestTyped
    <3>3. DOMAIN playing' = DOMAIN playing /\ \A j \in DOMAIN playing \ {i} : playing'[j] = playing[j]
      BY <2>3
    <3>4. UNCHANGED recorder
      BY <1>3 DEF Controller!Sound
    <3> HIDE DEF next
    <3> QED
      BY <3>1, <3>2, <3>3, <3>4 DEF RestTyped
  <2> QED
    BY <1>3, <2>2, <2>3 DEF Controller!Sound, Controller!SoundTimer
<1>4. CASE UNCHANGED <<recorder, playing>>
  BY <1>4 DEF RestTyped
<1>5. CASE Controller!UseRecorder
  BY <1>5 DEF Controller!UseRecorder, RestTyped
<1>6. ASSUME NEW list \in Lists, Controller!UseAlarms(list) PROVE RestTyped'
  BY <1>6 DEF Controller!UseAlarms, RestTyped
<1>7. CASE Controller!RunPosted
  BY <1>7 DEF Controller!RunPosted, Controller!RunStart, Controller!RunStop, Controller!RunConnect, RestTyped
<1> QED
  <2>1. \/ (\E rd \in Values : Controller!Frame(rd)) \/ Controller!Tick \/ (\E i \in DOMAIN playing : Controller!Sound(i))
        \/ Controller!UseRecorder \/ (\E list \in Lists : Controller!UseAlarms(list)) \/ Controller!RunPosted
        \/ UNCHANGED <<recorder, playing>>
    BY DEF Controller!Next, Controller!TakePort, Controller!ProgramEnds, Controller!Initiate, Controller!Abort,
       Controller!Input, Controller!Command, Controller!Acknowledge, Controller!Answer, Controller!UseConnect,
       Controller!Lose, Controller!Retry, Controller!Silence, Controller!Pass, Controller!vars
  <2> QED
    BY <1>1, <1>2, <1>3, <1>4, <1>5, <1>6, <1>7, <2>1

-----------------------------------------------------------------------------
(* The controller's behaviours. *)

IInv ==
  /\ AlarmsTyped /\ Controller!SoundIsOfItsAlarm
  /\ LinkTyped /\ PortInv /\ WatchInv
  /\ QueueTyped /\ StartInv /\ PendingInv /\ CallsInv /\ AskedInv
  /\ RestTyped

LEMMA IInvInit == Controller!Init => IInv
<1> SUFFICES ASSUME Controller!Init PROVE IInv
  OBVIOUS
<1>1. AlarmsTyped
  BY AlarmsTypedInit
<1>2. dialogs = <<>> /\ dialogs \in Seq(Waiters) /\ queue = <<>> /\ queue \in Seq(Names)
  BY DEF Controller!Init
<1>3. LinkTyped /\ PortInv
  <2>1. /\ wanted = FALSE /\ link = "Closed" /\ open = FALSE /\ half = FALSE
        /\ externalPending = 0 /\ external = FALSE /\ reopenAfter = FALSE /\ lent = FALSE
    BY DEF Controller!Init, Controller!Link!Init
  <2>2. externalPending \in 0..1
    BY <2>1
  <2> QED
    BY <1>2, <2>1, <2>2 DEF LinkTyped, PortInv, Controller!ProgramHasPort
<1>4. WatchInv
  BY DEF Controller!Init, Controller!Alarms!Init, Controller!Link!Init, WatchInv, Watched
<1>5. Controller!SoundIsOfItsAlarm /\ RestTyped
  BY DEF Controller!Init, Controller!SoundIsOfItsAlarm, RestTyped
<1>6. QueueTyped /\ StartInv /\ PendingInv /\ CallsInv /\ AskedInv
  <2>1. draining = FALSE /\ startPending = FALSE /\ connectPending = {} /\ asked = {}
    BY DEF Controller!Init
  <2>2. DOMAIN queue = {}
    BY <1>2
  <2>3. QueueTyped
    BY <1>2, <2>1 DEF QueueTyped
  <2>4. StartInv /\ PendingInv /\ CallsInv /\ AskedInv
    BY <2>1, <2>2 DEF StartInv, PendingInv, Controller!PendingIsUnderWay, CallsInv, NoCall, AskedInv
  <2> QED
    BY <2>3, <2>4
<1> QED
  BY <1>1, <1>3, <1>4, <1>5, <1>6 DEF IInv

LEMMA IInvNext == IInv /\ [Controller!Next]_(Controller!vars) => IInv'
BY AlarmsTypedNext, SoundsNext, LinkTypedNext, PortInvNext, WatchInvNext, QueueTypedNext, StartInvNext, PendingInvNext,
   CallsInvNext, AskedInvNext, RestTypedNext DEF IInv

\* A step of both parts is one of the part that was chosen, which leaves the other alone.
LEMMA StepsOfParts ==
  ASSUME part = "controller", [CtlNext]_<<part, mcVars, ownVars>>
  PROVE  part' = part /\ [Controller!Next]_(Controller!vars)
BY DEF CtlNext, mcVars, vars, ownVars, Controller!vars, Controller!alarmVars, Controller!linkVars,
       Controller!callVars, Controller!portVars, Controller!auxVars

ControllerInv == part = "controller" => IInv

LEMMA ControllerInvHolds == CtlSpec => []ControllerInv
<1>1. CtlInit => ControllerInv
  BY IInvInit DEF CtlInit, ControllerInv
<1>2. ControllerInv /\ [CtlNext]_<<part, mcVars, ownVars>> => ControllerInv'
  <2> SUFFICES ASSUME ControllerInv, [CtlNext]_<<part, mcVars, ownVars>>, part' = "controller" PROVE IInv'
    BY DEF ControllerInv
  <2>1. part = "controller"
    BY DEF CtlNext
  <2> QED
    BY <2>1, StepsOfParts, IInvNext DEF ControllerInv
<1> QED
  BY <1>1, <1>2, PTL DEF CtlSpec

\* AlarmSound::next and the stop of the sounds in alarmsChanged(): at every place that a sound has, there is the alarm
\* whose sound it is, whatever list of alarms the user accepts while it plays.
THEOREM SoundsAreOfTheirAlarms == CtlSpec => []SoundIsOfItsAlarm
<1>1. ControllerInv => SoundIsOfItsAlarm
  BY DEF ControllerInv, IInv, SoundIsOfItsAlarm
<1> QED
  BY <1>1, ControllerInvHolds, PTL

\* m_startPending and m_connectPending: a request of a SCPI client is posted exactly once until it has run, nothing stays
\* pending that no call or dialog will reset, and what INPut asked for last is so once nothing is posted or asked.
THEOREM RequestsAreUnderWay == CtlSpec => []RequestsAreKept
<1>1. ASSUME IInv PROVE Controller!TypeOK
  <2>1. Controller!Alarms!TypeOK
    BY <1>1 DEF IInv, AlarmsTyped, AP!StateInv, AP!StateTyped, AP!ClocksTyped, AP!States, Controller!Alarms!TypeOK,
       Controller!Alarms!States
  <2>2. \A k \in DOMAIN dialogs : dialogs[k] \in {"call", "program", "window", "retry"}
    BY <1>1 DEF IInv, LinkTyped, Waiters
  <2>3. \A k \in DOMAIN queue : queue[k] \in Controller!Names
    BY <1>1 DEF IInv, QueueTyped, Names, Controller!Names
  <2>4. /\ wanted \in BOOLEAN /\ link \in Controller!Link!Up \cup {"Closed", "Error"} /\ open \in BOOLEAN
        /\ half \in BOOLEAN
    BY <1>1 DEF IInv, LinkTyped, Controller!Link!Up
  <2> QED
    BY <1>1, <2>1, <2>2, <2>3, <2>4
       DEF IInv, QueueTyped, StartInv, PendingInv, PortInv, RestTyped, Controller!TypeOK
<1>2. IInv => Controller!RequestsAreKept
  BY <1>1, StartIsPosted, AskedIsObeyed DEF IInv, PendingInv, Controller!RequestsAreKept
<1>3. ControllerInv => RequestsAreKept
  BY <1>2 DEF ControllerInv, RequestsAreKept
<1> QED
  BY <1>3, ControllerInvHolds, PTL

\* onAlarmRaised() and connectMeter(): an alarm's program that closed the port has it to itself until somebody asks for
\* the meter, and silence is watched exactly while the meter is wanted.
THEOREM PortIsOfOneUser == CtlSpec => []PortHasOneUser
<1>1. IInv => Controller!SilenceIsWatched
  BY DEF IInv, WatchInv, Watched, Controller!SilenceIsWatched
<1>2. ControllerInv => PortHasOneUser
  BY <1>1 DEF ControllerInv, IInv, PortInv, Controller!PortHasOneUser, PortHasOneUser
<1> QED
  BY <1>2, ControllerInvHolds, PTL

\* mayStartRecording(), which a posted start asks again when it runs: only the window's Record button, with its question,
\* lets a recording begin where one is not saved.
THEOREM UnsavedStays == CtlSpec => UnsavedIsKept
<1>1. ASSUME [Controller!Next]_(Controller!vars), recorder = "Unsaved", recorder' = "Record"
      PROVE  Controller!UseRecorder
  <2>1. CASE Controller!React
    BY <1>1, <2>1 DEF Controller!React, Controller!Acted
  <2>2. CASE Controller!RunPosted
    BY <1>1, <2>2 DEF Controller!RunPosted, Controller!RunStart, Controller!RunStop, Controller!RunConnect,
       Controller!MayStart
  <2>3. \/ Controller!React \/ Controller!RunPosted \/ Controller!UseRecorder \/ UNCHANGED recorder
    BY <1>1 DEF Controller!Next, Controller!Frame, Controller!Tick, Controller!Sound, Controller!TakePort,
       Controller!ProgramEnds, Controller!Initiate, Controller!Abort, Controller!Input, Controller!Command,
       Controller!Acknowledge, Controller!Answer, Controller!UseConnect, Controller!UseAlarms, Controller!Lose,
       Controller!Retry, Controller!Silence, Controller!Pass, Controller!vars
  <2> QED
    BY <1>1, <2>1, <2>2, <2>3
<1>2. [CtlNext]_<<part, mcVars, ownVars>>
      => [recorder = "Unsaved" /\ recorder' = "Record" => Controller!UseRecorder]_(Controller!vars)
  <2> SUFFICES ASSUME [CtlNext]_<<part, mcVars, ownVars>>, recorder = "Unsaved", recorder' = "Record"
               PROVE  Controller!UseRecorder
    OBVIOUS
  <2>1. CASE CtlNext /\ Controller!Next
    BY <1>1, <2>1
  <2>2. CASE UNCHANGED ownVars
    BY <2>2 DEF ownVars
  <2> QED
    BY <2>1, <2>2 DEF CtlNext
<1> QED
  BY <1>2, PTL DEF CtlSpec, UnsavedIsKept, Controller!UnsavedIsKept

-----------------------------------------------------------------------------
(* The alarms by themselves, with the history of their conditions (MCAlarmManager).  It follows an alarm through *)
(* the edits by its name.                                                                                       *)

\* The names of a list differ, and an enabled alarm keeps its condition under its name.
NamesAreTheirs ==
  /\ \A list \in AlarmLists : \A i, j \in DOMAIN list : list[i].name = list[j].name => i = j
  /\ \A old, new \in AlarmLists : \A j \in DOMAIN old, i \in DOMAIN new :
       old[j].name = new[i].name /\ old[j].enabled /\ new[i].enabled => old[j].condition = new[i].condition

Measures(al) == al.enabled /\ al.condition # "NoReadings"

\* What the state of an alarm says of its history: a condition that holds has an alarm that waits for its time, from the
\* same moment, or has it raised.
Held(al, s, t, from, to) ==
  /\ from \in Int /\ to \in Int
  /\ Measures(al) => /\ s = "Off" => from = -1
                     /\ s = "Pending" => from = t /\ from >= 0
  /\ ~Measures(al) => to = -1
  /\ to >= 0 /\ to - from >= al.seconds => s \in Active

IsAlarm(al) ==
  /\ al.enabled \in BOOLEAN /\ al.condition \in Conditions /\ al.seconds \in Nat
  /\ al.a \in Int /\ al.b \in Int /\ al.hysteresis \in Int

\* No reading satisfies a condition and lets go of it.
LEMMA MatchingHolds ==
  ASSUME NEW al, IsAlarm(al), NEW rd, rd.value \in Int, rd.overload \in BOOLEAN, Matches(al, rd)
  PROVE  ~Released(al, rd)
<1>1. CASE al.condition = "Overload"
  BY <1>1 DEF Matches, Released
<1>2. CASE al.condition = "NoReadings"
  BY <1>2 DEF Matches
<1> DEFINE h == IF al.hysteresis < 0 THEN -al.hysteresis ELSE al.hysteresis
<1>0. h \in Nat /\ al.a \in Int /\ al.b \in Int /\ Low(al) \in Int /\ High(al) \in Int /\ Low(al) <= High(al)
  BY DEF IsAlarm, Low, High
<1>3. CASE al.condition = "Below"
  <2>1. rd.value < al.a
    BY <1>3 DEF Matches
  <2>2. Released(al, rd) => rd.value >= al.a + h
    BY <1>3 DEF Released
  <2> HIDE DEF h
  <2> QED  BY <1>0, <2>1, <2>2
<1>4. CASE al.condition = "Above"
  <2>1. rd.value > al.a
    BY <1>4 DEF Matches
  <2>2. Released(al, rd) => rd.value <= al.a - h
    BY <1>4 DEF Released
  <2> HIDE DEF h
  <2> QED  BY <1>0, <2>1, <2>2
<1>5. CASE al.condition = "Outside"
  <2>1. rd.value < Low(al) \/ rd.value > High(al)
    BY <1>5 DEF Matches
  <2>2. Released(al, rd) => rd.value >= Low(al) + h /\ rd.value <= High(al) - h
    BY <1>5 DEF Released
  <2> HIDE DEF h
  <2> QED  BY <1>0, <2>1, <2>2
<1>6. CASE al.condition = "Inside"
  <2>1. rd.value >= Low(al) /\ rd.value <= High(al)
    BY <1>6 DEF Matches
  <2>2. Released(al, rd) => rd.value < Low(al) - h \/ rd.value > High(al) + h
    BY <1>6 DEF Released
  <2> HIDE DEF h
  <2> QED  BY <1>0, <2>1, <2>2
<1> QED  BY <1>1, <1>2, <1>3, <1>4, <1>5, <1>6 DEF IsAlarm, Conditions

\* One alarm and one reading.
LEMMA FedHeld ==
  ASSUME NEW al, IsAlarm(al), NEW rd, rd.value \in Int, rd.overload \in BOOLEAN, now \in Nat,
         NEW s \in States, NEW t \in Int, NEW from, NEW to, Held(al, s, t, from, to),
         NEW seen \in BOOLEAN, seen = (Watches(al, rd) /\ al.enabled),
         NEW from1, from1 = IF ~seen THEN from ELSE IF ~Matches(al, rd) THEN -1 ELSE IF from >= 0 THEN from ELSE now,
         NEW to1, to1 = IF ~seen THEN to ELSE IF Matches(al, rd) THEN now ELSE -1
  PROVE  LET s1 == Fed(al, s, t, rd)
         IN  /\ Held(al, s1, FedSince(al, s, t, rd), from1, to1)
             /\ SignalOf(al, s, s1) = "raised" /\ al.condition # "NoReadings" => from1 >= 0 /\ now - from1 >= al.seconds
<1> DEFINE s1 == Fed(al, s, t, rd)
           t1 == FedSince(al, s, t, rd)
<1>0. /\ al.seconds \in Nat /\ al.enabled \in BOOLEAN /\ from \in Int /\ to \in Int
      /\ Measures(al) => (s = "Off" => from = -1) /\ (s = "Pending" => from = t /\ from >= 0)
      /\ ~Measures(al) => to = -1
      /\ to >= 0 /\ to - from >= al.seconds => s \in Active
  BY DEF Held, IsAlarm
<1>1. CASE ~Measures(al)
  <2>1. from1 \in Int /\ to1 = -1
    <3>1. ~al.enabled => ~seen
      OBVIOUS
    <3>2. al.condition = "NoReadings" => ~Matches(al, rd)
      BY DEF Matches
    <3> QED  BY <1>0, <1>1, <3>1, <3>2 DEF Measures
  <2>2. Held(al, s1, t1, from1, to1)
    BY <1>1, <2>1 DEF Held
  <2>3. al.condition # "NoReadings" => SignalOf(al, s, s1) # "raised"
    <3>1. al.condition # "NoReadings" => ~al.enabled
      BY <1>1 DEF Measures
    <3>2. al.condition # "NoReadings" => s1 \in {"Off", s}
      BY <3>1 DEF Fed, Evaluate
    <3> QED  BY <3>2 DEF SignalOf, Active
  <2> QED  BY <2>2, <2>3
<1>2. CASE Measures(al) /\ ~Watches(al, rd)
  <2>1. s1 = s /\ t1 = t /\ from1 = from /\ to1 = to
    BY <1>2 DEF Measures, Fed, FedSince
  <2>2. SignalOf(al, s, s) # "raised"
    BY DEF SignalOf, Active
  <2> QED  BY <2>1, <2>2
<1>3. CASE Measures(al) /\ Watches(al, rd) /\ ~Matches(al, rd)
  <2>1. from1 = -1 /\ to1 = -1
    BY <1>3 DEF Measures
  <2>2. s1 \in {"Off", "Raised", "Acknowledged"} /\ (s1 \in Active => s = s1)
    BY <1>3 DEF Measures, Fed, Evaluate, Active, States
  <2>3. SignalOf(al, s, s1) # "raised"
    BY <2>2 DEF SignalOf, Active
  <2>4. Held(al, s1, t1, from1, to1)
    BY <2>1, <2>2, <1>3 DEF Held
  <2> QED  BY <2>3, <2>4
<1>4. CASE Measures(al) /\ Watches(al, rd) /\ Matches(al, rd)
  <2>1. ~Released(al, rd)
    BY <1>4, MatchingHolds
  <2>2. al.enabled /\ al.condition # "NoReadings" /\ seen
    BY <1>4 DEF Measures
  <2>3. to1 = now /\ from1 = (IF from >= 0 THEN from ELSE now) /\ from1 \in Int /\ from1 >= 0
    BY <1>0, <1>4, <2>2
  <2>4. CASE s = "Off"
    <3>1. from1 = now /\ t1 = now /\ s1 = (IF al.seconds <= 0 THEN "Raised" ELSE "Pending")
      <4>1. Evaluate(al, s, t, rd) = IF al.seconds <= 0 THEN "Raised" ELSE "Pending"
        <5>1. Evaluate(al, s, t, rd) = IF ~Matches(al, rd) THEN "Off" ELSE IF al.seconds <= 0 THEN "Raised" ELSE "Pending"
          BY <2>2, <2>4 DEF Evaluate, Active
        <5> QED  BY <1>4, <5>1
      <4>2. s1 = Evaluate(al, s, t, rd)
        BY <1>4, <2>2 DEF Fed
      <4>3. t1 = now
        BY <1>4, <2>2, <2>4 DEF FedSince
      <4>4. from1 = now
        BY <1>0, <1>4, <2>3, <2>4
      <4> QED  BY <4>1, <4>2, <4>3, <4>4
    <3>2. al.seconds <= 0 => now - now >= al.seconds
      BY <1>0
    <3>3. now - now >= al.seconds => s1 \in Active
      BY <1>0, <3>1 DEF Active
    <3>4. Held(al, s1, t1, from1, to1)
      BY <2>3, <3>1, <3>3, <1>4 DEF Held
    <3>5. SignalOf(al, s, s1) = "raised" => s1 = "Raised"
      BY DEF SignalOf
    <3> QED  BY <2>3, <3>1, <3>2, <3>4, <3>5
  <2>5. CASE s = "Pending"
    <3>1. from1 = from /\ from = t /\ t1 = t
      BY <1>0, <1>4, <2>2, <2>3, <2>5 DEF FedSince
    <3>2. s1 = (IF now - t >= al.seconds THEN "Raised" ELSE "Pending")
      <4>1. Evaluate(al, s, t, rd) = IF now - t >= al.seconds THEN "Raised" ELSE "Pending"
        <5>1. Evaluate(al, s, t, rd) = IF ~Matches(al, rd) THEN "Off"
                                       ELSE IF now - t >= al.seconds THEN "Raised" ELSE "Pending"
          BY <2>2, <2>5 DEF Evaluate, Active
        <5> QED  BY <1>4, <5>1
      <4>2. s1 = Evaluate(al, s, t, rd)
        BY <1>4, <2>2 DEF Fed
      <4> QED  BY <4>1, <4>2
    <3>3. now - from1 >= al.seconds => s1 \in Active
      BY <3>1, <3>2 DEF Active
    <3>4. Held(al, s1, t1, from1, to1)
      BY <2>3, <3>1, <3>2, <3>3, <1>4 DEF Held
    <3>5. SignalOf(al, s, s1) = "raised" => s1 = "Raised"
      BY DEF SignalOf
    <3> QED  BY <2>3, <3>1, <3>2, <3>4, <3>5
  <2>6. CASE s \in Active
    <3>1. s1 = s
      BY <1>4, <2>1, <2>2, <2>6 DEF Fed, Evaluate, Active
    <3>2. SignalOf(al, s, s1) # "raised"
      BY <2>6, <3>1 DEF SignalOf
    <3>3. Held(al, s1, t1, from1, to1)
      BY <2>3, <2>6, <3>1, <1>4 DEF Held, Active
    <3> QED  BY <3>2, <3>3
  <2> QED  BY <2>4, <2>5, <2>6 DEF States, Active
<1> QED  BY <1>1, <1>2, <1>3, <1>4

HeldInv ==
  /\ DOMAIN heldFrom = DOMAIN alarms /\ DOMAIN heldTo = DOMAIN alarms
  /\ \A i \in DOMAIN alarms : Held(alarms[i], state[i], since[i], heldFrom[i], heldTo[i])

HistoryInv == StateInv /\ ClocksTyped /\ NamesKept /\ HeldInv /\ RaisedHasHeld

LEMMA AlarmsAreAlarms ==
  ASSUME StateInv
  PROVE  \A i \in DOMAIN alarms : IsAlarm(alarms[i])
<1>1. CASE alarms = <<>>
  BY <1>1
<1>2. CASE alarms \in AlarmLists
  BY <1>2, AlarmListsAssumption DEF IsAlarm
<1> QED  BY <1>1, <1>2 DEF StateInv, StateTyped

\* An edit leaves an alarm its state and its history, or neither.
LEMMA EditHeld ==
  ASSUME NamesAreTheirs, HistoryInv, NEW list \in AlarmLists, MCSetAlarms(list)
  PROVE  HeldInv' /\ RaisedHasHeld'
<1> DEFINE old(i)  == {j \in DOMAIN alarms : alarms[j].name = list[i].name /\ list[i].enabled}
           from(i) == CHOOSE j \in old(i) : \A k \in old(i) : k <= j
           same(i) == {j \in DOMAIN alarms : /\ alarms[j].name = list[i].name
                                             /\ alarms[j].condition = list[i].condition
                                             /\ alarms[j].enabled /\ list[i].enabled}
<1>0. /\ StateTyped /\ DisabledIsOff /\ SetAlarms(list)
      /\ \A j \in DOMAIN alarms : IsAlarm(alarms[j]) /\ Held(alarms[j], state[j], since[j], heldFrom[j], heldTo[j])
  BY AlarmsAreAlarms DEF HistoryInv, StateInv, HeldInv, MCSetAlarms
<1>1. /\ alarms' = list /\ signals' = Quietly(list)
      /\ state' = [i \in DOMAIN list |-> IF old(i) = {} THEN "Off" ELSE state[from(i)]]
      /\ since' = [i \in DOMAIN list |-> IF old(i) = {} THEN 0 ELSE since[from(i)]]
  BY <1>0 DEF SetAlarms
<1>2. /\ heldFrom' = [i \in DOMAIN list |-> IF same(i) = {} THEN -1 ELSE heldFrom[CHOOSE j \in same(i) : TRUE]]
      /\ heldTo' = [i \in DOMAIN list |-> -1]
  BY DEF MCSetAlarms
<1>3. ASSUME NEW i \in DOMAIN list
      PROVE  Held(list[i], state'[i], since'[i], heldFrom'[i], heldTo'[i])
  <2>1. same(i) \subseteq old(i)
    OBVIOUS
  <2>2. \A j, k \in old(i) : j = k
    <3>1. CASE alarms = <<>>
      BY <3>1
    <3>2. CASE alarms \in AlarmLists
      BY <3>2 DEF NamesAreTheirs
    <3> QED  BY <1>0, <3>1, <3>2 DEF StateTyped
  <2>3. heldTo'[i] = -1
    BY <1>2
  <2>4. CASE old(i) = {}
    <3>1. state'[i] = "Off" /\ heldFrom'[i] = -1
      BY <1>1, <1>2, <2>1, <2>4
    <3> QED  BY <2>3, <3>1 DEF Held
  <2>5. ASSUME NEW j \in old(i) PROVE Held(list[i], state'[i], since'[i], heldFrom'[i], heldTo'[i])
    <3>1. j \in DOMAIN alarms /\ alarms[j].name = list[i].name /\ list[i].enabled
      BY <2>5
    <3>2. old(i) = {j}
      BY <2>2, <2>5
    <3> HIDE DEF old, same
    <3>3. from(i) = j
      <4>1. \A k \in old(i) : k <= j
        <5>1. j \in Int
          BY <1>0, <3>1, AlarmsAreNamed
        <5> QED  BY <3>2, <5>1
      <4>2. from(i) \in old(i)
        BY <2>5, <4>1
      <4> QED  BY <3>2, <4>2
    <3> HIDE DEF from
    <3>4. state'[i] = state[j] /\ since'[i] = since[j]
      BY <1>1, <3>2, <3>3
    <3>5. CASE alarms[j].enabled
      <4>1. alarms \in AlarmLists
        BY <1>0, <3>1 DEF StateTyped
      <4>2. alarms[j].condition = list[i].condition
        BY <3>1, <3>5, <4>1 DEF NamesAreTheirs
      <4>3. j \in same(i)
        BY <3>1, <3>5, <4>2 DEF same
      <4>4. same(i) = {j}
        BY <2>1, <3>2, <4>3
      <4>5. heldFrom'[i] = heldFrom[j]
        BY <1>2, <4>4
      <4>6. Measures(list[i]) = Measures(alarms[j])
        BY <3>1, <3>5, <4>2 DEF Measures
      <4> QED  BY <1>0, <2>3, <3>1, <3>4, <4>5, <4>6 DEF Held
    <3>6. CASE ~alarms[j].enabled
      <4>1. state[j] = "Off"
        BY <1>0, <3>1, <3>6 DEF DisabledIsOff
      <4>2. same(i) = {}
        BY <2>1, <3>2, <3>6 DEF same
      <4>3. heldFrom'[i] = -1
        BY <1>2, <4>2
      <4> QED  BY <2>3, <3>4, <4>1, <4>3 DEF Held
    <3> QED  BY <1>0, <3>1, <3>5, <3>6 DEF IsAlarm
  <2> QED  BY <2>4, <2>5
<1>4. DOMAIN heldFrom' = DOMAIN list /\ DOMAIN heldTo' = DOMAIN list
  BY <1>2
<1>5. HeldInv'
  BY <1>1, <1>3, <1>4 DEF HeldInv
<1>6. RaisedHasHeld'
  BY <1>1 DEF RaisedHasHeld, Quietly
<1> QED  BY <1>5, <1>6

\* A reading, for all alarms.
LEMMA ReadingHeld ==
  ASSUME HistoryInv, NEW rd \in Readings, MCFeed(rd)
  PROVE  HeldInv' /\ RaisedHasHeld'
<1>0. /\ StateTyped /\ now \in Nat /\ rd.value \in Int /\ rd.overload \in BOOLEAN
      /\ DOMAIN heldFrom = DOMAIN alarms /\ DOMAIN heldTo = DOMAIN alarms
      /\ \A i \in DOMAIN alarms : /\ IsAlarm(alarms[i]) /\ Held(alarms[i], state[i], since[i], heldFrom[i], heldTo[i])
                                  /\ state[i] \in States /\ since[i] \in Int
  BY AlarmsAreAlarms, ReadingsAssumption DEF HistoryInv, StateInv, StateTyped, HeldInv, ClocksTyped
<1>1. /\ alarms' = alarms /\ now' = now
      /\ DOMAIN heldFrom' = DOMAIN alarms /\ DOMAIN heldTo' = DOMAIN alarms /\ DOMAIN signals' = DOMAIN alarms
      /\ \A i \in DOMAIN alarms :
           /\ state'[i] = Fed(alarms[i], state[i], since[i], rd)
           /\ since'[i] = FedSince(alarms[i], state[i], since[i], rd)
           /\ signals'[i] = SignalOf(alarms[i], state[i], state'[i])
           /\ heldFrom'[i] = IF ~(Watches(alarms[i], rd) /\ alarms[i].enabled) THEN heldFrom[i]
                             ELSE IF ~Matches(alarms[i], rd) THEN -1 ELSE IF heldFrom[i] >= 0 THEN heldFrom[i] ELSE now
           /\ heldTo'[i] = IF ~(Watches(alarms[i], rd) /\ alarms[i].enabled) THEN heldTo[i]
                           ELSE IF Matches(alarms[i], rd) THEN now ELSE -1
  <2>1. Feed(rd)
    BY DEF MCFeed
  <2>2. /\ alarms' = alarms /\ now' = now
        /\ state' = [i \in DOMAIN alarms |-> Fed(alarms[i], state[i], since[i], rd)]
        /\ since' = [i \in DOMAIN alarms |-> FedSince(alarms[i], state[i], since[i], rd)]
        /\ signals' = [i \in DOMAIN alarms |-> SignalOf(alarms[i], state[i], Fed(alarms[i], state[i], since[i], rd))]
    BY <2>1 DEF Feed
  <2>3. /\ heldFrom' = [i \in DOMAIN alarms |->
             IF ~Watches(alarms[i], rd) \/ ~alarms[i].enabled THEN heldFrom[i]
             ELSE IF ~Matches(alarms[i], rd) THEN -1
             ELSE IF heldFrom[i] >= 0 THEN heldFrom[i] ELSE now]
        /\ heldTo' = [i \in DOMAIN alarms |->
             IF ~Watches(alarms[i], rd) \/ ~alarms[i].enabled THEN heldTo[i]
             ELSE IF Matches(alarms[i], rd) THEN now ELSE -1]
    BY DEF MCFeed
  <2>4. \A i \in DOMAIN alarms :
          (~Watches(alarms[i], rd) \/ ~alarms[i].enabled) <=> ~(Watches(alarms[i], rd) /\ alarms[i].enabled)
    OBVIOUS
  <2>5. ASSUME NEW i \in DOMAIN alarms
        PROVE  /\ heldFrom'[i] = IF ~(Watches(alarms[i], rd) /\ alarms[i].enabled) THEN heldFrom[i]
                             ELSE IF ~Matches(alarms[i], rd) THEN -1 ELSE IF heldFrom[i] >= 0 THEN heldFrom[i] ELSE now
               /\ heldTo'[i] = IF ~(Watches(alarms[i], rd) /\ alarms[i].enabled) THEN heldTo[i]
                           ELSE IF Matches(alarms[i], rd) THEN now ELSE -1
    BY <2>3, <2>4
  <2> QED  BY <2>2, <2>3, <2>5
<1>2. ASSUME NEW i \in DOMAIN alarms
      PROVE  /\ Held(alarms'[i], state'[i], since'[i], heldFrom'[i], heldTo'[i])
             /\ signals'[i] = "raised" /\ alarms'[i].condition # "NoReadings"
                  => heldFrom'[i] >= 0 /\ now' - heldFrom'[i] >= alarms'[i].seconds
  <2> DEFINE seen == Watches(alarms[i], rd) /\ alarms[i].enabled
  <2>1. seen \in BOOLEAN
    BY <1>0 DEF Watches, IsAlarm
  <2> HIDE DEF seen
  <2>2. /\ heldFrom'[i] = IF ~seen THEN heldFrom[i] ELSE IF ~Matches(alarms[i], rd) THEN -1
                          ELSE IF heldFrom[i] >= 0 THEN heldFrom[i] ELSE now
        /\ heldTo'[i] = IF ~seen THEN heldTo[i] ELSE IF Matches(alarms[i], rd) THEN now ELSE -1
        /\ seen = (Watches(alarms[i], rd) /\ alarms[i].enabled)
    BY <1>1 DEF seen
  <2>3. /\ IsAlarm(alarms[i]) /\ Held(alarms[i], state[i], since[i], heldFrom[i], heldTo[i])
        /\ state[i] \in States /\ since[i] \in Int
    BY <1>0
  <2>4. /\ Held(alarms[i], Fed(alarms[i], state[i], since[i], rd), FedSince(alarms[i], state[i], since[i], rd),
                heldFrom'[i], heldTo'[i])
        /\ SignalOf(alarms[i], state[i], Fed(alarms[i], state[i], since[i], rd)) = "raised"
             /\ alarms[i].condition # "NoReadings"
             => heldFrom'[i] >= 0 /\ now - heldFrom'[i] >= alarms[i].seconds
    BY <1>0, <2>1, <2>2, <2>3, FedHeld
  <2> QED  BY <1>1, <2>4
<1>3. HeldInv'
  BY <1>1, <1>2 DEF HeldInv
<1>4. RaisedHasHeld'
  BY <1>1, <1>2 DEF RaisedHasHeld
<1> QED  BY <1>3, <1>4

\* The clock, the silence and the user change nothing of a value's alarm but Raised to Acknowledged.
LEMMA RestHeld ==
  ASSUME HistoryInv, UNCHANGED <<alarms, since, heldFrom, heldTo>>,
         \A i \in DOMAIN alarms : \/ state'[i] = state[i]
                                  \/ alarms[i].condition = "NoReadings"
                                  \/ state[i] \in Active /\ state'[i] \in Active,
         DOMAIN signals' = DOMAIN alarms,
         \A i \in DOMAIN alarms : signals'[i] = "raised" => alarms[i].condition = "NoReadings"
  PROVE  HeldInv' /\ RaisedHasHeld'
<1>1. ASSUME NEW i \in DOMAIN alarms PROVE Held(alarms[i], state'[i], since[i], heldFrom[i], heldTo[i])
  <2>1. Held(alarms[i], state[i], since[i], heldFrom[i], heldTo[i])
    BY DEF HistoryInv, HeldInv
  <2>2. CASE state'[i] = state[i]
    BY <2>1, <2>2
  <2>3. CASE alarms[i].condition = "NoReadings"
    <3>1. ~Measures(alarms[i])
      BY <2>3 DEF Measures
    <3> QED  BY <2>1, <3>1 DEF Held
  <2>4. CASE state[i] \in Active /\ state'[i] \in Active
    BY <2>1, <2>4 DEF Held, Active
  <2> QED  BY <2>2, <2>3, <2>4
<1>2. HeldInv'
  BY <1>1 DEF HistoryInv, HeldInv
<1>3. RaisedHasHeld'
  BY DEF RaisedHasHeld
<1> QED  BY <1>2, <1>3

LEMMA HistoryInvNext ==
  ASSUME NamesAreTheirs
  PROVE  HistoryInv /\ [MCNext]_mcVars => HistoryInv'
<1> SUFFICES ASSUME HistoryInv, [MCNext]_mcVars PROVE HistoryInv'
  OBVIOUS
<1>0. StateInv /\ ClocksTyped /\ NamesKept /\ StateTyped
  BY DEF HistoryInv, StateInv
<1>1. [Next]_vars
  BY DEF MCNext, mcVars, MCSetAlarms, MCFeed, Next
<1>2. StateInv' /\ ClocksTyped' /\ NamesKept'
  BY <1>0, <1>1, StateInvNext, ClocksTypedNext, NamesKeptNext
<1>3. ASSUME NEW list \in AlarmLists, MCSetAlarms(list) PROVE HeldInv' /\ RaisedHasHeld'
  BY <1>3, EditHeld
<1>4. ASSUME NEW rd \in Readings, MCFeed(rd) PROVE HeldInv' /\ RaisedHasHeld'
  BY <1>4, ReadingHeld
<1>5. ASSUME \/ \E on \in BOOLEAN : SetConnected(on)
             \/ Tick
             \/ \E i \in DOMAIN state : Acknowledge(i)
             \/ AcknowledgeAll
             \/ Pass,
             UNCHANGED <<heldFrom, heldTo>>
      PROVE  HeldInv' /\ RaisedHasHeld'
  <2>0. DOMAIN state = DOMAIN alarms
    BY <1>0 DEF StateTyped
  <2>1. ASSUME NEW on \in BOOLEAN, SetConnected(on) PROVE HeldInv' /\ RaisedHasHeld'
    <3>1. /\ UNCHANGED <<alarms, since>> /\ DOMAIN signals' = DOMAIN alarms
          /\ \A i \in DOMAIN alarms : /\ state'[i] = state[i] \/ alarms[i].condition = "NoReadings"
                                      /\ signals'[i] # "raised"
      BY <2>1 DEF SetConnected
    <3> QED  BY <1>5, <3>1, RestHeld
  <2>2. CASE Tick
    <3>1. /\ UNCHANGED <<alarms, since>> /\ DOMAIN signals' = DOMAIN alarms
          /\ \A i \in DOMAIN alarms : /\ state'[i] = state[i] \/ alarms[i].condition = "NoReadings"
                                      /\ signals'[i] = "raised" => alarms[i].condition = "NoReadings"
      BY <2>2 DEF Tick, Silent
    <3> QED  BY <1>5, <3>1, RestHeld
  <2>3. ASSUME NEW i \in DOMAIN state, Acknowledge(i) PROVE HeldInv' /\ RaisedHasHeld'
    <3>1. /\ UNCHANGED <<alarms, since>> /\ DOMAIN signals' = DOMAIN alarms
          /\ \A j \in DOMAIN alarms : /\ state'[j] = state[j] \/ (state[j] \in Active /\ state'[j] \in Active)
                                      /\ signals'[j] # "raised"
      BY <2>0, <2>3 DEF Acknowledge, Quietly, Active
    <3> QED  BY <1>5, <3>1, RestHeld
  <2>4. CASE AcknowledgeAll
    <3>1. /\ UNCHANGED <<alarms, since>> /\ DOMAIN signals' = DOMAIN alarms
          /\ \A j \in DOMAIN alarms : /\ state'[j] = state[j] \/ (state[j] \in Active /\ state'[j] \in Active)
                                      /\ signals'[j] # "raised"
      BY <2>0, <2>4 DEF AcknowledgeAll, Quietly, Active
    <3> QED  BY <1>5, <3>1, RestHeld
  <2>5. CASE Pass
    <3>1. /\ UNCHANGED <<alarms, since, state>> /\ DOMAIN signals' = DOMAIN alarms
          /\ \A j \in DOMAIN alarms : signals'[j] # "raised"
      BY <2>5 DEF Pass, Quietly
    <3> QED  BY <1>5, <3>1, RestHeld
  <2> QED  BY <1>5, <2>1, <2>2, <2>3, <2>4, <2>5
<1>6. ASSUME UNCHANGED mcVars PROVE HeldInv' /\ RaisedHasHeld'
  <2>1. UNCHANGED <<alarms, state, since, signals, now, heldFrom, heldTo>>
    BY <1>6 DEF mcVars, vars
  <2>2. HeldInv'
    BY <2>1 DEF HistoryInv, HeldInv
  <2>3. RaisedHasHeld'
    BY <2>1 DEF HistoryInv, RaisedHasHeld
  <2> QED  BY <2>2, <2>3
<1>7. HeldInv' /\ RaisedHasHeld'
  <2>1. CASE \E list \in AlarmLists : MCSetAlarms(list)
    BY <1>3, <2>1
  <2>2. CASE \E rd \in Readings : MCFeed(rd)
    BY <1>4, <2>2
  <2>3. CASE /\ \/ \E on \in BOOLEAN : SetConnected(on)
                \/ Tick
                \/ \E i \in DOMAIN state : Acknowledge(i)
                \/ AcknowledgeAll
                \/ Pass
             /\ UNCHANGED <<heldFrom, heldTo>>
    BY <1>5, <2>3
  <2> QED
    BY <1>6, <2>1, <2>2, <2>3 DEF MCNext
<1> QED  BY <1>2, <1>7 DEF HistoryInv

LEMMA HistoryInvInit == MCInit => HistoryInv
<1> SUFFICES ASSUME MCInit PROVE HistoryInv
  OBVIOUS
<1>1. StateInv /\ NamesKept
  BY StateInvInit, NamesKeptInit DEF MCInit
<1>2. ClocksTyped
  BY TimeAssumption DEF MCInit, Init, ClocksTyped
<1>3. HeldInv /\ RaisedHasHeld
  BY DEF MCInit, Init, HeldInv, RaisedHasHeld
<1> QED  BY <1>1, <1>2, <1>3 DEF HistoryInv

\* An alarm of a value is raised when, and as soon as, a reading completes the time its condition has held, through
\* spikes, other values' readings, reconnections, silences and edits; and one that tints the display is found there
\* (evaluate(), setAlarms(), displayColor()).
THEOREM AlarmsTellWhatHolds == ASSUME NamesAreTheirs PROVE CtlSpec => []AlarmsShowWhatHolds
<1> DEFINE Inv == part = "alarms" => HistoryInv
<1>1. CtlInit => Inv
  BY HistoryInvInit DEF CtlInit
<1>2. Inv /\ [CtlNext]_<<part, mcVars, ownVars>> => Inv'
  <2> SUFFICES ASSUME Inv, [CtlNext]_<<part, mcVars, ownVars>>, part' = "alarms" PROVE HistoryInv'
    OBVIOUS
  <2>1. part = "alarms" /\ [MCNext]_mcVars
    BY DEF CtlNext
  <2> QED  BY <2>1, HistoryInvNext
<1>3. Inv => AlarmsShowWhatHolds
  <2> SUFFICES ASSUME HistoryInv PROVE RaisedHasHeld /\ HeldIsRaised /\ RaisedTintsDisplay
    BY DEF AlarmsShowWhatHolds
  <2>1. HeldIsRaised
    BY DEF HistoryInv, HeldInv, Held, HeldIsRaised
  <2> QED  BY <2>1, NamesTint DEF HistoryInv
<1> QED  BY <1>1, <1>2, <1>3, PTL DEF CtlSpec
=============================================================================
