------------------------ MODULE MeterConnectionProofs ------------------------
(***************************************************************************)
(* The link state of MeterConnection tells the truth for every set of      *)
(* ports, every timeout and every retry interval, as long as no setup is   *)
(* external and open() is called on a connection that is not wanted: the   *)
(* two provisos without which the violation runs find counterexamples.     *)
(* Below it, for every number of device objects: a Bluetooth meter is      *)
(* asked again, the four ports keep the promise of Port, what a chain of   *)
(* calculated meters shows is made of recent readings, and a network port  *)
(* carries the meter's bytes both ways and nothing of telnet's.            *)
(***************************************************************************)
EXTENDS MCMeterConnection, FiniteSetTheorems, SequenceTheorems, NaturalsInduction, WellFoundedInduction, TLAPS

PlainUse == ~Reopens /\ \A c \in Configs : ~c.ext

\* Open, lost and closed: the three situations the link is ever in.
LinkInv ==
  /\ config \in Configs
  /\ state \in LinkStates
  /\ wanted <=> state # "Closed"
  /\ wanted => timer
  /\ port # 0 <=> state \in {"Connecting", "Connected", "Timeout"}
  /\ handle = port
  /\ readValue => port # 0

LEMMA LinkInvInit == Init => LinkInv
BY DEF Init, LinkInv, LinkStates

LEMMA OpenPortLinks ==
  ASSUME NEW p \in Ports, LinkInv, OpenPort(p), wanted' = TRUE, config' = config
  PROVE  LinkInv'
BY ConnectionAssumption DEF LinkInv, LinkStates, OpenPort

LEMMA ClosePortUnlinks ==
  ASSUME PlainUse, LinkInv, ClosePort
  PROVE  port' = 0 /\ handle' = 0 /\ ~readValue'
BY DEF PlainUse, LinkInv, ClosePort

LEMMA LinkInvNext ==
  ASSUME PlainUse
  PROVE  LinkInv /\ [Next]_vars => LinkInv'
<1> SUFFICES ASSUME LinkInv, [Next]_vars PROVE LinkInv'
  OBVIOUS
<1>1. ASSUME NEW c \in Configs, Configure(c) PROVE LinkInv'
  BY <1>1 DEF Configure, LinkInv
<1>2. CASE Open
  <2>1. ~wanted /\ state = "Closed"
    BY <1>2 DEF Open, PlainUse, LinkInv
  <2>2. ASSUME NEW p \in Ports, OpenPort(p), wanted' = TRUE PROVE LinkInv'
    BY <1>2, <2>2, OpenPortLinks DEF Open
  <2>3. CASE wanted' = FALSE /\ OpenPortFails /\ UNCHANGED <<state, secondsInError>>
    BY <1>2, <2>1, <2>3 DEF Open, OpenPortFails, LinkInv
  <2> QED
    BY <1>2, <2>2, <2>3 DEF Open
<1>3. CASE Close
  BY <1>3, ClosePortUnlinks DEF Close, LinkInv, LinkStates
<1>4. ASSUME NEW p \in Ports, Finished(p) PROVE LinkInv'
  <2>1. CASE ~wanted \/ port = 0 \/ p # port
    BY <1>4, <2>1 DEF Finished, PortLost, LinkInv
  <2>2. CASE ~(~wanted \/ port = 0 \/ p # port)
    <3>1. ClosePort /\ state' = "Error"
      BY <1>4, <2>2 DEF Finished, PortLost
    <3> QED
      BY <1>4, <2>2, <3>1, ClosePortUnlinks DEF Finished, LinkInv, LinkStates
  <2> QED
    BY <2>1, <2>2
<1>5. ASSUME NEW p \in Ports, Delete(p) PROVE LinkInv'
  BY <1>5 DEF Delete, LinkInv
<1>6. CASE TimerEvent
  <2>1. CASE Retry
    <3>1. ASSUME NEW p \in Ports, OpenPort(p) PROVE LinkInv'
      BY <1>6, <2>1, <3>1, OpenPortLinks DEF TimerEvent, Retry, LinkInv
    <3>2. CASE OpenPortFails /\ state' = "Error"
      BY <1>6, <2>1, <3>2 DEF TimerEvent, Retry, OpenPortFails, LinkInv, LinkStates
    <3>3. CASE UNCHANGED <<state, timer, quiet, port, live, gatt, ready, late, handle, readValue>>
      BY <1>6, <3>3 DEF TimerEvent, LinkInv
    <3> QED
      BY <2>1, <3>1, <3>2, <3>3 DEF Retry
  <2>2. CASE Watch
    BY <1>6, <2>2 DEF TimerEvent, Watch, LinkInv, LinkStates
  <2> QED
    BY <1>6, <2>1, <2>2 DEF TimerEvent
<1>7. CASE ReaderTimer
  BY <1>7 DEF ReaderTimer, LinkInv
<1>8. CASE Frame
  BY <1>8 DEF Frame, LinkInv, LinkStates
<1>9. CASE Ready \/ Vanish \/ Appear \/ Switch \/ Second
  BY <1>9 DEF Ready, Vanish, Appear, Switch, Second, LinkInv
<1>10. CASE UNCHANGED vars
  BY <1>10 DEF vars, LinkInv
<1> QED
  BY <1>1, <1>2, <1>3, <1>4, <1>5, <1>6, <1>7, <1>8, <1>9, <1>10 DEF Next

LEMMA LinkInvHolds == ASSUME PlainUse PROVE Spec => []LinkInv
BY LinkInvInit, LinkInvNext, PTL DEF Spec

-----------------------------------------------------------------------------
\* The state Connecting, Connected or Timeout comes with a port, and the reader listens to it.
THEOREM LinkStateHasPort == ASSUME PlainUse PROVE Spec => []LinkHasPort
<1>1. LinkInv => LinkHasPort
  BY DEF LinkInv, LinkHasPort
<1> QED
  BY <1>1, LinkInvHolds, PTL

\* A wanted connection in Error is always on its way back: timer running, no port in the way.
THEOREM LostLinksAreRetried == ASSUME PlainUse PROVE Spec => []LostIsRetried
<1>1. LinkInv => LostIsRetried
  BY DEF LinkInv, LostIsRetried
<1> QED
  BY <1>1, LinkInvHolds, PTL

\* An armed poll always has the transport's port to go to.
THEOREM PollsHavePorts == ASSUME PlainUse PROVE Spec => []PollHasPort
<1>1. LinkInv => PollHasPort
  BY DEF LinkInv, PollHasPort
<1> QED
  BY <1>1, LinkInvHolds, PTL

\* What the two timers rely on, at whatever moment they fire: a lost connection has nothing in the way of openPort(),
\* a poll has its port.
THEOREM TimersFindPorts == ASSUME PlainUse PROVE Spec => []TimersFindTheirPort
<1>1. LinkInv => LostIsRetried
  BY DEF LinkInv, LostIsRetried
<1>2. LinkInv => PollHasPort
  BY DEF LinkInv, PollHasPort
<1>3. LinkInv => TimersFindTheirPort
  BY <1>1, <1>2 DEF TimersFindTheirPort
<1> QED
  BY <1>3, LinkInvHolds, PTL

\* Closed means closed: no port, no reader, no pending poll.
THEOREM ClosedLinksHoldNothing == ASSUME PlainUse PROVE Spec => []ClosedHasNoPort
<1>1. LinkInv => ClosedHasNoPort
  BY DEF LinkInv, ClosedHasNoPort
<1> QED
  BY <1>1, LinkInvHolds, PTL

-----------------------------------------------------------------------------
(* The watchdog and the cause of an Error need no proviso. *)

SilenceInv == quiet \in Nat /\ TimeoutMeansSilence

LEMMA SilenceInvNext == SilenceInv /\ [Next]_vars => SilenceInv'
<1> SUFFICES ASSUME SilenceInv, [Next]_vars PROVE SilenceInv'
  OBVIOUS
<1> USE DEF SilenceInv, TimeoutMeansSilence
<1>1. ASSUME NEW p \in Ports, OpenPort(p) PROVE SilenceInv'
  BY <1>1 DEF OpenPort
<1>2. CASE OpenPortFails /\ (UNCHANGED state \/ state' = "Error")
  BY <1>2 DEF OpenPortFails
<1>3. CASE Open
  BY <1>1, <1>2, <1>3 DEF Open
<1>4. CASE Close
  BY <1>4 DEF Close
<1>5. ASSUME NEW c \in Configs, Configure(c) PROVE SilenceInv'
  BY <1>5 DEF Configure
<1>6. ASSUME NEW p \in Ports, Finished(p) PROVE SilenceInv'
  BY <1>6 DEF Finished, PortLost
<1>7. ASSUME NEW p \in Ports, Delete(p) PROVE SilenceInv'
  BY <1>7 DEF Delete
<1>8. CASE TimerEvent
  <2>1. CASE Retry
    BY <1>1, <1>2, <2>1 DEF Retry
  <2>2. CASE Watch
    <3>1. CASE gatt /\ ~ready
      BY <2>2, <3>1 DEF Watch
    <3>2. CASE ~(gatt /\ ~ready)
      BY <2>2, <3>2 DEF Watch
    <3> QED
      BY <3>1, <3>2
  <2> QED
    BY <1>8, <2>1, <2>2 DEF TimerEvent
<1>9. CASE ReaderTimer \/ Vanish \/ Appear \/ Switch
  BY <1>9 DEF ReaderTimer, Vanish, Appear, Switch
<1>10. CASE Frame
  BY <1>10 DEF Frame
<1>11. CASE Ready
  BY <1>11 DEF Ready
<1>12. CASE Second
  BY <1>12, ConnectionAssumption DEF Second
<1>13. CASE UNCHANGED vars
  BY <1>13 DEF vars
<1> QED
  BY <1>3, <1>4, <1>5, <1>6, <1>7, <1>8, <1>9, <1>10, <1>11, <1>12, <1>13 DEF Next

\* Timeout is never told before the silence is longer than the timeout, Bluetooth set-up not counted.
THEOREM TimeoutsAreSilence == Spec => []TimeoutMeansSilence
<1>1. Init => SilenceInv
  BY DEF Init, SilenceInv, TimeoutMeansSilence
<1>2. SilenceInv => TimeoutMeansSilence
  BY DEF SilenceInv
<1> QED
  BY <1>1, <1>2, SilenceInvNext, PTL DEF Spec

-----------------------------------------------------------------------------
(* The connection implements MeterLink: every step is a step of the promise *)
(* or changes nothing the controller sees.                                  *)

\* A Bluetooth link that is not set up has not delivered a frame, so its watchdog has nothing to take back.
SetUpInv == LinkInv /\ (gatt /\ ~ready => state \notin {"Connected", "Timeout"})

LEMMA SetUpInvNext ==
  ASSUME PlainUse
  PROVE  SetUpInv /\ [Next]_vars => SetUpInv'
<1> SUFFICES ASSUME SetUpInv, [Next]_vars PROVE (gatt /\ ~ready => state \notin {"Connected", "Timeout"})'
  BY LinkInvNext DEF SetUpInv
<1> USE DEF SetUpInv
<1>1. ASSUME NEW c \in Configs, Configure(c) PROVE (gatt /\ ~ready => state \notin {"Connected", "Timeout"})'
  BY <1>1 DEF Configure
<1>2. CASE Open
  BY <1>2 DEF Open, OpenPort, OpenPortFails
<1>3. CASE Close
  BY <1>3 DEF Close
<1>4. ASSUME NEW p \in Ports, Finished(p) PROVE (gatt /\ ~ready => state \notin {"Connected", "Timeout"})'
  BY <1>4 DEF Finished, PortLost
<1>5. ASSUME NEW p \in Ports, Delete(p) PROVE (gatt /\ ~ready => state \notin {"Connected", "Timeout"})'
  BY <1>5 DEF Delete
<1>6. CASE TimerEvent
  <2>1. CASE Retry
    BY <1>6, <2>1 DEF TimerEvent, Retry, OpenPort, OpenPortFails
  <2>2. CASE Watch
    BY <1>6, <2>2 DEF TimerEvent, Watch
  <2> QED
    BY <1>6, <2>1, <2>2 DEF TimerEvent
<1>7. CASE ReaderTimer
  BY <1>7 DEF ReaderTimer
<1>8. CASE Frame
  BY <1>8 DEF Frame
<1>9. CASE Ready \/ Vanish \/ Appear \/ Switch \/ Second
  BY <1>9 DEF Ready, Vanish, Appear, Switch, Second
<1>10. CASE UNCHANGED vars
  BY <1>10 DEF vars
<1> QED
  BY <1>1, <1>2, <1>3, <1>4, <1>5, <1>6, <1>7, <1>8, <1>9, <1>10 DEF Next

LEMMA StepsKeepThePromise ==
  ASSUME PlainUse, SetUpInv, [Next]_vars
  PROVE  [Link!Next]_(Link!linkVars)
<1> USE DEF Link!linkVars
<1>0. LinkInv
  BY DEF SetUpInv
<1>1. ASSUME NEW c \in Configs, Configure(c) PROVE UNCHANGED Link!linkVars
  BY <1>1 DEF Configure
<1>2. CASE Open
  <2>1. ~wanted /\ state = "Closed" /\ port = 0
    BY <1>0, <1>2 DEF Open, PlainUse, LinkInv
  <2>2. ASSUME NEW p \in Ports, OpenPort(p), wanted' = TRUE PROVE ~wanted /\ Link!Open
    BY <2>1, <2>2, ConnectionAssumption DEF OpenPort, Link!Open
  <2>3. CASE wanted' = FALSE /\ OpenPortFails /\ UNCHANGED <<state, secondsInError>>
    BY <2>1, <2>3 DEF OpenPortFails, Link!OpenFails, Link!Next
  <2> QED
    BY <1>2, <2>1, <2>2, <2>3 DEF Open, Link!Next
<1>3. CASE Close
  BY <1>0, <1>3, ClosePortUnlinks DEF Close, Link!Close, Link!Next
<1>4. ASSUME NEW p \in Ports, Finished(p) PROVE [Link!Next]_(Link!linkVars)
  <2>1. CASE ~wanted \/ port = 0 \/ p # port
    BY <1>4, <2>1 DEF Finished, PortLost
  <2>2. CASE ~(~wanted \/ port = 0 \/ p # port)
    <3>1. ClosePort /\ state' = "Error" /\ UNCHANGED wanted
      BY <1>4, <2>2 DEF Finished, PortLost
    <3> QED
      BY <1>0, <2>2, <3>1, ClosePortUnlinks DEF Link!Lose, Link!Next
  <2> QED
    BY <2>1, <2>2
<1>5. ASSUME NEW p \in Ports, Delete(p) PROVE UNCHANGED Link!linkVars
  BY <1>5 DEF Delete
<1>6. CASE TimerEvent
  <2>1. CASE Retry
    <3>1. ASSUME NEW p \in Ports, OpenPort(p) PROVE Link!Reopen
      BY <1>6, <2>1, <3>1, ConnectionAssumption DEF TimerEvent, Retry, OpenPort, Link!Reopen
    <3>2. CASE OpenPortFails /\ state' = "Error"
      <4>1. state = "Error"
        BY <1>0, <2>1 DEF Retry, LinkInv, LinkStates
      <4> QED
        BY <1>6, <2>1, <3>2, <4>1 DEF TimerEvent, Retry, OpenPortFails
    <3>3. CASE UNCHANGED <<state, timer, quiet, port, live, gatt, ready, late, handle, readValue>>
      BY <1>6, <3>3 DEF TimerEvent
    <3> QED
      BY <2>1, <3>1, <3>2, <3>3 DEF Retry, Link!Next
  <2>2. CASE Watch
    <3>1. UNCHANGED <<wanted, port>> /\ port # 0
      BY <1>6, <2>2 DEF TimerEvent, Watch
    <3>2. CASE gatt /\ ~ready
      <4>1. state = "Connecting"
        BY <1>0, <3>1, <3>2 DEF SetUpInv, LinkInv
      <4> QED
        BY <2>2, <3>1, <3>2, <4>1 DEF Watch
    <3>3. CASE ~(gatt /\ ~ready)
      <4>1. state' = "Timeout" \/ UNCHANGED state
        BY <2>2, <3>3 DEF Watch
      <4> QED
        BY <3>1, <4>1 DEF Link!Silence, Link!Next
    <3> QED
      BY <3>2, <3>3
  <2> QED
    BY <1>6, <2>1, <2>2 DEF TimerEvent
<1>7. CASE ReaderTimer
  BY <1>7 DEF ReaderTimer
<1>8. CASE Frame
  BY <1>8 DEF Frame, Link!Frame, Link!Next
<1>9. CASE Ready \/ Vanish \/ Appear \/ Switch \/ Second
  BY <1>9 DEF Ready, Vanish, Appear, Switch, Second
<1>10. CASE UNCHANGED vars
  BY <1>10 DEF vars
<1> QED
  BY <1>1, <1>2, <1>3, <1>4, <1>5, <1>6, <1>7, <1>8, <1>9, <1>10 DEF Next

\* In plain use the connection implements the promise its controller builds on: whatever ports come, go and are
\* late inside, a port is held in exactly the states that claim one.
THEOREM ConnectionImplementsLink == ASSUME PlainUse PROVE Spec => KeepsItsPromise
<1>1. Init => SetUpInv /\ Link!Init
  BY LinkInvInit DEF Init, SetUpInv, Link!Init
<1>2. SetUpInv /\ [Next]_vars => SetUpInv'
  BY SetUpInvNext
<1>3. SetUpInv /\ [Next]_vars => [Link!Next]_(Link!linkVars)
  BY StepsKeepThePromise
<1> QED
  BY <1>1, <1>2, <1>3, PTL DEF Spec, KeepsItsPromise, Link!Spec

-----------------------------------------------------------------------------
(* The polls of a Bluetooth meter, whatever the times are. *)

\* Since the reader of frames asked last, a poll went out or one that was out counted as lost; or keys keep it waiting,
\* and the last one's single shot is still to come.
PollInv ==
  /\ sincePoll \in Nat /\ sinceKey \in Nat /\ lastRead \in 0..(Period + 1) /\ shots \subseteq 0..(KeyQuiet + 1)
  /\ hasPoll \/ sincePoll <= lastRead
  /\ sinceKey < KeyQuiet - 1 => sinceKey \in shots
  /\ sincePoll <= lastRead + LostAfter \/ sinceKey \in shots

LEMMA PollInvInit == MCInit => PollInv
BY PartsAssumption DEF MCInit, Polls!Init, Polls!Never, PollInv

\* A poll is sent now, unless the reader has not asked yet, or the keys want their quiet time, or one is out.
LEMMA SendPollGoesOn ==
  ASSUME PollInv, Polls!SendPoll, sinceKey' = sinceKey,
         hasPoll => hasPoll', lastRead' \in {0, lastRead}, ~hasPoll' => lastRead' = lastRead,
         shots' \subseteq shots, \A s \in shots \ shots' : s >= KeyQuiet - 1
  PROVE  PollInv'
<1>1. /\ sincePoll \in Nat /\ sinceKey \in Nat /\ KeyQuiet \in Nat /\ LostAfter \in Nat /\ Period \in Nat
      /\ lastRead \in 0..(Period + 1) /\ shots \subseteq 0..(KeyQuiet + 1)
  BY PartsAssumption DEF PollInv
<1>2. sincePoll' \in {0, sincePoll} /\ lastRead' \in 0..(Period + 1)
  <2>1. sincePoll' \in {0, sincePoll}
    BY DEF Polls!SendPoll
  <2>2. lastRead' \in 0..(Period + 1)
    BY <1>1
  <2> QED  BY <2>1, <2>2
<1>3. sinceKey < KeyQuiet - 1 => sinceKey \in shots'
  <2> SUFFICES ASSUME sinceKey < KeyQuiet - 1 PROVE sinceKey \in shots'
    OBVIOUS
  <2>1. sinceKey \in shots
    BY DEF PollInv
  <2>2. ~(sinceKey >= KeyQuiet - 1)
    BY <1>1
  <2> QED  BY <2>1, <2>2
<1>4. hasPoll' \/ sincePoll' <= lastRead'
  <2> SUFFICES ASSUME ~hasPoll' PROVE sincePoll' <= lastRead'
    OBVIOUS
  <2>1. lastRead' = lastRead /\ sincePoll <= lastRead
    BY DEF PollInv
  <2> QED  BY <1>1, <1>2, <2>1
<1>5. sincePoll' <= lastRead' + LostAfter \/ sinceKey \in shots'
  <2>1. CASE sinceKey < KeyQuiet - 1
    BY <1>3, <2>1
  <2>2. CASE ~hasPoll'
    BY <1>1, <1>2, <1>4, <2>2
  <2>3. CASE hasPoll' /\ sinceKey >= KeyQuiet - 1
    <3>1. sincePoll' = 0 \/ (~(sincePoll >= LostAfter) /\ sincePoll' = sincePoll)
      BY <2>3 DEF Polls!SendPoll
    <3>2. sincePoll' <= LostAfter
      BY <1>1, <3>1
    <3>3. lastRead' \in Nat /\ sincePoll' \in Nat /\ LostAfter \in Nat
      BY <1>1, <1>2
    <3>4. \A a, b, c \in Nat : a <= c => a <= b + c
      OBVIOUS
    <3>5. sincePoll' <= lastRead' + LostAfter
      BY <3>2, <3>3, <3>4, Zenon
    <3> QED  BY <3>5
  <2> QED  BY <1>1, <2>1, <2>2, <2>3
<1>6. sincePoll' \in Nat /\ sinceKey' \in Nat /\ shots' \subseteq 0..(KeyQuiet + 1)
  BY <1>1, <1>2
<1> QED  BY <1>2, <1>3, <1>4, <1>5, <1>6 DEF PollInv

LEMMA PollInvNext == PollInv /\ [MCNext]_<<vars, partVars>> => PollInv'
<1> SUFFICES ASSUME PollInv, [MCNext]_<<vars, partVars>> PROVE PollInv'
  OBVIOUS
<1>1. CASE UNCHANGED pollVars
  BY <1>1 DEF pollVars, PollInv
<1>2. CASE Polls!Next
  <2>1. CASE Polls!WriteData
    <3>1. Polls!SendPoll /\ hasPoll' = TRUE /\ lastRead' = 0 /\ UNCHANGED <<sinceKey, shots>>
      BY <2>1 DEF Polls!WriteData
    <3>2. shots' \subseteq shots /\ \A s \in shots \ shots' : s >= KeyQuiet - 1
      BY <3>1
    <3> QED  BY <3>1, <3>2, SendPollGoesOn, Zenon
  <2>2. CASE Polls!Answer
    BY <2>2 DEF Polls!Answer, PollInv
  <2>3. CASE Polls!RepollTimer
    <3>1. Polls!SendPoll /\ UNCHANGED <<hasPoll, sinceKey, shots, lastRead>>
      BY <2>3 DEF Polls!RepollTimer
    <3>2. shots' \subseteq shots /\ \A s \in shots \ shots' : s >= KeyQuiet - 1
      BY <3>1
    <3> QED  BY <3>1, <3>2, SendPollGoesOn, Zenon
  <2>4. CASE Polls!SendCommand
    BY <2>4, PartsAssumption DEF Polls!SendCommand, PollInv
  <2>5. ASSUME NEW s \in shots, Polls!Shot(s)
        PROVE  PollInv'
    <3>1. Polls!SendPoll /\ shots' = shots \ {s} /\ s >= KeyQuiet - 1 /\ UNCHANGED <<hasPoll, sinceKey, lastRead>>
      BY <2>5 DEF Polls!Shot
    <3>2. shots' \subseteq shots /\ \A t \in shots \ shots' : t = s
      BY <3>1
    <3>3. \A t \in shots \ shots' : t >= KeyQuiet - 1
      BY <3>1, <3>2
    <3> QED  BY <3>1, <3>2, <3>3, SendPollGoesOn, Zenon
  <2>6. CASE Polls!Wait
    <3>1. /\ lastRead <= Period /\ lastRead' = lastRead + 1 /\ shots' = {s + 1 : s \in shots} /\ UNCHANGED hasPoll
          /\ \A s \in shots : s <= KeyQuiet
          /\ sincePoll' = (IF sincePoll < Polls!Long THEN sincePoll + 1 ELSE Polls!Long)
          /\ sinceKey' = (IF sinceKey < KeyQuiet + 2 THEN sinceKey + 1 ELSE KeyQuiet + 2)
      BY <2>6 DEF Polls!Wait, Polls!Never
    <3>2. /\ sincePoll \in Nat /\ sinceKey \in Nat /\ KeyQuiet \in Nat /\ LostAfter \in Nat /\ Period \in Nat
          /\ lastRead \in 0..(Period + 1) /\ shots \subseteq 0..(KeyQuiet + 1) /\ Polls!Long \in Nat
      BY PartsAssumption DEF PollInv, Polls!Long
    <3>3. sincePoll' \in Nat /\ sinceKey' \in Nat /\ lastRead' \in 0..(Period + 1) /\ shots' \subseteq 0..(KeyQuiet + 1)
      BY <3>1, <3>2
    <3>4. sincePoll' <= sincePoll + 1
      BY <3>1, <3>2
    <3>5. sinceKey \in shots => sinceKey' \in shots'
      BY <3>1, <3>2
    <3>6. sinceKey' < KeyQuiet - 1 => sinceKey < KeyQuiet - 1
      BY <3>1, <3>2
    <3>7. /\ hasPoll' \/ sincePoll' <= lastRead'
          /\ sincePoll' <= lastRead' + LostAfter \/ sinceKey' \in shots'
      BY <3>1, <3>2, <3>3, <3>4, <3>5 DEF PollInv
    <3> QED  BY <3>3, <3>5, <3>6, <3>7 DEF PollInv
  <2> QED  BY <1>2, <2>1, <2>2, <2>3, <2>4, <2>5, <2>6 DEF Polls!Next
<1> QED  BY <1>1, <1>2 DEF MCNext, partVars

\* BleGattDevice::sendPoll: the meter is asked again within two periods of the reader, or the keys' quiet time after the
\* last key, whatever answers are lost or late and whatever keys come when, for every choice of the times.
THEOREM MeterIsAskedAgain == Spec0 => []PollsGoOn
<1>1. PollInv => PollsGoOn
  BY PartsAssumption DEF PollInv, PollsGoOn, Polls!PollsGoOn
<1> QED  BY <1>1, PollInvInit, PollInvNext, PTL DEF Spec0

-----------------------------------------------------------------------------
(* Ports of every kind implement the promise of Port. *)

\* The port of the connection has not said finished() yet, and no object will that is still to be created.  A cable that
\* is open is the connection's; one whose reader is waited for after an error is no longer open, but still the
\* connection's.
PortInv ==
  /\ created \in Nat /\ current \in Nat /\ said \in [Devices -> Nat]
  /\ \A o \in Devices : o > created \/ o = current => said[o] = 0
  /\ current # 0 => current \in Devices /\ current <= created
  /\ isOpen \subseteq {current} \ {0}
  /\ waits # 0 /\ why = "error" => waits = current /\ isOpen = {}
  /\ part # "hid" => isOpen = {} /\ waits = 0

PortStep == (\E o \in Devices : Promise!Take(o)) \/ Promise!GiveBack \/ Promise!Lose

LEMMA PortInvInit == MCInit => PortInv /\ Promise!Init
<1> SUFFICES ASSUME MCInit PROVE PortInv /\ Promise!Init
  OBVIOUS
<1>1. created = 0 /\ current = 0 /\ said = [o \in Devices |-> 0] /\ isOpen = {} /\ waits = 0
  BY DEF MCInit, Hid!Init
<1> QED  BY <1>1 DEF PortInv, Promise!Init

\* A port is created and held.
LEMMA PortTaken ==
  ASSUME PortInv, current = 0, created + 1 \in Devices, created' = created + 1, current' = created', said' = said
  PROVE  /\ PortStep
         /\ created' \in Nat /\ current' \in Nat /\ said' \in [Devices -> Nat]
         /\ \A o \in Devices : o > created' \/ o = current' => said'[o] = 0
         /\ current' # 0 => current' \in Devices /\ current' <= created'
<1>1. created \in Nat /\ Devices \subseteq Nat \ {0} /\ said \in [Devices -> Nat]
  BY PartsAssumption DEF PortInv
<1>2. \A o \in Devices : o > created => said[o] = 0
  BY DEF PortInv
<1>3. said[created + 1] = 0
  BY <1>1, <1>2
<1>4. Promise!Take(created + 1)
  BY <1>3 DEF Promise!Take
<1>5. \A o \in Devices : o > created' \/ o = current' => said'[o] = 0
  BY <1>1, <1>2
<1> QED  BY <1>1, <1>4, <1>5 DEF PortStep

\* A port is given up, by the connection or because it said finished().
LEMMA PortGivenUp ==
  ASSUME PortInv, current # 0, current' = 0, created' = created,
         said' = said \/ said' = [said EXCEPT ![current] = @ + 1]
  PROVE  /\ PortStep
         /\ created' \in Nat /\ current' \in Nat /\ said' \in [Devices -> Nat]
         /\ \A o \in Devices : o > created' \/ o = current' => said'[o] = 0
         /\ current' # 0 => current' \in Devices /\ current' <= created'
<1>1. /\ created \in Nat /\ Devices \subseteq Nat \ {0} /\ said \in [Devices -> Nat]
      /\ current \in Devices /\ current <= created /\ said[current] = 0
  BY PartsAssumption DEF PortInv
<1>2. \A o \in Devices : o > created => said[o] = 0
  BY DEF PortInv
<1>3. CASE said' = said
  BY <1>1, <1>2, <1>3 DEF PortStep, Promise!GiveBack
<1>4. CASE said' = [said EXCEPT ![current] = @ + 1]
  <2>1. said' = [said EXCEPT ![current] = 1]
    BY <1>1, <1>4
  <2>2. Promise!Lose
    BY <2>1 DEF Promise!Lose
  <2>3. said' \in [Devices -> Nat] /\ \A o \in Devices : o # current => said'[o] = said[o]
    BY <1>1, <2>1
  <2>4. \A o \in Devices : o > created' \/ o = current' => said'[o] = 0
    BY <1>1, <1>2, <2>3
  <2> QED  BY <1>1, <2>2, <2>3, <2>4 DEF PortStep
<1> QED  BY <1>3, <1>4

\* The ports that have no cable to wait for.
LEMMA PlainPortSteps ==
  ASSUME PortInv, part # "hid", part' = part, UNCHANGED hidVars,
         \/ UNCHANGED portVars
         \/ current = 0 /\ created + 1 \in Devices /\ created' = created + 1 /\ current' = created' /\ said' = said
         \/ /\ current # 0 /\ current' = 0 /\ created' = created
            /\ said' = said \/ said' = [said EXCEPT ![current] = @ + 1]
  PROVE  PortInv' /\ (PortStep \/ UNCHANGED Promise!portVars)
<1>1. isOpen' = {} /\ waits' = 0 /\ part' # "hid"
  BY DEF PortInv, hidVars
<1>2. CASE UNCHANGED portVars
  BY <1>1, <1>2 DEF PortInv, portVars, Promise!portVars
<1>3. CASE current = 0 /\ created + 1 \in Devices /\ created' = created + 1 /\ current' = created' /\ said' = said
  <2>1. /\ PortStep
        /\ created' \in Nat /\ current' \in Nat /\ said' \in [Devices -> Nat]
        /\ \A o \in Devices : o > created' \/ o = current' => said'[o] = 0
        /\ current' # 0 => current' \in Devices /\ current' <= created'
    BY <1>3, PortTaken
  <2> QED  BY <1>1, <2>1 DEF PortInv
<1>4. CASE /\ current # 0 /\ current' = 0 /\ created' = created
           /\ said' = said \/ said' = [said EXCEPT ![current] = @ + 1]
  <2>1. /\ PortStep
        /\ created' \in Nat /\ current' \in Nat /\ said' \in [Devices -> Nat]
        /\ \A o \in Devices : o > created' \/ o = current' => said'[o] = 0
        /\ current' # 0 => current' \in Devices /\ current' <= created'
    BY <1>4, PortGivenUp
  <2> QED  BY <1>1, <2>1 DEF PortInv
<1> QED  BY <1>2, <1>3, <1>4

\* A cable: what its reader's thread and the handling of posted events do.
LEMMA HidSteps ==
  ASSUME PortInv, part = "hid", part' = part, Hid!Next
  PROVE  PortInv' /\ (PortStep \/ UNCHANGED Promise!portVars)
<1>1. ASSUME UNCHANGED <<current, created, said, isOpen, waits, why>>
      PROVE  PortInv' /\ UNCHANGED Promise!portVars
  BY <1>1 DEF PortInv, Promise!portVars
<1>2. ASSUME NEW o \in Devices, Hid!Reading(o)
      PROVE  UNCHANGED <<current, created, said, isOpen, waits, why>>
  BY <1>2 DEF Hid!Reading, Hid!Loop, Hid!Read, Hid!Hang, Hid!EndRead, Hid!window
<1>3. CASE Hid!OnReport \/ Hid!Delete \/ Hid!WriteData \/ Hid!Pull \/ Hid!Plug
  <2>1. UNCHANGED <<current, created, said, isOpen, waits, why>>
    BY <1>3 DEF Hid!OnReport, Hid!Delete, Hid!WriteData, Hid!Pull, Hid!Plug, Hid!window
  <2> QED  BY <1>1, <2>1
<1>4. CASE Hid!Open
  <2>1. /\ waits = 0 /\ current = 0 /\ created + 1 \in Devices /\ created' = created + 1 /\ current' = created'
        /\ said' = said /\ isOpen' = isOpen \cup {created'} /\ waits' = waits
    BY <1>4 DEF Hid!Open, Hid!Free
  <2>2. /\ PortStep
        /\ created' \in Nat /\ current' \in Nat /\ said' \in [Devices -> Nat]
        /\ \A o \in Devices : o > created' \/ o = current' => said'[o] = 0
        /\ current' # 0 => current' \in Devices /\ current' <= created'
    BY <2>1, PortTaken
  <2>3. isOpen = {} /\ current' # 0
    BY <2>1, PartsAssumption DEF PortInv
  <2>4. isOpen' \subseteq {current'} \ {0}
    BY <2>1, <2>3
  <2> QED  BY <2>1, <2>2, <2>4 DEF PortInv
<1>5. CASE Hid!Close
  <2>1. /\ waits = 0 /\ current # 0 /\ current' = 0 /\ created' = created /\ said' = said
        /\ isOpen' = isOpen \ {current} /\ why' = "close"
    BY <1>5 DEF Hid!Close, Hid!Free, Hid!StopReader
  <2>2. /\ PortStep
        /\ created' \in Nat /\ current' \in Nat /\ said' \in [Devices -> Nat]
        /\ \A o \in Devices : o > created' \/ o = current' => said'[o] = 0
        /\ current' # 0 => current' \in Devices /\ current' <= created'
    BY <2>1, PortGivenUp
  <2>3. isOpen' = {}
    BY <2>1 DEF PortInv
  <2> QED  BY <2>1, <2>2, <2>3 DEF PortInv
<1>6. CASE Hid!Waited
  <2>1. waits # 0 /\ waits' = 0 /\ UNCHANGED <<created, isOpen, why>>
    BY <1>6 DEF Hid!Waited, Hid!Free
  <2>2. CASE why = "error"
    <3>1. waits = current /\ isOpen = {}
      BY <2>1, <2>2 DEF PortInv
    <3>2. said' = [said EXCEPT ![current] = @ + 1] /\ current' = 0 /\ current # 0
      BY <1>6, <2>1, <2>2, <3>1 DEF Hid!Waited
    <3>3. /\ PortStep
          /\ created' \in Nat /\ current' \in Nat /\ said' \in [Devices -> Nat]
          /\ \A o \in Devices : o > created' \/ o = current' => said'[o] = 0
          /\ current' # 0 => current' \in Devices /\ current' <= created'
      BY <2>1, <3>2, PortGivenUp
    <3> QED  BY <2>1, <3>1, <3>3 DEF PortInv
  <2>3. CASE why # "error"
    <3>1. said' = said /\ current' = current
      BY <1>6, <2>3 DEF Hid!Waited
    <3> QED  BY <2>1, <3>1 DEF PortInv, Promise!portVars
  <2> QED  BY <2>2, <2>3
<1>7. CASE Hid!OnReadError
  <2> DEFINE o == Head(posted).of
  <2>1. waits = 0 /\ UNCHANGED <<current, created, said>>
    BY <1>7 DEF Hid!OnReadError, Hid!Next1, Hid!Free
  <2>2. CASE o \in isOpen
    <3>1. isOpen' = isOpen \ {o} /\ waits' = o /\ why' = "error"
      BY <1>7, <2>2 DEF Hid!OnReadError, Hid!StopReader
    <3> HIDE DEF o
    <3>2. o = current /\ isOpen' = {}
      BY <2>2, <3>1 DEF PortInv
    <3> QED  BY <2>1, <3>1, <3>2 DEF PortInv, Promise!portVars
  <2>3. CASE o \notin isOpen
    <3>1. UNCHANGED <<isOpen, waits, why>>
      BY <1>7, <2>3 DEF Hid!OnReadError
    <3> QED  BY <1>1, <2>1, <3>1
  <2> QED  BY <2>2, <2>3
<1> QED  BY <1>1, <1>2, <1>3, <1>4, <1>5, <1>6, <1>7 DEF Hid!Next, Hid!Handling

LEMMA PortsStep == PortInv /\ [MCNext]_<<vars, partVars>> => PortInv' /\ [PortStep]_(Promise!portVars)
<1> SUFFICES ASSUME PortInv, [MCNext]_<<vars, partVars>> PROVE PortInv' /\ (PortStep \/ UNCHANGED Promise!portVars)
  OBVIOUS
<1>1. CASE UNCHANGED <<vars, partVars>>
  BY <1>1 DEF partVars, portVars, hidVars, PortInv, Promise!portVars
<1>2. CASE Of("hid") /\ Hid!Next
  BY <1>2, HidSteps DEF Of
<1>3. CASE part # "hid" /\ part' = part /\ UNCHANGED <<portVars, hidVars>>
  BY <1>3, PlainPortSteps
<1>4. CASE Of("gatt") /\ Gatt!Next /\ UNCHANGED hidVars
  <2>1. part # "hid" /\ part' = part
    BY <1>4 DEF Of
  <2>2. CASE Gatt!Open
    BY <1>4, <2>1, <2>2, PlainPortSteps DEF Gatt!Open
  <2>3. CASE Gatt!Close \/ Gatt!Fails
    BY <1>4, <2>1, <2>3, PlainPortSteps DEF Gatt!Close, Gatt!Fails, Gatt!Fail, Gatt!Closed
  <2>4. CASE Gatt!ConnectTo \/ Gatt!Connected \/ Gatt!OnDiscoveryFinished \/ Gatt!OnServiceState \/ Gatt!Subscribed \/ Gatt!Second
    BY <1>4, <2>1, <2>4, PlainPortSteps
       DEF Gatt!ConnectTo, Gatt!Connected, Gatt!OnDiscoveryFinished, Gatt!OnServiceState, Gatt!Subscribed, Gatt!Second,
           Gatt!Reaches, portVars
  <2> QED  BY <1>4, <2>2, <2>3, <2>4 DEF Gatt!Next
<1>5. CASE Of("network") /\ Network!Next /\ UNCHANGED hidVars
  <2>1. part # "hid" /\ part' = part
    BY <1>5 DEF Of
  <2>2. CASE Network!Open
    BY <1>5, <2>1, <2>2, PlainPortSteps DEF Network!Open
  <2>3. CASE Network!Close \/ Network!Lost
    BY <1>5, <2>1, <2>3, PlainPortSteps DEF Network!Close, Network!Lost
  <2>4. CASE Network!OnConnected \/ Network!Serve \/ Network!OnReadyRead \/ Network!WriteData
    <3>1. UNCHANGED portVars
      BY <2>4 DEF Network!OnConnected, Network!Serve, Network!OnReadyRead, Network!WriteData, portVars
    <3> QED  BY <1>5, <2>1, <3>1, PlainPortSteps
  <2> QED  BY <1>5, <2>2, <2>3, <2>4 DEF Network!Next
<1>6. CASE Of("sigrok") /\ Sigrok!Next /\ UNCHANGED hidVars
  <2>1. part # "hid" /\ part' = part
    BY <1>6 DEF Of
  <2>2. CASE Sigrok!Open
    BY <1>6, <2>1, <2>2, PlainPortSteps DEF Sigrok!Open
  <2>3. CASE Sigrok!Close \/ Sigrok!Ends
    BY <1>6, <2>1, <2>3, PlainPortSteps DEF Sigrok!Close, Sigrok!Ends
  <2>4. ASSUME NEW o \in Devices, Sigrok!Started(o) \/ Sigrok!Obeys(o) \/ Sigrok!Kill(o) \/ Sigrok!Dies(o)
        PROVE  UNCHANGED portVars
    BY <2>4 DEF Sigrok!Started, Sigrok!Obeys, Sigrok!Kill, Sigrok!Dies, portVars
  <2> QED  BY <1>6, <2>1, <2>2, <2>3, <2>4, PlainPortSteps DEF Sigrok!Next
<1> QED  BY <1>1, <1>2, <1>3, <1>4, <1>5, <1>6 DEF MCNext, Of

\* HIDSerialDevice, BleGattDevice, RFC2217SerialDevice and SigrokDevice alike: a port is held alone, says finished() once
\* and only while the connection holds it, and is given up with it, however many objects were there before.
THEOREM PortsImplementPort == Spec0 => PortsKeepTheirPromise
<1>1. MCInit => PortInv /\ Promise!Init
  BY PortInvInit
<1>2. PortInv /\ [MCNext]_<<vars, partVars>> => PortInv'
  BY PortsStep
<1>3. PortInv /\ [MCNext]_<<vars, partVars>>
        => [(\E o \in Devices : Promise!Take(o)) \/ Promise!GiveBack \/ Promise!Lose]_(Promise!portVars)
  BY PortsStep DEF PortStep
<1> QED  BY <1>1, <1>2, <1>3, PTL DEF Spec0, PortsKeepTheirPromise, Promise!Spec

-----------------------------------------------------------------------------
(* Calculated meters. *)

\* The place of a calculated meter in the row of them.
Links(c) == c - Cardinality(Measuring)

\* Each link of a chain adds what a reading may be old; while all of them go on, readings are fresh when they are used.
CalcInv ==
  /\ connected \subseteq Chain /\ edits \in Nat /\ valid \subseteq Measuring \cup Chain
  /\ ages \in [Measuring \cup Chain -> Nat] /\ basis \in [Measuring \cup Chain -> Nat]
  /\ formula \in [Chain -> SUBSET (Measuring \cup Chain)]
  /\ \A c \in Chain : \A v \in formula[c] : v < c
  /\ \A m \in Measuring : basis[m] = 0
  /\ \A c \in Chain \cap valid : basis[c] <= Links(c) * Stale
  /\ connected = Chain /\ edits = 0 =>
       \A c \in Chain \cap valid : basis[c] <= Stale + Links(c) - 1 /\ ages[c] <= 1 /\ (c \notin due => ages[c] = 0)

\* Measuring meters come first in the row.
LEMMA LinksCount ==
  /\ \A c \in Chain : c \in Nat /\ Links(c) \in Nat \ {0} /\ c \notin Measuring
  /\ Measuring \subseteq Nat
<1> DEFINE k == Cardinality(Measuring)
           n == k + Cardinality(Chain)
<1>1. k \in Nat /\ n \in Int
  BY PartsAssumption, FS_CardinalityType
<1>2. Measuring = 1..k /\ Chain = (k + 1)..n /\ \A c : Links(c) = c - k
  BY PartsAssumption DEF Links
<1> HIDE DEF k, n
<1> QED  BY <1>1, <1>2

\* A chain of n links is no older than n times what one may be, and a link more is once more.
LEMMA OneLinkMore ==
  ASSUME NEW k \in Nat, NEW n \in Nat, k < n, NEW stale \in Nat
  PROVE  k * stale + stale <= n * stale
<1>1. PICK d \in Nat : n = k + 1 + d
  <2>1. n - k - 1 \in Nat /\ n = k + 1 + (n - k - 1)
    OBVIOUS
  <2> QED  BY <2>1
<1>2. (k + 1 + d) * stale = k * stale + stale + d * stale
  OBVIOUS
<1>3. d * stale \in Nat /\ k * stale \in Nat
  OBVIOUS
<1> QED  BY <1>1, <1>2, <1>3

LEMMA CalcInvInit == MCInit => CalcInv
<1> SUFFICES ASSUME MCInit PROVE CalcInv
  OBVIOUS
<1>1. /\ formula \in [Chain -> SUBSET (Measuring \cup Chain)] /\ \A c \in Chain : \A v \in formula[c] : v < c
      /\ connected = Chain /\ ages = [m \in Measuring \cup Chain |-> Stale + 1] /\ valid = {}
      /\ basis = [c \in Measuring \cup Chain |-> 0] /\ edits = 0
  BY DEF MCInit, Calc!Init, Calc!All, Calc!Gone, Calc!Formulas
<1> QED  BY <1>1, PartsAssumption DEF CalcInv

\* A reading is made of what its formula's meters show: one that measures, or one that is a link less.
LEMMA UsedReadings ==
  ASSUME CalcInv, NEW c \in Chain, NEW v \in formula[c], v \in valid, ages[v] <= Stale
  PROVE  /\ ages[v] + basis[v] \in Nat /\ ages[v] + basis[v] <= Links(c) * Stale
         /\ connected = Chain /\ edits = 0 => ages[v] + basis[v] <= Stale + Links(c) - 1
<1>1. v \in Measuring \cup Chain /\ v < c /\ ages[v] \in Nat /\ basis[v] \in Nat /\ Stale \in Nat
  BY PartsAssumption DEF CalcInv
<1>2. Links(c) \in Nat \ {0} /\ c \in Nat
  BY LinksCount
<1>3. CASE v \in Measuring
  <2>1. basis[v] = 0
    BY <1>3 DEF CalcInv
  <2>2. Stale <= Links(c) * Stale
    <3> DEFINE n == Links(c)
    <3>1. 0 \in Nat /\ 0 < n /\ n \in Nat
      BY <1>2
    <3> HIDE DEF n
    <3>2. 0 * Stale + Stale <= n * Stale
      BY <1>1, <3>1, OneLinkMore
    <3> QED  BY <1>1, <3>2 DEF n
  <2>3. Links(c) * Stale \in Nat
    BY <1>1, <1>2
  <2> QED  BY <1>1, <1>2, <2>1, <2>2, <2>3
<1>4. CASE v \in Chain
  <2> DEFINE k == Links(v)
             n == Links(c)
  <2>1. k \in Nat \ {0} /\ n \in Nat \ {0} /\ k < n
    <3>1. Links(v) \in Nat /\ v \in Nat
      BY <1>4, LinksCount
    <3>2. Links(v) = v - Cardinality(Measuring) /\ Links(c) = c - Cardinality(Measuring)
      BY DEF Links
    <3>3. Cardinality(Measuring) \in Int
      BY PartsAssumption, FS_CardinalityType
    <3> QED  BY <1>1, <1>2, <1>4, <3>1, <3>2, <3>3, LinksCount
  <2>2. basis[v] <= k * Stale
    BY <1>4 DEF CalcInv
  <2>3. connected = Chain /\ edits = 0 => basis[v] <= Stale + k - 1 /\ ages[v] <= 1
    BY <1>4 DEF CalcInv
  <2> HIDE DEF k, n
  <2>4. k * Stale + Stale <= n * Stale /\ k * Stale \in Nat /\ n * Stale \in Nat
    BY <1>1, <2>1, OneLinkMore
  <2>5. ages[v] + basis[v] <= n * Stale
    BY <1>1, <2>2, <2>4
  <2>6. connected = Chain /\ edits = 0 => ages[v] + basis[v] <= Stale + n - 1
    BY <1>1, <2>1, <2>3
  <2> QED  BY <1>1, <2>5, <2>6 DEF n
<1> QED  BY <1>1, <1>3, <1>4

LEMMA CalcInvNext == CalcInv /\ [MCNext]_<<vars, partVars>> => CalcInv'
<1> SUFFICES ASSUME CalcInv, [MCNext]_<<vars, partVars>> PROVE CalcInv'
  OBVIOUS
<1> DEFINE Meters == Measuring \cup Chain
<1>0. /\ connected \subseteq Chain /\ edits \in Nat /\ valid \subseteq Meters
      /\ ages \in [Meters -> Nat] /\ basis \in [Meters -> Nat] /\ Stale \in Nat
  BY PartsAssumption DEF CalcInv
<1>1. CASE UNCHANGED calcVars
  BY <1>1 DEF calcVars, CalcInv
<1>2. ASSUME NEW m \in Measuring, Calc!Measure(m)
      PROVE  CalcInv'
  <2>1. /\ ages' = [ages EXCEPT ![m] = 0] /\ valid' \in {valid \cup {m}, valid \ {m}}
        /\ UNCHANGED <<formula, connected, basis, due, edits>>
    BY <1>2 DEF Calc!Measure
  <2>2. \A c \in Chain : c # m
    BY LinksCount
  <2>3. \A c \in Chain : ages'[c] = ages[c] /\ (c \in valid' <=> c \in valid)
    BY <1>0, <2>1, <2>2
  <2>4. ages' \in [Meters -> Nat] /\ valid' \subseteq Meters
    BY <1>0, <2>1
  <2> QED  BY <2>1, <2>3, <2>4 DEF CalcInv
<1>3. ASSUME NEW c \in Chain, Calc!Tick(c)
      PROVE  CalcInv'
  <2>1. /\ due' = due \ {c} /\ ages' = [ages EXCEPT ![c] = 0] /\ UNCHANGED <<formula, connected, edits>>
    BY <1>3 DEF Calc!Tick
  <2>2. PICK b \in Nat : /\ basis' = [basis EXCEPT ![c] = b]
                         /\ valid' \in {valid \cup {c}, valid \ {c}}
                         /\ c \in valid' => /\ b <= Links(c) * Stale
                                            /\ connected = Chain /\ edits = 0 => b <= Stale + Links(c) - 1
    <3>1. CASE valid' = valid \ {c} /\ basis' = [basis EXCEPT ![c] = 0]
      <4>1. c \notin valid' /\ 0 \in Nat
        BY <3>1
      <4> QED  BY <3>1, <4>1
    <3>2. CASE /\ Calc!HasResult(c) /\ valid' = valid \cup {c}
               /\ \E oldest \in {0} \cup {ages[v] + basis[v] : v \in formula[c]} : basis' = [basis EXCEPT ![c] = oldest]
      <4>1. PICK b \in {0} \cup {ages[v] + basis[v] : v \in formula[c]} : basis' = [basis EXCEPT ![c] = b]
        BY <3>2
      <4>2. \A v \in formula[c] : v \in valid /\ ages[v] <= Stale
        BY <3>2 DEF Calc!HasResult
      <4>3. Links(c) \in Nat \ {0} /\ Links(c) * Stale \in Nat
        <5>1. Links(c) \in Nat \ {0}
          BY LinksCount
        <5> QED  BY <1>0, <5>1
      <4>4. /\ b \in Nat /\ b <= Links(c) * Stale
            /\ connected = Chain /\ edits = 0 => b <= Stale + Links(c) - 1
        <5>1. CASE b = 0
          BY <1>0, <4>3, <5>1
        <5>2. CASE b # 0
          <6>1. PICK v \in formula[c] : b = ages[v] + basis[v]
            BY <5>2
          <6> QED  BY <4>2, <6>1, UsedReadings
        <5> QED  BY <5>1, <5>2
      <4> QED  BY <3>2, <4>1, <4>4
    <3> QED  BY <1>3, <3>1, <3>2 DEF Calc!Tick
  <2>3. c \in Meters /\ c \notin Measuring
    BY LinksCount
  <2>4. /\ ages' \in [Meters -> Nat] /\ basis' \in [Meters -> Nat] /\ valid' \subseteq Meters
        /\ ages'[c] = 0 /\ basis'[c] = b
        /\ \A o \in Meters \ {c} : ages'[o] = ages[o] /\ basis'[o] = basis[o] /\ (o \in valid' <=> o \in valid)
                                   /\ (o \in due' <=> o \in due)
    BY <1>0, <2>1, <2>2, <2>3
  <2>5. \A m \in Measuring : basis'[m] = 0
    BY <2>3, <2>4 DEF CalcInv
  <2>6. \A o \in Chain \cap valid' : basis'[o] <= Links(o) * Stale
    <3> TAKE o \in Chain \cap valid'
    <3>1. CASE o = c
      BY <2>2, <2>4, <3>1
    <3>2. CASE o # c
      BY <2>4, <3>2 DEF CalcInv
    <3> QED  BY <3>1, <3>2
  <2>7. ASSUME connected = Chain, edits = 0, NEW o \in Chain \cap valid'
        PROVE  basis'[o] <= Stale + Links(o) - 1 /\ ages'[o] <= 1 /\ (o \notin due' => ages'[o] = 0)
    <3>1. CASE o = c
      BY <2>2, <2>4, <2>7, <3>1
    <3>2. CASE o # c
      BY <2>4, <2>7, <3>2 DEF CalcInv
    <3> QED  BY <3>1, <3>2
  <2>8. UNCHANGED <<formula, connected, edits>>
    BY <2>1
  <2> QED  BY <2>4, <2>5, <2>6, <2>7, <2>8 DEF CalcInv
<1>4. ASSUME NEW c \in Chain, NEW f \in Calc!Formulas(c), Calc!Edit(c, f)
      PROVE  CalcInv'
  <2>1. /\ edits' = edits + 1 /\ formula' = [formula EXCEPT ![c] = f] /\ connected' = connected \cup {c}
        /\ UNCHANGED <<ages, valid, basis>>
    BY <1>4 DEF Calc!Edit
  <2>2. f \subseteq Meters /\ \A v \in f : v < c
    BY DEF Calc!Formulas, Calc!All
  <2>3. /\ formula' \in [Chain -> SUBSET Meters] /\ \A o \in Chain : \A v \in formula'[o] : v < o
    BY <2>1, <2>2 DEF CalcInv
  <2>4. edits' \in Nat /\ edits' # 0 /\ connected' \subseteq Chain
    BY <1>0, <2>1
  <2> QED  BY <2>1, <2>3, <2>4 DEF CalcInv
<1>5. ASSUME NEW c \in Chain, Calc!Close(c)
      PROVE  CalcInv'
  <2>1. c \in connected /\ connected' = connected \ {c} /\ UNCHANGED <<formula, ages, valid, basis, edits>>
    BY <1>5 DEF Calc!Close
  <2>2. connected' \subseteq Chain /\ connected' # Chain
    BY <1>0, <2>1
  <2> QED  BY <2>1, <2>2 DEF CalcInv
<1>6. CASE Calc!Wait
  <2>1. /\ due = {} /\ due' = connected /\ UNCHANGED <<formula, connected, valid, basis, edits>>
        /\ ages' = [m \in Meters |-> IF ages[m] = Stale + 1 THEN Stale + 1 ELSE ages[m] + 1]
    BY <1>6 DEF Calc!Wait, Calc!Gone, Calc!All
  <2>2. ages' \in [Meters -> Nat]
    BY <1>0, <2>1
  <2>3. ASSUME connected = Chain, edits = 0, NEW c \in Chain \cap valid
        PROVE  basis[c] <= Stale + Links(c) - 1 /\ ages'[c] <= 1 /\ c \in due'
    <3>1. basis[c] <= Stale + Links(c) - 1 /\ ages[c] = 0
      BY <2>1, <2>3 DEF CalcInv
    <3>2. ages'[c] = 1
      BY <1>0, <2>1, <3>1
    <3> QED  BY <2>1, <2>3, <3>1, <3>2
  <2> QED  BY <2>1, <2>2, <2>3 DEF CalcInv
<1> QED  BY <1>1, <1>2, <1>3, <1>4, <1>5, <1>6 DEF MCNext, partVars, Calc!Next

\* CalcDevice::currentLine, in every chain of calculated meters: each adds its three seconds at most to what its readings
\* are made of, and only a tick's wait while none of them is closed or edited.
THEOREM CalculatedIsRecent == Spec0 => []ResultsAreRecent
<1>1. CalcInv => ResultsAreRecent
  BY DEF CalcInv, ResultsAreRecent, Calc!ResultsAreRecent, Calc!Cardinality, Links, Cardinality
<1> QED  BY <1>1, CalcInvInit, CalcInvNext, PTL DEF Spec0

-----------------------------------------------------------------------------
(* A network port: telnet's filter over any bytes, in whatever pieces. *)

\* Counting up, for a set: what holds at none and goes on from each to the next holds up to the end.
LEMMA CountsUp ==
  ASSUME NEW n \in Nat, NEW S, 0 \in S, \A k \in 0..n : k < n /\ k \in S => k + 1 \in S
  PROVE  \A k \in 0..n : k \in S
<1> DEFINE T == {k \in 0..n : k \notin S}
<1>1. SUFFICES ASSUME T # {} PROVE FALSE
  OBVIOUS
<1>2. T \subseteq Nat
  OBVIOUS
<1>3. PICK m \in T : \A y \in T : ~(y < m)
  <2> HIDE DEF T
  <2>1. PICK m \in T : \A y \in T : <<y, m>> \notin OpToRel(<, Nat)
    BY <1>1, <1>2, NatLessThanWellFounded, WFMin, Zenon
  <2>2. \A y \in T : ~(y < m)
    BY <2>1, <1>2, Zenon DEF OpToRel
  <2> QED  BY <2>2
<1>4. m \in 0..n /\ m \notin S
  OBVIOUS
<1>5. m # 0
  BY <1>4
<1>6. m - 1 \in 0..n /\ m - 1 < n /\ m - 1 < m /\ m - 1 + 1 = m
  BY <1>4, <1>5
<1>7. m - 1 \in S
  BY <1>3, <1>6
<1> QED  BY <1>4, <1>6, <1>7

TelnetStates == {"Data", "Iac", "Option", "Sub", "SubIac"}

\* What the port keeps between two bytes.
Carried == Network!Bytes \cup {"a"}
Filters == [state : TelnetStates, rx : Seq(Carried)]

LEMMA StepTyped ==
  ASSUME NEW f \in Filters, NEW b \in Carried
  PROVE  /\ Network!TelnetStep(f, b) \in Filters
         /\ Network!TelnetStep(f, b).rx \in {f.rx, Append(f.rx, b)}
<1>1. f.rx \in Seq(Carried) /\ Append(f.rx, b) \in Seq(Carried)
  BY AppendProperties DEF Filters, Carried
<1>2. f.state \in TelnetStates
  BY DEF Filters
<1>3. CASE f.state = "Data"
  BY <1>1, <1>3 DEF Filters, Network!TelnetStep, TelnetStates, Carried
<1>4. CASE f.state = "Iac"
  BY <1>1, <1>4 DEF Filters, Network!TelnetStep, TelnetStates, Carried
<1>5. CASE f.state = "Option"
  BY <1>1, <1>5 DEF Filters, Network!TelnetStep, TelnetStates, Carried
<1>6. CASE f.state \in {"Sub", "SubIac"}
  BY <1>1, <1>6 DEF Filters, Network!TelnetStep, TelnetStates, Carried
<1> QED  BY <1>2, <1>3, <1>4, <1>5, <1>6 DEF TelnetStates

\* The run of the filter over some bytes.
Run(g, f, raw) == g = [n \in 0..Len(raw) |-> IF n = 0 THEN f ELSE Network!TelnetStep(g[n - 1], raw[n])]

LEMMA RunExists ==
  ASSUME NEW f, NEW raw, Len(raw) \in Nat
  PROVE  \E g : Run(g, f, raw)
<1> DEFINE N == Len(raw)
           Upto(g, n) == g = [k \in 0..n |-> IF k = 0 THEN f ELSE Network!TelnetStep(g[k - 1], raw[k])]
           S == {n \in 0..N : \E g : Upto(g, n)}
<1>1. 0 \in S
  <2> DEFINE g == [k \in 0..0 |-> f]
  <2>1. [k \in 0..0 |-> IF k = 0 THEN f ELSE Network!TelnetStep(g[k - 1], raw[k])] = g
    <3>1. \A k \in 0..0 : k = 0
      OBVIOUS
    <3> QED  BY <3>1
  <2>2. \E h : Upto(h, 0)
    BY <2>1
  <2> QED  BY <2>2
<1>2. ASSUME NEW n \in 0..N, n < N, n \in S PROVE n + 1 \in S
  <2>1. PICK g : Upto(g, n)
    BY <1>2
  <2> DEFINE h == [k \in 0..(n + 1) |-> IF k = n + 1 THEN Network!TelnetStep(g[n], raw[n + 1]) ELSE g[k]]
  <2>2. \A k \in 0..(n + 1) : h[k] = IF k = 0 THEN f ELSE Network!TelnetStep(h[k - 1], raw[k])
    <3> SUFFICES ASSUME NEW k \in 0..(n + 1) PROVE h[k] = IF k = 0 THEN f ELSE Network!TelnetStep(h[k - 1], raw[k])
      OBVIOUS
    <3>1. CASE k = n + 1
      <4>1. h[k - 1] = g[n] /\ k # 0
        BY <3>1
      <4> QED  BY <3>1, <4>1
    <3>2. CASE k # n + 1
      <4>1. k \in 0..n /\ (k # 0 => h[k - 1] = g[k - 1]) /\ h[k] = g[k]
        BY <3>2
      <4>2. g[k] = IF k = 0 THEN f ELSE Network!TelnetStep(g[k - 1], raw[k])
        BY <2>1, <4>1
      <4> QED  BY <4>1, <4>2
    <3> QED  BY <3>1, <3>2
  <2>3. Upto(h, n + 1)
    BY <2>2
  <2>4. n + 1 \in 0..N
    BY <1>2
  <2> HIDE DEF h
  <2>5. \E e : Upto(e, n + 1)
    <3> HIDE DEF Upto
    <3> QED  BY <2>3
  <2> HIDE DEF Upto
  <2> QED  BY <2>4, <2>5
<1>3. \A k \in 0..N : k \in S
  <2> HIDE DEF S
  <2> QED  BY <1>1, <1>2, CountsUp
<1>4. \E g : Upto(g, N)
  BY <1>3
<1> QED  BY <1>4 DEF Run

\* The filter's result is the end of any of its runs.
LEMMA RunEnds ==
  ASSUME NEW f, NEW raw, Len(raw) \in Nat, NEW g, Run(g, f, raw)
  PROVE  g[Len(raw)] = Network!Filtered(f, raw)
<1> DEFINE N == Len(raw)
           F == CHOOSE h : h = [n \in 0..Len(raw) |-> IF n = 0 THEN f ELSE Network!TelnetStep(h[n - 1], raw[n])]
           S == {n \in 0..N : F[n] = g[n]}
<1>1. Run(F, f, raw)
  BY RunExists DEF Run
<1>2. Network!Filtered(f, raw) = F[N]
  BY DEF Network!Filtered
<1> HIDE DEF F
<1>3. 0 \in S
  BY <1>1 DEF Run
<1>4. ASSUME NEW n \in 0..N, n < N, n \in S PROVE n + 1 \in S
  <2>1. F[n + 1] = Network!TelnetStep(F[n], raw[n + 1]) /\ g[n + 1] = Network!TelnetStep(g[n], raw[n + 1])
    <3>1. n + 1 \in 0..N /\ n + 1 # 0 /\ n + 1 - 1 = n
      BY <1>4
    <3> QED  BY <1>1, <3>1 DEF Run
  <2> QED  BY <1>4, <2>1
<1>5. \A k \in 0..N : k \in S
  <2> HIDE DEF S
  <2> QED  BY <1>3, <1>4, CountsUp
<1>6. F[N] = g[N]
  BY <1>5
<1> QED  BY <1>2, <1>6
\* The run of the filter, and that its end is the filter's result.
LEMMA RunOf ==
  ASSUME NEW f, NEW raw, Len(raw) \in Nat
  PROVE  \E g : Run(g, f, raw) /\ g[Len(raw)] = Network!Filtered(f, raw)
<1>1. PICK g : Run(g, f, raw)
  BY RunExists
<1> QED  BY <1>1, RunEnds

\* No bytes, no change; and bytes that come in two pieces are filtered as if they came in one.
LEMMA FilteredEmpty ==
  ASSUME NEW f
  PROVE  Network!Filtered(f, <<>>) = f
<1>1. Len(<<>>) = 0
  OBVIOUS
<1>2. PICK g : Run(g, f, <<>>) /\ g[Len(<<>>)] = Network!Filtered(f, <<>>)
  BY <1>1, RunOf
<1>3. g[0] = f
  BY <1>1, <1>2 DEF Run
<1> QED  BY <1>1, <1>2, <1>3

LEMMA FilteredOne ==
  ASSUME NEW f, NEW b \in Carried
  PROVE  Network!Filtered(f, <<b>>) = Network!TelnetStep(f, b)
<1>1. Len(<<b>>) = 1 /\ <<b>>[1] = b
  OBVIOUS
<1>2. PICK g : Run(g, f, <<b>>) /\ g[Len(<<b>>)] = Network!Filtered(f, <<b>>)
  BY <1>1, RunOf
<1>3. g = [n \in 0..1 |-> IF n = 0 THEN f ELSE Network!TelnetStep(g[n - 1], <<b>>[n])]
  BY <1>1, <1>2 DEF Run
<1>4. g[0] = f
  BY <1>3
<1>5. g[1] = Network!TelnetStep(g[0], b)
  BY <1>1, <1>3
<1> QED  BY <1>1, <1>2, <1>4, <1>5

LEMMA FilteredConcat ==
  ASSUME NEW f, NEW p \in Seq(Carried), NEW q \in Seq(Carried)
  PROVE  Network!Filtered(f, p \o q) = Network!Filtered(Network!Filtered(f, p), q)
<1> DEFINE m == Len(p)
           n == Len(q)
           r == p \o q
           mid == Network!Filtered(f, p)
<1>1. m \in Nat /\ n \in Nat
  BY LenProperties
<1>2. /\ Len(r) = m + n
      /\ \A k \in 1..m : r[k] = p[k]
      /\ \A k \in 1..n : r[m + k] = q[k]
  <2>1. Len(r) = m + n /\ \A k \in 1..(m + n) : r[k] = IF k <= m THEN p[k] ELSE q[k - m]
    BY ConcatProperties
  <2> HIDE DEF m, n, r
  <2>2. ASSUME NEW k \in 1..n PROVE r[m + k] = q[k]
    <3> DEFINE j == m + k
    <3>1. j \in 1..(m + n) /\ ~(j <= m) /\ j - m = k
      BY <1>1
    <3> HIDE DEF j
    <3>2. r[j] = q[k]
      BY <2>1, <3>1
    <3> QED  BY <3>2 DEF j
  <2> QED  BY <1>1, <2>1, <2>2
<1>3. PICK g : Run(g, f, p) /\ g[m] = mid
  BY <1>1, RunOf
<1>4. PICK h : Run(h, mid, q) /\ h[n] = Network!Filtered(mid, q)
  BY <1>1, RunOf
<1> DEFINE k == [i \in 0..(m + n) |-> IF i <= m THEN g[i] ELSE h[i - m]]
<1> HIDE DEF m, n, r, mid
<1>5. g[0] = f /\ \A i \in 1..m : g[i] = Network!TelnetStep(g[i - 1], p[i])
  <2>1. g = [i \in 0..m |-> IF i = 0 THEN f ELSE Network!TelnetStep(g[i - 1], p[i])]
    BY <1>3 DEF Run, m
  <2> QED  BY <1>1, <2>1
<1>6. h[0] = mid /\ \A i \in 1..n : h[i] = Network!TelnetStep(h[i - 1], q[i])
  <2>1. h = [i \in 0..n |-> IF i = 0 THEN mid ELSE Network!TelnetStep(h[i - 1], q[i])]
    BY <1>4 DEF Run, n
  <2> QED  BY <1>1, <2>1
<1>7. \A i \in 0..(m + n) : k[i] = IF i = 0 THEN f ELSE Network!TelnetStep(k[i - 1], r[i])
  <2> SUFFICES ASSUME NEW i \in 0..(m + n) PROVE k[i] = IF i = 0 THEN f ELSE Network!TelnetStep(k[i - 1], r[i])
    OBVIOUS
  <2>1. CASE i = 0
    <3>1. i <= m
      BY <1>1, <2>1
    <3> QED  BY <1>5, <2>1, <3>1
  <2>2. CASE i # 0 /\ i <= m
    <3>1. i \in 1..m /\ i - 1 \in 0..(m + n) /\ i - 1 <= m
      BY <1>1, <2>2
    <3>2. k[i] = g[i] /\ k[i - 1] = g[i - 1]
      BY <2>2, <3>1
    <3> QED  BY <1>2, <1>5, <2>2, <3>1, <3>2
  <2>3. CASE i = m + 1
    <3>1. 1 \in 1..n /\ ~(i <= m) /\ i - m = 1 /\ i - 1 = m /\ m \in 0..(m + n) /\ m <= m /\ i # 0
      BY <1>1, <2>3
    <3>2. k[i] = h[1] /\ k[i - 1] = mid
      BY <1>3, <3>1
    <3>3. r[i] = q[1] /\ h[1] = Network!TelnetStep(h[0], q[1])
      <4>1. h[1] = Network!TelnetStep(h[1 - 1], q[1])
        BY <1>6, <3>1
      <4>2. r[m + 1] = q[1]
        BY <1>2, <3>1
      <4>3. 1 - 1 = 0
        OBVIOUS
      <4> QED  BY <2>3, <4>1, <4>2, <4>3
    <3> QED  BY <1>6, <3>1, <3>2, <3>3
  <2>4. CASE i > m + 1
    <3> DEFINE j == i - m
    <3>1. j \in 1..n /\ j - 1 \in 1..n /\ i = m + j /\ ~(i <= m) /\ i - 1 \in 0..(m + n) /\ ~(i - 1 <= m)
          /\ i - 1 - m = j - 1 /\ i # 0
      BY <1>1, <2>4
    <3>2. k[i] = h[j] /\ k[i - 1] = h[j - 1]
      BY <3>1
    <3> HIDE DEF j
    <3>3. r[i] = q[j] /\ h[j] = Network!TelnetStep(h[j - 1], q[j])
      BY <1>2, <1>6, <3>1
    <3> QED  BY <3>1, <3>2, <3>3
  <2> QED  BY <1>1, <2>1, <2>2, <2>3, <2>4
<1>8. Run(k, f, r)
  <2>1. k = [i \in 0..(m + n) |-> IF i = 0 THEN f ELSE Network!TelnetStep(k[i - 1], r[i])]
    <3> DEFINE kk == [i \in 0..(m + n) |-> IF i = 0 THEN f ELSE Network!TelnetStep(k[i - 1], r[i])]
    <3>1. \A i \in 0..(m + n) : k[i] = kk[i]
      BY <1>7
    <3>2. k = [i \in 0..(m + n) |-> k[i]] /\ kk = [i \in 0..(m + n) |-> kk[i]]
      OBVIOUS
    <3> HIDE DEF k, kk
    <3>3. [i \in 0..(m + n) |-> k[i]] = [i \in 0..(m + n) |-> kk[i]]
      BY <3>1
    <3>4. k = kk
      BY <3>2, <3>3
    <3> QED  BY <3>4 DEF kk
  <2> QED  BY <1>2, <2>1 DEF Run
<1>9. k[m + n] = h[n]
  <2>1. CASE n = 0
    BY <1>1, <1>3, <1>6, <2>1
  <2>2. CASE n # 0
    <3> DEFINE e == m + n
    <3>1. ~(e <= m) /\ e - m = n /\ e \in 0..e
      BY <1>1, <2>2
    <3>2. k = [i \in 0..e |-> IF i <= m THEN g[i] ELSE h[i - m]]
      OBVIOUS
    <3> HIDE DEF e, k
    <3>3. k[e] = h[n]
      BY <3>1, <3>2
    <3> QED  BY <3>3 DEF e
  <2> QED  BY <2>1, <2>2
<1>10. k[Len(r)] = Network!Filtered(f, r)
  <2>1. Len(r) \in Nat
    BY <1>1, <1>2
  <2> HIDE DEF k
  <2> QED  BY <1>8, <2>1, RunEnds
<1> QED  BY <1>2, <1>4, <1>9, <1>10 DEF r, mid

\* What is filtered stands before what is filtered next.
LEMMA FilteredTyped ==
  ASSUME NEW f \in Filters, NEW raw \in Seq(Carried)
  PROVE  /\ Network!Filtered(f, raw) \in Filters
         /\ Network!IsPrefix(f.rx, Network!Filtered(f, raw).rx)
<1> DEFINE N == Len(raw)
           Kept(x) == x \in Filters /\ Len(f.rx) <= Len(x.rx) /\ \A i \in 1..Len(f.rx) : x.rx[i] = f.rx[i]
<1>1. N \in Nat /\ \A n \in 1..N : raw[n] \in Carried
  BY LenProperties, ElementOfSeq
<1>2. PICK g : Run(g, f, raw) /\ g[N] = Network!Filtered(f, raw)
  BY <1>1, RunOf
<1> DEFINE S == {n \in 0..N : Kept(g[n])}
<1> HIDE DEF N
<1>3. g[0] = f /\ \A n \in 1..N : g[n] = Network!TelnetStep(g[n - 1], raw[n])
  <2>1. g = [n \in 0..N |-> IF n = 0 THEN f ELSE Network!TelnetStep(g[n - 1], raw[n])]
    BY <1>2 DEF Run, N
  <2> QED  BY <1>1, <2>1
<1>4. \A x \in Filters : x.rx \in Seq(Carried) /\ Len(x.rx) \in Nat
  BY LenProperties DEF Filters
<1>5. 0 \in S
  BY <1>1, <1>3, <1>4
<1>6. ASSUME NEW n \in 0..N, n < N, n \in S PROVE n + 1 \in S
  <2>1. Kept(g[n]) /\ n + 1 \in 1..N /\ n + 1 - 1 = n /\ n + 1 \in 0..N
    BY <1>1, <1>6
  <2> DEFINE x == g[n]
             b == raw[n + 1]
             y == Network!TelnetStep(x, b)
  <2>2. g[n + 1] = y /\ b \in Carried
    BY <1>1, <1>3, <2>1
  <2>3. Kept(x)
    BY <2>1
  <2> HIDE DEF x, b
  <2>4. y \in Filters /\ y.rx \in {x.rx, Append(x.rx, b)}
    BY <2>2, <2>3, StepTyped
  <2> HIDE DEF y
  <2>5. x.rx \in Seq(Carried) /\ Len(x.rx) \in Nat /\ Len(f.rx) \in Nat
    BY <1>4, <2>3
  <2>6. Len(x.rx) <= Len(y.rx) /\ \A i \in 1..Len(x.rx) : y.rx[i] = x.rx[i]
    <3>1. Len(Append(x.rx, b)) = Len(x.rx) + 1 /\ \A i \in 1..Len(x.rx) : Append(x.rx, b)[i] = x.rx[i]
      BY <2>2, <2>5, AppendProperties
    <3> QED  BY <2>4, <2>5, <3>1
  <2>7. Kept(y)
    <3>1. Len(y.rx) \in Nat
      BY <1>4, <2>4
    <3>2. \A i \in 1..Len(f.rx) : i \in 1..Len(x.rx)
      BY <2>3, <2>5
    <3>3. Len(f.rx) <= Len(y.rx)
      BY <2>3, <2>5, <2>6, <3>1
    <3> QED  BY <2>3, <2>4, <2>6, <3>2, <3>3
  <2> QED  BY <2>1, <2>2, <2>7
<1>7. \A n \in 0..N : n \in S
  <2> HIDE DEF S
  <2> QED  BY <1>1, <1>5, <1>6, CountsUp
<1>8. Kept(g[N])
  BY <1>1, <1>7
<1> DEFINE z == g[N].rx
<1>9. Network!IsPrefix(f.rx, z)
  <2>1. /\ f.rx \in Seq(Carried) /\ z \in Seq(Carried) /\ Len(f.rx) \in Nat /\ Len(z) \in Nat
        /\ Len(f.rx) <= Len(z) /\ \A i \in 1..Len(f.rx) : z[i] = f.rx[i]
    BY <1>4, <1>8
  <2> HIDE DEF z
  <2> DEFINE l == Len(f.rx)
             u == SubSeq(f.rx, 1, l)
             v == SubSeq(z, 1, l)
  <2>2. l \in Nat /\ 1 \in Int /\ l \in Int /\ \A i \in 1..l : f.rx[i] \in Carried /\ z[i] \in Carried
    BY <2>1, ElementOfSeq
  <2>3. u \in Seq(Carried) /\ Len(u) = (IF 1 <= l THEN l - 1 + 1 ELSE 0) /\ \A i \in 1..(l - 1 + 1) : u[i] = f.rx[1 + i - 1]
    BY <2>2, SubSeqProperties
  <2>4. v \in Seq(Carried) /\ Len(v) = (IF 1 <= l THEN l - 1 + 1 ELSE 0) /\ \A i \in 1..(l - 1 + 1) : v[i] = z[1 + i - 1]
    BY <2>2, SubSeqProperties
  <2> HIDE DEF u, v
  <2>5. l - 1 + 1 = l /\ (~(1 <= l) => l = 0) /\ \A i \in 1..l : 1 + i - 1 = i
    BY <2>2
  <2>6. Len(u) = l /\ Len(v) = l /\ \A i \in 1..l : u[i] = v[i]
    BY <2>1, <2>3, <2>4, <2>5
  <2>7. u = v
    BY <2>3, <2>4, <2>6, SeqEqual
  <2> QED  BY <2>1, <2>7 DEF Network!IsPrefix, u, v
<1> QED  BY <1>2, <1>8, <1>9

\* What appendEscaped() makes of one byte, and of two.
LEMMA FlattenOne ==
  ASSUME NEW x
  PROVE  Network!FlattenSeq(<<x>>) = x
<1> DEFINE seqs == <<x>>
           flatten == CHOOSE f : f = [i \in 1..Len(seqs) |-> IF i = 1 THEN seqs[i] ELSE f[i - 1] \o seqs[i]]
           w == [i \in 1..1 |-> x]
<1>1. Len(seqs) = 1 /\ seqs[1] = x
  OBVIOUS
<1>2. Network!FlattenSeq(seqs) = flatten[Len(seqs)]
  BY <1>1 DEF Network!FlattenSeq
<1> HIDE DEF seqs
<1>3. w = [i \in 1..1 |-> IF i = 1 THEN seqs[i] ELSE w[i - 1] \o seqs[i]]
  BY <1>1
<1>4. flatten = [i \in 1..1 |-> IF i = 1 THEN seqs[i] ELSE flatten[i - 1] \o seqs[i]]
  <2> HIDE DEF w
  <2> QED  BY <1>1, <1>3
<1> HIDE DEF flatten
<1>5. \A i \in 1..1 : flatten[i] = IF i = 1 THEN seqs[i] ELSE flatten[i - 1] \o seqs[i]
  BY <1>4
<1>6. 1 \in 1..1
  OBVIOUS
<1>7. flatten[1] = seqs[1]
  BY <1>5, <1>6
<1> QED  BY <1>1, <1>2, <1>7 DEF seqs

LEMMA FlattenTwo ==
  ASSUME NEW x, NEW y
  PROVE  Network!FlattenSeq(<<x, y>>) = x \o y
<1> DEFINE seqs == <<x, y>>
           flatten == CHOOSE f : f = [i \in 1..Len(seqs) |-> IF i = 1 THEN seqs[i] ELSE f[i - 1] \o seqs[i]]
           both == x \o y
           w == [i \in 1..2 |-> IF i = 1 THEN x ELSE both]
<1>1. Len(seqs) = 2 /\ seqs[1] = x /\ seqs[2] = y
  OBVIOUS
<1>2. Network!FlattenSeq(seqs) = flatten[Len(seqs)]
  BY <1>1 DEF Network!FlattenSeq
<1> HIDE DEF seqs
<1>3. w = [i \in 1..2 |-> IF i = 1 THEN seqs[i] ELSE w[i - 1] \o seqs[i]]
  <2>1. w[1] = x /\ w[2] = both /\ DOMAIN w = 1..2
    OBVIOUS
  <2>2. \A i \in 1..2 : w[i] = IF i = 1 THEN seqs[i] ELSE w[i - 1] \o seqs[i]
    BY <1>1, <2>1
  <2> QED  BY <2>2
<1>4. flatten = [i \in 1..2 |-> IF i = 1 THEN seqs[i] ELSE flatten[i - 1] \o seqs[i]]
  <2> HIDE DEF w
  <2> QED  BY <1>1, <1>3
<1> HIDE DEF flatten
<1>5. \A i \in 1..2 : flatten[i] = IF i = 1 THEN seqs[i] ELSE flatten[i - 1] \o seqs[i]
  BY <1>4
<1>6. 1 \in 1..2 /\ 2 \in 1..2 /\ 2 - 1 = 1 /\ 2 # 1
  OBVIOUS
<1>7. flatten[1] = seqs[1]
  BY <1>5, <1>6
<1>8. flatten[2] = flatten[1] \o seqs[2]
  BY <1>5, <1>6
<1> QED  BY <1>1, <1>2, <1>7, <1>8 DEF seqs

Doubled(b) == IF b = "IAC" THEN <<"IAC", "IAC">> ELSE <<b>>

LEMMA EscapedOne ==
  ASSUME NEW b
  PROVE  Network!Escaped(<<b>>) = Doubled(b)
<1> DEFINE data == <<b>>
<1>1. [i \in DOMAIN data |-> IF data[i] = "IAC" THEN <<"IAC", "IAC">> ELSE <<data[i]>>] = <<Doubled(b)>>
  BY DEF Doubled
<1>2. Network!Escaped(data) = Network!FlattenSeq(<<Doubled(b)>>)
  <2> HIDE DEF data
  <2> QED  BY <1>1 DEF Network!Escaped
<1> QED  BY <1>2, FlattenOne

LEMMA EscapedTwo ==
  ASSUME NEW b, NEW c
  PROVE  Network!Escaped(<<b, c>>) = Doubled(b) \o Doubled(c)
<1> DEFINE data == <<b, c>>
<1>1. [i \in DOMAIN data |-> IF data[i] = "IAC" THEN <<"IAC", "IAC">> ELSE <<data[i]>>] = <<Doubled(b), Doubled(c)>>
  BY DEF Doubled
<1>2. Network!Escaped(data) = Network!FlattenSeq(<<Doubled(b), Doubled(c)>>)
  <2> HIDE DEF data
  <2> QED  BY <1>1 DEF Network!Escaped
<1> QED  BY <1>2, FlattenTwo

\* What the filter makes of two bytes.
LEMMA FilteredTwo ==
  ASSUME NEW f, NEW b \in Carried, NEW c \in Carried
  PROVE  Network!Filtered(f, <<b, c>>) = Network!TelnetStep(Network!TelnetStep(f, b), c)
<1>1. <<b, c>> = <<b>> \o <<c>> /\ <<b>> \in Seq(Carried) /\ <<c>> \in Seq(Carried)
  <2> DEFINE x == <<b>>
             y == <<c>>
             z == <<b, c>>
             u == x \o y
  <2>1. /\ x \in Seq(Carried) /\ y \in Seq(Carried) /\ z \in Seq(Carried)
        /\ Len(x) = 1 /\ Len(y) = 1 /\ Len(z) = 2 /\ x[1] = b /\ y[1] = c /\ z[1] = b /\ z[2] = c
    OBVIOUS
  <2> HIDE DEF x, y, z
  <2>2. u \in Seq(Carried) /\ Len(u) = 1 + 1 /\ \A i \in 1..(1 + 1) : u[i] = IF i <= 1 THEN x[i] ELSE y[i - 1]
    BY <2>1, ConcatProperties
  <2> HIDE DEF u
  <2>3. u[1] = b /\ u[2] = c
    BY <2>1, <2>2
  <2>4. \A i \in 1..Len(z) : z[i] = u[i]
    BY <2>1, <2>3
  <2>5. z = u
    BY <2>1, <2>2, <2>4, SeqEqual
  <2> QED  BY <2>1, <2>5 DEF x, y, z, u
<1>2. Network!Filtered(f, <<b>> \o <<c>>) = Network!Filtered(Network!Filtered(f, <<b>>), <<c>>)
  BY <1>1, FilteredConcat
<1> QED  BY <1>1, <1>2, FilteredOne

\* A byte of the meter goes through, 0xff doubled and all.
LEMMA ByteGoesThrough ==
  ASSUME NEW rest \in Seq(Carried), NEW b \in Letters \cup {"IAC"}
  PROVE  /\ Network!Escaped(<<b>>) \in Seq(Carried)
         /\ Network!Filtered([state |-> "Data", rx |-> rest], Network!Escaped(<<b>>))
              = [state |-> "Data", rx |-> Append(rest, b)]
<1>1. b \in Carried /\ "IAC" \in Carried
  BY DEF Carried, Network!Bytes
<1>2. CASE b = "IAC"
  <2>1. Network!Escaped(<<b>>) = <<"IAC", "IAC">>
    BY <1>2, EscapedOne DEF Doubled
  <2>2. <<"IAC", "IAC">> \in Seq(Carried)
    BY <1>1
  <2>3. Network!TelnetStep([state |-> "Data", rx |-> rest], "IAC") = [state |-> "Iac", rx |-> rest]
    BY DEF Network!TelnetStep
  <2>4. Network!TelnetStep([state |-> "Iac", rx |-> rest], "IAC") = [state |-> "Data", rx |-> Append(rest, "IAC")]
    BY DEF Network!TelnetStep
  <2> QED  BY <1>1, <1>2, <2>1, <2>2, <2>3, <2>4, FilteredTwo
<1>3. CASE b # "IAC"
  <2>1. Network!Escaped(<<b>>) = <<b>>
    BY <1>3, EscapedOne DEF Doubled
  <2>2. <<b>> \in Seq(Carried)
    BY <1>1
  <2>3. Network!TelnetStep([state |-> "Data", rx |-> rest], b) = [state |-> "Data", rx |-> Append(rest, b)]
    BY <1>3 DEF Network!TelnetStep
  <2> QED  BY <1>1, <2>1, <2>2, <2>3, FilteredOne
<1> QED  BY <1>2, <1>3

\* A byte inside of an option does not end it.
LEMMA OptionGoesOn ==
  ASSUME NEW rest, NEW b \in Carried
  PROVE  /\ Doubled(b) \in Seq(Carried)
         /\ Network!Filtered([state |-> "Sub", rx |-> rest], Doubled(b)) = [state |-> "Sub", rx |-> rest]
<1>1. "IAC" \in Carried
  BY DEF Carried, Network!Bytes
<1>2. CASE b = "IAC"
  <2>1. Doubled(b) = <<"IAC", "IAC">>
    BY <1>2 DEF Doubled
  <2>2. <<"IAC", "IAC">> \in Seq(Carried)
    BY <1>1
  <2>3. Network!TelnetStep([state |-> "Sub", rx |-> rest], "IAC") = [state |-> "SubIac", rx |-> rest]
    BY DEF Network!TelnetStep
  <2>4. Network!TelnetStep([state |-> "SubIac", rx |-> rest], "IAC") = [state |-> "Sub", rx |-> rest]
    BY DEF Network!TelnetStep
  <2> QED  BY <1>1, <2>1, <2>2, <2>3, <2>4, FilteredTwo
<1>3. CASE b # "IAC"
  <2>1. Doubled(b) = <<b>>
    BY <1>3 DEF Doubled
  <2>2. <<b>> \in Seq(Carried)
    OBVIOUS
  <2>3. Network!TelnetStep([state |-> "Sub", rx |-> rest], b) = [state |-> "Sub", rx |-> rest]
    BY <1>3 DEF Network!TelnetStep
  <2> QED  BY <2>1, <2>2, <2>3, FilteredOne
<1> QED  BY <1>2, <1>3

\* An option leaves nothing behind, whatever its data is made of.
LEMMA OptionIsDropped ==
  ASSUME NEW rest, NEW data, NEW inner \in Seq(Carried), Network!Escaped(data) = inner,
         Network!Filtered([state |-> "Sub", rx |-> rest], inner) = [state |-> "Sub", rx |-> rest]
  PROVE  /\ Network!PortOption(data) \in Seq(Carried)
         /\ Network!Filtered([state |-> "Data", rx |-> rest], Network!PortOption(data)) = [state |-> "Data", rx |-> rest]
<1> DEFINE first == <<"IAC", "SB">>
           last == <<"IAC", "SE">>
           D == [state |-> "Data", rx |-> rest]
           B == [state |-> "Sub", rx |-> rest]
<1>1. "IAC" \in Carried /\ "SB" \in Carried /\ "SE" \in Carried
  BY DEF Carried, Network!Bytes
<1>2. first \in Seq(Carried) /\ last \in Seq(Carried)
  BY <1>1
<1>3. Network!Filtered(D, first) = B
  <2>1. Network!TelnetStep(D, "IAC") = [state |-> "Iac", rx |-> rest]
    BY DEF Network!TelnetStep
  <2>2. Network!TelnetStep([state |-> "Iac", rx |-> rest], "SB") = B
    BY DEF Network!TelnetStep
  <2> QED  BY <1>1, <2>1, <2>2, FilteredTwo
<1>4. Network!Filtered(B, last) = D
  <2>1. Network!TelnetStep(B, "IAC") = [state |-> "SubIac", rx |-> rest]
    BY DEF Network!TelnetStep
  <2>2. Network!TelnetStep([state |-> "SubIac", rx |-> rest], "SE") = D
    BY DEF Network!TelnetStep
  <2> QED  BY <1>1, <2>1, <2>2, FilteredTwo
<1>5. Network!PortOption(data) = (first \o inner) \o last
  BY DEF Network!PortOption
<1>6. Network!Filtered(B, inner) = B
  OBVIOUS
<1> HIDE DEF first, last, D, B
<1>7. first \o inner \in Seq(Carried) /\ (first \o inner) \o last \in Seq(Carried)
  BY <1>2, ConcatProperties
<1>8. Network!Filtered(D, first \o inner) = B
  BY <1>2, <1>3, <1>6, FilteredConcat
<1>9. Network!Filtered(D, (first \o inner) \o last) = D
  <2> DEFINE begun == first \o inner
  <2>1. begun \in Seq(Carried) /\ Network!Filtered(D, begun) = B
    BY <1>7, <1>8
  <2> HIDE DEF begun
  <2>2. Network!Filtered(D, begun \o last) = Network!Filtered(Network!Filtered(D, begun), last)
    BY <1>2, <2>1, FilteredConcat
  <2>3. Network!Filtered(D, begun \o last) = D
    BY <1>4, <2>1, <2>2
  <2> QED  BY <2>3 DEF begun
<1> QED  BY <1>5, <1>7, <1>9 DEF D

LEMMA OptionOfOne ==
  ASSUME NEW rest, NEW b \in Carried
  PROVE  /\ Network!PortOption(<<b>>) \in Seq(Carried)
         /\ Network!Filtered([state |-> "Data", rx |-> rest], Network!PortOption(<<b>>)) = [state |-> "Data", rx |-> rest]
BY EscapedOne, OptionGoesOn, OptionIsDropped

LEMMA OptionOfTwo ==
  ASSUME NEW rest, NEW b \in Carried, NEW c \in Carried
  PROVE  /\ Network!PortOption(<<b, c>>) \in Seq(Carried)
         /\ Network!Filtered([state |-> "Data", rx |-> rest], Network!PortOption(<<b, c>>)) = [state |-> "Data", rx |-> rest]
<1> DEFINE x == Doubled(b)
           y == Doubled(c)
           B == [state |-> "Sub", rx |-> rest]
<1>1. x \in Seq(Carried) /\ y \in Seq(Carried) /\ Network!Filtered(B, x) = B /\ Network!Filtered(B, y) = B
  BY OptionGoesOn
<1>2. Network!Escaped(<<b, c>>) = x \o y
  BY EscapedTwo
<1> HIDE DEF x, y, B
<1>3. x \o y \in Seq(Carried) /\ Network!Filtered(B, x \o y) = B
  BY <1>1, FilteredConcat, ConcatProperties
<1> QED  BY <1>2, <1>3, OptionIsDropped DEF B

\* Other commands of telnet, of two bytes and of three.
LEMMA CommandIsDropped ==
  ASSUME NEW rest, NEW c \in {<<"IAC", "NOP">>, <<"IAC", "WILL", "SB">>}
  PROVE  /\ c \in Seq(Carried)
         /\ Network!Filtered([state |-> "Data", rx |-> rest], c) = [state |-> "Data", rx |-> rest]
<1> DEFINE D == [state |-> "Data", rx |-> rest]
           I == [state |-> "Iac", rx |-> rest]
           O == [state |-> "Option", rx |-> rest]
<1>1. "IAC" \in Carried /\ "NOP" \in Carried /\ "WILL" \in Carried /\ "SB" \in Carried
  BY DEF Carried, Network!Bytes
<1>2. Network!TelnetStep(D, "IAC") = I
  BY DEF Network!TelnetStep
<1>3. CASE c = <<"IAC", "NOP">>
  <2>1. Network!TelnetStep(I, "NOP") = D
    BY DEF Network!TelnetStep
  <2>2. <<"IAC", "NOP">> \in Seq(Carried)
    BY <1>1
  <2> HIDE DEF D, I, O
  <2>3. Network!Filtered(D, <<"IAC", "NOP">>) = D
    BY <1>1, <1>2, <2>1, FilteredTwo
  <2> QED  BY <1>3, <2>2, <2>3 DEF D
<1>4. CASE c = <<"IAC", "WILL", "SB">>
  <2> DEFINE x == <<"IAC", "WILL">>
             y == <<"SB">>
             u == x \o y
  <2>1. Network!TelnetStep(I, "WILL") = O
    BY DEF Network!TelnetStep
  <2>2. Network!TelnetStep(O, "SB") = D
    BY DEF Network!TelnetStep
  <2> HIDE DEF D, I, O
  <2>3. Network!Filtered(D, x) = O
    BY <1>1, <1>2, <2>1, FilteredTwo
  <2>4. Network!Filtered(O, y) = D
    BY <1>1, <2>2, FilteredOne
  <2>5. /\ x \in Seq(Carried) /\ y \in Seq(Carried) /\ c \in Seq(Carried) /\ Len(x) = 2 /\ Len(y) = 1 /\ Len(c) = 3
        /\ x[1] = "IAC" /\ x[2] = "WILL" /\ y[1] = "SB" /\ c[1] = "IAC" /\ c[2] = "WILL" /\ c[3] = "SB"
    BY <1>1, <1>4
  <2> HIDE DEF x, y
  <2>6. u \in Seq(Carried) /\ Len(u) = 2 + 1 /\ \A i \in 1..(2 + 1) : u[i] = IF i <= 2 THEN x[i] ELSE y[i - 2]
    BY <2>5, ConcatProperties
  <2>7. Network!Filtered(D, u) = D
    BY <2>3, <2>4, <2>5, FilteredConcat
  <2> HIDE DEF u
  <2>8. u[1] = x[1] /\ u[2] = x[2] /\ u[3] = y[1]
    BY <2>6
  <2>9. \A i \in 1..Len(c) : c[i] = u[i]
    BY <2>5, <2>8
  <2>10. c = u
    BY <2>5, <2>6, <2>9, SeqEqual
  <2> QED  BY <2>5, <2>7, <2>10 DEF D
<1> QED  BY <1>3, <1>4

-----------------------------------------------------------------------------
\* What is still on its way is filtered to what the meter sent, from where the port stands in it; and what was written
\* so far is filtered to what the reader of frames wrote.
NetworkInv ==
  /\ wire \in Seq(Carried) /\ rx \in Seq(Carried) /\ sent \in Seq(Carried)
  /\ output \in Seq(Carried) /\ written \in Seq(Carried) /\ telnet \in TelnetStates
  /\ Network!Filtered([state |-> telnet, rx |-> rx], wire) = [state |-> "Data", rx |-> sent]
  /\ Network!Filtered([state |-> "Data", rx |-> <<>>], output) = [state |-> "Data", rx |-> written]

LEMMA NetworkInvEmpty ==
  ASSUME wire = <<>>, rx = <<>>, sent = <<>>, output = <<>>, written = <<>>, telnet = "Data"
  PROVE  NetworkInv
<1>1. <<>> \in Seq(Carried) /\ "Data" \in TelnetStates
  BY DEF TelnetStates
<1> QED  BY <1>1, FilteredEmpty DEF NetworkInv

\* More on its way.
LEMMA MoreOnTheWire ==
  ASSUME NetworkInv, NEW more \in Seq(Carried), NEW said1 \in Seq(Carried),
         Network!Filtered([state |-> "Data", rx |-> sent], more) = [state |-> "Data", rx |-> said1],
         wire' = wire \o more, sent' = said1, UNCHANGED <<telnet, rx, output, written>>
  PROVE  NetworkInv'
<1> DEFINE f == [state |-> telnet, rx |-> rx]
           g == [state |-> "Data", rx |-> sent]
<1>1. wire \in Seq(Carried) /\ Network!Filtered(f, wire) = g
  BY DEF NetworkInv
<1>2. Network!Filtered(g, more) = [state |-> "Data", rx |-> said1]
  OBVIOUS
<1> HIDE DEF f, g
<1>3. wire \o more \in Seq(Carried) /\ Network!Filtered(f, wire \o more) = [state |-> "Data", rx |-> said1]
  BY <1>1, <1>2, FilteredConcat, ConcatProperties
<1>4. wire' \in Seq(Carried) /\ Network!Filtered([state |-> telnet', rx |-> rx'], wire') = [state |-> "Data", rx |-> sent']
  BY <1>3 DEF f
<1> QED  BY <1>4 DEF NetworkInv

\* More to the server.
LEMMA MoreWritten ==
  ASSUME NetworkInv, NEW more \in Seq(Carried), NEW written1 \in Seq(Carried),
         Network!Filtered([state |-> "Data", rx |-> written], more) = [state |-> "Data", rx |-> written1],
         output' = output \o more, written' = written1, UNCHANGED <<telnet, rx, wire, sent>>
  PROVE  NetworkInv'
<1> DEFINE f == [state |-> "Data", rx |-> <<>>]
           g == [state |-> "Data", rx |-> written]
<1>1. output \in Seq(Carried) /\ Network!Filtered(f, output) = g
  BY DEF NetworkInv
<1>2. Network!Filtered(g, more) = [state |-> "Data", rx |-> written1]
  OBVIOUS
<1> HIDE DEF f, g
<1>3. output \o more \in Seq(Carried) /\ Network!Filtered(f, output \o more) = [state |-> "Data", rx |-> written1]
  BY <1>1, <1>2, FilteredConcat, ConcatProperties
<1>4. output' \in Seq(Carried) /\ Network!Filtered([state |-> "Data", rx |-> <<>>], output') = [state |-> "Data", rx |-> written']
  BY <1>3 DEF f
<1> QED  BY <1>4 DEF NetworkInv

\* The bytes come in whatever pieces.
LEMMA PieceIsRead ==
  ASSUME NetworkInv, NEW n \in 1..Len(wire), UNCHANGED <<output, sent, written>>,
         telnet' = Network!Filtered([state |-> telnet, rx |-> rx], SubSeq(wire, 1, n)).state,
         rx' = Network!Filtered([state |-> telnet, rx |-> rx], SubSeq(wire, 1, n)).rx,
         wire' = SubSeq(wire, n + 1, Len(wire))
  PROVE  NetworkInv'
<1> DEFINE f == [state |-> telnet, rx |-> rx]
           p == SubSeq(wire, 1, n)
           q == SubSeq(wire, n + 1, Len(wire))
           g == Network!Filtered(f, p)
<1>1. wire \in Seq(Carried) /\ Len(wire) \in Nat
  BY LenProperties DEF NetworkInv
<1>2. p \in Seq(Carried) /\ q \in Seq(Carried)
  <2>1. \A i \in 1..n : wire[i] \in Carried
    BY <1>1, ElementOfSeq
  <2>2. \A i \in (n + 1)..Len(wire) : wire[i] \in Carried
    BY <1>1, ElementOfSeq
  <2>3. 1 \in Int /\ n \in Int /\ n + 1 \in Int /\ Len(wire) \in Int
    BY <1>1
  <2> QED  BY <2>1, <2>2, <2>3, SubSeqProperties
<1>3. p \o q = wire
  <2>1. 1 \in 1..(Len(wire) + 1) /\ n \in (1 - 1)..Len(wire) /\ Len(wire) \in n..Len(wire)
    BY <1>1
  <2>2. p \o q = SubSeq(wire, 1, Len(wire))
    BY <1>1, <2>1, ConcatAdjacentSubSeq
  <2> QED  BY <1>1, <2>2, SubSeqFull
<1>4. f \in Filters
  BY DEF NetworkInv, Filters
<1>5. Network!Filtered(f, wire) = [state |-> "Data", rx |-> sent]
  BY DEF NetworkInv
<1>6. telnet' = g.state /\ rx' = g.rx /\ wire' = q
  OBVIOUS
<1> HIDE DEF f, p, q
<1>7. g \in Filters
  BY <1>2, <1>4, FilteredTyped
<1>8. Network!Filtered(g, q) = [state |-> "Data", rx |-> sent]
  BY <1>2, <1>3, <1>5, FilteredConcat
<1> HIDE DEF g
<1>9. g = [state |-> g.state, rx |-> g.rx] /\ g.state \in TelnetStates /\ g.rx \in Seq(Carried)
  BY <1>7 DEF Filters
<1>10. Network!Filtered([state |-> telnet', rx |-> rx'], wire') = [state |-> "Data", rx |-> sent']
  BY <1>6, <1>8, <1>9
<1> QED  BY <1>2, <1>6, <1>9, <1>10 DEF NetworkInv

LEMMA NetworkStep ==
  ASSUME NetworkInv, Network!Next
  PROVE  NetworkInv'
<1>1. CASE Network!Open
  <2>1. wire' = <<>> /\ rx' = <<>> /\ sent' = <<>> /\ output' = <<>> /\ written' = <<>> /\ telnet' = "Data"
    BY <1>1 DEF Network!Open
  <2>2. <<>> \in Seq(Carried) /\ "Data" \in TelnetStates
    BY DEF TelnetStates
  <2>3. Network!Filtered([state |-> "Data", rx |-> <<>>], <<>>) = [state |-> "Data", rx |-> <<>>]
    BY FilteredEmpty
  <2> QED  BY <2>1, <2>2, <2>3 DEF NetworkInv
<1>2. CASE Network!Close \/ Network!Lost
  BY <1>2 DEF Network!Close, Network!Lost, Network!stream, NetworkInv
<1>3. CASE Network!OnConnected
  <2> DEFINE more == Network!PortOption(<<"a", "IAC">>)
  <2>1. output' = output \o more /\ written' = written /\ UNCHANGED <<telnet, rx, wire, sent>>
    BY <1>3 DEF Network!OnConnected
  <2>2. more \in Seq(Carried) /\ Network!Filtered([state |-> "Data", rx |-> written], more) = [state |-> "Data", rx |-> written]
    <3>1. "a" \in Carried /\ "IAC" \in Carried
      BY DEF Carried, Network!Bytes
    <3> QED  BY <3>1, OptionOfTwo
  <2>3. written \in Seq(Carried)
    BY DEF NetworkInv
  <2> HIDE DEF more
  <2> QED  BY <2>1, <2>2, <2>3, MoreWritten
<1>4. CASE Network!Serve
  <2>1. UNCHANGED <<telnet, rx, output, written>> /\ sent \in Seq(Carried)
    BY <1>4 DEF Network!Serve, NetworkInv
  <2>2. ASSUME NEW b \in Letters \cup {"IAC"}, wire' = wire \o Network!Escaped(<<b>>), sent' = Append(sent, b) PROVE NetworkInv'
    <3> DEFINE more == Network!Escaped(<<b>>)
               new == Append(sent, b)
    <3>1. more \in Seq(Carried) /\ Network!Filtered([state |-> "Data", rx |-> sent], more) = [state |-> "Data", rx |-> new]
      BY <2>1, ByteGoesThrough
    <3>2. new \in Seq(Carried)
      BY <2>1, AppendProperties DEF Carried, Network!Bytes
    <3>3. wire' = wire \o more /\ sent' = new
      BY <2>2
    <3> HIDE DEF more, new
    <3> QED  BY <2>1, <3>1, <3>2, <3>3, MoreOnTheWire
  <2>3. ASSUME NEW data \in {<<"SE">>, <<"IAC", "a">>}, wire' = wire \o Network!PortOption(data), UNCHANGED sent PROVE NetworkInv'
    <3> DEFINE more == Network!PortOption(data)
    <3>1. more \in Seq(Carried) /\ Network!Filtered([state |-> "Data", rx |-> sent], more) = [state |-> "Data", rx |-> sent]
      <4>1. "a" \in Carried /\ "IAC" \in Carried /\ "SE" \in Carried
        BY DEF Carried, Network!Bytes
      <4>2. CASE data = <<"SE">>
        BY <4>1, <4>2, OptionOfOne
      <4>3. CASE data = <<"IAC", "a">>
        BY <4>1, <4>3, OptionOfTwo
      <4> QED  BY <4>2, <4>3
    <3>2. wire' = wire \o more /\ sent' = sent
      BY <2>3
    <3> HIDE DEF more
    <3> QED  BY <2>1, <3>1, <3>2, MoreOnTheWire
  <2>4. ASSUME NEW c \in {<<"IAC", "NOP">>, <<"IAC", "WILL", "SB">>}, wire' = wire \o c, UNCHANGED sent PROVE NetworkInv'
    <3>1. c \in Seq(Carried) /\ Network!Filtered([state |-> "Data", rx |-> sent], c) = [state |-> "Data", rx |-> sent]
      BY CommandIsDropped
    <3>2. wire' = wire \o c /\ sent' = sent
      BY <2>4
    <3> QED  BY <2>1, <3>1, <3>2, MoreOnTheWire
  <2> QED  BY <1>4, <2>2, <2>3, <2>4 DEF Network!Serve
<1>5. CASE Network!OnReadyRead
  <2>1. PICK n \in 1..Len(wire) :
          /\ telnet' = Network!Filtered([state |-> telnet, rx |-> rx], SubSeq(wire, 1, n)).state
          /\ rx' = Network!Filtered([state |-> telnet, rx |-> rx], SubSeq(wire, 1, n)).rx
          /\ wire' = SubSeq(wire, n + 1, Len(wire))
    BY <1>5 DEF Network!OnReadyRead
  <2>2. UNCHANGED <<output, sent, written>>
    BY <1>5 DEF Network!OnReadyRead
  <2> QED  BY <2>1, <2>2, PieceIsRead
<1>6. CASE Network!WriteData
  <2>1. PICK b \in Letters \cup {"IAC"} : written' = Append(written, b) /\ output' = output \o Network!Escaped(<<b>>)
    BY <1>6 DEF Network!WriteData
  <2>2. UNCHANGED <<telnet, rx, wire, sent>> /\ written \in Seq(Carried)
    BY <1>6 DEF Network!WriteData, NetworkInv
  <2> DEFINE more == Network!Escaped(<<b>>)
             new == Append(written, b)
  <2>3. more \in Seq(Carried) /\ Network!Filtered([state |-> "Data", rx |-> written], more) = [state |-> "Data", rx |-> new]
    BY <2>2, ByteGoesThrough
  <2>4. new \in Seq(Carried)
    BY <2>2, AppendProperties DEF Carried, Network!Bytes
  <2>5. output' = output \o more /\ written' = new
    BY <2>1
  <2> HIDE DEF more, new
  <2> QED  BY <2>2, <2>3, <2>4, <2>5, MoreWritten
<1> QED  BY <1>1, <1>2, <1>3, <1>4, <1>5, <1>6 DEF Network!Next

LEMMA NetworkInvClean == NetworkInv => StreamsAreClean
<1> SUFFICES ASSUME NetworkInv PROVE StreamsAreClean
  OBVIOUS
<1> DEFINE f == [state |-> telnet, rx |-> rx]
<1>1. f \in Filters /\ f.rx = rx /\ f.state = telnet
  BY DEF NetworkInv, Filters
<1>2. wire \in Seq(Carried) /\ Network!Filtered(f, wire) = [state |-> "Data", rx |-> sent]
  BY DEF NetworkInv
<1> HIDE DEF f
<1>3. Network!IsPrefix(rx, sent)
  <2>1. Network!IsPrefix(f.rx, Network!Filtered(f, wire).rx)
    BY <1>1, <1>2, FilteredTyped
  <2> QED  BY <1>1, <1>2, <2>1
<1>4. ASSUME wire = <<>> PROVE rx = sent /\ telnet = "Data"
  <2>1. f = [state |-> "Data", rx |-> sent]
    BY <1>2, <1>4, FilteredEmpty
  <2> QED  BY <1>1, <2>1
<1>5. Network!Filtered([state |-> "Data", rx |-> <<>>], output) = [state |-> "Data", rx |-> written]
  BY DEF NetworkInv
<1> QED  BY <1>3, <1>4, <1>5 DEF StreamsAreClean, Network!StreamsAreClean

\* RFC2217SerialDevice: the reader of frames gets the meter's bytes and nothing else, the server what was written and
\* nothing else: for every number of bytes, options and commands, in whatever pieces they come (filterTelnet,
\* appendEscaped, sendPortOption).
THEOREM StreamsStayClean == Spec0 => []StreamsAreClean
<1>1. MCInit => NetworkInv
  BY NetworkInvEmpty DEF MCInit, Network!Init
<1>2. NetworkInv /\ [MCNext]_<<vars, partVars>> => NetworkInv'
  <2> SUFFICES ASSUME NetworkInv, [MCNext]_<<vars, partVars>> PROVE NetworkInv'
    OBVIOUS
  <2>1. CASE Network!Next
    BY <2>1, NetworkStep
  <2>2. CASE UNCHANGED networkVars
    BY <2>2 DEF networkVars, NetworkInv
  <2> QED  BY <2>1, <2>2 DEF MCNext, partVars
<1>3. NetworkInv => StreamsAreClean
  BY NetworkInvClean
<1> QED  BY <1>1, <1>2, <1>3, PTL DEF Spec0
=============================================================================
