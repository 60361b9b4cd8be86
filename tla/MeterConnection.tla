--------------------------- MODULE MeterConnection ---------------------------
(***************************************************************************)
(* The connection to one meter: device/meterconnection.cpp with the port   *)
(* it owns (device/transport.cpp) and the handle of its frame reader       *)
(* (device/framereader.cpp).  The user opens and closes it; a port that is *)
(* lost is reopened while the connection is wanted; a watchdog turns       *)
(* silence into Timeout.                                                   *)
(*                                                                         *)
(* A port is an identity: the device objects that the transport creates    *)
(* and deletes.  0 stands for the null pointer.  One unit of time is one   *)
(* second, the period of the connection's timer.                           *)
(***************************************************************************)
EXTENDS Integers, FiniteSets

CONSTANTS
  Ports,             \* identities of port objects, reused once deleted
  Configs,           \* what the settings may say: [ext : externalSetup, gatt : a Bluetooth GATT link]
  TimeoutSeconds,    \* m_timeoutMs: silence longer than this is a Timeout
  ReconnectSeconds,  \* m_reconnectSeconds, 0 disables
  Reopens            \* whether open() may be called on a connection that is wanted already

ASSUME ConnectionAssumption ==
  /\ 0 \notin Ports
  /\ \A c \in Configs : c.ext \in BOOLEAN /\ c.gatt \in BOOLEAN
  /\ TimeoutSeconds \in Nat /\ ReconnectSeconds \in Nat
  /\ Reopens \in BOOLEAN

VARIABLES
  config,          \* m_dmmInfo and m_portType as configured last
  wanted,          \* m_wanted
  state,           \* m_state
  timer,           \* m_delayTimer runs
  secondsInError,  \* m_secondsInError
  quiet,           \* m_lastFrame.elapsed() in seconds, no further than one beyond the timeout
  port,            \* Transport::port()
  live,            \* the device behind the port still answers
  gatt,            \* the port is a GATT link ...
  ready,           \* ... and set up (isReady())
  late,            \* ports closed, whose objects the event loop has not deleted yet
  handle,          \* FrameReader::m_port
  readValue,       \* FrameReader::m_readValue: a poll request goes out with the reader's next tick
  there,           \* the port's other end (cable, adapter, host) is plugged in, reachable
  sends            \* the meter behind it is switched on and sends

vars == <<config, wanted, state, timer, secondsInError, quiet, port, live, gatt, ready, late, handle, readValue, there, sends>>

LinkStates == {"Closed", "Connecting", "Connected", "Timeout", "Error"}

Init ==
  /\ config \in Configs
  /\ wanted = FALSE /\ state = "Closed" /\ timer = FALSE /\ secondsInError = 0 /\ quiet = 0
  /\ port = 0 /\ live = FALSE /\ gatt = FALSE /\ ready = FALSE
  /\ late = {} /\ handle = 0 /\ readValue = FALSE
  /\ there \in BOOLEAN /\ sends \in BOOLEAN

-----------------------------------------------------------------------------
(* The steps the operations are made of. *)

\* Transport::close: the port is forgotten at once and deleted later.
Dropped == late \cup ({port} \ {0})

\* openPort() that succeeds: create() drops the port of before, the reader listens to the new one, the first
\* timerEvent() arms the poll.  A network or Bluetooth port opens even when nobody is there and says so later.
OpenPort(p) ==
  /\ p \in Ports \ (Dropped \cup {handle})
  /\ port' = p /\ live' = there /\ gatt' = config.gatt /\ ready' = ~config.gatt
  /\ late' = Dropped
  /\ handle' = p /\ readValue' = TRUE
  /\ quiet' = 0 /\ secondsInError' = 0
  /\ state' = "Connecting" /\ timer' = TRUE

\* A slip: after a failed attempt the connection's timer is stopped.
OpenPortFailsForGood ==
  /\ ~there
  /\ port' = 0 /\ live' = FALSE /\ gatt' = FALSE /\ ready' = FALSE
  /\ late' = Dropped
  /\ timer' = FALSE
  /\ UNCHANGED <<handle, readValue, quiet>>

\* openPort() that fails: create() has dropped the port of before, the reader is not told.
OpenPortFails ==
  /\ ~there
  /\ port' = 0 /\ live' = FALSE /\ gatt' = FALSE /\ ready' = FALSE
  /\ late' = Dropped
  /\ UNCHANGED <<handle, readValue, quiet, timer>>

\* A slip: the reader keeps the port.
ClosePortKeepsHandle ==
  /\ UNCHANGED <<handle, readValue>>
  /\ IF port # 0 /\ ~config.ext
     THEN port' = 0 /\ live' = FALSE /\ gatt' = FALSE /\ ready' = FALSE /\ late' = Dropped
     ELSE UNCHANGED <<port, live, gatt, ready, late>>

\* closePort(): with an external setup the port is left open.
ClosePort ==
  /\ handle' = 0 /\ readValue' = FALSE
  /\ IF port # 0 /\ ~config.ext
     THEN port' = 0 /\ live' = FALSE /\ gatt' = FALSE /\ ready' = FALSE /\ late' = Dropped
     ELSE UNCHANGED <<port, live, gatt, ready, late>>

-----------------------------------------------------------------------------
(* The user and the settings. *)

\* configure(): takes effect at the next open().
Configure(c) ==
  /\ c # config /\ config' = c
  /\ UNCHANGED <<wanted, state, timer, secondsInError, quiet, port, live, gatt, ready, late, handle, readValue, there, sends>>

Open ==
  /\ Reopens \/ ~wanted
  /\ \/ wanted' = TRUE /\ \E p \in Ports : OpenPort(p)
     \/ wanted' = FALSE /\ OpenPortFails /\ UNCHANGED <<state, secondsInError>>
  /\ UNCHANGED <<config, there, sends>>

Close ==
  /\ wanted' = FALSE /\ timer' = FALSE
  /\ ClosePort
  /\ state' = "Closed"
  /\ UNCHANGED <<config, secondsInError, quiet, there, sends>>

-----------------------------------------------------------------------------
(* The event loop. *)

\* A slip: whichever port says that it is finished is believed.
PortLostOfAny(from) ==
  IF ~wanted \/ port = 0
  THEN UNCHANGED <<port, live, gatt, ready, late, handle, readValue, secondsInError, state>>
  ELSE ClosePort /\ secondsInError' = 0 /\ state' = "Error"

\* A slip: neither the port nor whether the connection is wanted is asked.
PortLostOfLate(from) == ClosePort /\ secondsInError' = 0 /\ state' = "Error"

\* portLost: finished() also comes when the port was closed here, or late from one that has been replaced.
PortLost(from) ==
  IF ~wanted \/ port = 0 \/ from # port
  THEN UNCHANGED <<port, live, gatt, ready, late, handle, readValue, secondsInError, state>>
  ELSE ClosePort /\ secondsInError' = 0 /\ state' = "Error"

\* A port object tells that its device is gone: the present one, or one that is about to be deleted.
Finished(p) ==
  /\ p \in late \/ (p = port /\ port # 0 /\ ~live)
  /\ PortLost(p)
  /\ UNCHANGED <<config, wanted, timer, quiet, there, sends>>

\* timerEvent() of a lost connection: every m_reconnectSeconds the port is opened again.
Retry ==
  /\ wanted /\ port = 0 /\ ReconnectSeconds > 0
  /\ IF secondsInError + 1 < ReconnectSeconds
     THEN /\ secondsInError' = secondsInError + 1
          /\ UNCHANGED <<state, timer, quiet, port, live, gatt, ready, late, handle, readValue>>
     ELSE \/ \E p \in Ports : OpenPort(p)
          \/ OpenPortFails /\ secondsInError' = 0 /\ state' = "Error"

\* A slip: the silence of a GATT link that is still being set up counts.
WatchImpatient ==
  /\ wanted /\ port # 0
  /\ readValue' = TRUE
  /\ UNCHANGED quiet
  /\ state' = IF state \in {"Connecting", "Connected", "Timeout"} /\ (quiet > TimeoutSeconds \/ ~ready)
              THEN "Timeout" ELSE state
  /\ UNCHANGED <<timer, secondsInError, port, live, gatt, ready, late, handle>>

\* A slip: a connection that has delivered frames is not watched any more.
WatchUntilConnected ==
  /\ wanted /\ port # 0
  /\ readValue' = TRUE
  /\ IF gatt /\ ~ready
     THEN quiet' = 0 /\ state' = "Connecting"
     ELSE /\ UNCHANGED quiet
          /\ state' = IF state = "Connecting" /\ quiet > TimeoutSeconds THEN "Timeout" ELSE state
  /\ UNCHANGED <<timer, secondsInError, port, live, gatt, ready, late, handle>>

\* timerEvent() of a connection with a port: the poll is armed, silence becomes a Timeout.
Watch ==
  /\ wanted /\ port # 0
  /\ readValue' = TRUE
  /\ IF gatt /\ ~ready
     THEN quiet' = 0 /\ state' = "Connecting"
     ELSE /\ UNCHANGED quiet
          /\ state' = IF state \in {"Connecting", "Connected", "Timeout"} /\ quiet > TimeoutSeconds
                      THEN "Timeout" ELSE state
  /\ UNCHANGED <<timer, secondsInError, port, live, gatt, ready, late, handle>>

TimerEvent ==
  /\ timer
  /\ Retry \/ Watch
  /\ UNCHANGED <<config, wanted, there, sends>>

\* FrameReader::timer: the request that startRead() armed is written to m_port.
ReaderTimer ==
  /\ readValue
  /\ readValue' = FALSE
  /\ UNCHANGED <<config, wanted, state, timer, secondsInError, quiet, port, live, gatt, ready, late, handle, there, sends>>

\* readEventSLOT: a complete frame of the port the reader listens to.
Frame ==
  /\ handle # 0 /\ handle = port /\ live /\ ready /\ sends
  /\ quiet' = 0 /\ state' = "Connected"
  /\ UNCHANGED <<config, wanted, timer, secondsInError, port, live, gatt, ready, late, handle, readValue, there, sends>>

\* deleteLater() of a port that was closed.
Delete(p) ==
  /\ p \in late /\ late' = late \ {p}
  /\ UNCHANGED <<config, wanted, state, timer, secondsInError, quiet, port, live, gatt, ready, handle, readValue, there, sends>>

-----------------------------------------------------------------------------
(* The world. *)

Ready ==
  /\ port # 0 /\ gatt /\ live /\ ~ready /\ ready' = TRUE
  /\ UNCHANGED <<config, wanted, state, timer, secondsInError, quiet, port, live, gatt, late, handle, readValue, there, sends>>

Vanish ==
  /\ there /\ there' = FALSE /\ live' = FALSE
  /\ UNCHANGED <<config, wanted, state, timer, secondsInError, quiet, port, gatt, ready, late, handle, readValue, sends>>

Appear ==
  /\ ~there /\ there' = TRUE
  /\ UNCHANGED <<config, wanted, state, timer, secondsInError, quiet, port, live, gatt, ready, late, handle, readValue, sends>>

\* The meter is switched on or off, or its battery dies: the port does not notice.
Switch ==
  /\ sends' = ~sends
  /\ UNCHANGED <<config, wanted, state, timer, secondsInError, quiet, port, live, gatt, ready, late, handle, readValue, there>>

Second ==
  /\ quiet <= TimeoutSeconds /\ quiet' = quiet + 1
  /\ UNCHANGED <<config, wanted, state, timer, secondsInError, port, live, gatt, ready, late, handle, readValue, there, sends>>

Next ==
  \/ \E c \in Configs : Configure(c)
  \/ Open \/ Close
  \/ \E p \in Ports : Finished(p) \/ Delete(p)
  \/ TimerEvent \/ ReaderTimer \/ Frame
  \/ Ready \/ Vanish \/ Appear \/ Switch \/ Second

Spec == Init /\ [][Next]_vars

\* The event loop delivers timers, signals and deletions; time passes; a GATT link that is there gets ready and a
\* meter that is switched on goes on sending.  Nothing is assumed of the user, nor of the meter being there.
Fairness ==
  /\ WF_vars(TimerEvent) /\ WF_vars(Second)
  /\ \A p \in Ports : WF_vars(Finished(p)) /\ WF_vars(Delete(p))
  /\ WF_vars(Ready) /\ WF_vars(Frame)

FairSpec == Spec /\ Fairness

-----------------------------------------------------------------------------
TypeOK ==
  /\ config \in Configs /\ wanted \in BOOLEAN /\ state \in LinkStates /\ timer \in BOOLEAN
  /\ secondsInError \in 0..ReconnectSeconds /\ quiet \in 0..(TimeoutSeconds + 1)
  /\ port \in Ports \cup {0} /\ handle \in Ports \cup {0} /\ late \subseteq Ports
  /\ live \in BOOLEAN /\ gatt \in BOOLEAN /\ ready \in BOOLEAN /\ readValue \in BOOLEAN
  /\ there \in BOOLEAN /\ sends \in BOOLEAN

\* A connection that shows Connecting, Connected or Timeout has its port, and the reader listens to that very port
\* (meterconnection.h: "Connecting: port open, waiting for the first frame", "Timeout: port open but silent").
LinkHasPort == state \in {"Connecting", "Connected", "Timeout"} => port # 0 /\ handle = port /\ wanted

\* A connection in Error that is wanted will be opened again: the timer runs and finds no port (meterconnection.h:
\* "Error: the port went away; reopened automatically while wanted").
LostIsRetried == state = "Error" /\ wanted => timer /\ port = 0

\* A poll request that is armed has a port to be written to: the reader's timer writes without asking.
PollHasPort == readValue => handle # 0 /\ handle = port

\* The timers find what they need, though other steps set it: timerEvent() reopens every lost connection, and the
\* reader's timer() never asks a port that is gone (MeterConnection::timerEvent, FrameReader::timer).
TimersFindTheirPort == LostIsRetried /\ PollHasPort

\* What the user closed holds no port and listens to none, whatever finished() or timer was still on its way.
ClosedHasNoPort == state = "Closed" => ~wanted /\ port = 0 /\ handle = 0 /\ ~readValue

\* Timeout is told of real silence only: never before a frame, a reconnection or the set-up of a Bluetooth link is
\* older than the timeout.
TimeoutMeansSilence == state = "Timeout" => quiet > TimeoutSeconds /\ (gatt => ready)

\* The connection keeps the promise of meterconnection.h that its controller builds on (MeterLink): which port is
\* held, lost, late or reopened stays inside.
Link == INSTANCE MeterLink WITH link <- state, open <- port # 0

KeepsItsPromise == Link!Spec

\* A link goes into Error only when the device of the port it had is gone: the finished() of an older port does not
\* take the new one down.
ErrorHasCause == [][state # "Error" /\ state' = "Error" => ~live]_vars

\* A meter that is there for good, sends and is wanted is shown as connected again and again, whatever was lost before.
Reconnects == <>[](there /\ sends /\ wanted) => []<>(state = "Connected")

\* A meter that falls silent for good is not shown as connected for good.
SilenceIsTold == <>[](~sends) => <>[](state # "Connected")

\* In the end the link shows what the meter does: back when it is back, silent when it is silent.
LinkFollowsMeter == Reconnects /\ SilenceIsTold
=============================================================================
