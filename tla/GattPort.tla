------------------------------- MODULE GattPort -------------------------------
(***************************************************************************)
(* The way to a Bluetooth meter (device/transports/blegatt.cpp): it is     *)
(* looked for, connected to, its service set up, each with its own time;   *)
(* whatever fails is told by finished(), and the connection closes the     *)
(* port.  One unit of time is ten seconds.                                 *)
(***************************************************************************)
EXTENDS Naturals

CONSTANTS
  Objects,                            \* the device objects, 1..n in the order they are created
  FindTime, ConnectTime, SetupTime    \* kFindMs, kConnectTimeoutMs, kSetupTimeoutMs

VARIABLES
  current,   \* the port of the connection, 0 for none
  created,   \* objects created so far
  phase,     \* "None"; "Finding", "Connecting", "Discovering", "Details", "Subscribing" until "Ready"
  finder,    \* m_finder searches
  timeLeft,  \* m_connectTimeout
  age,       \* auxiliary: time since open() while the link is not ready
  said       \* how often each object emitted finished()

vars == <<current, created, phase, finder, timeLeft, age, said>>

Init ==
  /\ current = 0 /\ created = 0 /\ phase = "None" /\ finder = FALSE /\ timeLeft = 0 /\ age = 0
  /\ said = [o \in Objects |-> 0]

\* close(): the timers, the finder, the service and the controller go, none of them says anything any more.
Closed == phase' = "None" /\ finder' = FALSE /\ timeLeft' = 0 /\ age' = 0 /\ current' = 0

\* open(); a search that fails at once does so before the device is open, and nothing follows but the time.
Open ==
  /\ current = 0 /\ created + 1 \in Objects /\ created' = created + 1 /\ current' = created'
  /\ phase' = "Finding" /\ finder' \in BOOLEAN /\ timeLeft' = FindTime + ConnectTime /\ age' = 0
  /\ UNCHANGED said

Close == current # 0 /\ Closed /\ UNCHANGED <<created, said>>

\* fail(): finished(), and the connection closes the port.
Fail == current # 0 /\ Closed /\ said' = [said EXCEPT ![current] = @ + 1] /\ UNCHANGED created

Reaches(from, to, time) ==
  /\ phase = from /\ phase' = to /\ timeLeft' = time
  /\ UNCHANGED <<current, created, age, said>>

\* connectTo(): the meter is seen, or the search ends, or fails, without it.
ConnectTo == finder /\ Reaches("Finding", "Connecting", ConnectTime) /\ finder' = FALSE

\* QLowEnergyController::connected
Connected == Reaches("Connecting", "Discovering", SetupTime) /\ UNCHANGED finder

\* onDiscoveryFinished() with the meter's service
OnDiscoveryFinished == Reaches("Discovering", "Details", timeLeft) /\ UNCHANGED finder

\* onServiceState(): notifications are subscribed to where they have to be.
OnServiceState ==
  /\ UNCHANGED finder
  /\ Reaches("Details", "Subscribing", timeLeft) \/ Reaches("Details", "Ready", 0)

\* descriptorWritten(), and setReady() with it
Subscribed == Reaches("Subscribing", "Ready", 0) /\ UNCHANGED finder

\* A missing service or characteristic, an error, the link closed by the meter, the time that runs out.
Fails == (phase \notin {"None", "Finding"} \/ timeLeft = 0) /\ current # 0 /\ Fail

\* The search is over when its time is, the connect timer fires when its is.
Second ==
  /\ phase \notin {"None", "Ready"} /\ timeLeft > 0 /\ (finder => age < FindTime)
  /\ timeLeft' = timeLeft - 1 /\ age' = age + 1
  /\ UNCHANGED <<current, created, phase, finder, said>>

Next == Open \/ Close \/ ConnectTo \/ Connected \/ OnDiscoveryFinished \/ OnServiceState \/ Subscribed \/ Fails \/ Second

\* A link is ready, or has failed and said so, within the three times together, however its parts go wrong.
SetUpHasAnEnd == age <= FindTime + ConnectTime + SetupTime
=============================================================================
