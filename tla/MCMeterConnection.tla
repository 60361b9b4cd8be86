-------------------------- MODULE MCMeterConnection --------------------------
(***************************************************************************)
(* MeterConnection with its own ports, which are there or not, and the     *)
(* ports below it: HidPort, GattPort with its GattPolls, NetworkPort and   *)
(* SigrokPort, each of which keeps the promise of Port that the connection *)
(* builds on, and the calculated meters (CalcMeters).  They meet only at   *)
(* Transport's calls, so each is looked at by itself: a behaviour is one   *)
(* of the part it chose.                                                   *)
(***************************************************************************)
EXTENDS MeterConnection, Sequences

CONSTANTS
  Devices,                                    \* device objects of each kind of port
  Posted, Hangs,                              \* HidPort
  FindTime, ConnectTime, SetupTime,           \* GattPort
  Period, Repoll, KeyQuiet, LostAfter, KeysApart,  \* GattPolls
  Letters, MaxItems, MaxWrites,               \* NetworkPort
  Measuring, Chain, Stale, MaxEdits           \* CalcMeters

\* Device objects and meters are counted from 1, the measuring meters first.  A poll is lost by the time the reader of
\* frames asks again.
ASSUME PartsAssumption ==
  /\ Devices \subseteq Nat \ {0}
  /\ Period \in Nat /\ Repoll \in Nat /\ KeyQuiet \in Nat /\ LostAfter \in Nat /\ LostAfter <= Period
  /\ Stale \in Nat
  /\ IsFiniteSet(Measuring) /\ Measuring = 1..Cardinality(Measuring)
  /\ IsFiniteSet(Chain) /\ Chain = (Cardinality(Measuring) + 1)..(Cardinality(Measuring) + Cardinality(Chain))

VARIABLES
  part, current, created, said,                                                    \* of every port
  plugged, broken, isOpen, waits, why, reader, stop, hidapi, left, posted, wrote,  \* HidPort
  phase, finder, timeLeft, age,                                                    \* GattPort
  hasPoll, out, sincePoll, sinceKey, repoll, shots, lastRead,                      \* GattPolls
  socket, wire, telnet, rx, output, sent, written, items,                          \* NetworkPort
  process,                                                                         \* SigrokPort
  formula, connected, ages, valid, basis, due, edits                               \* CalcMeters

portVars    == <<current, created, said>>
hidVars     == <<plugged, broken, isOpen, waits, why, reader, stop, hidapi, left, posted, wrote>>
gattVars    == <<phase, finder, timeLeft, age>>
pollVars    == <<hasPoll, out, sincePoll, sinceKey, repoll, shots, lastRead>>
networkVars == <<socket, wire, telnet, rx, output, sent, written, items>>
calcVars    == <<formula, connected, ages, valid, basis, due, edits>>
partVars    == <<part, portVars, hidVars, gattVars, pollVars, networkVars, process, calcVars>>

Hid     == INSTANCE HidPort WITH Objects <- Devices, MaxPosted <- Posted, handle <- hidapi
Gatt    == INSTANCE GattPort WITH Objects <- Devices
Polls   == INSTANCE GattPolls WITH reader <- lastRead
Network == INSTANCE NetworkPort WITH Objects <- Devices, out <- output
Sigrok  == INSTANCE SigrokPort WITH Objects <- Devices
Calc    == INSTANCE CalcMeters WITH open <- connected, age <- ages
Promise == INSTANCE Port WITH Objects <- Devices, held <- current

MCInit ==
  /\ part \in {"connection", "hid", "gatt", "polls", "network", "sigrok", "calc"}
  /\ Init /\ Hid!Init /\ Gatt!Init /\ Polls!Init /\ Network!Init /\ Sigrok!Init /\ Calc!Init
  /\ part # "connection" => config.gatt /\ ~there /\ ~sends
  /\ part # "polls" => ~hasPoll /\ lastRead = 0
  /\ part # "calc" => \A c \in Chain : formula[c] = {}

Of(p) == part = p /\ UNCHANGED part

MCNext ==
  \/ Of("connection") /\ Next /\ UNCHANGED <<portVars, hidVars, gattVars, pollVars, networkVars, process, calcVars>>
  \/ Of("hid") /\ Hid!Next /\ UNCHANGED <<vars, gattVars, pollVars, networkVars, process, calcVars>>
  \/ Of("gatt") /\ Gatt!Next /\ UNCHANGED <<vars, hidVars, pollVars, networkVars, process, calcVars>>
  \/ Of("polls") /\ Polls!Next /\ UNCHANGED <<vars, portVars, hidVars, gattVars, networkVars, process, calcVars>>
  \/ Of("network") /\ Network!Next /\ UNCHANGED <<vars, hidVars, gattVars, pollVars, process, calcVars>>
  \/ Of("sigrok") /\ Sigrok!Next /\ UNCHANGED <<vars, hidVars, gattVars, pollVars, networkVars, calcVars>>
  \/ Of("calc") /\ Calc!Next /\ UNCHANGED <<vars, portVars, hidVars, gattVars, pollVars, networkVars, process>>

Spec0 == MCInit /\ [][MCNext]_<<vars, partVars>>

\* FairSpec of the connection; threads run, posted events are handled, and a read of a cable returns in the end; a
\* process that is asked to end is killed when its time is over, and gone then.
MCSpec ==
  /\ Spec0
  /\ WF_vars(part = "connection" /\ TimerEvent) /\ WF_vars(part = "connection" /\ Second)
  /\ \A p \in Ports : WF_vars(part = "connection" /\ Finished(p)) /\ WF_vars(part = "connection" /\ Delete(p))
  /\ WF_vars(part = "connection" /\ Ready) /\ WF_vars(part = "connection" /\ Frame)
  /\ WF_<<portVars, hidVars>>(part = "hid" /\ Hid!Handling)
  /\ \A o \in Devices :
       /\ WF_hidVars(part = "hid" /\ Hid!Loop(o)) /\ WF_hidVars(part = "hid" /\ Hid!Read(o))
       /\ WF_hidVars(part = "hid" /\ Hid!EndRead(o))
       /\ WF_process(part = "sigrok" /\ Sigrok!Kill(o)) /\ WF_process(part = "sigrok" /\ Sigrok!Dies(o))

-----------------------------------------------------------------------------
\* Every kind of port is held alone, says finished() once and only while it is held, and is given up with it: what
\* MeterConnection::portLost relies on, whatever threads, sockets and processes still have to say.
PortsKeepTheirPromise == Promise!Spec

\* Nothing a port began goes on for good: the handle of a cable is closed by the thread that reads it, the set-up of
\* a Bluetooth link is over within its three times, a sigrok-cli is gone some time after its port.
PortsComeToAnEnd == Hid!HandlesAreClosed /\ []Gatt!SetUpHasAnEnd /\ Sigrok!NoneIsLeft

\* The meter is asked again in time whatever answers are lost and keys pressed (BleGattDevice::sendPoll).
PollsGoOn == Polls!PollsGoOn

\* Both directions of a network port carry the meter's bytes and nothing of telnet's (filterTelnet, appendEscaped).
StreamsAreClean == Network!StreamsAreClean

\* A calculated reading is a number only while the measurements it was made of are recent (CalcDevice::currentLine).
ResultsAreRecent == Calc!ResultsAreRecent

\* What the window's thread writes to a HID cable has not been closed by its reader (hidreader.h: "nothing is shared").
HandleIsOpenWhenWritten == Hid!HandleIsOpenWhenWritten

-----------------------------------------------------------------------------
(* With and without Bluetooth, no external setup. *)
PlainConfigs == { [ext |-> FALSE, gatt |-> FALSE], [ext |-> FALSE, gatt |-> TRUE] }
=============================================================================
