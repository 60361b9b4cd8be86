----------------------------- MODULE ScpiServer -----------------------------
(***************************************************************************)
(* The raw SCPI server (service/scpiserver.cpp): clients, the meters it    *)
(* serves and the one chosen, the error queue.                             *)
(*                                                                         *)
(* A line is one command. What a command does to a meter is part of        *)
(* MeterController; QTDMM:DEVice:OPEN connects one, which may ask for      *)
(* permission and so runs an event loop inside the handler (calls).        *)
(***************************************************************************)
EXTENDS Integers, Sequences, FiniteSets

CONSTANTS
  Sockets, Meters,   \* numbers from 1 on
  MaxErrors,         \* kMaxErrors
  MaxUses            \* bound: what clients and the user do in all

None == 0            \* no meter

VARIABLES
  devices, selected,  \* m_devices, m_selected
  errors,             \* m_errors: the number of the error, 0 for "Queue overflow"
  clients,            \* m_clients
  socket,             \* "free", "open", "released" (in m_released), "doomed" (deleteLater() was called)
  calls,              \* onReadyRead() on the stack: the socket, where it is, the meter it opens
  unread,             \* lines nobody read
  chosen,             \* auxiliary: the meter chosen last, or first by default
  pushed, expected,   \* auxiliary: errors so far; the one to be told next, 0 after an overflow
  uses                \* bound

vars == <<devices, selected, errors, clients, socket, calls, unread, chosen, pushed, expected, uses>>

Top       == calls[Len(calls)]
InLoop    == calls # <<>> /\ Top.at = "loop"
EventLoop == ~InLoop
Callers   == {calls[i].s : i \in DOMAIN calls}
Running   == \E i \in DOMAIN calls : calls[i].at = "command"  \* m_running > 0
Use       == uses < MaxUses /\ uses' = uses + 1

Selected  == IF selected >= 0 /\ selected < Len(devices) THEN devices[selected + 1] ELSE None

Init ==
  /\ devices = <<>> /\ selected = 0 /\ errors = <<>> /\ clients = {}
  /\ socket = [s \in Sockets |-> "free"] /\ calls = <<>> /\ unread = [s \in Sockets |-> <<>>]
  /\ chosen = None /\ pushed = 0 /\ expected = 1 /\ uses = 0

-----------------------------------------------------------------------------
(* Meters and errors *)

AddDevice(m) ==
  IF m \in {devices[i] : i \in DOMAIN devices} THEN UNCHANGED <<devices, selected, chosen>>
  ELSE /\ devices' = Append(devices, m)
       /\ selected' = IF devices = <<>> THEN 0 ELSE selected
       /\ chosen' = IF devices = <<>> THEN m ELSE chosen

IndexIn(list, m) == (CHOOSE i \in DOMAIN list : list[i] = m) - 1

\* removeIf() of a meter that is open: it is there once.
Others(m) == [i \in 1..(Len(devices) - 1) |-> devices[IF i <= IndexIn(devices, m) THEN i ELSE i + 1]]

\* A slip: the index stays within the list.
RemoveByIndex(m) ==
  /\ devices' = Others(m)
  /\ selected' = IF selected >= Len(Others(m)) THEN 0 ELSE selected
  /\ UNCHANGED chosen

\* removeDevice(), also of one destroyed: with the chosen one no other is chosen.
RemoveDevice(m) ==
  /\ devices' = Others(m)
  /\ selected' = IF selected < 0 \/ Selected = m THEN -1
                 ELSE IF Selected = None THEN 0
                 ELSE IndexIn(Others(m), Selected)
  /\ UNCHANGED chosen

\* A slip: an error too many is forgotten.
PushErrorIfRoom ==
  /\ pushed' = pushed + 1
  /\ errors' = IF Len(errors) >= MaxErrors THEN errors ELSE Append(errors, pushed + 1)

PushError ==
  /\ pushed' = pushed + 1
  /\ errors' = IF Len(errors) >= MaxErrors THEN [errors EXCEPT ![Len(errors)] = 0] ELSE Append(errors, pushed + 1)

-----------------------------------------------------------------------------
(* Clients *)

NewConnection(s) ==
  /\ EventLoop /\ Use /\ socket[s] = "free"
  /\ socket' = [socket EXCEPT ![s] = "open"] /\ clients' = clients \cup {s}
  /\ unread' = [unread EXCEPT ![s] = <<>>]
  /\ UNCHANGED <<devices, selected, errors, calls, chosen, pushed, expected>>

Commands == [type : {"INST"}, m : Meters] \cup [type : {"DEV:OPEN"}, m : Meters] \cup [type : {"DEV:CLOS"}, m : Meters]
            \cup [type : {"SYST:ERR?", "*CLS", "MARK"}, m : {None}]

Send(s, command) ==
  /\ EventLoop /\ Use /\ socket[s] = "open"
  /\ unread' = [unread EXCEPT ![s] = Append(@, command)]
  /\ UNCHANGED <<devices, selected, errors, clients, socket, calls, chosen, pushed, expected>>

Release == IF Running THEN "released" ELSE "doomed"

Disconnected(s) ==
  /\ EventLoop /\ Use /\ socket[s] = "open"
  /\ clients' = clients \ {s} /\ socket' = [socket EXCEPT ![s] = Release]
  /\ UNCHANGED <<devices, selected, errors, calls, unread, chosen, pushed, expected>>

\* stop(), as the settings or a new start do it.
Stop ==
  /\ EventLoop /\ Use /\ clients # {}
  /\ clients' = {} /\ socket' = [s \in Sockets |-> IF s \in clients THEN Release ELSE socket[s]]
  /\ UNCHANGED <<devices, selected, errors, calls, unread, chosen, pushed, expected>>

Delete(s) ==
  /\ EventLoop /\ socket[s] = "doomed"
  /\ socket' = [socket EXCEPT ![s] = "free"]
  /\ UNCHANGED <<devices, selected, errors, clients, calls, unread, chosen, pushed, expected, uses>>

-----------------------------------------------------------------------------
(* onReadyRead() *)

ReadyRead(s) ==
  /\ EventLoop /\ socket[s] = "open" /\ s \notin Callers /\ unread[s] # <<>>
  /\ calls' = Append(calls, [s |-> s, at |-> "loop", m |-> None])
  /\ UNCHANGED <<devices, selected, errors, clients, socket, unread, chosen, pushed, expected, uses>>

\* More than 64 KiB without the end of a line.
Overrun(s) ==
  /\ EventLoop /\ Use /\ socket[s] = "open" /\ s \notin Callers /\ unread[s] = <<>>
  /\ PushError
  /\ UNCHANGED <<devices, selected, clients, socket, calls, unread, chosen, expected>>

Ended(s) == s \in clients => unread[s] = <<>>

LoopEnds ==
  /\ InLoop /\ Ended(Top.s)
  /\ calls' = SubSeq(calls, 1, Len(calls) - 1)
  /\ UNCHANGED <<devices, selected, errors, clients, socket, unread, chosen, pushed, expected, uses>>

\* The handler's socket has the line; what it does besides is the command's.
Takes(type) ==
  /\ InLoop /\ ~Ended(Top.s) /\ Head(unread[Top.s]).type = type
  /\ unread' = [unread EXCEPT ![Top.s] = Tail(@)]
  /\ UNCHANGED <<clients, socket, uses>>

Wanted == Head(unread[Top.s]).m
IsOpen(m) == \E i \in DOMAIN devices : devices[i] = m

\* INSTrument, by name.
Instrument ==
  /\ Takes("INST")
  /\ IF IsOpen(Wanted)
     THEN selected' = IndexIn(devices, Wanted) /\ chosen' = Wanted /\ UNCHANGED <<errors, pushed>>
     ELSE PushError /\ UNCHANGED <<selected, chosen>>
  /\ UNCHANGED <<devices, calls, expected>>

\* A command to the meter: refused while none is chosen.
Command ==
  /\ Takes("MARK")
  /\ IF selected < 0 THEN PushError ELSE UNCHANGED <<errors, pushed>>
  /\ UNCHANGED <<devices, selected, calls, chosen, expected>>

\* SYSTem:ERRor?
NextError ==
  /\ Takes("SYST:ERR?")
  /\ errors' = IF errors = <<>> THEN <<>> ELSE Tail(errors)
  /\ expected' = IF errors = <<>> THEN expected ELSE IF Head(errors) = 0 THEN 0 ELSE Head(errors) + 1
  /\ UNCHANGED <<devices, selected, calls, chosen, pushed>>

\* *CLS, and *RST.
ClearStatus ==
  /\ Takes("*CLS")
  /\ errors' = <<>> /\ expected' = pushed + 1
  /\ UNCHANGED <<devices, selected, calls, chosen, pushed>>

\* QTDMM:DEVice:CLOSe
CloseDevice ==
  /\ Takes("DEV:CLOS")
  /\ IF IsOpen(Wanted) THEN RemoveDevice(Wanted) /\ UNCHANGED <<errors, pushed>>
     ELSE PushError /\ UNCHANGED <<devices, selected, chosen>>
  /\ UNCHANGED <<calls, expected>>

\* QTDMM:DEVice:OPEN, until the meter is connected or is not.
OpenDevice ==
  /\ Takes("DEV:OPEN")
  /\ IF IsOpen(Wanted) THEN PushError /\ UNCHANGED calls
     ELSE /\ calls' = [calls EXCEPT ![Len(calls)] = [@ EXCEPT !.at = "command", !.m = Wanted]]
          /\ UNCHANGED <<errors, pushed>>
  /\ UNCHANGED <<devices, selected, chosen, expected>>

\* The sockets when a command ends: with the last one those that waited go.
ReleasedWithLast ==
  [s \in Sockets |-> IF /\ socket[s] = "released"
                        /\ Cardinality({i \in DOMAIN calls : calls[i].at = "command"}) = 1
                     THEN "doomed" ELSE socket[s]]

DeviceOpened ==
  /\ Running /\ EventLoop
  /\ \/ AddDevice(Top.m) /\ UNCHANGED <<errors, pushed>>
     \/ PushError /\ UNCHANGED <<devices, selected, chosen>>
  /\ calls' = [calls EXCEPT ![Len(calls)] = [@ EXCEPT !.at = "loop", !.m = None]]
  /\ socket' = ReleasedWithLast
  /\ UNCHANGED <<clients, unread, expected, uses>>

\* The user opens and closes meters too.
UserOpens(m) ==
  /\ EventLoop /\ Use /\ AddDevice(m)
  /\ UNCHANGED <<errors, clients, socket, calls, unread, pushed, expected>>

UserCloses(m) ==
  /\ EventLoop /\ Use /\ IsOpen(m) /\ RemoveDevice(m)
  /\ UNCHANGED <<errors, clients, socket, calls, unread, pushed, expected>>

-----------------------------------------------------------------------------
Next ==
  \/ \E s \in Sockets : \/ NewConnection(s) \/ Disconnected(s) \/ Delete(s) \/ ReadyRead(s) \/ Overrun(s)
                        \/ \E command \in Commands : Send(s, command)
  \/ \E m \in Meters : UserOpens(m) \/ UserCloses(m)
  \/ Instrument \/ Command \/ NextError \/ ClearStatus \/ CloseDevice \/ OpenDevice
  \/ DeviceOpened \/ LoopEnds
  \/ Stop

Spec == Init /\ [][Next]_vars

-----------------------------------------------------------------------------
(* Properties *)

\* Commands reach the meter chosen last or none, whatever meters come and go, also while a command waits; no socket
\* is deleted under its own readyRead() (removeDevice(): "none, not silently another one"; m_released).
ChoiceStands ==
  /\ Selected \in {chosen, None}
  /\ \A s \in Callers : socket[s] # "free"

\* Errors are told in order and each, or "Queue overflow" in the place of those lost (pushError(), SYSTem:ERRor?).
ErrorsAreTold ==
  LET follows(e, f) == 0 \in {e, f} \/ f = e + 1
  IN /\ errors # <<>> => Head(errors) = 0 \/ expected \in {0, Head(errors)}
     /\ \A i \in 1..(Len(errors) - 1) : follows(errors[i], errors[i + 1])
     /\ errors # <<>> => errors[Len(errors)] \in {0, pushed}
     /\ errors = <<>> => expected \in {0, pushed + 1}
=============================================================================
