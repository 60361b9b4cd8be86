------------------------------ MODULE MCServers ------------------------------
(***************************************************************************)
(* The three servers that offer the interpreter to other programs. They    *)
(* share no state of their own but the interpreter's answers, so each is   *)
(* looked at by itself: a behaviour is one of the server it chose, or of   *)
(* the processes that start and stop them ("host"). Variables of the same  *)
(* name serve whichever it is.                                             *)
(***************************************************************************)
EXTENDS Integers, Sequences

CONSTANTS
  Sockets, Conns, Meters,
  MaxSessions, MaxPending, MaxMessage, Ids, FirstIds, MaxLinks, MaxErrors,
  HislipUses, VxiUses, ScpiUses,
  Processes, Configs, Free, Tries, Split, HostUses  \* of ServiceHost

ASSUME ServersAssumption ==
  /\ Sockets \subseteq Nat \ {0} /\ Conns \subseteq Nat \ {0} /\ Meters \subseteq Nat \ {0}
  /\ {MaxSessions, MaxPending, MaxMessage, MaxLinks, HislipUses, VxiUses, ScpiUses, HostUses} \subseteq Nat
  /\ MaxErrors \in Nat \ {0} /\ MaxSessions >= 1 /\ {1, 2} \subseteq Sockets
  /\ Ids \in Nat /\ Ids > MaxSessions + 1 /\ FirstIds \subseteq 0..(Ids - 1) /\ 0 \notin Free
  \* HislipUses is small enough that no number of a session comes round again.
  /\ Ids > HislipUses + 3 /\ \A f \in FirstIds, k \in 0..(HislipUses + 2) : (f + k) % Ids # 9

VARIABLES
  server,
  listening, conns, sessions, nextSession, socket, setup, calls, unread, fresh, client, uses,
  links, lockOwner, nextLid, conn, commands, stopped,
  devices, selected, errors, clients, lines, chosen, pushed, expected,
  rpcbind, entries, taken, host, at, doings

hislipOnly == <<listening, conns, sessions, nextSession, setup, calls, fresh>>
vxiOnly    == <<links, lockOwner, nextLid, conn, commands, stopped>>
scpiOnly   == <<devices, selected, errors, clients, lines, chosen, pushed, expected>>
hostVars   == <<rpcbind, entries, taken, host, at, doings>>
mcVars     == <<server, socket, unread, client, uses, hislipOnly, vxiOnly, scpiOnly, hostVars>>

Hislip == INSTANCE HislipServer WITH MaxUses <- HislipUses
Vxi    == INSTANCE Vxi11Core WITH MaxUses <- VxiUses, calls <- commands
Scpi   == INSTANCE ScpiServer WITH MaxUses <- ScpiUses, calls <- lines
Host   == INSTANCE ServiceHost WITH MaxUses <- HostUses

\* The variables of a server that is not looked at.
NoHislip ==
  /\ listening = FALSE /\ conns = <<>> /\ sessions = <<>> /\ nextSession = 0 /\ setup = {} /\ calls = <<>> /\ fresh = {}
NoVxi    == links = <<>> /\ lockOwner = -1 /\ nextLid = 1 /\ conn = <<>> /\ commands = <<>> /\ stopped = {}
NoScpi   ==
  /\ devices = <<>> /\ selected = 0 /\ errors = <<>> /\ clients = {} /\ lines = <<>> /\ chosen = 0 /\ pushed = 0 /\ expected = 0

NoHost   == rpcbind = FALSE /\ entries = <<>> /\ taken = {} /\ host = <<>> /\ at = <<>> /\ doings = 0

HostInit ==
  /\ server = "host" /\ Host!Init /\ NoHislip /\ NoVxi /\ NoScpi
  /\ socket = [s \in Sockets |-> "free"] /\ unread = <<>> /\ client = <<>> /\ uses = 0

HostNext == Host!Next /\ UNCHANGED <<server, socket, unread, client, uses, hislipOnly, vxiOnly, scpiOnly>>

Init ==
  \/ server = "hislip" /\ Hislip!Init /\ NoVxi /\ NoScpi /\ NoHost
  \/ server = "vxi11" /\ Vxi!Init /\ NoHislip /\ NoScpi /\ NoHost /\ socket = [s \in Sockets |-> "free"] /\ unread = <<>>
  \/ server = "scpi" /\ Scpi!Init /\ NoHislip /\ NoVxi /\ NoHost /\ client = <<>>
  \/ HostInit

Next ==
  \/ /\ UNCHANGED <<server, hostVars>>
     /\ \/ server = "hislip" /\ Hislip!Next /\ UNCHANGED <<vxiOnly, scpiOnly>>
        \/ server = "vxi11" /\ Vxi!Next /\ UNCHANGED <<socket, unread, hislipOnly, scpiOnly>>
        \/ server = "scpi" /\ Scpi!Next /\ UNCHANGED <<client, hislipOnly, vxiOnly>>
  \/ server = "host" /\ HostNext

Spec == Init /\ [][Next]_mcVars /\ Hislip!Fairness

\* The processes by themselves.
HostSpec == HostInit /\ [][HostNext]_mcVars

-----------------------------------------------------------------------------
(* The properties of each, where it is the one that runs *)

\* HislipServer and Vxi11Core: sessions have their channels and limits, links their client, the lock its link, while
\* commands run (m_sessions, m_conns; m_links, m_lockOwner).
SessionsHold ==
  /\ server = "hislip" => Hislip!SessionsHold
  /\ server = "vxi11" => Vxi!LinksHaveClients

\* HislipServer: a connection that says nothing goes (kSetupTimeoutMs).
SilentOnesGo == Hislip!SilentOnesGo

\* HislipServer and Vxi11Core: only whole messages of one client run (msgBuf, in, discard).
MessagesStayWhole ==
  /\ server = "hislip" => Hislip!MessagesNeverMix
  /\ server = "vxi11" => Vxi!MessagesRunWhole

\* ScpiServer: commands reach the meter chosen (m_selected).
ChoiceStands == server = "scpi" => Scpi!ChoiceStands

\* ScpiServer: errors are told, or that some are missing (m_errors).
ErrorsAreTold == server = "scpi" => Scpi!ErrorsAreTold

\* ServiceHost: the network finds the servers where portmapper and announcements say (m_systemRpcbind, m_mdns).
ServicesAreFound == server = "host" => Host!ServicesAreFound

\* "only one process per machine can offer VXI-11. Further processes get an error from start()" (vxi11server.h).
OneOffersVxi11 == server = "host" => Host!OneOffersVxi11

MCSockets  == 1..4
MCConns    == 1..3
MCMeters   == 1..2
MCFirstIds == {0, 65535}

All       == [enabled |-> TRUE, all |-> FALSE, port |-> 5025, mdns |-> TRUE, hislip |-> TRUE, hislipPort |-> 4880,
              vxi11 |-> TRUE, rpc |-> "auto"]
MCConfigs == {
  All,
  [All EXCEPT !.all = TRUE, !.hislipPort = 4870],
  [All EXCEPT !.vxi11 = FALSE, !.mdns = FALSE],
  [All EXCEPT !.enabled = FALSE],
  [All EXCEPT !.rpc = "own", !.hislip = FALSE] }
=============================================================================
