----------------------------- MODULE ServiceHost -----------------------------
(***************************************************************************)
(* What processes of the program offer to the network of one computer      *)
(* (service/servicehost.cpp): the three servers, each where it finds a     *)
(* port, their announcements, and the entries of VXI-11 with the           *)
(* portmapper (service/vxi11server.cpp).                                   *)
(*                                                                         *)
(* apply() is one step of its process except where it talks to rpcbind,    *)
(* which the processes do beside each other.  The clients of the servers   *)
(* are in HislipServer, Vxi11Core and ScpiServer.                          *)
(***************************************************************************)
EXTENDS Integers, Sequences

CONSTANTS
  Processes,
  Configs,    \* settings: ScpiConfig
  Free,       \* port numbers the system picks from, one for both channels of VXI-11
  Tries,      \* how many ports SCPI and HiSLIP try
  Split,      \* whether others may act between a refused registration and the one that replaces a stale entry
  MaxUses     \* bound: settings applied, ends and crashes

VARIABLES
  rpcbind,  \* whether the system has one
  entries,  \* of the system's rpcbind: the port of each program, 0 for none
  taken,    \* ports other programs hold
  host,     \* the ServiceHost of each process
  at,       \* what each process has still to do of apply() or of its end, the next first
  doings    \* bound: what was done so far

vars == <<rpcbind, entries, taken, host, at, doings>>

Portmapper == 111
Programs   == <<"core", "abort">>  \* in the order of m_regs

\* vxi: the number of its channels, 0 when they do not listen; mapper: whether it is an own portmapper;
\* system: m_systemRpcbind; announced: the port each MdnsResponder tells of, 0 when it is not active.
NewHost == [scpi |-> 0, hislip |-> 0, all |-> FALSE, hislipAll |-> FALSE, vxiAll |-> FALSE,
            vxi |-> 0, running |-> FALSE, mapper |-> FALSE, system |-> FALSE, mode |-> "auto",
            announced |-> [scpi |-> 0, hislip |-> 0, vxi11 |-> 0]]

Idle(p) == at[p] = <<>>
Step(do, reg) == [do |-> do, reg |-> reg]

\* What a host listens on.
PortsOf(h) == {h.scpi, h.hislip, h.vxi, IF h.mapper THEN Portmapper ELSE 0} \ {0}
Held(p)    == taken \cup UNION {PortsOf(host[q]) : q \in Processes \ {p}}

\* listen() on the first port free of those tried, 0 when there is none.
FirstFree(from, held) ==
  LET ports == {n \in from .. from + Tries - 1 : n \notin held}
  IN IF ports = {} THEN 0 ELSE CHOOSE n \in ports : \A m \in ports : n <= m

Init ==
  /\ rpcbind \in BOOLEAN /\ entries = [g \in {"core", "abort"} |-> 0]
  /\ taken \in {{}, {5025}} /\ host = [p \in Processes |-> NewHost] /\ at = [p \in Processes |-> <<>>] /\ doings = 0

Use == doings < MaxUses /\ doings' = doings + 1

-----------------------------------------------------------------------------
(* apply(): the servers that find a port by themselves. *)

Announced(h, service, port) == [h EXCEPT !.announced[service] = port]

\* The raw socket: kept when nothing about it changed, else stopped and started.
ScpiApplied(h, c, held) ==
  LET same == h.scpi # 0 /\ h.all = c.all /\ h.scpi \in c.port .. c.port + Tries - 1
  IN IF ~c.enabled THEN [Announced(h, "scpi", 0) EXCEPT !.scpi = 0]
     ELSE IF same THEN h
     ELSE [Announced(h, "scpi", 0) EXCEPT !.scpi = FirstFree(c.port, held \cup (PortsOf(h) \ {h.scpi})), !.all = c.all]

\* HiSLIP: beside the raw socket only.
HislipApplied(h, c, held) ==
  LET same == h.hislip # 0 /\ h.hislipAll = c.all /\ h.hislip \in c.hislipPort .. c.hislipPort + Tries - 1
  IN IF ~(c.enabled /\ c.hislip /\ h.scpi # 0) THEN [Announced(h, "hislip", 0) EXCEPT !.hislip = 0]
     ELSE IF same THEN h
     ELSE [Announced(h, "hislip", 0) EXCEPT
             !.hislip = FirstFree(c.hislipPort, held \cup (PortsOf(h) \ {h.hislip})), !.hislipAll = c.all]

\* The end of apply(): what runs is announced, unless it is already.
AllAnnounced(h, c) ==
  LET tell(service, port) == IF ~c.mdns THEN 0
                             ELSE IF port # 0 /\ h.announced[service] = 0 THEN port
                             ELSE h.announced[service]
  IN [h EXCEPT !.announced = [scpi |-> tell("scpi", h.scpi), hislip |-> tell("hislip", h.hislip),
                              vxi11 |-> tell("vxi11", IF h.running THEN Portmapper ELSE 0)]]

\* Vxi11Server::stop(), the entries first; then what is to be done next.
Stopping(h, next) ==
  (IF h.system THEN <<Step("unset", 1), Step("unset", 2)>> ELSE <<>>) \o <<Step("close", 0)>> \o next

Apply(p, c) ==
  /\ Idle(p) /\ Use
  /\ LET h    == HislipApplied(ScpiApplied(host[p], c, Held(p)), c, Held(p))
         want == c.enabled /\ c.vxi11 /\ h.scpi # 0
         same == h.running /\ h.vxiAll = c.all /\ h.mode = c.rpc
         tell == <<[do |-> "announce", config |-> c]>>
     IN IF want /\ same THEN host' = [host EXCEPT ![p] = h] /\ at' = [at EXCEPT ![p] = tell]
        ELSE /\ host' = [host EXCEPT ![p] = Announced([h EXCEPT !.mode = IF want THEN c.rpc ELSE @,
                                                                !.vxiAll = IF want THEN c.all ELSE @], "vxi11", 0)]
             /\ at' = [at EXCEPT ![p] = Stopping(h, IF want THEN <<Step("start", 0)>> \o tell ELSE tell)]
  /\ UNCHANGED <<rpcbind, entries, taken>>

-----------------------------------------------------------------------------
(* The steps that talk to rpcbind. *)

Next1(p)   == Head(at[p])
Replaces(p) == \E i \in DOMAIN at[p] : at[p][i].do \in {"ask", "again"}
MayTalk(p)  == Split \/ \A q \in Processes \ {p} : ~Replaces(q)
Goes(p, next) == at' = [at EXCEPT ![p] = next \o Tail(@)]
Becomes(p, h) == host' = [host EXCEPT ![p] = h]

Unset(p) ==
  /\ ~Idle(p) /\ Next1(p).do = "unset" /\ MayTalk(p)
  /\ entries' = [entries EXCEPT ![Programs[Next1(p).reg]] = 0] /\ Goes(p, <<>>)
  /\ UNCHANGED <<rpcbind, taken, host, doings>>

CloseAll(p) ==
  /\ ~Idle(p) /\ Next1(p).do = "close"
  /\ Becomes(p, [host[p] EXCEPT !.system = FALSE, !.mapper = FALSE, !.vxi = 0, !.running = FALSE]) /\ Goes(p, <<>>)
  /\ UNCHANGED <<rpcbind, entries, taken, doings>>

\* isAvailable(): somebody answers on 111, the system's rpcbind or an own portmapper of another process.
Available(p) == rpcbind \/ \E q \in Processes \ {p} : host[q].mapper

\* start(): core and abort channel on free ports, then the portmapper: the one that answers, or an own one on 111,
\* which the system may refuse.
Start(p) ==
  /\ ~Idle(p) /\ Next1(p).do = "start"
  /\ \E n \in Free \ UNION {PortsOf(host[q]) : q \in Processes} :
       \/ /\ host[p].mode # "own" /\ Available(p)
          /\ Becomes(p, [host[p] EXCEPT !.vxi = n]) /\ Goes(p, <<Step("set", 1), Step("set", 2), Step("registered", 0)>>)
       \/ /\ host[p].mode = "own" \/ ~Available(p)
          /\ Goes(p, <<>>) /\ UNCHANGED host
       \/ /\ host[p].mode # "system" /\ ~Available(p)
          /\ Becomes(p, [host[p] EXCEPT !.vxi = n, !.mapper = TRUE, !.running = TRUE]) /\ Goes(p, <<>>)
  /\ UNCHANGED <<rpcbind, entries, taken, doings>>

PortAnswers(n) == \E q \in Processes : host[q].vxi = n

\* registerWithRpcbind() fails: an entry it has set is taken back, the channels close, the rest is not done.
Refused(p) ==
  LET undo == IF Next1(p).reg = 2 THEN <<Step("unset", 1)>> ELSE <<>>
      last == CHOOSE i \in DOMAIN at[p] : at[p][i].do = "registered"
  IN /\ at' = [at EXCEPT ![p] = undo \o <<Step("close", 0)>> \o SubSeq(@, last + 1, Len(@))]
     /\ UNCHANGED entries

Enters(p) == entries' = [entries EXCEPT ![Programs[Next1(p).reg]] = host[p].vxi] /\ Goes(p, <<>>)

\* One program with the portmapper that answered. Only the system's takes registrations, and none that exists.
Set(p) ==
  /\ ~Idle(p) /\ Next1(p).do \in {"set", "again"} /\ MayTalk(p)
  /\ IF rpcbind /\ entries[Programs[Next1(p).reg]] = 0 THEN Enters(p)
     ELSE IF ~rpcbind \/ Next1(p).do = "again" THEN Refused(p)
     ELSE Goes(p, <<Step("ask", Next1(p).reg)>>) /\ UNCHANGED entries
  /\ UNCHANGED <<rpcbind, taken, host, doings>>

\* A slip: an entry that exists is stale, whoever answers at its port.
AskCarelessly(p) ==
  /\ ~Idle(p) /\ Next1(p).do = "ask" /\ MayTalk(p)
  /\ Goes(p, <<Step("unset", Next1(p).reg), Step("again", Next1(p).reg)>>)
  /\ UNCHANGED <<rpcbind, entries, taken, host, doings>>

\* set() was refused: whoever has the entry answers at its port, or it is stale, is unset, and the program set again.
Ask(p) ==
  /\ ~Idle(p) /\ Next1(p).do = "ask" /\ MayTalk(p)
  /\ LET other == entries[Programs[Next1(p).reg]]
     IN IF other = 0 \/ PortAnswers(other) THEN Refused(p)
        ELSE Goes(p, <<Step("unset", Next1(p).reg), Step("again", Next1(p).reg)>>) /\ UNCHANGED entries
  /\ UNCHANGED <<rpcbind, taken, host, doings>>

Registered(p) ==
  /\ ~Idle(p) /\ Next1(p).do = "registered"
  /\ Becomes(p, [host[p] EXCEPT !.system = TRUE, !.running = TRUE]) /\ Goes(p, <<>>)
  /\ UNCHANGED <<rpcbind, entries, taken, doings>>

Announce(p) ==
  /\ ~Idle(p) /\ Next1(p).do = "announce"
  /\ Becomes(p, AllAnnounced(host[p], Next1(p).config)) /\ Goes(p, <<>>)
  /\ UNCHANGED <<rpcbind, entries, taken, doings>>

-----------------------------------------------------------------------------
(* The end of a process, regular or not; it may be started again. *)

Quit(p) ==
  /\ Idle(p) /\ host[p] # NewHost /\ Use
  /\ at' = [at EXCEPT ![p] = Stopping(host[p], <<Step("gone", 0)>>)]
  /\ UNCHANGED <<rpcbind, entries, taken, host>>

Gone(p) ==
  /\ ~Idle(p) /\ Next1(p).do = "gone"
  /\ Becomes(p, NewHost) /\ Goes(p, <<>>)
  /\ UNCHANGED <<rpcbind, entries, taken, doings>>

Crash(p) ==
  /\ host[p] # NewHost /\ Use
  /\ Becomes(p, NewHost) /\ at' = [at EXCEPT ![p] = <<>>]
  /\ UNCHANGED <<rpcbind, entries, taken>>

\* Another program starts or ends on the port SCPI servers begin with.
OthersPort ==
  /\ Use /\ \A p \in Processes : 5025 \notin PortsOf(host[p])
  /\ taken' = {5025} \ taken
  /\ UNCHANGED <<rpcbind, entries, host, at>>

Next ==
  \/ \E p \in Processes : \/ \E c \in Configs : Apply(p, c)
                          \/ Unset(p) \/ CloseAll(p) \/ Start(p) \/ Set(p) \/ Ask(p) \/ Registered(p) \/ Announce(p)
                          \/ Quit(p) \/ Gone(p) \/ Crash(p)
  \/ OthersPort

Spec == Init /\ [][Next]_vars

-----------------------------------------------------------------------------
(* Properties *)

\* A VXI-11 server that runs with the system's rpcbind is the one its entries lead to, whoever else started, ended or
\* crashed meanwhile (Vxi11Server::registerWithRpcbind, stop).
RegisteredAsServed ==
  \A p \in Processes : Idle(p) /\ host[p].system => \A g \in {"core", "abort"} : entries[g] = host[p].vxi

\* mDNS tells of the servers that run, at the port they have, and of no other, over every change of the settings and
\* of the ports there are (ServiceHost::apply).
AnnouncedAsServed ==
  \A p \in Processes : Idle(p) =>
    LET h == host[p] IN /\ h.announced.scpi \in {0, h.scpi} /\ h.announced.hislip \in {0, h.hislip}
                        /\ h.announced.vxi11 # 0 => h.running

\* Clients find a server where portmapper and mDNS lead them.
ServicesAreFound == RegisteredAsServed /\ AnnouncedAsServed

\* "only one process per machine can offer VXI-11. Further processes get an error from start()" (vxi11server.h).
OneOffersVxi11 ==
  \A p, q \in Processes : Idle(p) /\ Idle(q) /\ host[p].running /\ host[q].running => p = q
=============================================================================
