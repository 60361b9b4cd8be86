------------------------------ MODULE NetworkPort ------------------------------
(***************************************************************************)
(* A serial port shared over the network                                   *)
(* (device/transports/rfc2217serial.cpp): the socket that comes and goes,  *)
(* and the telnet conventions the meter's bytes travel by.  A byte is one  *)
(* of telnet's or a letter of the meter; 0xff is telnet's IAC, and a byte  *)
(* of the meter, too.                                                      *)
(***************************************************************************)
EXTENDS Naturals, Sequences, SequencesExt

CONSTANTS
  Objects,  \* the device objects, 1..n in the order they are created
  Letters,  \* bytes of the meter that are none of telnet's
  MaxItems, \* bound: what the server sends over a connection
  MaxWrites \* bound: what the reader of frames writes over one

VARIABLES
  current,  \* the port of the connection, 0 for none
  created,  \* objects created so far
  socket,   \* QTcpSocket: "None", "Connecting", "Connected"
  wire,     \* bytes on their way from the server
  telnet,   \* m_telnet
  rx,       \* bytes handed to the reader of frames, m_rx
  out,      \* bytes written to the server
  sent,     \* auxiliary: what the meter sent over the connection
  written,  \* auxiliary: what the reader of frames wrote
  items,    \* bound
  said      \* how often each object emitted finished()

vars == <<current, created, socket, wire, telnet, rx, out, sent, written, items, said>>

stream == <<wire, telnet, rx, out, sent, written, items>>

Bytes == Letters \cup {"IAC", "SB", "SE", "WILL", "NOP"}

Init ==
  /\ current = 0 /\ created = 0 /\ socket = "None" /\ said = [o \in Objects |-> 0]
  /\ wire = <<>> /\ telnet = "Data" /\ rx = <<>> /\ out = <<>> /\ sent = <<>> /\ written = <<>> /\ items = 0

-----------------------------------------------------------------------------
(* Telnet *)

\* appendEscaped()
Escaped(data) == FlattenSeq([i \in DOMAIN data |-> IF data[i] = "IAC" THEN <<"IAC", "IAC">> ELSE <<data[i]>>])

\* sendPortOption(), and what the server answers.
PortOption(data) == <<"IAC", "SB">> \o Escaped(data) \o <<"IAC", "SE">>

\* A slip: a doubled byte in an option's data ends it.
TelnetStepSimple(f, b) ==
  CASE f.state = "Data"   -> IF b = "IAC" THEN [f EXCEPT !.state = "Iac"] ELSE [f EXCEPT !.rx = Append(@, b)]
    [] f.state = "Iac"    -> [rx |-> IF b = "IAC" THEN Append(f.rx, b) ELSE f.rx,
                              state |-> CASE b = "SB" -> "Sub" [] b = "WILL" -> "Option" [] OTHER -> "Data"]
    [] f.state = "Option" -> [f EXCEPT !.state = "Data"]
    [] f.state = "Sub"    -> IF b = "IAC" THEN [f EXCEPT !.state = "SubIac"] ELSE f
    [] f.state = "SubIac" -> [f EXCEPT !.state = "Data"]

\* filterTelnet(), a byte at a time.
TelnetStep(f, b) ==
  CASE f.state = "Data"   -> IF b = "IAC" THEN [f EXCEPT !.state = "Iac"] ELSE [f EXCEPT !.rx = Append(@, b)]
    [] f.state = "Iac"    -> [rx |-> IF b = "IAC" THEN Append(f.rx, b) ELSE f.rx,
                              state |-> CASE b = "SB" -> "Sub" [] b = "WILL" -> "Option" [] OTHER -> "Data"]
    [] f.state = "Option" -> [f EXCEPT !.state = "Data"]
    [] f.state = "Sub"    -> IF b = "IAC" THEN [f EXCEPT !.state = "SubIac"] ELSE f
    [] f.state = "SubIac" -> [f EXCEPT !.state = IF b = "IAC" THEN "Sub" ELSE "Data"]

Filtered(f, raw) ==
  LET fed[n \in 0..Len(raw)] == IF n = 0 THEN f ELSE TelnetStep(fed[n - 1], raw[n])
  IN fed[Len(raw)]

-----------------------------------------------------------------------------
(* The connection *)

\* The constructor begins to connect, open() does not wait for it.
Open ==
  /\ current = 0 /\ created + 1 \in Objects /\ created' = created + 1 /\ current' = created'
  /\ socket' = "Connecting" /\ telnet' = "Data" /\ wire' = <<>> /\ rx' = <<>> /\ out' = <<>> /\ sent' = <<>>
  /\ written' = <<>> /\ items' = 0 /\ UNCHANGED said

\* close() lets go of the socket before it hangs up.
Close == current # 0 /\ current' = 0 /\ socket' = "None" /\ UNCHANGED <<created, stream, said>>

\* onConnected(), sendRFC2217Negotiation(): what was written before it waits in the socket and goes first.
OnConnected ==
  /\ socket = "Connecting" /\ socket' = "Connected" /\ out' = out \o PortOption(<<"a", "IAC">>)
  /\ UNCHANGED <<current, created, wire, telnet, rx, sent, written, items, said>>

\* onError(), or onDisconnected(): finished(), and the connection closes the port.
Lost ==
  /\ current # 0 /\ current' = 0 /\ socket' = "None"
  /\ said' = [said EXCEPT ![current] = @ + 1] /\ UNCHANGED <<created, stream>>

\* The server sends a byte of the meter, an answer to an option, or other commands of telnet.
Serve ==
  /\ socket = "Connected" /\ items < MaxItems /\ items' = items + 1
  /\ \/ \E b \in Letters \cup {"IAC"} : wire' = wire \o Escaped(<<b>>) /\ sent' = Append(sent, b)
     \/ \E data \in {<<"SE">>, <<"IAC", "a">>} : wire' = wire \o PortOption(data) /\ UNCHANGED sent
     \/ \E c \in {<<"IAC", "NOP">>, <<"IAC", "WILL", "SB">>} : wire' = wire \o c /\ UNCHANGED sent
  /\ UNCHANGED <<current, created, socket, telnet, rx, out, written, said>>

\* onReadyRead(): as many bytes as have come.
OnReadyRead ==
  /\ socket = "Connected"
  /\ \E n \in 1..Len(wire) :
       LET f == Filtered([state |-> telnet, rx |-> rx], SubSeq(wire, 1, n))
       IN telnet' = f.state /\ rx' = f.rx /\ wire' = SubSeq(wire, n + 1, Len(wire))
  /\ UNCHANGED <<current, created, socket, out, sent, written, items, said>>

\* writeData(): a socket that still connects keeps what is written.
WriteData ==
  /\ socket # "None" /\ Len(written) < MaxWrites
  /\ \E b \in Letters \cup {"IAC"} : written' = Append(written, b) /\ out' = out \o Escaped(<<b>>)
  /\ UNCHANGED <<current, created, socket, wire, telnet, rx, sent, items, said>>

Next == Open \/ Close \/ OnConnected \/ Lost \/ Serve \/ OnReadyRead \/ WriteData

-----------------------------------------------------------------------------
\* The reader of frames gets what the meter sent, 0xff included, and nothing of what the server negotiates, in
\* whatever pieces the bytes come; and the server, which strips telnet likewise, gets what was written.
StreamsAreClean ==
  /\ IsPrefix(rx, sent) /\ (wire = <<>> => rx = sent /\ telnet = "Data")
  /\ Filtered([state |-> "Data", rx |-> <<>>], out) = [state |-> "Data", rx |-> written]
=============================================================================
