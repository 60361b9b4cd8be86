---------------------------- MODULE HislipServer ----------------------------
(***************************************************************************)
(* Sessions of two channels each (service/hislipserver.cpp), with commands *)
(* that run an event loop of their own.                                    *)
(*                                                                         *)
(* calls are the readyRead() handlers on the stack. While the innermost is *)
(* in its loop nothing else happens; while it runs a command, everything   *)
(* can, and so it can while there is none. disconnectFromHost() may say    *)
(* disconnected() at once: as it is the last thing its callers do, that is *)
(* the case in which Disconnected follows immediately.                     *)
(***************************************************************************)
EXTENDS Integers, Sequences, FiniteSets

CONSTANTS
  Sockets,                  \* numbers from 1 on
  MaxSessions, MaxPending,  \* kMaxSessions, kMaxPendingConnections
  MaxMessage,               \* kMaxMessage, in pieces
  Ids,                      \* how many numbers a quint16 has
  FirstIds,                 \* values of m_nextSession to begin with
  MaxUses                   \* bound: what clients and the user do in all

VARIABLES
  listening,
  conns,        \* m_conns
  sessions,     \* m_sessions
  nextSession,  \* m_nextSession
  socket,       \* "free" (no object), "open", "leaving" (disconnected() is to come), "released" (in m_released),
                \* "doomed" (deleteLater() was called)
  setup,        \* sockets whose setup timer runs
  calls,        \* onReadyRead() on the stack: the socket, where it is, what it runs
  unread,       \* what each client sent and nobody read
  fresh,        \* sockets for which Qt has new data to report
  client,       \* the client of a synchronous channel
  uses          \* bound: what was done so far

vars == <<listening, conns, sessions, nextSession, socket, setup, calls, unread, fresh, client, uses>>

Message(type) == [type |-> type, id |-> 0, n |-> 0, i |-> 0]
NewConn       == [in |-> <<>>, kind |-> "Unknown", session |-> 0, closing |-> FALSE]
NewSession(s) == [sync |-> s, async |-> 0, msgBuf |-> <<>>]
NewClient     == [n |-> 1, i |-> 0, clear |-> "no", given |-> 0]

Top       == calls[Len(calls)]
InLoop    == calls # <<>> /\ Top.at = "loop"
EventLoop == ~InLoop
Callers   == {calls[i].s : i \in DOMAIN calls}
Running   == Cardinality({i \in DOMAIN calls : calls[i].at = "command"})  \* m_running
Without(f, x) == [y \in DOMAIN f \ {x} |-> f[y]]
With(f, x, v) == [y \in DOMAIN f \cup {x} |-> IF y = x THEN v ELSE f[y]]
Use       == uses < MaxUses /\ uses' = uses + 1

\* Just started, or after a while with a session of the sockets 1 and 2.
Init ==
  /\ listening = TRUE /\ setup = {} /\ calls = <<>> /\ fresh = {} /\ uses = 0
  /\ unread = [s \in Sockets |-> <<>>] /\ client = [s \in Sockets |-> NewClient]
  /\ nextSession \in FirstIds
  /\ \/ conns = <<>> /\ sessions = <<>> /\ socket = [s \in Sockets |-> "free"]
     \/ /\ conns = [s \in {1, 2} |-> [NewConn EXCEPT !.kind = IF s = 1 THEN "Sync" ELSE "Async", !.session = 9]]
        /\ sessions = With(<<>>, 9, [NewSession(1) EXCEPT !.async = 2])
        /\ socket = [s \in Sockets |-> IF s \in {1, 2} THEN "open" ELSE "free"]

-----------------------------------------------------------------------------
(* Connections *)

\* A slip: the socket goes at once, whatever runs.
ReleaseAtOnce(s) == "doomed"

Release(s) == IF Running > 0 THEN "released" ELSE "doomed"

\* stop(), and start() that begins with it.
Listen(on) ==
  /\ EventLoop /\ Use
  /\ (on = listening) => on
  /\ listening' = on /\ conns' = <<>> /\ sessions' = <<>>
  /\ socket' = [s \in Sockets |-> IF s \in DOMAIN conns THEN Release(s) ELSE socket[s]]
  /\ fresh' = fresh \ DOMAIN conns
  /\ UNCHANGED <<nextSession, setup, calls, unread, client>>

\* onNewConnection(), for one of them.
NewConnection ==
  \E s \in Sockets :
    /\ EventLoop /\ listening /\ Use
    /\ socket[s] = "free" /\ \A r \in Sockets : socket[r] = "free" => s <= r
    /\ unread' = [unread EXCEPT ![s] = <<>>] /\ client' = [client EXCEPT ![s] = NewClient]
    /\ IF Cardinality(DOMAIN conns) >= 2 * MaxSessions + MaxPending
       THEN socket' = [socket EXCEPT ![s] = "doomed"] /\ UNCHANGED <<conns, setup>>
       ELSE /\ socket' = [socket EXCEPT ![s] = "open"] /\ setup' = setup \cup {s}
            /\ conns' = With(conns, s, NewConn)
    /\ UNCHANGED <<listening, sessions, nextSession, calls, fresh>>

\* A slip: a synchronous channel is a session.
CompleteAlone(s) == conns[s].kind # "Unknown"

Complete(s) ==
  \/ conns[s].kind = "Async"
  \/ /\ conns[s].kind = "Sync" /\ conns[s].session \in DOMAIN sessions
     /\ sessions[conns[s].session].async # 0

\* The setup timer: an incomplete session is closed.
SetupTimeout(s) ==
  /\ EventLoop /\ s \in setup
  /\ setup' = setup \ {s}
  /\ socket' = IF s \in DOMAIN conns /\ ~conns[s].closing /\ ~Complete(s) /\ socket[s] = "open"
               THEN [socket EXCEPT ![s] = "leaving"] ELSE socket
  /\ UNCHANGED <<listening, conns, sessions, nextSession, calls, unread, fresh, client, uses>>

\* The timer of sendFatal().
Linger(s) ==
  /\ EventLoop /\ s \in DOMAIN conns /\ conns[s].closing /\ socket[s] = "open"
  /\ socket' = [socket EXCEPT ![s] = "leaving"] /\ unread' = [unread EXCEPT ![s] = <<>>]
  /\ UNCHANGED <<listening, conns, sessions, nextSession, setup, calls, fresh, client, uses>>

\* onDisconnected(): with one channel the whole session is over.
Disconnected(s) ==
  LET c     == conns[s]
      over  == c.kind # "Unknown" /\ c.session \in DOMAIN sessions
      other == IF ~over THEN 0 ELSE IF c.kind = "Sync" THEN sessions[c.session].async ELSE sessions[c.session].sync
  IN /\ EventLoop /\ socket[s] = "leaving"
     /\ conns' = Without(conns, s)
     /\ sessions' = IF over THEN Without(sessions, c.session) ELSE sessions
     /\ socket' = [r \in Sockets |-> IF r = s THEN Release(s)
                                     ELSE IF r = other /\ socket[r] = "open" THEN "leaving" ELSE socket[r]]
     /\ fresh' = fresh \ {s}
     /\ UNCHANGED <<listening, nextSession, setup, calls, unread, client, uses>>

\* The event loop deletes the socket, and with it its timer.
Delete(s) ==
  /\ EventLoop /\ socket[s] = "doomed"
  /\ socket' = [socket EXCEPT ![s] = "free"] /\ setup' = setup \ {s}
  /\ UNCHANGED <<listening, conns, sessions, nextSession, calls, unread, fresh, client, uses>>

-----------------------------------------------------------------------------
(* Clients. A message goes out in pieces; a device clear gives up what is  *)
(* under way, and its second half waits for the answer to the first.       *)

SendPiece(s, type) ==
  LET c == client[s]
  IN /\ conns[s].kind = "Sync" /\ c.clear = "no"
     /\ unread' = [unread EXCEPT ![s] = Append(@, [Message(type) EXCEPT !.n = c.n, !.i = c.i + 1])]
     /\ client' = [client EXCEPT ![s] = IF type = "Data" THEN [c EXCEPT !.i = @ + 1]
                                        ELSE [c EXCEPT !.n = @ + 1, !.i = 0]]

SendClear(s) ==
  /\ conns[s].kind = "Async" /\ conns[s].session \in DOMAIN sessions
  /\ LET sync == sessions[conns[s].session].sync
     IN /\ client[sync].clear = "no"
        /\ client' = [client EXCEPT ![sync].clear = "asked", ![sync].given = client[sync].n]
  /\ unread' = [unread EXCEPT ![s] = Append(@, Message("AsyncDeviceClear"))]

SendClearComplete(s) ==
  /\ conns[s].kind = "Sync" /\ client[s].clear = "granted"
  /\ client' = [client EXCEPT ![s].clear = "no", ![s].n = @ + 1, ![s].i = 0]
  /\ unread' = [unread EXCEPT ![s] = Append(@, Message("DeviceClearComplete"))]

SendSetup(s) ==
  /\ conns[s].kind = "Unknown"
  /\ \E m \in {Message(type) : type \in {"Initialize", "Other"}}
               \cup {[Message("AsyncInitialize") EXCEPT !.id = id] : id \in DOMAIN sessions} :
       unread' = [unread EXCEPT ![s] = Append(@, m)]
  /\ UNCHANGED client

Send(s) ==
  /\ EventLoop /\ socket[s] = "open" /\ Use
  /\ \/ \E type \in {"Data", "DataEnd"} : SendPiece(s, type)
     \/ SendClear(s)
     \/ SendClearComplete(s)
     \/ SendSetup(s)
  /\ fresh' = fresh \cup {s}
  /\ UNCHANGED <<listening, conns, sessions, nextSession, socket, setup, calls>>

Leave(s) ==
  /\ EventLoop /\ socket[s] = "open" /\ Use
  /\ socket' = [socket EXCEPT ![s] = "leaving"]
  /\ UNCHANGED <<listening, conns, sessions, nextSession, setup, calls, unread, fresh, client>>

-----------------------------------------------------------------------------
(* onReadyRead() and dispatch() *)

\* Qt does not emit readyRead() in its own handler: what comes then waits for what comes after it.
ReadyRead(s) ==
  /\ EventLoop /\ s \in fresh
  /\ fresh' = fresh \ {s}
  /\ IF s \in Callers THEN UNCHANGED <<conns, calls, unread>>
     ELSE /\ unread' = [unread EXCEPT ![s] = <<>>]
          /\ IF conns[s].closing THEN UNCHANGED <<conns, calls>>
             ELSE /\ conns' = [conns EXCEPT ![s].in = @ \o unread[s]]
                  /\ calls' = Append(calls, [s |-> s, at |-> "loop", pieces |-> <<>>])
  /\ UNCHANGED <<listening, sessions, nextSession, socket, setup, client, uses>>

Ended(s) == s \in DOMAIN conns => conns[s].closing \/ conns[s].in = <<>>

LoopEnds ==
  /\ InLoop /\ Ended(Top.s)
  /\ calls' = SubSeq(calls, 1, Len(calls) - 1)
  /\ UNCHANGED <<listening, conns, sessions, nextSession, socket, setup, unread, fresh, client, uses>>

Handling == InLoop /\ ~Ended(Top.s)

\* The next message of the socket of the loop is m, and its entry becomes c.
Takes(m, c) ==
  /\ m = Head(conns[Top.s].in)
  /\ conns' = [conns EXCEPT ![Top.s] = [c EXCEPT !.in = IF c.closing THEN <<>> ELSE Tail(conns[Top.s].in)]]
  /\ UNCHANGED <<listening, socket, setup, unread, fresh, uses>>

Stands(c) == c.kind # "Unknown" /\ c.session \in DOMAIN sessions
Synced(c) == Stands(c) /\ c.kind = "Sync" /\ sessions[c.session].async # 0

\* newSessionId(): the next number that is not 0 and not in use.
NewSessionId ==
  LET number(k) == (nextSession + k) % Ids
      fits(k)   == number(k) # 0 /\ number(k) \notin DOMAIN sessions
  IN number(CHOOSE k \in 0..(MaxSessions + 1) : fits(k) /\ \A j \in 0..(k - 1) : ~fits(j))

Initialize ==
  LET s == Top.s
      c == conns[s]
  IN /\ Handling /\ c.kind = "Unknown" /\ Cardinality(DOMAIN sessions) < MaxSessions
     /\ Takes(Message("Initialize"), [c EXCEPT !.kind = "Sync", !.session = NewSessionId])
     /\ sessions' = With(sessions, NewSessionId, NewSession(s))
     /\ nextSession' = (NewSessionId + 1) % Ids
     /\ UNCHANGED <<calls, client>>

AsyncInitialize ==
  LET s == Top.s
      c == conns[s]
  IN /\ Handling /\ c.kind = "Unknown"
     /\ \E id \in DOMAIN sessions :
          /\ sessions[id].async = 0
          /\ Takes([Message("AsyncInitialize") EXCEPT !.id = id], [c EXCEPT !.kind = "Async", !.session = id])
          /\ sessions' = [sessions EXCEPT ![id].async = s]
     /\ UNCHANGED <<nextSession, calls, client>>

\* What is refused: an initialisation out of place, a channel without its session. (A header that is none and a
\* length beyond kMaxMessage end the same way.)
Refused(c, m) ==
  \/ m.type = "Initialize" /\ (c.kind # "Unknown" \/ Cardinality(DOMAIN sessions) >= MaxSessions)
  \/ /\ m.type = "AsyncInitialize"
     /\ c.kind = "Unknown" /\ m.id \in DOMAIN sessions => sessions[m.id].async # 0
  \/ /\ m.type \notin {"Initialize", "AsyncInitialize"}
     /\ ~Stands(c) \/ (c.kind = "Sync" /\ ~Synced(c))

\* sendFatal(): what the client still sends is dropped, for a moment.
Fatal ==
  LET c == conns[Top.s]
  IN /\ Handling /\ Refused(c, Head(c.in))
     /\ Takes(Head(c.in), [c EXCEPT !.closing = TRUE])
     /\ UNCHANGED <<sessions, nextSession, calls, client>>

IsPiece(m) == m.type \in {"Data", "DataEnd"}

\* A message bigger than kMaxMessage, whatever its pieces.
TooLarge ==
  LET c == conns[Top.s]
      m == Head(c.in)
  IN /\ Handling /\ Synced(c) /\ IsPiece(m)
     /\ Len(sessions[c.session].msgBuf) + 1 > MaxMessage
     /\ Takes(m, [c EXCEPT !.closing = TRUE])
     /\ sessions' = [sessions EXCEPT ![c.session].msgBuf = <<>>]
     /\ UNCHANGED <<nextSession, calls, client>>

\* A piece; with the last one the message runs.
Data ==
  LET c   == conns[Top.s]
      m   == Head(c.in)
      msg == Append(sessions[c.session].msgBuf, m)
  IN /\ Handling /\ Synced(c) /\ IsPiece(m) /\ Len(msg) <= MaxMessage
     /\ Takes(m, c)
     /\ sessions' = [sessions EXCEPT ![c.session].msgBuf = IF m.type = "Data" THEN msg ELSE <<>>]
     /\ calls' = IF m.type = "Data" THEN calls
                 ELSE [calls EXCEPT ![Len(calls)] = [@ EXCEPT !.at = "command", !.pieces = msg]]
     /\ UNCHANGED <<nextSession, client>>

\* A slip: the second half of a device clear only answers.
ClearCompleteAnswersOnly ==
  LET c == conns[Top.s]
  IN /\ Handling /\ Synced(c)
     /\ Takes(Message("DeviceClearComplete"), c)
     /\ UNCHANGED <<sessions, nextSession, calls, client>>

ClearComplete ==
  LET c == conns[Top.s]
  IN /\ Handling /\ Synced(c)
     /\ Takes(Message("DeviceClearComplete"), c)
     /\ sessions' = [sessions EXCEPT ![c.session].msgBuf = <<>>]
     /\ UNCHANGED <<nextSession, calls, client>>

\* The first half, on the asynchronous channel; the client hears of it.
AsyncDeviceClear ==
  LET c == conns[Top.s]
  IN /\ Handling /\ Stands(c) /\ c.kind = "Async"
     /\ Takes(Message("AsyncDeviceClear"), c)
     /\ sessions' = [sessions EXCEPT ![c.session].msgBuf = <<>>]
     /\ client' = [client EXCEPT ![sessions[c.session].sync].clear = "granted"]
     /\ UNCHANGED <<nextSession, calls>>

\* Trigger, status, lock, message size, remote: answered, nothing else.
Answered ==
  LET c == conns[Top.s]
  IN /\ Handling /\ Stands(c) /\ (c.kind = "Async" \/ Synced(c))
     /\ Takes(Message("Other"), c)
     /\ UNCHANGED <<sessions, nextSession, calls, client>>

\* The command is done: with the last one the sockets that waited for it may go.
CommandEnds ==
  /\ Running > 0 /\ EventLoop
  /\ calls' = [calls EXCEPT ![Len(calls)] = [@ EXCEPT !.at = "loop", !.pieces = <<>>]]
  /\ socket' = [s \in Sockets |-> IF Running = 1 /\ socket[s] = "released" THEN "doomed" ELSE socket[s]]
  /\ UNCHANGED <<listening, conns, sessions, nextSession, setup, unread, fresh, client, uses>>

-----------------------------------------------------------------------------
Handled ==
  \/ Initialize \/ AsyncInitialize \/ Fatal \/ TooLarge \/ Data \/ ClearComplete \/ AsyncDeviceClear \/ Answered
  \/ LoopEnds

Next ==
  \/ \E on \in BOOLEAN : Listen(on)
  \/ NewConnection
  \/ \E s \in Sockets : \/ Send(s) \/ Leave(s)
                        \/ ReadyRead(s) \/ SetupTimeout(s) \/ Linger(s) \/ Disconnected(s) \/ Delete(s)
  \/ Handled
  \/ CommandEnds

Spec == Init /\ [][Next]_vars

\* The loop serves its timers and sockets, that of a dialog as well; that a command ends is not assumed.
Fairness ==
  /\ WF_vars(Handled)
  /\ \A s \in Sockets : WF_vars(SetupTimeout(s)) /\ WF_vars(Linger(s)) /\ WF_vars(Disconnected(s))

FairSpec == Spec /\ Fairness

-----------------------------------------------------------------------------
(* Properties *)

Established(s) == \E id \in DOMAIN sessions : sessions[id].async # 0 /\ s \in {sessions[id].sync, sessions[id].async}

Channel(s, kind, id) == s \in DOMAIN conns /\ conns[s].kind = kind /\ conns[s].session = id

\* Whatever comes while commands run their own event loops, sessions and channels belong together both ways, their
\* numbers fit and the limits hold; no socket is deleted under its own readyRead() (release(), onDisconnected(),
\* newSessionId(), the comment at m_running).
SessionsHold ==
  /\ \A id \in DOMAIN sessions :
       /\ id # 0 /\ Channel(sessions[id].sync, "Sync", id)
       /\ sessions[id].async # 0 => Channel(sessions[id].async, "Async", id)
  /\ \A s \in DOMAIN conns :
       LET c == conns[s]
       IN /\ socket[s] \in {"open", "leaving"}
          /\ Stands(c) => s = (IF c.kind = "Sync" THEN sessions[c.session].sync ELSE sessions[c.session].async)
  /\ Cardinality(DOMAIN sessions) <= MaxSessions
  /\ Cardinality(DOMAIN conns) <= 2 * MaxSessions + MaxPending
  /\ \A s \in Callers : socket[s] # "free"

\* What runs is a message of its client, all its pieces in order and no other's, with the sessions and device clears
\* around it; only of a message given up a rest may run, whose pieces arrive between the halves of the clear
\* (handleSync(), handleAsync()).
MessagesNeverMix ==
  \A k \in DOMAIN calls :
    LET p == calls[k].pieces
    IN \A i \in DOMAIN p : /\ p[i].n = p[1].n
                           /\ p[i].i = i \/ p[1].n <= client[calls[k].s].given

\* A connection that is no channel of a session with both becomes one or goes (kSetupTimeoutMs: silent ones would
\* block the server), also beside a command that never ends.
SilentOnesGo ==
  \A s \in Sockets : (s \in DOMAIN conns /\ ~Established(s)) ~> (s \notin DOMAIN conns \/ Established(s))
=============================================================================
