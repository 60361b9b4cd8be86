------------------------------ MODULE Vxi11Core ------------------------------
(***************************************************************************)
(* VXI-11: links, the lock and messages in blocks (service/vxi11core.cpp)  *)
(* on the connections of service/oncrpc.cpp.                               *)
(*                                                                         *)
(* A client waits for the answer of each call. A connection whose call     *)
(* runs a command reads nothing; the event loop of that command serves the *)
(* others, and may see its client go.                                      *)
(***************************************************************************)
EXTENDS Integers, Sequences, FiniteSets

CONSTANTS
  Conns,        \* connections, numbered as they come
  MaxLinks,     \* kMaxLinks
  MaxMessage,   \* kMaxMessage, in blocks
  MaxUses       \* bound: calls, connections and stops in all

VARIABLES
  links,      \* m_links
  lockOwner,  \* m_lockOwner
  nextLid,    \* m_nextLid
  conn,       \* of each connection: "none" yet, "open", "gone" (its socket waits for its call), "doomed"
              \* (deleteLater() was called), "deleted"
  calls,      \* commands on the stack: connection, link, the message's blocks
  client,     \* the client of a link: the message and the block it sends next, whether it gave the rest up
  stopped,    \* auxiliary: connections closed by the server
  uses        \* bound: what was done so far

vars == <<links, lockOwner, nextLid, conn, calls, client, stopped, uses>>

NewLink(c) == [conn |-> c, in |-> <<>>, discard |-> FALSE, out |-> <<>>]
Busy(c)    == \E i \in DOMAIN calls : calls[i].conn = c  \* m_busy
Serves(c)  == conn[c] = "open" /\ ~Busy(c)
Use        == uses < MaxUses /\ uses' = uses + 1
With(f, x, v) == [y \in DOMAIN f \cup {x} |-> IF y = x THEN v ELSE f[y]]

Owns(lid, c)      == lid \in DOMAIN links /\ links[lid].conn = c
\* checkAccess()
MayUse(lid, c)    == Owns(lid, c) /\ lockOwner \in {-1, lid}
Drop(lids)        == /\ links' = [l \in DOMAIN links \ lids |-> links[l]]
                     /\ lockOwner' = IF lockOwner \in lids THEN -1 ELSE lockOwner

Init ==
  /\ links = <<>> /\ lockOwner = -1 /\ nextLid = 1
  /\ conn = [c \in Conns |-> "none"] /\ calls = <<>> /\ client = <<>> /\ stopped = {} /\ uses = 0

-----------------------------------------------------------------------------
(* Connections *)

Connect(c) ==
  /\ Use /\ conn[c] = "none" /\ \A d \in Conns : d < c => conn[d] # "none"
  /\ conn' = [conn EXCEPT ![c] = "open"]
  /\ UNCHANGED <<links, lockOwner, nextLid, calls, client, stopped>>

\* gone(): the links of the connection go, its socket waits for the call that runs.
Gone(c) ==
  /\ Use /\ conn[c] = "open"
  /\ Drop({lid \in DOMAIN links : links[lid].conn = c})
  /\ conn' = [conn EXCEPT ![c] = IF Busy(c) THEN "gone" ELSE "doomed"]
  /\ UNCHANGED <<nextLid, calls, client, stopped>>

\* Vxi11Server::stop(): close() deletes the sockets whatever they do, reset() drops every link.
Stop ==
  /\ Use /\ \E c \in Conns : conn[c] = "open"
  /\ links' = <<>> /\ lockOwner' = -1
  /\ conn' = [c \in Conns |-> IF conn[c] \in {"open", "gone"} THEN "doomed" ELSE conn[c]]
  /\ stopped' = stopped \cup {c \in Conns : conn[c] \in {"open", "gone"}}
  /\ UNCHANGED <<nextLid, calls, client>>

Delete(c) ==
  /\ conn[c] = "doomed"
  /\ conn' = [conn EXCEPT ![c] = "deleted"]
  /\ UNCHANGED <<links, lockOwner, nextLid, calls, client, stopped, uses>>

-----------------------------------------------------------------------------
(* Calls *)

CreateLink(c, lock) ==
  /\ Use /\ Serves(c)
  /\ lock => lockOwner = -1
  /\ Cardinality(DOMAIN links) < MaxLinks
  /\ links' = With(links, nextLid, NewLink(c))
  /\ nextLid' = nextLid + 1
  /\ lockOwner' = IF lock THEN nextLid ELSE lockOwner
  /\ client' = With(client, nextLid, [n |-> 1, i |-> 1])
  /\ UNCHANGED <<conn, calls, stopped>>

DestroyLink(c, lid) ==
  /\ Use /\ Serves(c) /\ Owns(lid, c)
  /\ Drop({lid})
  /\ UNCHANGED <<nextLid, conn, calls, client, stopped>>

DeviceLock(c, lid) ==
  /\ Use /\ Serves(c) /\ Owns(lid, c) /\ lockOwner = -1
  /\ lockOwner' = lid
  /\ UNCHANGED <<links, nextLid, conn, calls, client, stopped>>

DeviceUnlock(c, lid) ==
  /\ Use /\ Serves(c) /\ Owns(lid, c) /\ lockOwner = lid
  /\ lockOwner' = -1
  /\ UNCHANGED <<links, nextLid, conn, calls, client, stopped>>

\* device_clear(), and device_abort() of the same client on the abort channel, also while its command runs. It begins
\* anew.
DeviceClear(lid) ==
  /\ Use
  /\ \/ MayUse(lid, links[lid].conn) /\ Serves(links[lid].conn)
     \/ \E c \in Conns : conn[c] = "open"
  /\ links' = [links EXCEPT ![lid] = NewLink(@.conn)]
  /\ client' = [client EXCEPT ![lid] = [n |-> @.n + 1, i |-> 1]]
  /\ UNCHANGED <<lockOwner, nextLid, conn, calls, stopped>>

\* The client goes on with its message; after a refusal it may also begin another.
Sent(lid, end, refused) ==
  LET goOn == [client[lid] EXCEPT !.i = @ + 1]
      anew == [n |-> client[lid].n + 1, i |-> 1]
  IN client' \in {[client EXCEPT ![lid] = c] : c \in IF end THEN {anew} ELSE IF refused THEN {goOn, anew} ELSE {goOn}}

\* deviceWrite(): too big, the rest up to the END is dropped with it.
WriteTooBig(c, lid, end) ==
  /\ Use /\ Serves(c) /\ MayUse(lid, c)
  /\ links[lid].discard \/ Len(links[lid].in) + 1 > MaxMessage
  /\ links' = [links EXCEPT ![lid].in = <<>>, ![lid].discard = ~end]
  /\ Sent(lid, end, TRUE)
  /\ UNCHANGED <<lockOwner, nextLid, conn, calls, stopped>>

\* A block that fits; with the END the message runs.
DeviceWrite(c, lid, end) ==
  LET in == Append(links[lid].in, client[lid])
  IN /\ Use /\ Serves(c) /\ MayUse(lid, c)
     /\ ~links[lid].discard /\ Len(in) <= MaxMessage
     /\ links' = [links EXCEPT ![lid].in = IF end THEN <<>> ELSE in]
     /\ calls' = IF end THEN Append(calls, [conn |-> c, lid |-> lid, message |-> in]) ELSE calls
     /\ Sent(lid, end, FALSE)
     /\ UNCHANGED <<lockOwner, nextLid, conn, stopped>>

\* The socket that waited is deleted; one the server deleted is left alone (QPointer).
AfterCall(c) ==
  /\ calls' = SubSeq(calls, 1, Len(calls) - 1)
  /\ conn' = IF conn[c] = "gone" THEN [conn EXCEPT ![c] = "doomed"] ELSE conn

Answers(message) == {<<>>, <<[n |-> message[1].n, pieces |-> 2]>>}

\* The end of run(): its answers wait at the link, if there still is one.
CommandEnds ==
  /\ calls # <<>>
  /\ LET call == calls[Len(calls)]
     IN /\ IF call.lid \in DOMAIN links
           THEN \E a \in Answers(call.message) : links' = [links EXCEPT ![call.lid].out = @ \o a]
           ELSE UNCHANGED links
        /\ AfterCall(call.conn)
  /\ UNCHANGED <<lockOwner, nextLid, client, stopped, uses>>

\* deviceRead(): one answer a read, a big one in pieces.
DeviceRead(c, lid) ==
  LET out == links[lid].out
  IN /\ Use /\ Serves(c) /\ MayUse(lid, c) /\ out # <<>>
     /\ \E n \in 1..Head(out).pieces :
          links' = [links EXCEPT ![lid].out = IF n = Head(out).pieces THEN Tail(out) ELSE [out EXCEPT ![1].pieces = @ - n]]
     /\ UNCHANGED <<lockOwner, nextLid, conn, calls, client, stopped>>

-----------------------------------------------------------------------------
Next ==
  \/ \E c \in Conns :
       \/ Connect(c) \/ Gone(c) \/ Delete(c)
       \/ \E lock \in BOOLEAN : CreateLink(c, lock)
       \/ \E lid \in DOMAIN links :
            \/ DestroyLink(c, lid) \/ DeviceLock(c, lid) \/ DeviceUnlock(c, lid) \/ DeviceRead(c, lid)
            \/ \E end \in BOOLEAN : DeviceWrite(c, lid, end) \/ WriteTooBig(c, lid, end)
  \/ \E lid \in DOMAIN links : DeviceClear(lid)
  \/ Stop
  \/ CommandEnds

Spec == Init /\ [][Next]_vars

-----------------------------------------------------------------------------
(* Properties *)

\* Every link is of a client that is there, the lock of a link, whatever goes while commands run; a client that
\* goes does not take the socket from under its own call (connectionClosed(), deviceWrite(), gone()).
LinksHaveClients ==
  /\ \A lid \in DOMAIN links : links[lid].conn \in Conns /\ conn[links[lid].conn] = "open"
  /\ lockOwner # -1 => lockOwner \in DOMAIN links
  /\ Cardinality(DOMAIN links) <= MaxLinks
  /\ \A c \in Conns : Busy(c) /\ c \notin stopped => conn[c] \in {"open", "gone"}

\* What runs is a message of the client from its first block to its END: nothing of one too big, given up or cleared
\* (discard, abortLink()).
MessagesRunWhole ==
  \A k \in DOMAIN calls :
    \A i \in DOMAIN calls[k].message : calls[k].message[i] = [n |-> calls[k].message[1].n, i |-> i]
=============================================================================
