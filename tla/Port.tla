--------------------------------- MODULE Port ---------------------------------
(***************************************************************************)
(* What a port, of whatever kind, promises the connection that holds it    *)
(* (device/transports/, as MeterConnection::openPort and portLost use      *)
(* them): one is held at a time; a port says finished() only while it is   *)
(* held, once, and is given up with it.                                    *)
(***************************************************************************)
EXTENDS Naturals

CONSTANT Objects  \* the port objects, each created once

VARIABLES
  held,  \* the port the connection has, 0 for none
  said   \* how often each object has emitted finished()

portVars == <<held, said>>

Init == held = 0 /\ said = [o \in Objects |-> 0]

\* Transport::create and open().
Take(o) == held = 0 /\ said[o] = 0 /\ held' = o /\ UNCHANGED said

\* Transport::close by the connection.
GiveBack == held # 0 /\ held' = 0 /\ UNCHANGED said

\* finished(), whose handler portLost() closes the port.
Lose == held # 0 /\ held' = 0 /\ said' = [said EXCEPT ![held] = 1]

Spec == Init /\ [][(\E o \in Objects : Take(o)) \/ GiveBack \/ Lose]_portVars
=============================================================================
