------------------------------ MODULE SigrokPort ------------------------------
(***************************************************************************)
(* A meter behind sigrok-cli (device/transports/sigrok.cpp): the port owns *)
(* the process that reads the meter, lets it end in its own time when it   *)
(* closes, and reports one that cannot start or ends as a lost port.       *)
(***************************************************************************)
EXTENDS Naturals

CONSTANTS
  Objects  \* the device objects, 1..n in the order they are created

VARIABLES
  current,  \* the port of the connection, 0 for none
  created,  \* objects created so far
  process,  \* of each object: "None", "Starting", "Running", "Terminating", "Killed", "Ended"
  said      \* how often each object emitted finished()

vars == <<current, created, process, said>>

Init ==
  /\ current = 0 /\ created = 0
  /\ process = [o \in Objects |-> "None"] /\ said = [o \in Objects |-> 0]

\* The constructor, and init(): start() does not wait.
Open ==
  /\ current = 0 /\ created + 1 \in Objects /\ created' = created + 1 /\ current' = created'
  /\ process' = [process EXCEPT ![created'] = "Starting"] /\ UNCHANGED said

Started(o) ==
  /\ process[o] = "Starting" /\ process' = [process EXCEPT ![o] = "Running"]
  /\ UNCHANGED <<current, created, said>>

\* A slip: the process is forgotten with its port.
CloseForgets == current # 0 /\ current' = 0 /\ UNCHANGED <<created, process, said>>

\* close(): a process that runs is asked to end, and says nothing to the port any more.
Close ==
  /\ current # 0 /\ current' = 0
  /\ process' = [process EXCEPT ![current] = IF @ \in {"Starting", "Running"} THEN "Terminating" ELSE @]
  /\ UNCHANGED <<created, said>>

\* FailedToStart, or the process ends: lost(), and the connection closes the port of a process that runs no more.
Ends ==
  /\ current # 0 /\ process[current] \in {"Starting", "Running"}
  /\ process' = [process EXCEPT ![current] = "Ended"]
  /\ said' = [said EXCEPT ![current] = @ + 1] /\ current' = 0 /\ UNCHANGED created

\* terminate() is obeyed, or not ...
Obeys(o) ==
  /\ process[o] = "Terminating" /\ process' = [process EXCEPT ![o] = "Ended"]
  /\ UNCHANGED <<current, created, said>>

\* ... and the two seconds are over.
Kill(o) ==
  /\ process[o] = "Terminating" /\ process' = [process EXCEPT ![o] = "Killed"]
  /\ UNCHANGED <<current, created, said>>

Dies(o) ==
  /\ process[o] = "Killed" /\ process' = [process EXCEPT ![o] = "Ended"]
  /\ UNCHANGED <<current, created, said>>

Next == Open \/ Close \/ Ends \/ \E o \in Objects : Started(o) \/ Obeys(o) \/ Kill(o) \/ Dies(o)

\* No sigrok-cli outlives its port for good, though nobody waits for it.
NoneIsLeft ==
  \A o \in Objects : o # current /\ process[o] \notin {"None", "Ended"} ~> process[o] = "Ended"
=============================================================================
