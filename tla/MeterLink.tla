------------------------------ MODULE MeterLink ------------------------------
(***************************************************************************)
(* What a connection promises its controller (device/meterconnection.h,    *)
(* LinkState): a port is held in exactly the states that claim one, Error  *)
(* is entered from a held port only and left by reopening, and nothing but *)
(* open() and close() changes whether the connection is wanted.            *)
(***************************************************************************)
VARIABLES
  wanted,  \* isWanted()
  link,    \* linkState()
  open     \* isOpen()

linkVars == <<wanted, link, open>>

\* The states that claim a port.
Up == {"Connecting", "Connected", "Timeout"}

Init == wanted = FALSE /\ link = "Closed" /\ open = FALSE

Open  == wanted' = TRUE /\ link' = "Connecting" /\ open' = TRUE
Close == wanted' = FALSE /\ link' = "Closed" /\ open' = FALSE

\* open() that fails: the port of before is gone already, the state is not told.
OpenFails == wanted' = FALSE /\ open' = FALSE /\ UNCHANGED link

Frame   == open /\ link' = "Connected" /\ UNCHANGED <<wanted, open>>
Silence == open /\ link' = "Timeout" /\ UNCHANGED <<wanted, open>>
Lose    == wanted /\ open /\ link' = "Error" /\ open' = FALSE /\ UNCHANGED wanted
Reopen  == wanted /\ ~open /\ link' = "Connecting" /\ open' = TRUE /\ UNCHANGED wanted

Next == (~wanted /\ (Open \/ OpenFails)) \/ Close \/ Frame \/ Silence \/ Lose \/ Reopen

Spec == Init /\ [][Next]_linkVars
=============================================================================
