--------------------------- MODULE MCDeviceSession ---------------------------
(* Instances of DeviceSession: one function, values on both sides of the threshold. *)
EXTENDS DeviceSession

CONSTANTS a, b

OneQuantity == {[v |-> 0, f |-> "V"], [v |-> 2, f |-> "V"]}

OneReading  == {[v |-> 0, f |-> "V"]}

AtThreshold == [length |-> 2, pre |-> 1, mode |-> "Raising"]
AtClock     == [length |-> 1, pre |-> 0, mode |-> "Time"]
=============================================================================
