-------------------------- MODULE MCRecordingStore --------------------------
(***************************************************************************)
(* Instances of RecordingStore: two functions, values on both sides of the *)
(* threshold, an overload.  Beside the recording ("store") the readings    *)
(* table ("table"), which has a store of its own for the readings of the   *)
(* meters chosen: a behaviour is one of either.                            *)
(***************************************************************************)
EXTENDS RecordingStore

CONSTANTS Meters, Ids, LogCapacity, Keeps, Benches, Midnight, MaxReadings, TableUses  \* of ReadingsTable

ASSUME TableAssumption ==
  /\ MaxReadings \in Nat /\ LogCapacity \in Nat \ {0} /\ Midnight \in Nat /\ Ids \subseteq Nat
  /\ Keeps # {} /\ Keeps \subseteq Nat \ {0}
  /\ \A bench \in Benches : bench.chosen \in Seq(Meters)

VARIABLES part, open, logs, chosen, links, table, sources, gap, last

tableOnly == <<open, logs, chosen, links, table, sources, gap, last>>
storeOnly == <<store, unit, now, saved>>

Table == INSTANCE ReadingsTable WITH Functions <- {"V", "Ohm"}, MaxUses <- TableUses

StoreInit ==
  /\ part = "store" /\ Init
  /\ open = <<>> /\ logs = <<>> /\ chosen = <<>> /\ links = {} /\ table = <<>> /\ sources = <<>> /\ gap = FALSE /\ last = 0

StoreNext == Next /\ UNCHANGED <<part, tableOnly>>

MCInit ==
  \/ StoreInit
  \/ part = "table" /\ Table!Init /\ Init /\ store = NewStore(CHOOSE setup \in Setups : TRUE)

MCNext ==
  \/ part = "store" /\ StoreNext
  \/ part = "table" /\ Table!Next /\ UNCHANGED <<part, storeOnly>>

MCSpec == MCInit /\ [][MCNext]_<<part, vars, tableOnly>>

\* The recording by itself.
StoreSpec == StoreInit /\ [][StoreNext]_<<part, vars, tableOnly>>

-----------------------------------------------------------------------------

R(v, f) == [v |-> v, f |-> f]

\* An overload shown in the other function says nothing about the function, but tells its unit.
BothFunctions == {R(0, "V"), R(2, "V"), R(Gap, "Ohm"), R(2, "Ohm")}

S(length, pre, mode) == [length |-> length, pre |-> pre, mode |-> mode]

OneSetup  == {S(2, 1, "Raising")}
TwoSetups == {S(2, 1, "Raising"), S(0, 0, "Time")}

OldFile == [unit |-> "degC", series |-> << [t |-> 0, v |-> 1, f |-> "degC", at |-> 0, own |-> FALSE] >>]
OneFile == {OldFile}
NoFile  == {}

NoBench == [hidden |-> {}, chosen |-> <<>>]
OneBench == [hidden |-> {<<1, 0>>}, chosen |-> <<1>>]
TwoBenches == {NoBench, OneBench}

-----------------------------------------------------------------------------
\* The readings table holds what its meters' recorders hold, merged by time, and shows what it holds, whatever was
\* chosen, paused, cleared, connected and loaded before (applyTableSources(), connectTableSources()).
TableIsTrue == part = "table" => Table!TableIsTrue
=============================================================================
