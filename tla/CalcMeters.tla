------------------------------ MODULE CalcMeters ------------------------------
(***************************************************************************)
(* Calculated meters (device/transports/calc.cpp): a formula over the last *)
(* readings of other meters of the session, calculated ones among them,    *)
(* evaluated by a timer of each.  Values are left out: a reading is a      *)
(* number or none, and as old as it is.  A name stands for one meter.      *)
(***************************************************************************)
EXTENDS Naturals, FiniteSets

CONSTANTS
  Measuring, \* meters that measure, the first ones of a row of numbers
  Chain,     \* calculated ones, the following numbers: a formula uses meters of smaller numbers, so that none goes in a circle
  Stale,     \* kStaleMs, in units of kIntervalMs
  MaxEdits   \* bound: formulas edited

VARIABLES
  formula,   \* variables of each calculated meter
  open,      \* the calculated meters that are connected
  age,       \* of each meter's lastReading(), Gone when there is none or it is older than any formula takes
  valid,     \* meters whose reading is a number, neither held nor overload
  basis,     \* auxiliary: how old the oldest measurement a reading was made of was then
  due,       \* calculated meters whose timer is due
  edits      \* bound

vars == <<formula, open, age, valid, basis, due, edits>>

All  == Measuring \cup Chain
Gone == Stale + 1

Formulas(c) == SUBSET {m \in All : m < c}

Init ==
  /\ formula \in [Chain -> SUBSET All] /\ \A c \in Chain : formula[c] \in Formulas(c)
  /\ open = Chain /\ age = [m \in All |-> Gone] /\ valid = {} /\ basis = [c \in All |-> 0]
  /\ due = {} /\ edits = 0

\* A measurement, which may be an overload.
Measure(m) ==
  /\ age' = [age EXCEPT ![m] = 0] /\ valid' \in {valid \cup {m}, valid \ {m}}
  /\ UNCHANGED <<formula, open, basis, due, edits>>

\* A slip: the inputs' ages are not asked.
HasResultOfAny(c) == formula[c] \subseteq valid

\* currentLine(): an input that is missing, stale or no number leaves no result.
HasResult(c) == formula[c] \subseteq {v \in valid : age[v] <= Stale}

\* tick(): the line is read at once, and decoded to the meter's last reading; a formula may have no result though its
\* inputs are there (a division by zero).
Tick(c) ==
  /\ c \in due /\ due' = due \ {c}
  /\ age' = [age EXCEPT ![c] = 0]
  /\ \/ /\ HasResult(c) /\ valid' = valid \cup {c}
        /\ \E oldest \in {0} \cup {age[v] + basis[v] : v \in formula[c]} :
             (\A v \in formula[c] : age[v] + basis[v] <= oldest) /\ basis' = [basis EXCEPT ![c] = oldest]
     \/ valid' = valid \ {c} /\ basis' = [basis EXCEPT ![c] = 0]
  /\ UNCHANGED <<formula, open, edits>>

\* open() with the formula of the settings; the last reading stands until the first tick.
Edit(c, f) ==
  /\ edits < MaxEdits /\ edits' = edits + 1
  /\ formula' = [formula EXCEPT ![c] = f] /\ open' = open \cup {c} /\ due' = due \ {c}
  /\ UNCHANGED <<age, valid, basis>>

\* close(): the timer stops, the last reading stands.
Close(c) ==
  /\ c \in open /\ open' = open \ {c} /\ due' = due \ {c}
  /\ UNCHANGED <<formula, age, valid, basis, edits>>

\* A quarter of a second, after every timer that was due.
Wait ==
  /\ due = {} /\ due' = open
  /\ age' = [m \in All |-> IF age[m] = Gone THEN Gone ELSE age[m] + 1]
  /\ UNCHANGED <<formula, open, valid, basis, edits>>

Next ==
  \/ \E m \in Measuring : Measure(m)
  \/ \E c \in Chain : Tick(c) \/ Close(c) \/ \E f \in Formulas(c) : Edit(c, f)
  \/ Wait

\* A calculated reading is a number only while the measurements it was made of are recent: each link of a chain adds
\* its three seconds at most, and while all of a chain go on only the wait for its next tick.
ResultsAreRecent ==
  \A c \in Chain \cap valid :
    LET links == c - Cardinality(Measuring)
    IN /\ basis[c] <= links * Stale
       /\ open = Chain /\ edits = 0 => basis[c] <= Stale + links - 1
=============================================================================
