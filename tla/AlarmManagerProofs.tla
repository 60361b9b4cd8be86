------------------------- MODULE AlarmManagerProofs -------------------------
(***************************************************************************)
(* What AlarmManager keeps for every set of alarm lists, every stream of   *)
(* readings and every length of time.                                      *)
(***************************************************************************)
EXTENDS AlarmManager, TLAPS, FiniteSetTheorems, WellFoundedInduction

\* The part of TypeOK that the other invariants rest on: one state per alarm.
StateTyped ==
  /\ alarms \in AlarmLists \cup {<<>>}
  /\ state \in [DOMAIN alarms -> States]
  /\ signals \in [DOMAIN alarms -> {"none", "raised", "cleared"}]

-----------------------------------------------------------------------------
\* Among the alarms of one name there is a last one, the one whose state setAlarms() copies.
LEMMA LastExists ==
  ASSUME NEW n \in Nat, NEW S \in SUBSET (1..n), S # {}
  PROVE  \E j \in S : \A k \in S : k <= j
<1> DEFINE above(j) == {x \in 1..n : x > j}
           Above    == {above(j) : j \in S}
           Order    == StrictSubsetOrdering(1..n)
<1>1. IsWellFoundedOn(Order, SUBSET (1..n))
  <2>1. IsFiniteSet(1..n)
    BY FS_Interval
  <2>2. FiniteSubsetsOf(1..n) = SUBSET (1..n)
    BY <2>1, FS_FiniteSubsetsOfFinite
  <2> QED
    BY <2>2, FS_StrictSubsetOrderingWellFounded
<1>2. Above \subseteq SUBSET (1..n) /\ Above # {}
  OBVIOUS
<1>3. PICK m \in Above : \A y \in Above : <<y, m>> \notin Order
  <2> HIDE DEF Order, Above
  <2> QED
    BY <1>1, <1>2, WFMin
<1>4. PICK j \in S : m = above(j)
  OBVIOUS
<1>5. ASSUME NEW k \in S PROVE k <= j
  <2>1. SUFFICES ASSUME k > j PROVE FALSE
    OBVIOUS
  <2>2. above(k) \subseteq above(j)
    BY <2>1
  <2>3. k \in above(j) /\ k \notin above(k)
    BY <2>1
  <2>4. <<above(k), m>> \in Order
    BY <1>4, <2>2, <2>3 DEF StrictSubsetOrdering
  <2> QED
    BY <1>3, <2>4
<1> QED
  BY <1>5

LEMMA FedTyped ==
  ASSUME NEW al, NEW s \in States, NEW t, NEW rd, al.enabled \in BOOLEAN
  PROVE  Fed(al, s, t, rd) \in States
BY DEF Fed, Evaluate, States, Active

\* No reading turns a disabled alarm on.
LEMMA DisabledStaysOff ==
  ASSUME NEW al, NEW t, NEW rd, al.enabled = FALSE
  PROVE  Fed(al, "Off", t, rd) = "Off"
BY DEF Fed, Evaluate

\* A silence alarm is never left pending by a reading.
LEMMA SilenceNeverPends ==
  ASSUME NEW al, NEW s \in States, s # "Pending", NEW t, NEW rd, al.condition = "NoReadings"
  PROVE  Fed(al, s, t, rd) # "Pending"
BY DEF Fed

\* What setAlarms() gives alarm i is either off or the state of an enabled alarm's namesake in the old list.
LEMMA SetAlarmsStates ==
  ASSUME StateTyped, NEW list \in AlarmLists, SetAlarms(list), NEW i \in DOMAIN list
  PROVE  \/ state'[i] = "Off" /\ since'[i] = 0
         \/ /\ list[i].enabled
            /\ \E j \in DOMAIN alarms : /\ alarms[j].name = list[i].name
                                        /\ state'[i] = state[j] /\ since'[i] = since[j]
<1> DEFINE old == {j \in DOMAIN alarms : alarms[j].name = list[i].name /\ list[i].enabled}
           from == CHOOSE j \in old : \A k \in old : k <= j
<1>1. /\ state'[i] = IF old = {} THEN "Off" ELSE state[from]
      /\ since'[i] = IF old = {} THEN 0 ELSE since[from]
  BY DEF SetAlarms
<1>2. CASE old = {}
  BY <1>1, <1>2
<1>3. CASE old # {}
  <2>1. PICK n \in Nat : DOMAIN alarms = 1..n
    <3>1. CASE alarms = <<>>
      BY <3>1, <1>3
    <3>2. CASE alarms \in AlarmLists
      BY <3>2, AlarmListsAssumption
    <3> QED
      BY <3>1, <3>2 DEF StateTyped
  <2>2. \E j \in old : \A k \in old : k <= j
    BY <2>1, <1>3, LastExists
  <2>3. from \in old
    BY <2>2
  <2> QED
    BY <1>1, <1>3, <2>3
<1> QED
  BY <1>2, <1>3

-----------------------------------------------------------------------------
(* One state per alarm, and a disabled alarm is off. *)

StateInv == StateTyped /\ DisabledIsOff

LEMMA StateInvInit == Init => StateInv
BY DEF Init, StateInv, StateTyped, DisabledIsOff

LEMMA StateInvNext == StateInv /\ [Next]_vars => StateInv'
<1> SUFFICES ASSUME StateInv, [Next]_vars PROVE StateInv'
  OBVIOUS
<1> USE DEF StateInv
<1>1. ASSUME NEW list \in AlarmLists, SetAlarms(list) PROVE StateInv'
  <2>1. alarms' = list /\ DOMAIN state' = DOMAIN list /\ signals' = Quietly(list)
    BY <1>1 DEF SetAlarms
  <2>2. ASSUME NEW i \in DOMAIN list PROVE state'[i] \in States
    BY <1>1, <2>2, SetAlarmsStates DEF StateTyped, States
  <2>3. state' \in [DOMAIN list -> States]
    BY <1>1, <2>2 DEF SetAlarms
  <2>4. StateTyped'
    BY <2>1, <2>3 DEF StateTyped, Quietly
  <2>5. DisabledIsOff'
    BY <1>1, <2>1, SetAlarmsStates DEF DisabledIsOff
  <2> QED
    BY <2>4, <2>5
<1>2. ASSUME NEW rd \in Readings, Feed(rd) PROVE StateInv'
  <2>1. \A i \in DOMAIN alarms : alarms[i].enabled \in BOOLEAN
    BY AlarmListsAssumption DEF StateTyped
  <2>2. StateTyped'
    BY <1>2, <2>1, FedTyped DEF Feed, StateTyped, SignalOf
  <2>3. DisabledIsOff'
    BY <1>2, <2>1, DisabledStaysOff DEF Feed, DisabledIsOff
  <2> QED
    BY <2>2, <2>3
<1>3. ASSUME NEW on \in BOOLEAN, SetConnected(on) PROVE StateInv'
  BY <1>3 DEF SetConnected, StateTyped, DisabledIsOff, States
<1>4. CASE Tick
  BY <1>4 DEF Tick, Silent, StateTyped, DisabledIsOff, States
<1>5. ASSUME NEW i \in DOMAIN state, Acknowledge(i) PROVE StateInv'
  BY <1>5 DEF Acknowledge, StateTyped, DisabledIsOff, States, Quietly
<1>6. CASE AcknowledgeAll
  BY <1>6 DEF AcknowledgeAll, StateTyped, DisabledIsOff, States, Quietly
<1>7. CASE Pass
  BY <1>7 DEF Pass, StateTyped, DisabledIsOff, Quietly
<1>8. CASE UNCHANGED vars
  BY <1>8 DEF vars, StateTyped, DisabledIsOff
<1> QED
  BY <1>1, <1>2, <1>3, <1>4, <1>5, <1>6, <1>7, <1>8 DEF Next

LEMMA StateInvHolds == Spec => []StateInv
BY StateInvInit, StateInvNext, PTL DEF Spec

\* A disabled alarm is off in every state, for every list the user may set up.
THEOREM DisabledAlarmsAreOff == Spec => []DisabledIsOff
<1>1. StateInv => DisabledIsOff
  BY DEF StateInv
<1> QED
  BY <1>1, StateInvHolds, PTL

\* TypeOK without the parts that StateTyped has.
ClocksTyped ==
  /\ since \in [DOMAIN alarms -> 0..MaxTime]
  /\ lastReading \in -1..MaxTime /\ silenceFrom \in -1..MaxTime
  /\ now \in 0..MaxTime

LEMMA ClocksTypedNext == StateInv /\ ClocksTyped /\ [Next]_vars => ClocksTyped'
<1> SUFFICES ASSUME StateInv, ClocksTyped, [Next]_vars PROVE ClocksTyped'
  OBVIOUS
<1>0. StateTyped
  BY DEF StateInv
<1>1. ASSUME NEW list \in AlarmLists, SetAlarms(list) PROVE ClocksTyped'
  <2>1. alarms' = list /\ DOMAIN since' = DOMAIN list
    BY <1>1 DEF SetAlarms
  <2>2. \A i \in DOMAIN list : since'[i] \in 0..MaxTime
    BY <1>0, <1>1, SetAlarmsStates, TimeAssumption DEF ClocksTyped
  <2>3. since' \in [DOMAIN list -> 0..MaxTime]
    BY <1>1, <2>2 DEF SetAlarms
  <2> QED
    BY <1>1, <2>1, <2>3 DEF SetAlarms, ClocksTyped
<1>2. ASSUME NEW rd \in Readings, Feed(rd) PROVE ClocksTyped'
  <2>1. \A i \in DOMAIN alarms : FedSince(alarms[i], state[i], since[i], rd) \in 0..MaxTime
    BY DEF FedSince, ClocksTyped
  <2>2. since' \in [DOMAIN alarms -> 0..MaxTime]
    BY <1>2, <2>1 DEF Feed
  <2>3. /\ alarms' = alarms
        /\ lastReading' \in -1..MaxTime /\ silenceFrom' \in -1..MaxTime /\ now' \in 0..MaxTime
    BY <1>2, TimeAssumption DEF Feed, ClocksTyped
  <2> QED
    BY <2>2, <2>3 DEF ClocksTyped
<1>3. ASSUME NEW on \in BOOLEAN, SetConnected(on) PROVE ClocksTyped'
  BY <1>3, TimeAssumption DEF SetConnected, ClocksTyped
<1>4. CASE Tick
  BY <1>4 DEF Tick, ClocksTyped
<1>5. ASSUME NEW i \in DOMAIN state, Acknowledge(i) PROVE ClocksTyped'
  BY <1>5 DEF Acknowledge, ClocksTyped
<1>6. CASE AcknowledgeAll
  BY <1>6 DEF AcknowledgeAll, ClocksTyped
<1>7. CASE Pass
  BY <1>7, TimeAssumption DEF Pass, ClocksTyped
<1>8. CASE UNCHANGED vars
  BY <1>8 DEF vars, ClocksTyped
<1> QED
  BY <1>1, <1>2, <1>3, <1>4, <1>5, <1>6, <1>7, <1>8 DEF Next

\* The types of all variables: one state and one start time per alarm, after every edit of the list.
THEOREM TypeCorrect == Spec => []TypeOK
<1> DEFINE TickedTyped == ticked \in BOOLEAN
<1>0. Init => TickedTyped
  BY DEF Init
<1>1. Init => ClocksTyped
  BY TimeAssumption DEF Init, ClocksTyped
<1>2. TickedTyped /\ [Next]_vars => TickedTyped'
  BY DEF Next, vars, SetAlarms, Feed, SetConnected, Tick, Acknowledge, AcknowledgeAll, Pass
<1>3. StateInv /\ ClocksTyped /\ TickedTyped => TypeOK
  BY DEF StateInv, StateTyped, ClocksTyped, TypeOK
<1> QED
  BY <1>0, <1>1, <1>2, <1>3, StateInvHolds, ClocksTypedNext, PTL DEF Spec

-----------------------------------------------------------------------------
(* A silence is raised, provided that no edit turns an alarm of another condition into a silence under the name  *)
(* it has (setAlarms() would carry its pending state over, which tick() never leaves).                        *)

NamesKeepSilence ==
  \A old, new \in AlarmLists : \A j \in DOMAIN old, i \in DOMAIN new :
    old[j].name = new[i].name => (old[j].condition = "NoReadings" <=> new[i].condition = "NoReadings")

SilenceNotPending == \A i \in DOMAIN alarms : alarms[i].condition = "NoReadings" => state[i] # "Pending"

SilenceInv == StateInv /\ SilenceNotPending /\ SilenceRaises

LEMMA SilenceInvNext ==
  ASSUME NamesKeepSilence
  PROVE  SilenceInv /\ [Next]_vars => SilenceInv'
<1> SUFFICES ASSUME SilenceInv, [Next]_vars PROVE SilenceNotPending' /\ SilenceRaises'
  BY StateInvNext DEF SilenceInv
<1>0. StateTyped
  BY DEF SilenceInv, StateInv
<1>1. ASSUME NEW list \in AlarmLists, SetAlarms(list) PROVE SilenceNotPending' /\ SilenceRaises'
  <2>1. alarms' = list /\ ticked' = FALSE
    BY <1>1 DEF SetAlarms
  <2>2. ASSUME NEW i \in DOMAIN list, list[i].condition = "NoReadings" PROVE state'[i] # "Pending"
    <3>1. CASE state'[i] = "Off"
      BY <3>1
    <3>2. ASSUME NEW j \in DOMAIN alarms, alarms[j].name = list[i].name, state'[i] = state[j]
          PROVE  state'[i] # "Pending"
      <4>1. alarms \in AlarmLists
        BY <1>0, <3>2 DEF StateTyped
      <4>2. alarms[j].condition = "NoReadings"
        BY <2>2, <3>2, <4>1, NamesKeepSilence DEF NamesKeepSilence
      <4> QED
        BY <3>2, <4>2 DEF SilenceInv, SilenceNotPending
    <3> QED
      BY <1>0, <1>1, <3>1, <3>2, SetAlarmsStates
  <2> QED
    BY <2>1, <2>2 DEF SilenceNotPending, SilenceRaises
<1>2. ASSUME NEW rd \in Readings, Feed(rd) PROVE SilenceNotPending' /\ SilenceRaises'
  BY <1>0, <1>2, SilenceNeverPends DEF SilenceInv, StateTyped, Feed, SilenceNotPending, SilenceRaises
<1>3. ASSUME NEW on \in BOOLEAN, SetConnected(on) PROVE SilenceNotPending' /\ SilenceRaises'
  BY <1>0, <1>3 DEF SilenceInv, StateTyped, SetConnected, SilenceNotPending, SilenceRaises
<1>4. CASE Tick
  <2>1. SilenceNotPending'
    BY <1>0, <1>4 DEF SilenceInv, StateTyped, Tick, SilenceNotPending
  <2>2. ASSUME NEW i \in DOMAIN alarms, Silent(i)' PROVE state'[i] \in Active
    <3>1. Silent(i) /\ alarms[i].condition = "NoReadings"
      BY <1>4, <2>2 DEF Tick, Silent, SilentSince
    <3>2. state[i] \in {"Off", "Raised", "Acknowledged"}
      BY <1>0, <3>1 DEF SilenceInv, SilenceNotPending, StateTyped, States
    <3> QED
      BY <1>4, <3>1, <3>2 DEF Tick, Active
  <2> QED
    BY <1>4, <2>1, <2>2 DEF SilenceRaises, Tick, Active
<1>5. ASSUME NEW i \in DOMAIN state, Acknowledge(i) PROVE SilenceNotPending' /\ SilenceRaises'
  BY <1>0, <1>5 DEF SilenceInv, StateTyped, Acknowledge, SilenceNotPending, SilenceRaises
<1>6. CASE AcknowledgeAll
  BY <1>0, <1>6 DEF SilenceInv, StateTyped, AcknowledgeAll, SilenceNotPending, SilenceRaises
<1>7. CASE Pass
  BY <1>0, <1>7 DEF SilenceInv, Pass, SilenceNotPending, SilenceRaises
<1>8. CASE UNCHANGED vars
  BY <1>8 DEF vars, SilenceInv, SilenceNotPending, SilenceRaises, Silent, SilentSince
<1> QED
  BY <1>1, <1>2, <1>3, <1>4, <1>5, <1>6, <1>7, <1>8 DEF Next

\* When no edit makes a silence alarm out of one of another condition, every tick of a silent meter has the alarm
\* raised.
THEOREM SilenceIsRaised == ASSUME NamesKeepSilence PROVE Spec => []SilenceRaises
<1>1. Init => SilenceInv
  BY StateInvInit DEF Init, SilenceInv, SilenceNotPending, SilenceRaises
<1>2. SilenceInv /\ [Next]_vars => SilenceInv'
  BY SilenceInvNext
<1>3. SilenceInv => SilenceRaises
  BY DEF SilenceInv
<1> QED
  BY <1>1, <1>2, <1>3, PTL DEF Spec

\* Under the same condition cleared() always answers a raised().
THEOREM ClearedAnswersRaised == ASSUME NamesKeepSilence PROVE Spec => ClearedWasRaised
<1> DEFINE A == \A i \in DOMAIN signals' : signals'[i] = "cleared" => state[i] \in Active
<1>1. SilenceInv /\ [Next]_vars => [A]_vars
  <2> SUFFICES ASSUME SilenceInv, Next PROVE A
    OBVIOUS
  <2>0. StateTyped /\ DisabledIsOff /\ SilenceNotPending
    BY DEF SilenceInv, StateInv
  <2>1. ASSUME NEW list \in AlarmLists, SetAlarms(list) PROVE A
    BY <2>1 DEF SetAlarms, Quietly
  <2>2. ASSUME NEW rd \in Readings, Feed(rd) PROVE A
    BY <2>0, <2>2 DEF Feed, SignalOf, StateTyped, DisabledIsOff, SilenceNotPending, States, Active
  <2>3. ASSUME NEW on \in BOOLEAN, SetConnected(on) PROVE A
    BY <2>0, <2>3 DEF SetConnected, StateTyped, States, Active
  <2>4. CASE Tick
    BY <2>4 DEF Tick
  <2>5. ASSUME NEW i \in DOMAIN state, Acknowledge(i) PROVE A
    BY <2>5 DEF Acknowledge, Quietly
  <2>6. CASE AcknowledgeAll
    BY <2>6 DEF AcknowledgeAll, Quietly
  <2>7. CASE Pass
    BY <2>7 DEF Pass, Quietly
  <2> QED
    BY <2>1, <2>2, <2>3, <2>4, <2>5, <2>6, <2>7 DEF Next
<1>2. Init => SilenceInv
  BY StateInvInit DEF Init, SilenceInv, SilenceNotPending, SilenceRaises
<1>3. SilenceInv /\ [Next]_vars => SilenceInv'
  BY SilenceInvNext
<1> QED
  BY <1>1, <1>2, <1>3, PTL DEF Spec, ClearedWasRaised

-----------------------------------------------------------------------------
(* The names in the order they raised (m_raiseOrder), which displayColor() goes through. *)

\* Counting up, for a set: what holds at none and goes on from each to the next holds up to the end.
LEMMA HoldsUpTo ==
  ASSUME NEW n \in Nat, NEW S, 0 \in S, \A k \in 0..n : k < n /\ k \in S => k + 1 \in S
  PROVE  \A k \in 0..n : k \in S
<1> DEFINE T == {k \in 0..n : k \notin S}
<1>1. SUFFICES ASSUME T # {} PROVE FALSE
  OBVIOUS
<1>2. T \subseteq Nat
  OBVIOUS
<1>3. PICK m \in T : \A y \in T : ~(y < m)
  <2> HIDE DEF T
  <2>1. PICK m \in T : \A y \in T : <<y, m>> \notin OpToRel(<, Nat)
    BY <1>1, <1>2, NatLessThanWellFounded, WFMin, Zenon
  <2>2. \A y \in T : ~(y < m)
    BY <2>1, <1>2, Zenon DEF OpToRel
  <2> QED  BY <2>2
<1>4. m \in 0..n /\ m \notin S
  OBVIOUS
<1>5. m # 0
  BY <1>4
<1>6. m - 1 \in 0..n /\ m - 1 < n /\ m - 1 < m /\ m - 1 + 1 = m
  BY <1>4, <1>5
<1>7. m - 1 \in S
  BY <1>3, <1>6
<1> QED  BY <1>4, <1>6, <1>7

\* Among the alarms of one name there is a first one, the one whose colour displayColor() takes.
LEMMA FirstExists ==
  ASSUME NEW n \in Nat, NEW S \in SUBSET (1..n), S # {}
  PROVE  \E i \in S : \A j \in S : i <= j
<1>1. S \subseteq Nat
  OBVIOUS
<1>2. PICK i \in S : \A y \in S : <<y, i>> \notin OpToRel(<, Nat)
  BY <1>1, NatLessThanWellFounded, WFMin, Zenon
<1>3. \A y \in S : ~(y < i)
  BY <1>1, <1>2, Zenon DEF OpToRel
<1> QED  BY <1>1, <1>3

Elements(s) == {s[k] : k \in 1..Len(s)}

LEMMA ElementsOfAppend ==
  ASSUME NEW S, NEW s \in Seq(S), NEW x \in S
  PROVE  Append(s, x) \in Seq(S) /\ Elements(s) \subseteq Elements(Append(s, x)) /\ x \in Elements(Append(s, x))
<1> DEFINE l == Append(s, x)
<1>1. /\ l \in Seq(S) /\ Len(s) \in Nat /\ Len(l) = Len(s) + 1
      /\ l[Len(s) + 1] = x /\ \A k \in 1..Len(s) : l[k] = s[k]
  OBVIOUS
<1> HIDE DEF l
<1>2. Elements(s) \subseteq Elements(l)
  BY <1>1 DEF Elements
<1>3. Len(s) + 1 \in 1..Len(l)
  BY <1>1
<1>4. x \in Elements(l)
  BY <1>1, <1>3 DEF Elements
<1> QED  BY <1>1, <1>2, <1>4 DEF l

\* removeAll(), name by name.
Removal(g, names, n) ==
  g = [k \in 0..Len(names) |->
         IF k = 0 THEN <<>> ELSE IF names[k] = n THEN g[k - 1] ELSE Append(g[k - 1], names[k])]

LEMMA RemovalExists ==
  ASSUME NEW names, NEW n, Len(names) \in Nat
  PROVE  \E g : Removal(g, names, n)
<1> DEFINE N == Len(names)
           Next1(x, k) == IF names[k] = n THEN x ELSE Append(x, names[k])
           Upto(g, m) == g = [k \in 0..m |-> IF k = 0 THEN <<>> ELSE Next1(g[k - 1], k)]
           S == {m \in 0..N : \E g : Upto(g, m)}
<1> HIDE DEF Next1
<1>1. 0 \in S
  <2> DEFINE g == [k \in 0..0 |-> <<>>]
  <2>1. [k \in 0..0 |-> IF k = 0 THEN <<>> ELSE Next1(g[k - 1], k)] = g
    <3>1. \A k \in 0..0 : k = 0
      OBVIOUS
    <3> QED  BY <3>1
  <2>2. \E h : Upto(h, 0)
    BY <2>1
  <2> QED  BY <2>2
<1>2. ASSUME NEW m \in 0..N, m < N, m \in S PROVE m + 1 \in S
  <2>1. PICK g : Upto(g, m)
    BY <1>2
  <2> DEFINE h == [k \in 0..(m + 1) |-> IF k = m + 1 THEN Next1(g[m], m + 1) ELSE g[k]]
  <2>2. \A k \in 0..(m + 1) : h[k] = IF k = 0 THEN <<>> ELSE Next1(h[k - 1], k)
    <3> SUFFICES ASSUME NEW k \in 0..(m + 1) PROVE h[k] = IF k = 0 THEN <<>> ELSE Next1(h[k - 1], k)
      OBVIOUS
    <3>1. CASE k = m + 1
      <4>1. h[k - 1] = g[m] /\ k # 0
        BY <3>1
      <4> QED  BY <3>1, <4>1
    <3>2. CASE k # m + 1
      <4>1. k \in 0..m /\ (k # 0 => h[k - 1] = g[k - 1]) /\ h[k] = g[k]
        BY <3>2
      <4>2. g[k] = IF k = 0 THEN <<>> ELSE Next1(g[k - 1], k)
        BY <2>1, <4>1
      <4> QED  BY <4>1, <4>2
    <3> QED  BY <3>1, <3>2
  <2>3. Upto(h, m + 1)
    BY <2>2
  <2>4. m + 1 \in 0..N
    BY <1>2
  <2> HIDE DEF h
  <2>5. \E e : Upto(e, m + 1)
    <3> HIDE DEF Upto
    <3> QED  BY <2>3
  <2> HIDE DEF Upto
  <2> QED  BY <2>4, <2>5
<1>3. \A k \in 0..N : k \in S
  <2> HIDE DEF S
  <2> QED  BY <1>1, <1>2, HoldsUpTo
<1>4. \E g : Upto(g, N)
  BY <1>3
<1> QED  BY <1>4 DEF Removal, Next1

LEMMA WithoutHas ==
  ASSUME NEW S, NEW names \in Seq(S), NEW n
  PROVE  Without(names, n) \in Seq(S) /\ Elements(names) \subseteq Elements(Without(names, n)) \cup {n}
<1> DEFINE N == Len(names)
           F == CHOOSE g : Removal(g, names, n)
<1>0. N \in Nat /\ \A k \in 1..N : names[k] \in S
  OBVIOUS
<1>1. Removal(F, names, n)
  BY <1>0, RemovalExists
<1>2. Without(names, n) = F[N]
  BY DEF Without, Removal
<1> HIDE DEF F
<1>3. F[0] = <<>> /\ \A k \in 1..N : F[k] = IF names[k] = n THEN F[k - 1] ELSE Append(F[k - 1], names[k])
  <2> HIDE DEF N
  <2>1. F = [k \in 0..N |-> IF k = 0 THEN <<>> ELSE IF names[k] = n THEN F[k - 1] ELSE Append(F[k - 1], names[k])]
    BY <1>1 DEF Removal, N
  <2>2. 0 \in 0..N /\ \A k \in 1..N : k \in 0..N /\ k # 0
    BY <1>0
  <2>3. F[0] = <<>>
    BY <2>1, <2>2
  <2>4. ASSUME NEW k \in 1..N PROVE F[k] = IF names[k] = n THEN F[k - 1] ELSE Append(F[k - 1], names[k])
    BY <2>1, <2>2
  <2> QED  BY <2>3, <2>4
<1> DEFINE T == {k \in 0..N : F[k] \in Seq(S) /\ \A j \in 1..k : names[j] \in Elements(F[k]) \cup {n}}
<1> HIDE DEF N
<1>4. 0 \in T
  <2>1. F[0] \in Seq(S) /\ 0 \in 0..N /\ \A j \in 1..0 : FALSE
    BY <1>0, <1>3
  <2> QED  BY <2>1
<1>5. ASSUME NEW k \in 0..N, k < N, k \in T PROVE k + 1 \in T
  <2>1. k + 1 \in 1..N /\ k + 1 \in 0..N /\ k + 1 - 1 = k
    BY <1>0, <1>5
  <2>2. F[k + 1] = IF names[k + 1] = n THEN F[k] ELSE Append(F[k], names[k + 1])
    BY <1>3, <2>1
  <2>3. F[k] \in Seq(S) /\ \A j \in 1..k : names[j] \in Elements(F[k]) \cup {n}
    BY <1>5
  <2>4. /\ F[k + 1] \in Seq(S) /\ Elements(F[k]) \subseteq Elements(F[k + 1])
        /\ names[k + 1] \in Elements(F[k + 1]) \cup {n}
    <3>1. CASE names[k + 1] = n
      BY <2>2, <2>3, <3>1
    <3>2. CASE names[k + 1] # n
      <4>1. names[k + 1] \in S /\ F[k + 1] = Append(F[k], names[k + 1])
        BY <1>0, <2>1, <2>2, <3>2
      <4> QED  BY <2>3, <4>1, ElementsOfAppend
    <3> QED  BY <3>1, <3>2
  <2>5. \A j \in 1..(k + 1) : j \in 1..k \/ j = k + 1
    BY <1>5
  <2>6. \A j \in 1..(k + 1) : names[j] \in Elements(F[k + 1]) \cup {n}
    BY <2>3, <2>4, <2>5
  <2> QED  BY <2>1, <2>4, <2>6
<1>6. N \in T
  <2> HIDE DEF T
  <2>1. \A k \in 0..N : k \in T
    BY <1>0, <1>4, <1>5, HoldsUpTo
  <2> QED  BY <1>0, <2>1
<1>7. F[N] \in Seq(S) /\ \A j \in 1..N : names[j] \in Elements(F[N]) \cup {n}
  BY <1>6
<1> HIDE DEF T
<1> QED  BY <1>2, <1>7 DEF Elements, N

\* The slot, alarm by alarm.
Raising(g, order, sig) ==
  g = [i \in 0..Len(alarms) |->
         IF i = 0 THEN order
         ELSE IF sig[i] # "raised" THEN g[i - 1]
         ELSE Append(Without(g[i - 1], alarms[i].name), alarms[i].name)]

LEMMA RaisingExists ==
  ASSUME NEW order, NEW sig, Len(alarms) \in Nat
  PROVE  \E g : Raising(g, order, sig)
<1> DEFINE N == Len(alarms)
           Next1(x, k) == IF sig[k] # "raised" THEN x ELSE Append(Without(x, alarms[k].name), alarms[k].name)
           Upto(g, m) == g = [k \in 0..m |-> IF k = 0 THEN order ELSE Next1(g[k - 1], k)]
           S == {m \in 0..N : \E g : Upto(g, m)}
<1> HIDE DEF Next1
<1>1. 0 \in S
  <2> DEFINE g == [k \in 0..0 |-> order]
  <2>1. [k \in 0..0 |-> IF k = 0 THEN order ELSE Next1(g[k - 1], k)] = g
    <3>1. \A k \in 0..0 : k = 0
      OBVIOUS
    <3> QED  BY <3>1
  <2>2. \E h : Upto(h, 0)
    BY <2>1
  <2> QED  BY <2>2
<1>2. ASSUME NEW m \in 0..N, m < N, m \in S PROVE m + 1 \in S
  <2>1. PICK g : Upto(g, m)
    BY <1>2
  <2> DEFINE h == [k \in 0..(m + 1) |-> IF k = m + 1 THEN Next1(g[m], m + 1) ELSE g[k]]
  <2>2. \A k \in 0..(m + 1) : h[k] = IF k = 0 THEN order ELSE Next1(h[k - 1], k)
    <3> SUFFICES ASSUME NEW k \in 0..(m + 1) PROVE h[k] = IF k = 0 THEN order ELSE Next1(h[k - 1], k)
      OBVIOUS
    <3>1. CASE k = m + 1
      <4>1. h[k - 1] = g[m] /\ k # 0
        BY <3>1
      <4> QED  BY <3>1, <4>1
    <3>2. CASE k # m + 1
      <4>1. k \in 0..m /\ (k # 0 => h[k - 1] = g[k - 1]) /\ h[k] = g[k]
        BY <3>2
      <4>2. g[k] = IF k = 0 THEN order ELSE Next1(g[k - 1], k)
        BY <2>1, <4>1
      <4> QED  BY <4>1, <4>2
    <3> QED  BY <3>1, <3>2
  <2>3. Upto(h, m + 1)
    BY <2>2
  <2>4. m + 1 \in 0..N
    BY <1>2
  <2> HIDE DEF h
  <2>5. \E e : Upto(e, m + 1)
    <3> HIDE DEF Upto
    <3> QED  BY <2>3
  <2> HIDE DEF Upto
  <2> QED  BY <2>4, <2>5
<1>3. \A k \in 0..N : k \in S
  <2> HIDE DEF S
  <2> QED  BY <1>1, <1>2, HoldsUpTo
<1>4. \E g : Upto(g, N)
  BY <1>3
<1> QED  BY <1>4 DEF Raising, Next1

\* Nobody who raised before is lost, and everybody who raises is there.
LEMMA ReorderedHas ==
  ASSUME NEW S, NEW order \in Seq(S), NEW sig, Len(alarms) \in Nat, \A i \in 1..Len(alarms) : alarms[i].name \in S
  PROVE  /\ Reordered(order, sig) \in Seq(S)
         /\ Elements(order) \subseteq Elements(Reordered(order, sig))
         /\ \A i \in 1..Len(alarms) : sig[i] = "raised" => alarms[i].name \in Elements(Reordered(order, sig))
<1> DEFINE N == Len(alarms)
           F == CHOOSE g : Raising(g, order, sig)
<1>1. Raising(F, order, sig)
  BY RaisingExists
<1>2. Reordered(order, sig) = F[N]
  BY DEF Reordered, Raising
<1> HIDE DEF F
<1>3. /\ F[0] = order
      /\ \A i \in 1..N : F[i] = IF sig[i] # "raised" THEN F[i - 1]
                                ELSE Append(Without(F[i - 1], alarms[i].name), alarms[i].name)
  <2> HIDE DEF N
  <2>1. F = [i \in 0..N |-> IF i = 0 THEN order
                            ELSE IF sig[i] # "raised" THEN F[i - 1]
                            ELSE Append(Without(F[i - 1], alarms[i].name), alarms[i].name)]
    BY <1>1 DEF Raising, N
  <2>2. 0 \in 0..N /\ \A k \in 1..N : k \in 0..N /\ k # 0
    <3>1. N \in Nat
      BY DEF N
    <3> QED  BY <3>1
  <2>3. F[0] = order
    BY <2>1, <2>2
  <2>4. ASSUME NEW i \in 1..N
        PROVE  F[i] = IF sig[i] # "raised" THEN F[i - 1]
                      ELSE Append(Without(F[i - 1], alarms[i].name), alarms[i].name)
    BY <2>1, <2>2
  <2> QED  BY <2>3, <2>4
<1> DEFINE T == {k \in 0..N : /\ F[k] \in Seq(S) /\ Elements(order) \subseteq Elements(F[k])
                              /\ \A j \in 1..k : sig[j] = "raised" => alarms[j].name \in Elements(F[k])}
<1>4. N \in Nat /\ \A i \in 1..N : alarms[i].name \in S
  OBVIOUS
<1> HIDE DEF N
<1>5. 0 \in T
  BY <1>3, <1>4
<1>6. ASSUME NEW k \in 0..N, k < N, k \in T PROVE k + 1 \in T
  <2>1. k + 1 \in 1..N /\ k + 1 \in 0..N /\ k + 1 - 1 = k
    BY <1>4, <1>6
  <2> DEFINE n == alarms[k + 1].name
  <2>2. n \in S /\ F[k + 1] = IF sig[k + 1] # "raised" THEN F[k] ELSE Append(Without(F[k], n), n)
    BY <1>3, <1>4, <2>1
  <2>3. /\ F[k] \in Seq(S) /\ Elements(order) \subseteq Elements(F[k])
        /\ \A j \in 1..k : sig[j] = "raised" => alarms[j].name \in Elements(F[k])
    BY <1>6
  <2>4. /\ F[k + 1] \in Seq(S) /\ Elements(F[k]) \subseteq Elements(F[k + 1])
        /\ sig[k + 1] = "raised" => n \in Elements(F[k + 1])
    <3> HIDE DEF n
    <3>1. CASE sig[k + 1] # "raised"
      BY <2>2, <2>3, <3>1
    <3>2. CASE sig[k + 1] = "raised"
      <4> DEFINE w == Without(F[k], n)
      <4>1. w \in Seq(S) /\ Elements(F[k]) \subseteq Elements(w) \cup {n}
        BY <2>3, WithoutHas
      <4>2. F[k + 1] = Append(w, n)
        BY <2>2, <3>2
      <4> HIDE DEF w
      <4>3. /\ Append(w, n) \in Seq(S) /\ Elements(w) \subseteq Elements(Append(w, n))
            /\ n \in Elements(Append(w, n))
        BY <2>2, <4>1, ElementsOfAppend
      <4> QED  BY <4>1, <4>2, <4>3
    <3> QED  BY <3>1, <3>2
  <2>5. \A j \in 1..(k + 1) : j \in 1..k \/ j = k + 1
    BY <1>6
  <2>6. \A j \in 1..(k + 1) : sig[j] = "raised" => alarms[j].name \in Elements(F[k + 1])
    BY <2>3, <2>4, <2>5
  <2>7. Elements(order) \subseteq Elements(F[k + 1])
    BY <2>3, <2>4
  <2> QED  BY <2>1, <2>4, <2>6, <2>7
<1>7. N \in T
  <2> HIDE DEF T
  <2>1. \A k \in 0..N : k \in T
    BY <1>4, <1>5, <1>6, HoldsUpTo
  <2> QED  BY <1>4, <2>1
<1>8. /\ F[N] \in Seq(S) /\ Elements(order) \subseteq Elements(F[N])
      /\ \A j \in 1..N : sig[j] = "raised" => alarms[j].name \in Elements(F[N])
  BY <1>7
<1> HIDE DEF T
<1> QED  BY <1>2, <1>8 DEF N

\* An alarm that is raised, acknowledged or not, has its name among those that raised: an edit leaves the names alone
\* and gives an alarm the state of one of the same name.
AllNames == UNION {{list[i].name : i \in DOMAIN list} : list \in AlarmLists}

NamesKept ==
  /\ raiseOrder \in Seq(AllNames)
  /\ \A i \in DOMAIN alarms : state[i] \in Active => alarms[i].name \in Elements(raiseOrder)

LEMMA AlarmsAreNamed ==
  ASSUME StateTyped
  PROVE  /\ Len(alarms) \in Nat /\ DOMAIN alarms = 1..Len(alarms)
         /\ \A i \in 1..Len(alarms) : alarms[i].name \in AllNames
<1>1. CASE alarms = <<>>
  BY <1>1
<1>2. CASE alarms \in AlarmLists
  BY <1>2, AlarmListsAssumption DEF AllNames
<1> QED  BY <1>1, <1>2 DEF StateTyped

LEMMA NamesKeptNext == StateInv /\ NamesKept /\ [Next]_vars => NamesKept'
<1> SUFFICES ASSUME StateInv, NamesKept, [Next]_vars PROVE NamesKept'
  OBVIOUS
<1>0. /\ StateTyped /\ Len(alarms) \in Nat /\ DOMAIN alarms = 1..Len(alarms)
      /\ \A i \in 1..Len(alarms) : alarms[i].name \in AllNames
      /\ raiseOrder \in Seq(AllNames)
      /\ \A i \in DOMAIN alarms : state[i] \in States /\ (state[i] \in Active => alarms[i].name \in Elements(raiseOrder))
  BY AlarmsAreNamed DEF StateInv, NamesKept, StateTyped
<1>1. ASSUME NEW sig, raiseOrder' = Reordered(raiseOrder, sig), alarms' = alarms,
             \A i \in DOMAIN alarms : state'[i] \in Active => state[i] \in Active \/ sig[i] = "raised"
      PROVE  NamesKept'
  <2>1. /\ raiseOrder' \in Seq(AllNames) /\ Elements(raiseOrder) \subseteq Elements(raiseOrder')
        /\ \A i \in 1..Len(alarms) : sig[i] = "raised" => alarms[i].name \in Elements(raiseOrder')
    BY <1>0, <1>1, ReorderedHas
  <2>2. \A i \in DOMAIN alarms : state'[i] \in Active => alarms[i].name \in Elements(raiseOrder')
    BY <1>0, <1>1, <2>1
  <2> QED  BY <1>1, <2>1, <2>2 DEF NamesKept
<1>2. ASSUME raiseOrder' = raiseOrder, alarms' = alarms,
             \A i \in DOMAIN alarms : state'[i] \in Active => state[i] \in Active
      PROVE  NamesKept'
  BY <1>0, <1>2 DEF NamesKept
<1>3. ASSUME NEW list \in AlarmLists, SetAlarms(list) PROVE NamesKept'
  <2>1. raiseOrder' = raiseOrder /\ alarms' = list
    BY <1>3 DEF SetAlarms
  <2>2. ASSUME NEW i \in DOMAIN list, state'[i] \in Active PROVE list[i].name \in Elements(raiseOrder)
    <3>1. "Off" \notin Active
      BY DEF Active
    <3>2. PICK j \in DOMAIN alarms : alarms[j].name = list[i].name /\ state'[i] = state[j]
      BY <1>0, <1>3, <2>2, <3>1, SetAlarmsStates
    <3> QED  BY <1>0, <2>2, <3>2
  <2> QED  BY <1>0, <2>1, <2>2 DEF NamesKept
<1>4. ASSUME NEW rd \in Readings, Feed(rd) PROVE NamesKept'
  <2> DEFINE next == [i \in DOMAIN alarms |-> Fed(alarms[i], state[i], since[i], rd)]
             sig  == [i \in DOMAIN alarms |-> SignalOf(alarms[i], state[i], next[i])]
  <2>1. raiseOrder' = Reordered(raiseOrder, sig) /\ alarms' = alarms /\ state' = next
    BY <1>4 DEF Feed
  <2>2. ASSUME NEW i \in DOMAIN alarms, state'[i] \in Active PROVE state[i] \in Active \/ sig[i] = "raised"
    <3>1. state'[i] = Fed(alarms[i], state[i], since[i], rd) /\ sig[i] = SignalOf(alarms[i], state[i], state'[i])
      BY <2>1
    <3>2. state'[i] \in {"Off", "Pending", "Raised", state[i]}
      <4>1. Evaluate(alarms[i], state[i], since[i], rd) \in {"Off", "Pending", "Raised", state[i]}
        <5>1. alarms[i].enabled \in BOOLEAN /\ state[i] \in {"Off", "Pending", "Raised", "Acknowledged"}
          <6>1. CASE alarms = <<>>
            BY <6>1
          <6>2. CASE alarms \in AlarmLists
            BY <1>0, <6>2, AlarmListsAssumption DEF States
          <6> QED  BY <1>0, <6>1, <6>2 DEF StateTyped
        <5>2. CASE ~alarms[i].enabled
          BY <5>2 DEF Evaluate
        <5>3. CASE alarms[i].enabled /\ state[i] = "Off"
          BY <5>3 DEF Evaluate, Active
        <5>4. CASE alarms[i].enabled /\ state[i] = "Pending"
          BY <5>4 DEF Evaluate, Active
        <5>5. CASE alarms[i].enabled /\ state[i] \in Active
          BY <5>5 DEF Evaluate, Active
        <5> QED  BY <5>1, <5>2, <5>3, <5>4, <5>5 DEF Active
      <4>2. Fed(alarms[i], state[i], since[i], rd) \in {"Off", state[i], Evaluate(alarms[i], state[i], since[i], rd)}
        BY DEF Fed
      <4> QED  BY <3>1, <4>1, <4>2
    <3>3. CASE state'[i] = state[i]
      BY <2>2, <3>3
    <3>4. CASE state'[i] # state[i]
      <4>1. state'[i] = "Raised"
        BY <2>2, <3>2, <3>4 DEF Active
      <4> QED  BY <3>1, <4>1 DEF SignalOf
    <3> QED  BY <3>3, <3>4
  <2> HIDE DEF sig, next
  <2> QED  BY <1>1, <2>1, <2>2
<1>5. ASSUME NEW on \in BOOLEAN, SetConnected(on) PROVE NamesKept'
  <2>1. raiseOrder' = raiseOrder /\ alarms' = alarms /\ \A i \in DOMAIN alarms : state'[i] \in {"Off", state[i]}
    BY <1>5 DEF SetConnected
  <2> QED  BY <1>2, <2>1 DEF Active
<1>6. CASE Tick
  <2> DEFINE sig == [i \in DOMAIN alarms |-> IF Silent(i) /\ state[i] = "Off" THEN "raised" ELSE "none"]
  <2>1. /\ raiseOrder' = Reordered(raiseOrder, sig) /\ alarms' = alarms
        /\ state' = [i \in DOMAIN alarms |-> IF sig[i] = "raised" THEN "Raised" ELSE state[i]]
    BY <1>6 DEF Tick
  <2> HIDE DEF sig
  <2> QED  BY <1>1, <2>1
<1>7. ASSUME NEW i \in DOMAIN state, Acknowledge(i) PROVE NamesKept'
  <2>1. raiseOrder' = raiseOrder /\ alarms' = alarms /\ DOMAIN state = DOMAIN alarms /\ state[i] \in Active
        /\ \A j \in DOMAIN alarms : state'[j] = IF j = i THEN "Acknowledged" ELSE state[j]
    BY <1>0, <1>7 DEF Acknowledge, StateTyped, Active
  <2> QED  BY <1>2, <2>1
<1>8. CASE AcknowledgeAll
  <2>1. raiseOrder' = raiseOrder /\ alarms' = alarms
        /\ \A j \in DOMAIN alarms : state'[j] = IF state[j] = "Raised" THEN "Acknowledged" ELSE state[j]
    BY <1>0, <1>8 DEF AcknowledgeAll, StateTyped
  <2> QED  BY <1>2, <2>1 DEF Active
<1>9. CASE Pass
  BY <1>2, <1>9 DEF Pass
<1>10. CASE UNCHANGED vars
  BY <1>2, <1>10 DEF vars
<1> QED  BY <1>3, <1>4, <1>5, <1>6, <1>7, <1>8, <1>9, <1>10 DEF Next

LEMMA NamesKeptInit == Init => NamesKept
BY DEF Init, NamesKept

LEMMA NamesTint == StateInv /\ NamesKept => RaisedTintsDisplay
<1> SUFFICES ASSUME StateInv, NamesKept PROVE RaisedTintsDisplay
  OBVIOUS
<1> DEFINE tinted(k) == {i \in DOMAIN alarms : alarms[i].name = raiseOrder[k] /\ alarms[i].tint /\ state[i] \in Active}
           held      == {k \in DOMAIN raiseOrder : tinted(k) # {}}
           last      == CHOOSE m \in held : \A n \in held : n <= m
           first     == CHOOSE i \in tinted(last) : \A j \in tinted(last) : i <= j
<1>0. /\ Len(alarms) \in Nat /\ DOMAIN alarms = 1..Len(alarms)
      /\ Len(raiseOrder) \in Nat /\ DOMAIN raiseOrder = 1..Len(raiseOrder)
      /\ \A i \in DOMAIN alarms : state[i] \in Active => alarms[i].name \in Elements(raiseOrder)
  BY AlarmsAreNamed DEF StateInv, NamesKept
<1>1. DisplayAlarm = IF held = {} THEN 0 ELSE first
  BY DEF DisplayAlarm
<1>2. ASSUME NEW i \in DOMAIN alarms, state[i] \in Active, alarms[i].tint PROVE held # {}
  <2>1. PICK k \in 1..Len(raiseOrder) : alarms[i].name = raiseOrder[k]
    BY <1>0, <1>2 DEF Elements
  <2>2. i \in tinted(k)
    BY <1>2, <2>1
  <2> QED  BY <1>0, <2>2
<1>3. ASSUME held # {} PROVE first \in DOMAIN alarms /\ state[first] \in Active /\ alarms[first].tint
  <2>1. \E m \in held : \A n \in held : n <= m
    <3>1. held \in SUBSET (1..Len(raiseOrder))
      BY <1>0
    <3> HIDE DEF held
    <3> QED  BY <1>0, <1>3, <3>1, LastExists
  <2>2. last \in held
    <3> HIDE DEF held
    <3> QED  BY <2>1
  <2>3. tinted(last) # {} /\ tinted(last) \in SUBSET (1..Len(alarms))
    BY <1>0, <2>2
  <2> HIDE DEF last
  <2>4. \E i \in tinted(last) : \A j \in tinted(last) : i <= j
    <3> DEFINE S == tinted(last)
    <3>1. S # {} /\ S \in SUBSET (1..Len(alarms))
      BY <2>3
    <3> HIDE DEF S
    <3>2. \E i \in S : \A j \in S : i <= j
      BY <1>0, <3>1, FirstExists
    <3> QED  BY <3>2 DEF S
  <2>5. first \in tinted(last)
    BY <2>4
  <2> HIDE DEF first
  <2> QED  BY <2>5
<1>4. held # {} => first # 0
  <2> HIDE DEF held, first
  <2> QED  BY <1>0, <1>3
<1> HIDE DEF held, first
<1> QED  BY <1>1, <1>2, <1>3, <1>4 DEF RaisedTintsDisplay

\* However an alarm that tints the display came to be raised or acknowledged, displayColor() finds one that is.
THEOREM RaisedAlarmsTint == Spec => []RaisedTintsDisplay
BY StateInvInit, StateInvNext, NamesKeptInit, NamesKeptNext, NamesTint, PTL DEF Spec
=============================================================================
