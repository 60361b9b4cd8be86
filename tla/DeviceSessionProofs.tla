-------------------------- MODULE DeviceSessionProofs --------------------------
(***************************************************************************)
(* The meters of a session record together, led by one of them, for every  *)
(* set of meters and readings, as long as the lead of a recording still    *)
(* leads when it has ended.  Without that a store that does not lead may   *)
(* keep the start mode: the proof stops where the violation run does.      *)
(***************************************************************************)
EXTENDS SessionWindow, StoreOpsProofs

-----------------------------------------------------------------------------
(* The list of the meters open. *)

LEMMA OpenOfAppend ==
  ASSUME NEW list \in Seq(Meters), IsInjective(list), NEW m \in Meters \ Range(list)
  PROVE  LET more == Append(list, m)
         IN  /\ more \in Seq(Meters) /\ IsInjective(more) /\ Range(more) = Range(list) \cup {m}
             /\ list # <<>> => more # <<>> /\ more[1] = list[1]
             /\ list = <<>> => more[1] = m
<1> DEFINE more == Append(list, m)
<1>1. /\ more \in Seq(Meters) /\ Len(more) = Len(list) + 1 /\ more[Len(list) + 1] = m
      /\ \A i \in 1..Len(list) : more[i] = list[i]
  BY AppendProperties
<1>2. Len(list) \in Nat /\ DOMAIN list = 1..Len(list) /\ DOMAIN more = 1..(Len(list) + 1)
  BY <1>1, LenProperties
<1>3. list = <<>> => Len(list) = 0
  OBVIOUS
<1>4. list # <<>> => Len(list) >= 1
  BY EmptySeq, <1>2
<1> HIDE DEF more
<1>5. more # <<>>
  BY <1>1, <1>2, EmptySeq
<1>6. Range(more) = Range(list) \cup {m}
  <2>1. \A i \in DOMAIN more : more[i] \in Range(list) \cup {m}
    BY <1>1, <1>2 DEF Range
  <2>2. \A x \in Range(list) \cup {m} : \E i \in DOMAIN more : more[i] = x
    BY <1>1, <1>2 DEF Range
  <2> QED  BY <2>1, <2>2 DEF Range
<1>7. IsInjective(more)
  <2> SUFFICES ASSUME NEW i \in DOMAIN more, NEW j \in DOMAIN more, more[i] = more[j] PROVE i = j
    BY DEF IsInjective
  <2>1. \A k \in 1..Len(list) : more[k] # m /\ more[k] = list[k]
    BY <1>1, <1>2 DEF Range
  <2>2. CASE i \in 1..Len(list) /\ j \in 1..Len(list)
    BY <1>2, <2>1, <2>2 DEF IsInjective
  <2>3. CASE ~(i \in 1..Len(list) /\ j \in 1..Len(list))
    BY <1>1, <1>2, <2>1, <2>3
  <2> QED  BY <2>2, <2>3
<1> QED  BY <1>1, <1>2, <1>3, <1>4, <1>5, <1>6, <1>7 DEF more

LEMMA OpenOfRemove ==
  ASSUME NEW list \in Seq(Meters), IsInjective(list), NEW m \in Range(list)
  PROVE  LET less == RemoveFirst(list, m)
         IN  /\ less \in Seq(Meters) /\ IsInjective(less) /\ Range(less) = Range(list) \ {m}
             /\ list[1] # m => less # <<>> /\ less[1] = list[1]
<1> DEFINE n == Len(list)
           less == RemoveFirst(list, m)
<1>1. n \in Nat /\ DOMAIN list = 1..n /\ \A i \in 1..n : list[i] \in Meters
  BY LenProperties, ElementOfSeq
<1>2. PICK k \in 1..n : list[k] = m
  BY <1>1 DEF Range
<1>3. SelectInSeq(list, LAMBDA v : v = m) = k
  <2>1. {i \in 1..n : list[i] = m} = {k}
    BY <1>1, <1>2 DEF IsInjective
  <2>2. Min({k}) = k
    BY <1>2 DEF Min
  <2> QED  BY <2>1, <2>2 DEF SelectInSeq
<1> DEFINE low  == SubSeq(list, 1, k - 1)
           high == SubSeq(list, k + 1, n)
<1>4. less = low \o high
  BY <1>2, <1>3 DEF RemoveFirst, RemoveAt
<1>5. /\ low \in Seq(Meters) /\ Len(low) = k - 1 /\ \A i \in 1..(k - 1) : low[i] = list[i]
      /\ high \in Seq(Meters) /\ Len(high) = n - k /\ \A i \in 1..(n - k) : high[i] = list[k + i]
  OBVIOUS
<1> HIDE DEF low, high, less
<1>6. /\ less \in Seq(Meters) /\ Len(less) = n - 1
      /\ \A i \in 1..(n - 1) : less[i] = IF i < k THEN list[i] ELSE list[i + 1]
  <2> DEFINE both == low \o high
  <2>1. /\ both \in Seq(Meters) /\ Len(both) = Len(low) + Len(high)
        /\ \A i \in 1..(Len(low) + Len(high)) : both[i] = IF i <= Len(low) THEN low[i] ELSE high[i - Len(low)]
    BY <1>5, ConcatProperties, Zenon
  <2> HIDE DEF both
  <2>2. Len(low) = k - 1 /\ Len(low) + Len(high) = n - 1
    BY <1>1, <1>2, <1>5
  <2>3. ASSUME NEW i \in 1..(n - 1) PROVE both[i] = IF i < k THEN list[i] ELSE list[i + 1]
    <3>1. both[i] = IF i <= k - 1 THEN low[i] ELSE high[i - (k - 1)]
      BY <2>1, <2>2
    <3>2. CASE i < k
      <4>1. i \in 1..(k - 1) /\ i <= k - 1
        BY <1>1, <1>2, <3>2
      <4> QED  BY <1>5, <3>1, <3>2, <4>1
    <3>3. CASE ~(i < k)
      <4>1. i - (k - 1) \in 1..(n - k) /\ ~(i <= k - 1) /\ k + (i - (k - 1)) = i + 1
        BY <1>1, <1>2, <3>3
      <4> QED  BY <1>5, <3>1, <3>3, <4>1
    <3> QED  BY <3>2, <3>3
  <2> QED  BY <1>4, <2>1, <2>2, <2>3 DEF both
<1>7. DOMAIN less = 1..(n - 1)
  BY <1>6, LenProperties
<1>8. Range(less) = Range(list) \ {m}
  <2>1. ASSUME NEW i \in 1..(n - 1) PROVE less[i] \in Range(list) \ {m}
    <3>1. PICK j \in 1..n : less[i] = list[j] /\ j # k
      <4>1. CASE i < k
        BY <1>1, <1>2, <1>6, <4>1
      <4>2. CASE ~(i < k)
        <5>1. i + 1 \in 1..n /\ i + 1 # k /\ less[i] = list[i + 1]
          BY <1>1, <1>2, <1>6, <4>2
        <5> QED  BY <5>1
      <4> QED  BY <4>1, <4>2
    <3> QED  BY <1>1, <1>2, <3>1 DEF Range, IsInjective
  <2>2. ASSUME NEW x \in Range(list) \ {m} PROVE \E i \in 1..(n - 1) : less[i] = x
    <3>1. PICK j \in 1..n : list[j] = x
      BY <1>1 DEF Range
    <3>2. j # k
      BY <1>2, <3>1
    <3>3. CASE j < k
      <4>1. j \in 1..(n - 1) /\ less[j] = list[j]
        BY <1>1, <1>2, <1>6, <3>3
      <4> QED  BY <3>1, <4>1
    <3>4. CASE j > k
      <4>1. j - 1 \in 1..(n - 1) /\ less[j - 1] = list[(j - 1) + 1] /\ (j - 1) + 1 = j
        BY <1>1, <1>2, <1>6, <3>4
      <4> QED  BY <3>1, <4>1
    <3> QED  BY <1>1, <1>2, <3>2, <3>3, <3>4
  <2> QED  BY <1>7, <2>1, <2>2 DEF Range
<1>9. IsInjective(less)
  <2> SUFFICES ASSUME NEW i \in 1..(n - 1), NEW j \in 1..(n - 1), less[i] = less[j] PROVE i = j
    BY <1>7 DEF IsInjective
  <2> DEFINE at(x) == IF x < k THEN x ELSE x + 1
  <2>1. at(i) \in 1..n /\ at(j) \in 1..n /\ (at(i) = at(j) => i = j)
    BY <1>1, <1>2
  <2>2. less[i] = list[at(i)] /\ less[j] = list[at(j)]
    BY <1>6
  <2> HIDE DEF at
  <2> QED  BY <1>1, <2>1, <2>2 DEF IsInjective
<1>10. list[1] # m => less # <<>> /\ less[1] = list[1]
  <2> SUFFICES ASSUME list[1] # m PROVE less # <<>> /\ less[1] = list[1]
    OBVIOUS
  <2>1. k > 1 /\ n - 1 >= 1 /\ 1 \in 1..(n - 1)
    BY <1>1, <1>2
  <2>2. less[1] = list[1]
    BY <1>6, <2>1, <1>2
  <2>3. less # <<>>
    BY <1>6, <2>1
  <2> QED  BY <2>2, <2>3
<1> QED  BY <1>6, <1>8, <1>9, <1>10 DEF less

-----------------------------------------------------------------------------
(* What the operations make of the session. *)

Sessions ==
  [stores : [Meters -> Stores], running : Meters \cup {NoMeter}, scope : SUBSET Meters, next : SUBSET Meters]

\* With the meters of list open and the trigger value of: the lead of a recording records and leads on when it has
\* ended; whoever else records is open, in the scope, and holds its start.
Whole(s, list, of) ==
  /\ s \in Sessions
  /\ s.running \in Range(list) \cup {NoMeter}
  /\ s.running # NoMeter => LeadOf(NoMeter, list, of) = s.running /\ s.stores[s.running].state = "Record"
  /\ \A m \in Meters : s.stores[m].state = "Record" =>
       /\ s.running # NoMeter /\ m \in Range(list)
       /\ m # s.running => m \in s.scope /\ s.stores[m].hold

\* Only the store that leads may start by itself.
Led(s, list, of) == \A m \in Range(list) : m # LeadOf(s.running, list, of) => s.stores[m].mode = "Manual"

\* Joined, of a session.
Held(s) ==
  \A m \in Meters \ {s.running} :
    s.stores[m].state = "Record" => s.stores[m].t0 = s.stores[s.running].t0 /\ s.stores[s.running].hold

LEMMA LeadIsOpen ==
  ASSUME NEW list \in Seq(Meters), NEW of
  PROVE  /\ LeadOf(NoMeter, list, of) \in Range(list) \cup {NoMeter}
         /\ Range(list) \subseteq Meters /\ NoMeter \notin Range(list)
<1>1. Range(list) \subseteq Meters
  BY LenProperties, ElementOfSeq DEF Range
<1>2. list # <<>> => list[1] \in Range(list)
  <2>1. list # <<>> => 1 \in DOMAIN list
    BY LenProperties, EmptySeq
  <2> QED  BY <2>1 DEF Range
<1> QED  BY <1>1, <1>2, SessionAssumption DEF LeadOf

\* The store of one meter changes alone: no more stores record.
LEMMA AloneWhole ==
  ASSUME NEW list \in Seq(Meters), NEW of, NEW s, Whole(s, list, of), Led(s, list, of), NEW m \in Range(list),
         NEW store \in Stores, store.mode = s.stores[m].mode,
         store.state = "Record" => s.stores[m].state = "Record",
         m = s.running => store.state = "Record",
         store.state = "Record" /\ s.stores[m].hold => store.hold /\ store.t0 = s.stores[m].t0
  PROVE  LET x == [s EXCEPT !.stores[m] = store]
         IN  Whole(x, list, of) /\ Led(x, list, of) /\ (Held(s) => Held(x))
<1> DEFINE stores1 == [s.stores EXCEPT ![m] = store]
           x == [s EXCEPT !.stores = stores1]
<1>1. m \in Meters /\ NoMeter \notin Meters /\ Range(list) \subseteq Meters
  BY LeadIsOpen, SessionAssumption
<1>2. s \in Sessions /\ stores1 \in [Meters -> Stores] /\ stores1[m] = store
      /\ \A y \in Meters : y # m => stores1[y] = s.stores[y]
  BY <1>1 DEF Whole, Sessions
<1>3. x = [s EXCEPT !.stores[m] = store]
  BY <1>2 DEF Sessions
<1> HIDE DEF stores1
<1>4. x \in Sessions /\ x.stores = stores1 /\ x.running = s.running /\ x.scope = s.scope
  BY <1>2 DEF Sessions
<1> HIDE DEF x
<1>5. \A y \in Meters : x.stores[y].state = "Record" => s.stores[y].state = "Record"
  BY <1>2, <1>4
<1>6. \A y \in Meters : x.stores[y].state = "Record" /\ s.stores[y].hold => x.stores[y].hold /\ x.stores[y].t0 = s.stores[y].t0
  BY <1>2, <1>4
<1>7. s.running # NoMeter => x.stores[s.running].state = "Record"
  BY <1>1, <1>2, <1>4 DEF Whole
<1>8. Whole(x, list, of)
  BY <1>4, <1>5, <1>6, <1>7 DEF Whole
<1>9. Led(x, list, of)
  BY <1>1, <1>2, <1>4 DEF Led
<1>10. Held(s) => Held(x)
  <2> SUFFICES ASSUME Held(s), NEW y \in Meters \ {s.running}, x.stores[y].state = "Record"
               PROVE  x.stores[y].t0 = x.stores[s.running].t0 /\ x.stores[s.running].hold
    BY <1>4 DEF Held
  <2>1. /\ s.running # NoMeter /\ s.stores[y].hold
        /\ s.stores[y].t0 = s.stores[s.running].t0 /\ s.stores[s.running].hold
    BY <1>5 DEF Held, Whole
  <2>2. s.running \in Meters /\ x.stores[s.running].state = "Record"
    BY <1>1, <1>7, <2>1 DEF Whole
  <2> QED  BY <1>6, <2>1, <2>2
<1> QED  BY <1>3, <1>8, <1>9, <1>10

\* The lead's recording starts: those in the scope record on its time base.
LEMMA RecordWithWhole ==
  ASSUME NEW list \in Seq(Meters), NEW of, NEW s \in Sessions, s.running = NoMeter, now \in Int,
         NEW m, m = LeadOf(NoMeter, list, of), m \in Range(list), s.stores[m].state = "Record",
         \A y \in Meters \ {m} : s.stores[y].state # "Record",
         \A y \in Range(list) \ {m} : s.stores[y].mode = "Manual"
  PROVE  LET x == RecordWith(s, m, list) IN Whole(x, list, of) /\ Led(x, list, of) /\ Held(x)
<1> DEFINE with == (Range(list) \ {m}) \cap s.next
           x == RecordWith(s, m, list)
           lead == [s.stores[m] EXCEPT !.hold = @ \/ with # {}]
           at(y) == IF y = m THEN lead ELSE IF y \in with THEN StartAt(s.stores[y], s.stores[m].t0, now) ELSE s.stores[y]
<1>1. Range(list) \subseteq Meters /\ m \in Meters /\ m # NoMeter
  BY LeadIsOpen
<1>2. /\ x.stores = [y \in Meters |-> at(y)] /\ x.running = m /\ x.scope = s.next /\ x.next = Meters
      /\ x = [stores |-> x.stores, running |-> m, scope |-> s.next, next |-> Meters]
  BY DEF RecordWith
<1>3. s.stores[m] \in Stores /\ s.stores[m].t0 \in Int /\ s.next \subseteq Meters
  BY <1>1 DEF Sessions, Stores
<1>4. /\ lead \in Stores /\ lead.state = "Record" /\ lead.t0 = s.stores[m].t0 /\ (with # {} => lead.hold)
      /\ lead.mode = s.stores[m].mode
  <2> DEFINE hold == s.stores[m].hold \/ with # {}
  <2>1. hold \in BOOLEAN /\ lead = [s.stores[m] EXCEPT !.hold = hold] /\ (with # {} => hold = TRUE)
    BY <1>3 DEF Stores
  <2> HIDE DEF hold, lead, with
  <2> QED  BY <1>3, <2>1 DEF Stores
<1>5. \A y \in with : LET f == StartAt(s.stores[y], s.stores[m].t0, now)
                      IN  f \in Stores /\ f.state = "Record" /\ f.mode = s.stores[y].mode /\ f.t0 = s.stores[m].t0 /\ f.hold
  <2> TAKE y \in with
  <2>1. s.stores[y] \in Stores
    BY <1>1 DEF Sessions
  <2> QED  BY <1>3, <2>1, StartAtType, StartAtMode
<1> HIDE DEF lead
<1>6. \A y \in Meters : at(y) \in Stores
  BY <1>4, <1>5 DEF Sessions
<1>7. x \in Sessions
  <2> HIDE DEF x, at
  <2> QED  BY <1>1, <1>2, <1>3, <1>6 DEF Sessions
<1>8. /\ x.stores[m] = lead
      /\ \A y \in with : x.stores[y] = StartAt(s.stores[y], s.stores[m].t0, now)
      /\ \A y \in Meters : y # m /\ y \notin with => x.stores[y] = s.stores[y]
  BY <1>1, <1>2
<1> HIDE DEF x, at
<1>9. \A y \in Meters : x.stores[y].state = "Record" => y = m \/ y \in with
  BY <1>8
<1>10. Whole(x, list, of)
  BY <1>1, <1>2, <1>4, <1>5, <1>7, <1>8, <1>9 DEF Whole
<1>11. Led(x, list, of)
  <2>1. LeadOf(x.running, list, of) = m
    BY <1>1, <1>2 DEF LeadOf
  <2>2. \A y \in Range(list) : y # m => x.stores[y].mode = s.stores[y].mode
    BY <1>1, <1>5, <1>8
  <2> QED  BY <2>1, <2>2 DEF Led
<1>12. Held(x)
  <2> SUFFICES ASSUME NEW y \in Meters \ {m}, x.stores[y].state = "Record"
               PROVE  x.stores[y].t0 = x.stores[m].t0 /\ x.stores[m].hold
    BY <1>2 DEF Held
  <2>1. y \in with
    BY <1>9
  <2> HIDE DEF with
  <2> QED  BY <1>4, <1>5, <1>8, <2>1
<1> QED  BY <1>10, <1>11, <1>12 DEF x

\* All go Live, or stop: nobody records, nobody leads a recording.
LEMMA RestWhole ==
  ASSUME NEW list \in Seq(Meters), NEW of, NEW s \in Sessions, NEW x \in Sessions, x.running = NoMeter,
         \A y \in Meters : x.stores[y].state # "Record" /\ x.stores[y].mode = s.stores[y].mode,
         \A y \in Range(list) : y # LeadOf(NoMeter, list, of) => s.stores[y].mode = "Manual"
  PROVE  Whole(x, list, of) /\ Led(x, list, of) /\ Held(x)
<1>1. Range(list) \subseteq Meters
  BY LeadIsOpen
<1> QED  BY <1>1 DEF Whole, Led, Held

LEMMA LiveWithWhole ==
  ASSUME NEW list \in Seq(Meters), NEW of, NEW s \in Sessions, NEW m \in Range(list), now \in Int,
         \A y \in Range(list) : y # LeadOf(NoMeter, list, of) => s.stores[y].mode = "Manual",
         s.stores[m].state # "Record", \A y \in Meters \ Range(list) : s.stores[y].state # "Record"
  PROVE  /\ LET x == LiveWith(s, m, list) IN Whole(x, list, of) /\ Led(x, list, of) /\ Held(x)
         /\ LET x == StopWith(s, m, list) IN Whole(x, list, of) /\ Led(x, list, of) /\ Held(x)
<1>1. Range(list) \subseteq Meters
  BY LeadIsOpen
<1>2. \A y \in Meters : s.stores[y] \in Stores
  BY DEF Sessions
<1>3. \A y \in Meters : /\ GoLive(s.stores[y], now) \in Stores /\ GoLive(s.stores[y], now).state # "Record"
                        /\ GoLive(s.stores[y], now).mode = s.stores[y].mode
                        /\ Stop(s.stores[y], now) \in Stores /\ Stop(s.stores[y], now).state # "Record"
                        /\ Stop(s.stores[y], now).mode = s.stores[y].mode
  <2> TAKE y \in Meters
  <2>1. s.stores[y] \in Stores
    BY <1>2
  <2>2. GoLive(s.stores[y], now) \in Stores /\ Stop(s.stores[y], now) \in Stores
    BY <2>1, GoLiveType, StopType
  <2>3. GoLive(s.stores[y], now).state = "Live" /\ GoLive(s.stores[y], now).mode = s.stores[y].mode
    BY <2>1, GoLiveMode
  <2>4. Stop(s.stores[y], now).state # "Record" /\ Stop(s.stores[y], now).mode = s.stores[y].mode
    BY <2>1, StopMode
  <2> QED  BY <2>2, <2>3, <2>4
<1>4. ASSUME NEW stores1 \in [Meters -> Stores],
             \A y \in Meters : stores1[y].state # "Record" /\ stores1[y].mode = s.stores[y].mode
      PROVE  LET x == [stores |-> stores1, running |-> NoMeter, scope |-> Meters, next |-> s.next]
             IN  Whole(x, list, of) /\ Led(x, list, of) /\ Held(x)
  <2> DEFINE x == [stores |-> stores1, running |-> NoMeter, scope |-> Meters, next |-> s.next]
  <2>1. x \in Sessions /\ x.running = NoMeter /\ x.stores = stores1
    BY DEF Sessions
  <2> HIDE DEF x
  <2>2. Whole(x, list, of) /\ Led(x, list, of) /\ Held(x)
    BY <1>4, <2>1, RestWhole
  <2> QED  BY <2>2 DEF x
<1>5. LET x == LiveWith(s, m, list) IN Whole(x, list, of) /\ Led(x, list, of) /\ Held(x)
  <2> DEFINE stores1 == [y \in Meters |-> IF y \in Range(list) \ {m} THEN GoLive(s.stores[y], now) ELSE s.stores[y]]
  <2>1. /\ stores1 \in [Meters -> Stores]
        /\ \A y \in Meters : stores1[y].state # "Record" /\ stores1[y].mode = s.stores[y].mode
    BY <1>1, <1>2, <1>3
  <2>2. LiveWith(s, m, list) = [stores |-> stores1, running |-> NoMeter, scope |-> Meters, next |-> s.next]
    BY DEF LiveWith
  <2> HIDE DEF stores1
  <2> QED  BY <1>4, <2>1, <2>2
<1>6. LET x == StopWith(s, m, list) IN Whole(x, list, of) /\ Led(x, list, of) /\ Held(x)
  <2> DEFINE stores1 == [y \in Meters |-> IF y \in Range(list) \ {m} THEN Stop(s.stores[y], now) ELSE s.stores[y]]
  <2>1. /\ stores1 \in [Meters -> Stores]
        /\ \A y \in Meters : stores1[y].state # "Record" /\ stores1[y].mode = s.stores[y].mode
    BY <1>1, <1>2, <1>3
  <2>2. StopWith(s, m, list) = [stores |-> stores1, running |-> NoMeter, scope |-> Meters, next |-> s.next]
    BY DEF StopWith
  <2> HIDE DEF stores1
  <2> QED  BY <1>4, <2>1, <2>2
<1> QED  BY <1>5, <1>6

\* The store of m changes, and where m leads the others follow.
LEMMA FollowWhole ==
  ASSUME NEW list \in Seq(Meters), NEW of, NEW s, Whole(s, list, of), Led(s, list, of), now \in Int,
         NEW m \in Range(list), NEW store \in Stores, store.mode = s.stores[m].mode,
         store.state = "Record" => s.stores[m].state = "Record" \/ m = LeadOf(s.running, list, of),
         store.state = "Record" /\ s.stores[m].state = "Record" /\ s.stores[m].hold =>
           store.hold /\ store.t0 = s.stores[m].t0
  PROVE  LET x == Follow(s, m, store, list, LeadOf(s.running, list, of))
         IN  Whole(x, list, of) /\ Led(x, list, of) /\ (Held(s) => Held(x))
<1> DEFINE lead    == LeadOf(s.running, list, of)
           stores1 == [s.stores EXCEPT ![m] = store]
           set     == [s EXCEPT !.stores = stores1]
<1>1. m \in Meters /\ NoMeter \notin Meters /\ Range(list) \subseteq Meters
  BY LeadIsOpen, SessionAssumption
<1>2. s \in Sessions /\ stores1 \in [Meters -> Stores] /\ stores1[m] = store
      /\ \A y \in Meters : y # m => stores1[y] = s.stores[y]
  BY <1>1 DEF Whole, Sessions
<1>3. set = [s EXCEPT !.stores[m] = store]
  BY <1>2 DEF Sessions
<1>4. Follow(s, m, store, list, lead) =
        IF m # lead \/ store.state = s.stores[m].state THEN set
        ELSE IF store.state = "Record" THEN RecordWith(set, m, list)
        ELSE IF store.state = "Live" THEN LiveWith(set, m, list) ELSE StopWith(set, m, list)
  BY <1>3, Zenon DEF Follow
<1> HIDE DEF stores1
<1>5. set \in Sessions /\ set.stores = stores1 /\ set.running = s.running
  BY <1>2 DEF Sessions
<1> HIDE DEF set
<1>6. s.running # NoMeter => lead = s.running /\ LeadOf(NoMeter, list, of) = s.running
  BY DEF LeadOf, Whole
<1>7. LeadOf(NoMeter, list, of) = lead
  BY <1>6
<1>8. \A y \in Range(list) : y # lead => s.stores[y].mode = "Manual"
  BY DEF Led
<1> HIDE DEF lead
<1>9. CASE m # lead \/ store.state = s.stores[m].state
  <2>1. s.running # NoMeter => s.stores[s.running].state = "Record"
    BY DEF Whole
  <2>2. m = s.running => store.state = "Record"
    BY <1>1, <1>6, <1>9, <2>1
  <2>3. store.state = "Record" => s.stores[m].state = "Record"
    BY <1>9 DEF lead
  <2> DEFINE x == [s EXCEPT !.stores[m] = store]
  <2>4. Whole(x, list, of) /\ Led(x, list, of) /\ (Held(s) => Held(x))
    BY <2>2, <2>3, AloneWhole
  <2> HIDE DEF x
  <2> QED  BY <1>3, <1>4, <1>9, <2>4 DEF lead, x
<1>10. CASE m = lead /\ store.state # s.stores[m].state
  <2>1. \A y \in Range(list) : y # m => set.stores[y].mode = "Manual"
    BY <1>1, <1>2, <1>5, <1>8, <1>10
  <2>2. m = LeadOf(NoMeter, list, of)
    BY <1>7, <1>10
  <2>3. CASE store.state = "Record"
    <3>1. s.running = NoMeter
      BY <1>6, <1>10, <2>3 DEF Whole
    <3>2. \A y \in Meters \ {m} : set.stores[y].state # "Record"
      BY <1>2, <1>5, <3>1 DEF Whole
    <3> DEFINE x == RecordWith(set, m, list)
    <3>3. Whole(x, list, of) /\ Led(x, list, of) /\ Held(x)
      BY <1>2, <1>5, <2>1, <2>2, <2>3, <3>1, <3>2, RecordWithWhole
    <3> HIDE DEF x
    <3> QED  BY <1>4, <1>10, <2>3, <3>3 DEF lead, x
  <2>4. CASE store.state # "Record"
    <3>1. \A y \in Meters \ Range(list) : set.stores[y].state # "Record"
      BY <1>2, <1>5 DEF Whole
    <3>2. \A y \in Range(list) : y # LeadOf(NoMeter, list, of) => set.stores[y].mode = "Manual"
      BY <2>1, <2>2
    <3> DEFINE x == LiveWith(set, m, list)
               y == StopWith(set, m, list)
    <3>3. Whole(x, list, of) /\ Led(x, list, of) /\ Held(x) /\ Whole(y, list, of) /\ Led(y, list, of) /\ Held(y)
      BY <1>2, <1>5, <2>4, <3>1, <3>2, LiveWithWhole
    <3> HIDE DEF x, y
    <3> QED  BY <1>4, <1>10, <2>4, <3>3 DEF lead, x, y
  <2> QED  BY <2>3, <2>4
<1> QED  BY <1>9, <1>10

WithSetup(s, list, of) == [s EXCEPT !.stores = SetUp(s, list, of).stores]

\* Setting the stores up changes the session in their start modes only, which now are for the lead.
LEMMA SetUpWhole ==
  ASSUME NEW list \in Seq(Meters), NEW of \in Meters \cup {AnyMeter}, NEW s, Whole(s, list, of), now \in Int
  PROVE  LET x == WithSetup(s, list, of)
         IN  /\ Whole(x, list, of) /\ Led(x, list, of) /\ (Held(s) => Held(x))
             /\ x.stores = SetUp(s, list, of).stores /\ x.running = s.running /\ x.scope = s.scope /\ x.next = s.next
             /\ SetUp(s, list, of).watch \in [Meters -> Meters \cup {NoMeter, AnyMeter}]
             /\ \A m \in Meters : x.stores[m].state = s.stores[m].state /\ x.stores[m].t0 = s.stores[m].t0
<1> DEFINE set     == SetUp(s, list, of)
           lead    == LeadOf(s.running, list, of)
           watches == [m \in Meters |-> IF m \notin Range(list) THEN AnyMeter ELSE IF m = lead THEN of ELSE NoMeter]
           before(m) == IF m \in Open THEN watch[m] ELSE AnyMeter
           mode(m) == IF m = lead THEN TheSetup.mode ELSE "Manual"
           x       == [s EXCEPT !.stores = set.stores]
<1>1. Range(list) \subseteq Meters
  BY LeadIsOpen
<1>2. s \in Sessions /\ \A m \in Meters : s.stores[m] \in Stores
  BY DEF Whole, Sessions
<1>3. /\ set.watch = watches
      /\ set.stores = [m \in Meters |-> IF m \notin Range(list) THEN s.stores[m]
                                        ELSE SetupOf(s.stores[m], before(m), watches[m], mode(m))]
  BY DEF SetUp
<1>4. ASSUME NEW m \in Meters, NEW old, NEW new, NEW as \in Modes
      PROVE  LET y == SetupOf(s.stores[m], old, new, as)
             IN  /\ y \in Stores /\ y.mode = as
                 /\ y.state = s.stores[m].state /\ y.t0 = s.stores[m].t0 /\ y.hold = s.stores[m].hold
  <2> DEFINE setup   == [TheSetup EXCEPT !.mode = as]
             applied == ApplySetup(s.stores[m], setup, now)
             last    == IF old = new THEN applied.last ELSE Gap
  <2>1. setup.length \in Nat /\ setup.pre \in Nat /\ setup.mode = as /\ setup.mode \in Modes
    BY SessionAssumption
  <2> HIDE DEF setup
  <2>2. applied \in Stores
    BY <1>2, <2>1, ApplySetupType
  <2>3. /\ applied.state = s.stores[m].state /\ applied.t0 = s.stores[m].t0 /\ applied.hold = s.stores[m].hold
        /\ applied.mode = as
    BY <1>2, <2>1, ApplySetupMode
  <2>4. SetupOf(s.stores[m], old, new, as) = [applied EXCEPT !.last = last]
    BY DEF SetupOf, setup
  <2> HIDE DEF applied
  <2>5. last \in Int
    BY <2>2 DEF Stores, Gap
  <2> HIDE DEF last
  <2> QED  BY <2>2, <2>3, <2>4, <2>5 DEF Stores
<1>5. \A m \in Meters : mode(m) \in Modes /\ (m # lead => mode(m) = "Manual")
  BY SessionAssumption DEF Modes
<1>6. watches \in [Meters -> Meters \cup {NoMeter, AnyMeter}]
  OBVIOUS
<1> HIDE DEF set, lead, mode, before, watches
<1>7. \A m \in Meters :
        /\ set.stores[m] \in Stores /\ set.stores[m].state = s.stores[m].state
        /\ set.stores[m].t0 = s.stores[m].t0 /\ set.stores[m].hold = s.stores[m].hold
        /\ m \in Range(list) /\ m # lead => set.stores[m].mode = "Manual"
  <2> TAKE m \in Meters
  <2>1. CASE m \notin Range(list)
    BY <1>2, <1>3, <2>1
  <2>2. CASE m \in Range(list)
    <3> DEFINE y == SetupOf(s.stores[m], before(m), watches[m], mode(m))
    <3>1. set.stores[m] = y
      BY <1>3, <2>2
    <3>2. /\ y \in Stores /\ y.mode = mode(m)
          /\ y.state = s.stores[m].state /\ y.t0 = s.stores[m].t0 /\ y.hold = s.stores[m].hold
      BY <1>4, <1>5
    <3> HIDE DEF y
    <3> QED  BY <1>5, <3>1, <3>2
  <2> QED  BY <2>1, <2>2
<1>8. set.stores \in [Meters -> Stores]
  <2>1. \E F : set.stores = [m \in Meters |-> F[m]]
    BY <1>3
  <2> QED  BY <1>7, <2>1
<1>9. x \in Sessions /\ x.stores = set.stores /\ x.running = s.running /\ x.scope = s.scope /\ x.next = s.next
  BY <1>2, <1>8 DEF Sessions
<1> HIDE DEF x
<1>10. s.running \in Meters \cup {NoMeter}
  BY <1>2 DEF Sessions
<1>11. Whole(x, list, of)
  BY <1>7, <1>9, <1>10 DEF Whole
<1>12. Led(x, list, of)
  BY <1>1, <1>7, <1>9 DEF Led, lead
<1>13. Held(s) => Held(x)
  <2> SUFFICES ASSUME Held(s), NEW y \in Meters \ {s.running}, x.stores[y].state = "Record"
               PROVE  x.stores[y].t0 = x.stores[s.running].t0 /\ x.stores[s.running].hold
    BY <1>9 DEF Held
  <2>1. s.stores[y].state = "Record" /\ s.running # NoMeter
    BY <1>7, <1>9 DEF Whole
  <2> QED  BY <1>7, <1>9, <1>10, <2>1 DEF Held
<1>14. WithSetup(s, list, of) = x
  BY DEF WithSetup, x, set
<1> QED  BY <1>3, <1>6, <1>7, <1>9, <1>11, <1>12, <1>13, <1>14 DEF set

\* What the session goes by stays with every store.
LEMMA SameWhole ==
  ASSUME NEW list \in Seq(Meters), NEW of, NEW s, Whole(s, list, of), Led(s, list, of), NEW x \in Sessions,
         x.running = s.running, x.scope = s.scope, \A y \in Meters : Same(s.stores[y], x.stores[y])
  PROVE  Whole(x, list, of) /\ Led(x, list, of) /\ (Held(s) => Held(x))
<1>1. Range(list) \subseteq Meters /\ s.running \in Meters \cup {NoMeter}
  BY LeadIsOpen DEF Whole
<1>2. Whole(x, list, of)
  BY <1>1 DEF Whole, Same
<1>3. Led(x, list, of)
  BY <1>1 DEF Led, Same
<1>4. Held(s) => Held(x)
  <2> SUFFICES ASSUME Held(s), NEW y \in Meters \ {s.running}, x.stores[y].state = "Record"
               PROVE  x.stores[y].t0 = x.stores[s.running].t0 /\ x.stores[s.running].hold
    BY DEF Held
  <2>1. s.stores[y].state = "Record" /\ s.running # NoMeter
    BY DEF Whole, Same
  <2> QED  BY <1>1, <2>1 DEF Held, Same
<1> QED  BY <1>2, <1>3, <1>4

\* The recording that runs is cleared, by its lead: all of it starts anew at this moment.
LEMMA ClearedWhole ==
  ASSUME NEW s, Whole(s, opened, trigger), Led(s, opened, trigger), opened \in Seq(Meters), now \in Int,
         NEW m \in Open, m = LeadOf(s.running, opened, trigger), s.stores[m].state = "Record",
         NEW store \in Stores, store.state = "Record", store.mode = s.stores[m].mode
  PROVE  LET x == ClearedWithIt(s, m, store)
         IN  /\ Whole(x, opened, trigger) /\ Led(x, opened, trigger) /\ x.running = s.running
             /\ Held(s) /\ store.t0 = now /\ store.hold = s.stores[m].hold => Held(x)
<1> DEFINE new(y)  == IF y = m THEN store
                      ELSE IF y \in Open /\ s.stores[y].state = "Record" THEN Clear(s.stores[y], now) ELSE s.stores[y]
           stores1 == [y \in Meters |-> new(y)]
           x       == [s EXCEPT !.stores = stores1]
<1>1. ClearedWithIt(s, m, store) = x
  BY DEF ClearedWithIt
<1>2. s \in Sessions /\ Open \subseteq Meters /\ m \in Meters
  BY LeadIsOpen DEF Whole, Open
<1>3. \A y \in Meters : s.stores[y] \in Stores
  BY <1>2 DEF Sessions
<1>4. m = s.running
  <2>1. s.running # NoMeter
    BY <1>2 DEF Whole
  <2> QED  BY <2>1 DEF LeadOf
<1>5. \A y \in Meters : /\ new(y) \in Stores /\ new(y).state = s.stores[y].state /\ new(y).mode = s.stores[y].mode
                        /\ y # m => new(y).hold = s.stores[y].hold
                        /\ y # m /\ s.stores[y].state = "Record" => new(y).t0 = now
  <2> TAKE y \in Meters
  <2>1. CASE y = m
    BY <2>1
  <2>2. CASE y # m /\ s.stores[y].state = "Record"
    <3>1. y \in Open
      BY <2>2 DEF Whole, Open
    <3>2. new(y) = Clear(s.stores[y], now)
      BY <2>2, <3>1
    <3> HIDE DEF new
    <3>3. s.stores[y] \in Stores
      BY <1>3
    <3>4. Clear(s.stores[y], now) \in Stores
      BY <3>3, ClearType
    <3>5. /\ Clear(s.stores[y], now).state = s.stores[y].state /\ Clear(s.stores[y], now).mode = s.stores[y].mode
          /\ Clear(s.stores[y], now).hold = s.stores[y].hold /\ Clear(s.stores[y], now).t0 = now
      BY <3>3, ClearMode
    <3> QED  BY <2>2, <3>2, <3>4, <3>5
  <2>3. CASE y # m /\ s.stores[y].state # "Record"
    BY <1>3, <2>3
  <2> QED  BY <2>1, <2>2, <2>3
<1>6. new(m) = store
  OBVIOUS
<1> HIDE DEF new
<1>7. stores1 \in [Meters -> Stores] /\ \A y \in Meters : stores1[y] = new(y)
  BY <1>5
<1> HIDE DEF stores1
<1>8. x \in Sessions /\ x.stores = stores1 /\ x.running = s.running /\ x.scope = s.scope
  BY <1>2, <1>7 DEF Sessions
<1> HIDE DEF x
<1>9. Whole(x, opened, trigger)
  BY <1>2, <1>4, <1>5, <1>6, <1>7, <1>8 DEF Whole
<1>10. Led(x, opened, trigger)
  BY <1>2, <1>5, <1>7, <1>8 DEF Led, Open
<1>11. Held(s) /\ store.t0 = now /\ store.hold = s.stores[m].hold => Held(x)
  <2> SUFFICES ASSUME Held(s), store.t0 = now, store.hold = s.stores[m].hold,
                      NEW y \in Meters \ {m}, x.stores[y].state = "Record"
               PROVE  x.stores[y].t0 = x.stores[m].t0 /\ x.stores[m].hold
    BY <1>4, <1>8 DEF Held
  <2> QED  BY <1>2, <1>4, <1>5, <1>6, <1>7, <1>8 DEF Held
<1> QED  BY <1>1, <1>8, <1>9, <1>10, <1>11

\* The lead starts.
LEMMA StartedWhole ==
  ASSUME NEW s, Whole(s, opened, trigger), Led(s, opened, trigger), opened \in Seq(Meters), now \in Int,
         NEW m \in Open, m = LeadOf(s.running, opened, trigger)
  PROVE  LET x == Started(s, m)
         IN  /\ Whole(x, opened, trigger) /\ Led(x, opened, trigger)
             /\ s.stores[m].state # "Record" /\ Held(s) => Held(x)
             /\ s.stores[m].state = "Record" => x.running = s.running
<1> DEFINE begun == Begin(s.stores[m], 0, now)
           cleared == ClearedWithIt(s, m, begun)
           followed == Follow(s, m, begun, opened, m)
<1>1. m \in Meters /\ s.stores[m] \in Stores
  BY LeadIsOpen DEF Whole, Sessions, Open
<1>2. begun \in Stores /\ begun.state = "Record" /\ begun.mode = s.stores[m].mode
  BY <1>1, BeginType, BeginMode
<1>3. Started(s, m) = IF s.stores[m].state = "Record" THEN cleared ELSE followed
  BY DEF Started
<1> HIDE DEF begun
<1>4. s.stores[m].state = "Record" => Whole(cleared, opened, trigger) /\ Led(cleared, opened, trigger) /\ cleared.running = s.running
  BY <1>2, ClearedWhole
<1>5. s.stores[m].state # "Record" =>
        Whole(followed, opened, trigger) /\ Led(followed, opened, trigger) /\ (Held(s) => Held(followed))
  BY <1>2, FollowWhole DEF Open
<1> HIDE DEF cleared, followed
<1> QED  BY <1>3, <1>4, <1>5

\* A meter is closed that leads no recording, or none any more.
LEMMA GoneWhole ==
  ASSUME NEW list \in Seq(Meters), NEW less \in Seq(Meters), NEW of, NEW s, Whole(s, list, of),
         NEW m \in Range(list), s.running # m, Range(less) = Range(list) \ {m},
         list[1] # m => less # <<>> /\ less[1] = list[1]
  PROVE  LET x == [s EXCEPT !.stores[m] = NewStore] IN Whole(x, less, of) /\ (Held(s) => Held(x))
<1> DEFINE stores1 == [s.stores EXCEPT ![m] = NewStore]
           x       == [s EXCEPT !.stores = stores1]
<1>1. m \in Meters /\ NoMeter \notin Meters /\ s \in Sessions /\ Range(list) \subseteq Meters
  BY LeadIsOpen, SessionAssumption DEF Whole
<1>2. NewStore \in Stores /\ NewStore.state = "View"
  BY Empty DEF NewStore, Stores, Modes, Words, Gap
<1>3. stores1 \in [Meters -> Stores] /\ stores1[m] = NewStore /\ \A y \in Meters : y # m => stores1[y] = s.stores[y]
  BY <1>1, <1>2 DEF Sessions
<1>4. x = [s EXCEPT !.stores[m] = NewStore]
  BY <1>1 DEF Sessions
<1> HIDE DEF stores1
<1>5. x \in Sessions /\ x.stores = stores1 /\ x.running = s.running /\ x.scope = s.scope
  BY <1>1, <1>3 DEF Sessions
<1> HIDE DEF x
<1>6. s.running # NoMeter => LeadOf(NoMeter, less, of) = s.running
  <2> SUFFICES ASSUME s.running # NoMeter PROVE LeadOf(NoMeter, less, of) = s.running
    OBVIOUS
  <2>1. LeadOf(NoMeter, list, of) = s.running
    BY DEF Whole
  <2>2. CASE of \in Range(list)
    BY <2>1, <2>2 DEF LeadOf
  <2>3. CASE of \notin Range(list)
    <3>1. s.running = list[1] /\ of \notin Range(less)
      BY <2>1, <2>3 DEF LeadOf
    <3> QED  BY <3>1 DEF LeadOf
  <2> QED  BY <2>2, <2>3
<1>7. \A y \in Meters : x.stores[y].state = "Record" => y # m /\ x.stores[y] = s.stores[y]
  BY <1>2, <1>3, <1>5
<1>8. s.running # NoMeter => x.stores[s.running] = s.stores[s.running]
  BY <1>1, <1>3, <1>5 DEF Sessions
<1>9. Whole(x, less, of)
  BY <1>1, <1>5, <1>6, <1>7, <1>8 DEF Whole
<1>10. Held(s) => Held(x)
  <2> SUFFICES ASSUME Held(s), NEW y \in Meters \ {s.running}, x.stores[y].state = "Record"
               PROVE  x.stores[y].t0 = x.stores[s.running].t0 /\ x.stores[s.running].hold
    BY <1>5 DEF Held
  <2>1. s.stores[y].state = "Record" /\ s.running # NoMeter /\ x.stores[y] = s.stores[y]
    BY <1>7 DEF Whole
  <2> QED  BY <1>8, <2>1 DEF Held
<1> QED  BY <1>4, <1>9, <1>10

\* A meter is opened while a recording runs that it belongs to.
LEMMA JoinsWhole ==
  ASSUME NEW list \in Seq(Meters), NEW of, NEW s, Whole(s, list, of), Led(s, list, of), now \in Int,
         NEW m \in Range(list), s.running # NoMeter, m # s.running, m \in s.scope
  PROVE  LET x == [s EXCEPT !.stores[s.running].hold = TRUE, !.stores[m] = StartAt(@, s.stores[s.running].t0, now)]
         IN  Whole(x, list, of) /\ Led(x, list, of) /\ (Held(s) => Held(x))
<1> DEFINE r       == s.running
           lead    == [s.stores[r] EXCEPT !.hold = TRUE]
           new     == StartAt(s.stores[m], s.stores[r].t0, now)
           stores1 == [s.stores EXCEPT ![r] = lead, ![m] = new]
           x       == [s EXCEPT !.stores = stores1]
<1>1. m \in Meters /\ r \in Meters /\ s \in Sessions /\ Range(list) \subseteq Meters /\ r # NoMeter /\ m # r
  BY LeadIsOpen DEF Whole
<1>2. s.stores[r] \in Stores /\ s.stores[r].t0 \in Int /\ s.stores[r].state = "Record" /\ s.stores[m] \in Stores
  BY <1>1 DEF Sessions, Whole, Stores
<1>3. /\ lead \in Stores /\ lead.state = "Record" /\ lead.hold /\ lead.t0 = s.stores[r].t0 /\ lead.mode = s.stores[r].mode
  BY <1>2 DEF Stores
<1>4. /\ new \in Stores /\ new.state = "Record" /\ new.hold /\ new.t0 = s.stores[r].t0 /\ new.mode = s.stores[m].mode
  BY <1>2, StartAtType, StartAtMode
<1>5. [s EXCEPT !.stores[r].hold = TRUE, !.stores[m] = StartAt(@, s.stores[r].t0, now)] = x
  BY <1>1 DEF Sessions
<1> HIDE DEF lead, new
<1>6. /\ stores1 \in [Meters -> Stores] /\ stores1[r] = lead /\ stores1[m] = new
      /\ \A y \in Meters : y # m /\ y # r => stores1[y] = s.stores[y]
  BY <1>1, <1>3, <1>4 DEF Sessions
<1> HIDE DEF stores1
<1>7. x \in Sessions /\ x.stores = stores1 /\ x.running = r /\ x.scope = s.scope
  BY <1>1, <1>6 DEF Sessions
<1> HIDE DEF x, r
<1>8. Whole(x, list, of)
  BY <1>1, <1>3, <1>4, <1>6, <1>7 DEF Whole, r
<1>9. Led(x, list, of)
  BY <1>1, <1>3, <1>4, <1>6, <1>7 DEF Led, r
<1>10. Held(s) => Held(x)
  <2> SUFFICES ASSUME Held(s), NEW y \in Meters \ {r}, x.stores[y].state = "Record"
               PROVE  x.stores[y].t0 = x.stores[r].t0 /\ x.stores[r].hold
    BY <1>7 DEF Held
  <2> QED  BY <1>1, <1>3, <1>4, <1>6, <1>7 DEF Held, r
<1> QED  BY <1>5, <1>8, <1>9, <1>10 DEF r

-----------------------------------------------------------------------------
(* The session: the invariant, and each step. *)

SessionType ==
  /\ opened \in Seq(Meters) /\ IsInjective(opened)
  /\ watch \in [Meters -> Meters \cup {NoMeter, AnyMeter}]
  /\ trigger \in Triggers /\ asking \in SUBSET Meters /\ now \in 0..MaxTime /\ uses \in 0..MaxUses

SessionInv == SessionType /\ Whole(Now, opened, trigger) /\ Led(Now, opened, trigger)

\* What a step makes of the session.
Lasts(s) == Whole(s, opened', trigger') /\ Led(s, opened', trigger') /\ (Held(Now) => Held(s))

LEMMA NowIsSession ==
  ASSUME SessionInv
  PROVE  /\ Now \in Sessions /\ Open \subseteq Meters /\ now \in Int /\ trigger \in Meters \cup {AnyMeter}
         /\ Now.stores = stores /\ Now.running = running /\ Now.scope = scope /\ Now.next = nextScope
         /\ Lead # NoMeter => Lead \in Open
         /\ \A m \in Meters : stores[m] \in Stores
<1>1. Now \in Sessions /\ Open \subseteq Meters /\ now \in Int /\ trigger \in Meters \cup {AnyMeter}
  BY LeadIsOpen, SessionAssumption DEF SessionInv, SessionType, Whole, Open
<1>2. Now.stores = stores /\ Now.running = running /\ Now.scope = scope /\ Now.next = nextScope
  BY DEF Now
<1>3. Lead # NoMeter => Lead \in Open
  <2>1. running \in Open \cup {NoMeter}
    BY <1>2 DEF SessionInv, Whole, Open
  <2>2. LeadOf(NoMeter, opened, trigger) \in Open \cup {NoMeter}
    BY LeadIsOpen DEF SessionInv, SessionType, Open
  <2> QED  BY <2>1, <2>2 DEF Lead, LeadOf
<1> QED  BY <1>1, <1>2, <1>3 DEF Sessions

\* The session becomes s.
LEMMA Became ==
  ASSUME NEW s \in Sessions, Become(s), Lasts(s)
  PROVE  Whole(Now, opened, trigger)' /\ Led(Now, opened, trigger)' /\ (Joined => Joined')
<1>1. s = [stores |-> s.stores, running |-> s.running, scope |-> s.scope, next |-> s.next]
  BY DEF Sessions
<1>2. Now' = s
  BY <1>1 DEF Become, Now
<1>3. Whole(Now', opened', trigger') /\ Led(Now', opened', trigger') /\ (Held(Now) => Held(Now'))
  BY <1>2 DEF Lasts
<1>4. Held(Now) <=> Joined
  BY DEF Held, Joined, Recording, Now
<1>5. Held(Now') <=> Joined'
  BY DEF Held, Joined, Recording, Now
<1> QED  BY <1>3, <1>4, <1>5 DEF Whole, Led

LEMMA SessionInit ==
  ASSUME Init PROVE SessionInv
<1>1. NewStore \in Stores /\ NewStore.state = "View" /\ NewStore.mode = "Manual"
  BY Empty DEF NewStore, Stores, Modes, Words, Gap
<1>2. opened \in Seq(Meters) /\ IsInjective(opened) /\ Range(opened) = {}
  <2>1. opened = <<>> /\ opened \in Seq(Meters) /\ DOMAIN opened = {}
    BY EmptySeq DEF Init
  <2> QED  BY <2>1 DEF IsInjective, Range
<1>3. SessionType
  BY <1>2, SessionAssumption DEF Init, SessionType
<1>4. Now \in Sessions /\ Now.running = NoMeter /\ \A m \in Meters : Now.stores[m].state = "View"
  BY <1>1 DEF Init, Now, Sessions
<1>5. Whole(Now, opened, trigger)
  BY <1>4 DEF Whole
<1>6. Led(Now, opened, trigger)
  BY <1>2 DEF Led
<1> QED  BY <1>3, <1>5, <1>6 DEF SessionInv


LEMMA InMode ==
  ASSUME NEW x \in Stores, NEW mode \in Modes
  PROVE  LET y == [x EXCEPT !.mode = mode, !.last = Gap]
         IN  y \in Stores /\ y.mode = mode /\ y.state = x.state /\ y.t0 = x.t0 /\ y.hold = x.hold
<1>1. Gap \in Int
  BY DEF Gap
<1> QED  BY <1>1 DEF Stores

LEMMA HeardSteps ==
  ASSUME NEW m \in Meters, stores[m] \in Stores, NEW r \in Told, now \in Int
  PROVE  Heard(m, r) \in Stores /\ Steps(stores[m], Heard(m, r))
<1> DEFINE s      == stores[m]
           manual == [s EXCEPT !.mode = "Manual"]
           x      == SetReading(manual, r, now)
           y      == [x EXCEPT !.mode = s.mode, !.last = Gap]
<1>1. SetReading(s, r, now) \in Stores /\ Steps(s, SetReading(s, r, now))
  BY SetReadingType, SetReadingSteps
<1>2. /\ manual \in Stores /\ manual.mode = "Manual" /\ manual.state = s.state /\ manual.hold = s.hold
      /\ manual.t0 = s.t0
  BY DEF Stores, Modes
<1>0. s.mode \in Modes
  BY DEF Stores
<1>3. Heard(m, r) = IF watch[m] \in {AnyMeter, m} THEN SetReading(s, r, now) ELSE y
  BY DEF Heard
<1> HIDE DEF manual
<1>4. x \in Stores /\ Steps(manual, x)
  BY <1>2, SetReadingType, SetReadingSteps
<1> HIDE DEF x
<1>5. y \in Stores /\ y.mode = s.mode /\ y.state = x.state /\ y.t0 = x.t0 /\ y.hold = x.hold
  <2> HIDE DEF s
  <2> QED  BY <1>0, <1>4, InMode
<1>6. Steps(s, y)
  BY <1>2, <1>4, <1>5 DEF Steps
<1> QED  BY <1>1, <1>3, <1>5, <1>6

\* A store that changes by itself, and those that follow it.
LEMMA ChangedLasts ==
  ASSUME SessionInv, NEW m \in Open, NEW store \in Stores, store.mode = stores[m].mode,
         store.state = "Record" => stores[m].state = "Record" \/ m = Lead,
         store.state = "Record" /\ stores[m].state = "Record" /\ stores[m].hold => store.hold /\ store.t0 = stores[m].t0,
         Changed(m, store), UNCHANGED <<opened, trigger>>
  PROVE  Whole(Now, opened, trigger)' /\ Led(Now, opened, trigger)' /\ (Joined => Joined')
<1> DEFINE x == Follow(Now, m, store, opened, Lead)
<1>1. opened \in Seq(Meters) /\ m \in Range(opened) /\ Whole(Now, opened, trigger) /\ Led(Now, opened, trigger)
  BY DEF SessionInv, SessionType, Open
<1>2. Now.stores = stores /\ Lead = LeadOf(Now.running, opened, trigger) /\ now \in Int
  BY NowIsSession DEF Lead
<1>3. Whole(x, opened, trigger) /\ Led(x, opened, trigger) /\ (Held(Now) => Held(x))
  BY <1>1, <1>2, FollowWhole
<1>4. Become(x)
  BY DEF Changed
<1> HIDE DEF x
<1>5. x \in Sessions /\ Lasts(x)
  BY <1>3 DEF Whole, Lasts
<1> QED  BY <1>4, <1>5, Became

LEMMA MetersLast ==
  ASSUME SessionInv, ByMeters PROVE SessionInv' /\ (Joined => Joined')
<1>1. SessionType'
  BY DEF SessionInv, SessionType, ByMeters
<1>2. PICK m \in Open : (\E r \in Readings : Reading(m, r)) \/ GoesStale(m) \/ Clock(m)
  BY DEF ByMeters
<1>3. UNCHANGED <<opened, trigger>> /\ now \in Int /\ m \in Meters /\ stores[m] \in Stores
  BY NowIsSession DEF ByMeters
<1>4. ASSUME NEW store \in Stores, Steps(stores[m], store), Changed(m, store)
      PROVE  Whole(Now, opened, trigger)' /\ Led(Now, opened, trigger)' /\ (Joined => Joined')
  <2>1. store.state = "Record" => stores[m].state = "Record" \/ m = Lead
    <3>1. m # Lead => stores[m].mode = "Manual"
      BY NowIsSession DEF SessionInv, Led, Lead, Open
    <3> QED  BY <1>4, <3>1 DEF Steps
  <2> QED  BY <1>3, <1>4, <2>1, ChangedLasts DEF Steps
<1>5. CASE \E r \in Readings : Reading(m, r)
  <2>1. PICK r \in Readings : Reading(m, r)
    BY <1>5
  <2>2. Heard(m, r) \in Stores /\ Steps(stores[m], Heard(m, r))
    BY <1>3, HeardSteps, SessionAssumption
  <2> QED  BY <1>1, <1>4, <2>1, <2>2 DEF Reading, SessionInv
<1>6. CASE GoesStale(m)
  <2> DEFINE x == SetStale(stores[m], now)
  <2>1. x \in Stores /\ Same(stores[m], x)
    BY <1>3, SetStaleType, SetStaleSame
  <2>2. Changed(m, x)
    BY <1>6 DEF GoesStale
  <2> HIDE DEF x
  <2>3. Steps(stores[m], x)
    BY <2>1 DEF Same, Steps
  <2> QED  BY <1>1, <1>4, <2>1, <2>2, <2>3 DEF SessionInv
<1>7. CASE Clock(m)
  <2> DEFINE x == Poll(stores[m], StartTime, now)
  <2>1. x \in Stores /\ Steps(stores[m], x)
    BY <1>3, PollType, PollSteps, SessionAssumption
  <2>2. Changed(m, x)
    BY <1>7 DEF Clock
  <2> HIDE DEF x
  <2> QED  BY <1>1, <1>4, <2>1, <2>2 DEF SessionInv
<1> QED  BY <1>2, <1>5, <1>6, <1>7

\* What the session goes by stays with every store.
LEMMA SameLasts ==
  ASSUME SessionInv, UNCHANGED <<opened, trigger, running, scope>>, nextScope' \in SUBSET Meters,
         stores' \in [Meters -> Stores], \A y \in Meters : Same(stores[y], stores'[y])
  PROVE  Whole(Now, opened, trigger)' /\ Led(Now, opened, trigger)' /\ (Joined => Joined')
<1> DEFINE x == [stores |-> stores', running |-> running, scope |-> scope, next |-> nextScope']
<1>1. opened \in Seq(Meters) /\ Whole(Now, opened, trigger) /\ Led(Now, opened, trigger)
  BY DEF SessionInv, SessionType
<1>2. /\ x \in Sessions /\ x.running = running /\ x.scope = scope /\ x.stores = stores' /\ x.next = nextScope'
      /\ Now.stores = stores /\ Now.running = running /\ Now.scope = scope
  BY NowIsSession DEF Sessions
<1> HIDE DEF x
<1>3. Whole(x, opened, trigger) /\ Led(x, opened, trigger) /\ (Held(Now) => Held(x))
  BY <1>1, <1>2, SameWhole
<1>4. Become(x) /\ Lasts(x)
  BY <1>2, <1>3 DEF Become, Lasts
<1> QED  BY <1>2, <1>4, Became

LEMMA TickLasts ==
  ASSUME SessionInv, Tick PROVE SessionInv' /\ (Joined => Joined')
<1>1. SessionType'
  BY SessionAssumption DEF SessionInv, SessionType, Tick
<1>2. \A y \in Meters : Same(stores[y], stores'[y])
  BY DEF Same, Tick
<1>3. stores' \in [Meters -> Stores] /\ nextScope' \in SUBSET Meters /\ UNCHANGED <<opened, trigger, running, scope>>
  BY NowIsSession DEF Sessions, Tick
<1> QED  BY <1>1, <1>2, <1>3, SameLasts DEF SessionInv


-----------------------------------------------------------------------------
(* The user's steps. *)

Kept == Whole(Now, opened, trigger)' /\ Led(Now, opened, trigger)' /\ (Joined /\ ~Restart => Joined')

LEMMA PressRecordLasts ==
  ASSUME SessionInv, NEW with \in SUBSET Meters, PressRecord(with)
  PROVE  Kept /\ asking' \in SUBSET Meters /\ UNCHANGED <<opened, watch, trigger, now>>
<1>1. nextScope' \in SUBSET Meters
  BY NowIsSession DEF PressRecord, Sessions
<1>2. stores' \in [Meters -> Stores] /\ UNCHANGED <<opened, trigger, running, scope>>
  BY NowIsSession DEF PressRecord, Sessions
<1>3. \A y \in Meters : Same(stores[y], stores'[y])
  BY DEF Same, PressRecord
<1> QED  BY <1>1, <1>2, <1>3, SameLasts DEF PressRecord, Kept

LEMMA CancelLasts ==
  ASSUME SessionInv, Cancel
  PROVE  Kept /\ asking' \in SUBSET Meters /\ UNCHANGED <<opened, watch, trigger, now>>
<1>1. nextScope' \in SUBSET Meters
  BY NowIsSession DEF Cancel, Sessions
<1>2. stores' \in [Meters -> Stores] /\ UNCHANGED <<opened, trigger, running, scope>>
  BY NowIsSession DEF Cancel, Sessions
<1>3. \A y \in Meters : Same(stores[y], stores'[y])
  BY DEF Same, Cancel
<1> QED  BY <1>1, <1>2, <1>3, SameLasts DEF Cancel, Kept

LEMMA SaveLasts ==
  ASSUME SessionInv, NEW m \in Meters, Save(m)
  PROVE  Kept /\ asking' \in SUBSET Meters /\ UNCHANGED <<opened, watch, trigger, now>>
<1> DEFINE clean == [stores[m] EXCEPT !.dirty = FALSE]
<1>1. stores \in [Meters -> Stores] /\ nextScope \in SUBSET Meters
  BY NowIsSession DEF Sessions
<1>2. clean \in Stores /\ Same(stores[m], clean)
  <2>1. stores[m] \in Stores
    BY <1>1
  <2> QED  BY <2>1 DEF Stores, Same
<1>3. stores' = [stores EXCEPT ![m] = clean]
  BY DEF Save
<1> HIDE DEF clean
<1>4. stores' \in [Meters -> Stores]
  BY <1>1, <1>2, <1>3
<1>5. \A y \in Meters : Same(stores[y], stores'[y])
  BY <1>1, <1>2, <1>3 DEF Same
<1>6. UNCHANGED <<opened, watch, running, scope, nextScope, trigger, asking, now>>
  BY DEF Save
<1> QED  BY <1>1, <1>4, <1>5, <1>6, SameLasts DEF Kept, SessionInv, SessionType

LEMMA AcceptLasts ==
  ASSUME SessionInv, Accept
  PROVE  /\ Kept /\ asking' \in SUBSET Meters /\ UNCHANGED <<opened, trigger, now>>
         /\ watch' \in [Meters -> Meters \cup {NoMeter, AnyMeter}]
<1> DEFINE set == SetUp(Now, opened, trigger)
           s   == WithSetup(Now, opened, trigger)
           x   == Started(s, Lead)
           y   == [s EXCEPT !.next = Meters]
<1>1. opened \in Seq(Meters) /\ Whole(Now, opened, trigger)
  BY DEF SessionInv, SessionType
<1>2. /\ Whole(s, opened, trigger) /\ Led(s, opened, trigger) /\ (Held(Now) => Held(s))
      /\ s.running = running /\ s.scope = scope
      /\ set.watch \in [Meters -> Meters \cup {NoMeter, AnyMeter}]
      /\ \A m \in Meters : s.stores[m].state = stores[m].state
  BY <1>1, SetUpWhole, NowIsSession
<1>3. watch' = set.watch /\ ((Lead = NoMeter /\ Become(y)) \/ (Lead # NoMeter /\ Become(x)))
  BY DEF Accept, WithSetup
<1>4. UNCHANGED <<opened, trigger, now>> /\ asking' = {} /\ asking # {}
  BY DEF Accept
<1> HIDE DEF set, s
<1>5. CASE Lead = NoMeter /\ Become(y)
  <2>1. s \in Sessions
    BY <1>2 DEF Whole
  <2>2. y \in Sessions /\ y.stores = s.stores /\ y.running = s.running /\ y.scope = s.scope
    BY <2>1 DEF Sessions
  <2> HIDE DEF y
  <2>3. \A m \in Meters : Same(s.stores[m], y.stores[m])
    BY <2>2 DEF Same
  <2>4. Whole(y, opened, trigger) /\ Led(y, opened, trigger) /\ (Held(s) => Held(y))
    BY <1>1, <1>2, <2>2, <2>3, SameWhole
  <2>5. Lasts(y)
    BY <1>2, <1>4, <2>4 DEF Lasts
  <2> QED  BY <1>2, <1>3, <1>4, <1>5, <2>2, <2>5, Became DEF Kept
<1>6. CASE Lead # NoMeter /\ Become(x)
  <2>1. Lead \in Open /\ Lead \in Meters /\ now \in Int /\ Lead = LeadOf(s.running, opened, trigger)
    BY <1>2, <1>6, NowIsSession DEF Lead
  <2>2. /\ Whole(x, opened, trigger) /\ Led(x, opened, trigger)
        /\ s.stores[Lead].state # "Record" /\ Held(s) => Held(x)
        /\ s.stores[Lead].state = "Record" => x.running = s.running
    BY <1>1, <1>2, <2>1, StartedWhole
  <2> HIDE DEF x
  <2>3. x \in Sessions
    BY <2>2 DEF Whole
  <2>4. CASE stores[Lead].state # "Record"
    <3>1. Lasts(x)
      BY <1>2, <1>4, <2>1, <2>2, <2>4 DEF Lasts
    <3> QED  BY <1>2, <1>3, <1>4, <1>6, <2>3, <3>1, Became DEF Kept
  <2>5. CASE stores[Lead].state = "Record"
    <3>1. x = [stores |-> x.stores, running |-> x.running, scope |-> x.scope, next |-> x.next]
      BY <2>3 DEF Sessions
    <3>2. Now' = x
      BY <1>6, <3>1 DEF Become, Now
    <3>3. Whole(Now, opened, trigger)' /\ Led(Now, opened, trigger)'
      <4>1. Whole(Now', opened', trigger') /\ Led(Now', opened', trigger')
        BY <1>4, <2>2, <3>2
      <4> QED  BY <4>1 DEF Whole, Led
    <3>4. running # NoMeter
      BY <2>1, <2>5, NowIsSession DEF SessionInv, Whole
    <3>5. running' = running
      BY <1>2, <1>6, <2>1, <2>2, <2>5 DEF Become
    <3>6. ~Restart => stores' = stores
      BY <1>4, <3>4 DEF Restart
    <3>7. Joined /\ ~Restart => Joined'
      BY <3>5, <3>6 DEF Joined, Recording
    <3> QED  BY <1>2, <1>3, <1>4, <3>3, <3>7 DEF Kept
  <2> QED  BY <2>4, <2>5
<1> QED  BY <1>3, <1>5, <1>6


\* The lead goes Live, is cleared in Live or stops: the others follow.
LEMMA RestsLasts ==
  ASSUME SessionInv, Lead # NoMeter, NEW store \in Stores, store.mode = stores[Lead].mode, store.state # "Record",
         Changed(Lead, store), UNCHANGED <<opened, trigger>>
  PROVE  Kept
<1>1. Lead \in Open
  BY NowIsSession
<1> QED  BY <1>1, ChangedLasts DEF Kept

LEMMA LiveItLasts ==
  ASSUME SessionInv, LiveIt PROVE Kept
<1> DEFINE x == GoLive(stores[Lead], now)
<1>1. Lead # NoMeter /\ Changed(Lead, x) /\ UNCHANGED <<opened, trigger>>
  BY DEF LiveIt
<1>2. stores[Lead] \in Stores /\ now \in Int
  BY <1>1, NowIsSession
<1>3. x \in Stores /\ x.mode = stores[Lead].mode /\ x.state # "Record"
  BY <1>2, GoLiveType, GoLiveMode
<1> HIDE DEF x
<1> QED  BY <1>1, <1>3, RestsLasts

LEMMA StopItLasts ==
  ASSUME SessionInv, StopIt PROVE Kept
<1> DEFINE x == Stop(stores[Lead], now)
<1>1. Lead # NoMeter /\ Changed(Lead, x) /\ UNCHANGED <<opened, trigger>>
  BY DEF StopIt
<1>2. stores[Lead] \in Stores /\ now \in Int
  BY <1>1, NowIsSession
<1>3. x \in Stores /\ x.mode = stores[Lead].mode /\ x.state # "Record"
  BY <1>2, StopType, StopMode
<1> HIDE DEF x
<1> QED  BY <1>1, <1>3, RestsLasts

LEMMA ClearItLasts ==
  ASSUME SessionInv, ClearIt PROVE Kept
<1> DEFINE x == GoLive(stores[Lead], now)
           y == Clear(stores[Lead], now)
           z == ClearedWithIt(Now, Lead, y)
<1>1. /\ Lead # NoMeter /\ UNCHANGED <<opened, trigger>>
      /\ \/ Changed(Lead, x)
         \/ stores[Lead].state = "Live" /\ Changed(Lead, y)
         \/ stores[Lead].state = "Record" /\ Become(z)
  BY DEF ClearIt
<1>2. Lead \in Open /\ stores[Lead] \in Stores /\ now \in Int /\ Now.stores = stores /\ Now.running = running
  BY <1>1, NowIsSession
<1>3. x \in Stores /\ x.mode = stores[Lead].mode /\ x.state # "Record"
  BY <1>2, GoLiveType, GoLiveMode
<1>4. y \in Stores /\ y.mode = stores[Lead].mode /\ y.state = stores[Lead].state /\ y.hold = stores[Lead].hold /\ y.t0 = now
  BY <1>2, ClearType, ClearMode
<1> HIDE DEF x, y
<1>5. CASE Changed(Lead, x)
  BY <1>1, <1>3, <1>5, RestsLasts
<1>6. CASE stores[Lead].state = "Live" /\ Changed(Lead, y)
  BY <1>1, <1>4, <1>6, RestsLasts
<1>7. CASE stores[Lead].state = "Record" /\ Become(z)
  <2>1. Lead = LeadOf(Now.running, opened, trigger)
    BY <1>2 DEF Lead
  <2>2. Whole(z, opened, trigger) /\ Led(z, opened, trigger) /\ (Held(Now) => Held(z))
    BY <1>2, <1>4, <1>7, <2>1, ClearedWhole DEF SessionInv, SessionType
  <2> HIDE DEF z
  <2>3. z \in Sessions /\ Lasts(z)
    BY <1>1, <2>2 DEF Whole, Lasts
  <2> QED  BY <1>7, <2>3, Became DEF Kept
<1> QED  BY <1>1, <1>5, <1>6, <1>7

LEMMA RequestStartLasts ==
  ASSUME SessionInv, RequestStart PROVE Kept
<1> DEFINE x == Started(Now, Lead)
<1>1. /\ Lead # NoMeter /\ stores[Lead].state # "Record" /\ Become(x) /\ UNCHANGED <<opened, trigger>>
  BY DEF RequestStart
<1>2. Lead \in Open /\ now \in Int /\ Now.stores = stores /\ Lead = LeadOf(Now.running, opened, trigger)
  BY <1>1, NowIsSession DEF Lead
<1>3. Whole(x, opened, trigger) /\ Led(x, opened, trigger) /\ (Held(Now) => Held(x))
  BY <1>1, <1>2, StartedWhole DEF SessionInv, SessionType
<1> HIDE DEF x
<1>4. x \in Sessions /\ Lasts(x)
  BY <1>1, <1>3 DEF Whole, Lasts
<1> QED  BY <1>1, <1>4, Became DEF Kept

\* With other meters open or another trigger value the recording that runs is still whole: its lead leads on.
LEMMA StillWhole ==
  ASSUME ~LeadMoves, SessionInv, NEW list \in Seq(Meters), NEW of, Open \subseteq Range(list), StaysLead(list, of)
  PROVE  Whole(Now, list, of)
<1>1. Now.running = running /\ Range(list) \subseteq Meters
  BY NowIsSession, LeadIsOpen
<1>2. running # NoMeter => LeadOf(NoMeter, list, of) = running
  BY DEF StaysLead
<1> QED  BY <1>1, <1>2 DEF SessionInv, Whole, Open

LEMMA ChooseLasts ==
  ASSUME ~LeadMoves, SessionInv, NEW value \in Triggers, Choose(value)
  PROVE  Kept /\ watch' \in [Meters -> Meters \cup {NoMeter, AnyMeter}]
<1> DEFINE set == SetUp(Now, opened, value)
           x   == WithSetup(Now, opened, value)
<1>1. /\ trigger' = value /\ StaysLead(opened, value) /\ watch' = set.watch /\ stores' = set.stores
      /\ UNCHANGED <<opened, running, scope, nextScope>>
  BY DEF Choose
<1>2. opened \in Seq(Meters) /\ value \in Meters \cup {AnyMeter} /\ Open \subseteq Range(opened)
  BY SessionAssumption DEF SessionInv, SessionType, Open
<1>3. Whole(Now, opened, value)
  BY <1>1, <1>2, StillWhole
<1>4. /\ Whole(x, opened, value) /\ Led(x, opened, value) /\ (Held(Now) => Held(x))
      /\ x.stores = set.stores /\ x.running = Now.running /\ x.scope = Now.scope /\ x.next = Now.next
      /\ set.watch \in [Meters -> Meters \cup {NoMeter, AnyMeter}]
  BY <1>2, <1>3, SetUpWhole, NowIsSession
<1> HIDE DEF x, set
<1>5. x \in Sessions /\ Lasts(x)
  BY <1>1, <1>4 DEF Whole, Lasts
<1>6. Become(x)
  BY <1>1, <1>4, NowIsSession DEF Become
<1> QED  BY <1>1, <1>4, <1>5, <1>6, Became DEF Kept

LEMMA OpenItLasts ==
  ASSUME ~LeadMoves, SessionInv, NEW m \in Meters, OpenIt(m)
  PROVE  /\ Kept /\ opened' \in Seq(Meters) /\ IsInjective(opened')
         /\ watch' \in [Meters -> Meters \cup {NoMeter, AnyMeter}]
<1> DEFINE list == Append(opened, m)
           set  == SetUp(Now, list, trigger)
           s    == WithSetup(Now, list, trigger)
           join == [s EXCEPT !.stores[running].hold = TRUE, !.stores[m] = StartAt(@, stores[running].t0, now)]
           live == Follow(s, m, GoLive(s.stores[m], now), list, LeadOf(running, list, trigger))
<1>1. /\ m \notin Open /\ opened' = list /\ StaysLead(list, trigger) /\ watch' = set.watch
      /\ UNCHANGED <<trigger, asking, now>>
  BY DEF OpenIt
<1>2. IF Joins(m) THEN Become(join)
      ELSE IF Lead = NoMeter \/ stores[Lead].state = "Live" THEN Become(live) ELSE Become(s)
  BY <1>1, Zenon DEF OpenIt, WithSetup
<1>3. list \in Seq(Meters) /\ IsInjective(list) /\ Range(list) = Open \cup {m}
  BY <1>1, OpenOfAppend DEF SessionInv, SessionType, Open
<1> HIDE DEF list
<1>4. Whole(Now, list, trigger) /\ trigger \in Meters \cup {AnyMeter}
  BY <1>1, <1>3, StillWhole, NowIsSession
<1>5. /\ Whole(s, list, trigger) /\ Led(s, list, trigger) /\ (Held(Now) => Held(s))
      /\ s.running = Now.running /\ s.scope = Now.scope
      /\ set.watch \in [Meters -> Meters \cup {NoMeter, AnyMeter}]
      /\ \A x \in Meters : s.stores[x].state = Now.stores[x].state /\ s.stores[x].t0 = Now.stores[x].t0
  BY <1>3, <1>4, SetUpWhole, NowIsSession
<1>6. /\ Now.running = running /\ Now.scope = scope /\ Now.stores = stores /\ now \in Int
      /\ running \in Open \cup {NoMeter}
  BY NowIsSession DEF SessionInv, Whole, Open
<1> HIDE DEF s, set
<1>7. s \in Sessions /\ m \in Range(list)
  BY <1>3, <1>5 DEF Whole
<1>8. ASSUME NEW x, Whole(x, list, trigger), Led(x, list, trigger), Held(s) => Held(x), Become(x)
      PROVE  Kept
  <2>1. x \in Sessions /\ Lasts(x)
    BY <1>1, <1>5, <1>8 DEF Whole, Lasts
  <2> QED  BY <1>8, <2>1, Became DEF Kept
<1>9. CASE Joins(m)
  <2>1. s.running # NoMeter /\ m # s.running /\ m \in s.scope
    BY <1>1, <1>5, <1>6, <1>9 DEF Joins
  <2>2. running = s.running /\ running \in Meters /\ stores[running].t0 = s.stores[s.running].t0
    BY <1>5, <1>6, <2>1, NowIsSession
  <2> DEFINE x == [s EXCEPT !.stores[s.running].hold = TRUE, !.stores[m] = StartAt(@, s.stores[s.running].t0, now)]
  <2>3. Whole(x, list, trigger) /\ Led(x, list, trigger) /\ (Held(s) => Held(x))
    BY <1>3, <1>5, <1>6, <1>7, <2>1, JoinsWhole
  <2>4. join = x
    BY <2>2
  <2> HIDE DEF x, join
  <2> QED  BY <1>2, <1>8, <1>9, <2>3, <2>4, <1>1, <1>3, <1>5
<1>10. CASE ~Joins(m) /\ (Lead = NoMeter \/ stores[Lead].state = "Live")
  <2> DEFINE store == GoLive(s.stores[m], now)
  <2>1. s.stores[m] \in Stores
    BY <1>7 DEF Sessions
  <2>2. store \in Stores /\ store.mode = s.stores[m].mode /\ store.state # "Record"
    BY <1>6, <2>1, GoLiveType, GoLiveMode
  <2>3. live = Follow(s, m, store, list, LeadOf(s.running, list, trigger))
    BY <1>5, <1>6
  <2> HIDE DEF store, live
  <2>4. Whole(live, list, trigger) /\ Led(live, list, trigger) /\ (Held(s) => Held(live))
    <3> DEFINE x == Follow(s, m, store, list, LeadOf(s.running, list, trigger))
    <3>1. Whole(x, list, trigger) /\ Led(x, list, trigger) /\ (Held(s) => Held(x))
      BY <1>3, <1>5, <1>6, <1>7, <2>2, FollowWhole
    <3> HIDE DEF x
    <3> QED  BY <2>3, <3>1 DEF x
  <2> QED  BY <1>1, <1>2, <1>3, <1>5, <1>8, <1>10, <2>4
<1>11. CASE ~Joins(m) /\ ~(Lead = NoMeter \/ stores[Lead].state = "Live")
  BY <1>1, <1>2, <1>3, <1>5, <1>8, <1>11
<1> QED  BY <1>9, <1>10, <1>11


\* The meter that leads a recording stops, and the others with it: nothing runs any more.
LEMMA EndedWhole ==
  ASSUME SessionInv, NEW m \in Open, m = running
  PROVE  LET x == Follow(Now, m, Stop(stores[m], now), opened, m)
         IN  Whole(x, opened, trigger) /\ Held(x) /\ x.running = NoMeter
<1> DEFINE store == Stop(stores[m], now)
           x     == Follow(Now, m, store, opened, m)
<1>1. /\ opened \in Seq(Meters) /\ m \in Range(opened) /\ m \in Meters /\ now \in Int /\ stores[m] \in Stores
      /\ Now.stores = stores /\ Now.running = running /\ running # NoMeter
  BY NowIsSession, SessionAssumption DEF SessionInv, SessionType, Open
<1>2. stores[m].state = "Record" /\ LeadOf(Now.running, opened, trigger) = m
  BY <1>1 DEF SessionInv, Whole, LeadOf
<1>3. store \in Stores /\ store.mode = stores[m].mode /\ store.state = "View"
  BY <1>1, <1>2, StopType, StopMode
<1> HIDE DEF store
<1>4. Whole(x, opened, trigger)
  <2> DEFINE y == Follow(Now, m, store, opened, LeadOf(Now.running, opened, trigger))
  <2>1. Whole(y, opened, trigger)
    BY <1>1, <1>2, <1>3, FollowWhole DEF SessionInv
  <2>2. y = x
    BY <1>2
  <2> HIDE DEF x, y
  <2> QED  BY <2>1, <2>2
<1>5. x.running = NoMeter
  <2>1. x = StopWith([Now EXCEPT !.stores[m] = store], m, opened)
    BY <1>1, <1>2, <1>3, Zenon DEF Follow
  <2> QED  BY <2>1 DEF StopWith
<1> HIDE DEF x
<1>6. Held(x)
  BY <1>4, <1>5 DEF Whole, Held
<1> QED  BY <1>4, <1>5, <1>6 DEF x, store

LEMMA CloseItLasts ==
  ASSUME SessionInv, NEW m \in Meters, CloseIt(m)
  PROVE  /\ Kept /\ opened' \in Seq(Meters) /\ IsInjective(opened')
         /\ watch' \in [Meters -> Meters \cup {NoMeter, AnyMeter}]
<1> DEFINE less  == RemoveFirst(opened, m)
           ended == IF m = running THEN Follow(Now, m, Stop(stores[m], now), opened, m) ELSE Now
           gone  == [ended EXCEPT !.stores[m] = NewStore]
           x     == WithSetup(gone, less, trigger)
<1>1. /\ m \in Open /\ opened' = less /\ Become(x) /\ watch' = SetUp(gone, less, trigger).watch
      /\ UNCHANGED <<trigger, asking, now>>
  BY Zenon DEF CloseIt, WithSetup
<1>2. opened \in Seq(Meters) /\ IsInjective(opened) /\ m \in Range(opened)
  BY <1>1 DEF SessionInv, SessionType, Open
<1>3. /\ less \in Seq(Meters) /\ IsInjective(less) /\ Range(less) = Range(opened) \ {m}
      /\ opened[1] # m => less # <<>> /\ less[1] = opened[1]
  BY <1>2, OpenOfRemove
<1> HIDE DEF less
<1>4. Whole(ended, opened, trigger) /\ ended.running # m /\ (Held(Now) => Held(ended))
  <2>1. CASE m = running
    <3> DEFINE y == Follow(Now, m, Stop(stores[m], now), opened, m)
    <3>1. Whole(y, opened, trigger) /\ Held(y) /\ y.running = NoMeter
      BY <1>1, <2>1, EndedWhole
    <3>2. ended = y
      BY <2>1
    <3> HIDE DEF y, ended
    <3> QED  BY <3>1, <3>2, SessionAssumption
  <2>2. CASE m # running
    <3>1. ended = Now
      BY <2>2
    <3> QED  BY <2>2, <3>1, NowIsSession DEF SessionInv
  <2> QED  BY <2>1, <2>2
<1> HIDE DEF ended
<1>5. Whole(gone, less, trigger) /\ (Held(ended) => Held(gone))
  BY <1>2, <1>3, <1>4, GoneWhole
<1> HIDE DEF gone
<1>6. /\ Whole(x, less, trigger) /\ Led(x, less, trigger) /\ (Held(gone) => Held(x))
      /\ SetUp(gone, less, trigger).watch \in [Meters -> Meters \cup {NoMeter, AnyMeter}]
  BY <1>3, <1>5, SetUpWhole, NowIsSession
<1> HIDE DEF x
<1>7. x \in Sessions /\ Lasts(x)
  BY <1>1, <1>4, <1>5, <1>6 DEF Whole, Lasts
<1> QED  BY <1>1, <1>3, <1>6, <1>7, Became DEF Kept

LEMMA UserLasts ==
  ASSUME ~LeadMoves, SessionInv, ByUser
  PROVE  SessionInv' /\ (Joined /\ ~Restart => Joined')
<1>1. uses' \in 0..MaxUses
  BY SessionAssumption DEF SessionInv, SessionType, ByUser
<1>2. now' = now
  BY DEF ByUser, PressRecord, Accept, Cancel, LiveIt, ClearIt, StopIt, RequestStart, Choose, Save, OpenIt, CloseIt, Save
<1>3. CASE \E with \in (SUBSET Open \ {{}}) \cup {Meters} : PressRecord(with)
  <2>1. PICK with \in SUBSET Meters : PressRecord(with)
    BY <1>3, NowIsSession
  <2> QED  BY <1>1, <1>2, <2>1, PressRecordLasts DEF SessionInv, SessionType, Kept
<1>4. CASE Accept
  BY <1>1, <1>2, <1>4, AcceptLasts DEF SessionInv, SessionType, Kept
<1>5. CASE Cancel
  BY <1>1, <1>2, <1>5, CancelLasts DEF SessionInv, SessionType, Kept
<1>6. CASE LiveIt
  <2>1. UNCHANGED <<opened, watch, trigger, asking>>
    BY <1>6 DEF LiveIt
  <2> QED  BY <1>1, <1>2, <1>6, <2>1, LiveItLasts DEF SessionInv, SessionType, Kept
<1>7. CASE ClearIt
  <2>1. UNCHANGED <<opened, watch, trigger, asking>>
    BY <1>7 DEF ClearIt
  <2> QED  BY <1>1, <1>2, <1>7, <2>1, ClearItLasts DEF SessionInv, SessionType, Kept
<1>8. CASE StopIt
  <2>1. UNCHANGED <<opened, watch, trigger, asking>>
    BY <1>8 DEF StopIt
  <2> QED  BY <1>1, <1>2, <1>8, <2>1, StopItLasts DEF SessionInv, SessionType, Kept
<1>9. CASE RequestStart
  <2>1. UNCHANGED <<opened, watch, trigger, asking>>
    BY <1>9 DEF RequestStart
  <2> QED  BY <1>1, <1>2, <1>9, <2>1, RequestStartLasts DEF SessionInv, SessionType, Kept
<1>10. CASE \E value \in Triggers : Choose(value)
  <2>1. PICK value \in Triggers : Choose(value)
    BY <1>10
  <2>2. trigger' \in Triggers /\ UNCHANGED <<opened, asking>>
    BY <2>1 DEF Choose
  <2> QED  BY <1>1, <1>2, <2>1, <2>2, ChooseLasts DEF SessionInv, SessionType, Kept
<1>11. CASE \E m \in Meters : Save(m)
  <2>1. PICK m \in Meters : Save(m)
    BY <1>11
  <2> QED  BY <1>1, <1>2, <2>1, SaveLasts DEF SessionInv, SessionType, Kept
<1>12. CASE \E m \in Meters : OpenIt(m)
  <2>1. PICK m \in Meters : OpenIt(m)
    BY <1>12
  <2>2. UNCHANGED <<trigger, asking>>
    BY <2>1 DEF OpenIt
  <2> QED  BY <1>1, <1>2, <2>1, <2>2, OpenItLasts DEF SessionInv, SessionType, Kept
<1>13. CASE \E m \in Meters : CloseIt(m)
  <2>1. PICK m \in Meters : CloseIt(m)
    BY <1>13
  <2>2. UNCHANGED <<trigger, asking>>
    BY <2>1 DEF CloseIt
  <2> QED  BY <1>1, <1>2, <2>1, <2>2, CloseItLasts DEF SessionInv, SessionType, Kept
<1> QED  BY <1>3, <1>4, <1>5, <1>6, <1>7, <1>8, <1>9, <1>10, <1>11, <1>12, <1>13 DEF ByUser

LEMMA SessionNext ==
  ASSUME ~LeadMoves, SessionInv, [Next]_vars
  PROVE  SessionInv' /\ (Joined /\ ~Restart => Joined')
<1>1. CASE ByMeters
  BY <1>1, MetersLast
<1>2. CASE Tick
  BY <1>2, TickLasts
<1>3. CASE ByUser
  BY <1>3, UserLasts
<1>4. CASE UNCHANGED vars
  <2>1. UNCHANGED <<opened, stores, watch, running, scope, nextScope, trigger, asking, now, uses>>
    BY <1>4 DEF vars
  <2>2. SessionType'
    BY <2>1 DEF SessionInv, SessionType
  <2>3. stores' \in [Meters -> Stores] /\ nextScope' \in SUBSET Meters /\ \A y \in Meters : Same(stores[y], stores'[y])
    BY <2>1, NowIsSession DEF Sessions, Same
  <2> QED  BY <2>1, <2>2, <2>3, SameLasts DEF SessionInv
<1> QED  BY <1>1, <1>2, <1>3, <1>4 DEF Next

LEMMA SessionIsOne ==
  ASSUME SessionInv PROVE RecordAsOne
<1>1. TypeOK
  BY NowIsSession DEF SessionInv, SessionType, TypeOK, Whole, Sessions, Open
<1>2. NobodyRecordsAlone /\ OnlyTheChosenRecord
  BY NowIsSession DEF SessionInv, Whole, NobodyRecordsAlone, OnlyTheChosenRecord, Recording
<1> QED  BY <1>1, <1>2 DEF RecordAsOne

-----------------------------------------------------------------------------
\* The meters record together, led by one of them, and no meter outside the graph with them, whatever starts or ends the
\* recording and whoever is opened or closed meanwhile (DeviceSession::followLead(), open(), close()), as long as the
\* trigger value stays with the meter that leads.
THEOREM SessionRecordsAsOne == ASSUME ~LeadMoves PROVE Spec => []RecordAsOne
<1>1. Init => SessionInv
  BY SessionInit
<1>2. SessionInv /\ [Next]_vars => SessionInv'
  BY SessionNext
<1>3. SessionInv => RecordAsOne
  BY SessionIsOne
<1> QED  BY <1>1, <1>2, <1>3, PTL DEF Spec

\* Those that record together stay on one time base: no reading, timer, opening, closing, clearing or saving takes one
\* of them off it (RecordingStore::startAt(), m_holdOrigin).
THEOREM TimeBaseStays == ASSUME ~LeadMoves PROVE Spec => [][Joined /\ ~Restart => Joined']_vars
<1>1. Init => SessionInv
  BY SessionInit
<1>2. SessionInv /\ [Next]_vars => SessionInv' /\ (Joined /\ ~Restart => Joined')
  BY SessionNext
<1> QED  BY <1>1, <1>2, PTL DEF Spec

-----------------------------------------------------------------------------
(* The bench of the session's main window (SessionWindow), for every number *)
(* of entries of My devices, views and files, however often the program is  *)
(* started, closed and killed.                                              *)

Named == {"meter"} \cup Devices \cup Views
Tags == {"none", "rule", "joined", "user"}
BenchModes == {"auto", "fixed"}
Layouts == [tag : Tags, names : SUBSET Named, knows : SUBSET Named]
Texts   == [tag : Tags, names : SUBSET Named]

Looks(layouts) == [mode : BenchModes, display : BOOLEAN, shown : SUBSET Named,
                   open : SUBSET Devices, added : SUBSET Views, layout : layouts]

\* Only windows that are there show or have a place.
PlacedWell(b) ==
  /\ b \in Looks(Layouts)
  /\ b.shown \subseteq TheBench!Windows(b) /\ b.layout.names \subseteq TheBench!Windows(b)

\* The windows shown are the ones that have a place; an automatic layout need not be a tree the user made.
Settled(b) ==
  /\ PlacedWell(b)
  /\ b.shown # {} => b.layout.names = b.shown \/ (b.mode = "auto" /\ b.layout = TheBench!NoTree)

\* A workspace that was stored of such a bench.
WellKept(ws) ==
  /\ ws \in Looks(Texts)
  /\ ws.shown \subseteq TheBench!Windows(ws)
  /\ ws.layout = TheBench!NoText => ws.mode = "auto" \/ ws.shown = {}
  /\ ws.layout # TheBench!NoText =>
       /\ ws.layout.names # {} /\ ws.layout.names \subseteq TheBench!Windows(ws)
       /\ ws.shown # {} => ws.layout.names = ws.shown

LEMMA ArrangedSettles ==
  ASSUME NEW b, PlacedWell(b)
  PROVE  Settled(TheBench!Settle(b)) /\ TheBench!Settle(b).shown = b.shown
           /\ TheBench!Settle(b).open = b.open /\ TheBench!Settle(b).added = b.added
         /\ TheBench!Settle(b).mode = b.mode /\ TheBench!Settle(b).display = b.display
         /\ TheBench!Settle(b).layout = TheBench!Arranged(b.layout, b.mode, b.shown)
<1> DEFINE l == TheBench!Arranged(b.layout, b.mode, b.shown)
           s == TheBench!Settle(b)
<1>1. b \in Looks(Layouts) /\ b.shown \subseteq TheBench!Windows(b) /\ b.layout.names \subseteq TheBench!Windows(b)
  BY DEF PlacedWell
<1>2. /\ b.mode \in BenchModes /\ b.display \in BOOLEAN /\ b.shown \in SUBSET Named
      /\ b.open \in SUBSET Devices /\ b.added \in SUBSET Views /\ b.layout \in Layouts
  BY <1>1 DEF Looks
<1>3. /\ l \in Layouts /\ l.names \subseteq TheBench!Windows(b)
      /\ b.shown # {} => l.names = b.shown \/ (b.mode = "auto" /\ l = TheBench!NoTree)
  <2>1. TheBench!NoTree \in Layouts /\ TheBench!NoTree.names = {}
    BY DEF TheBench!NoTree, Layouts, Tags
  <2>2. \A tag \in Tags : TheBench!Tree(tag, b.shown) \in Layouts /\ TheBench!Tree(tag, b.shown).names = b.shown
    BY <1>2 DEF TheBench!Tree, Layouts
  <2>3. [b.layout EXCEPT !.names = b.shown] \in Layouts /\ [b.layout EXCEPT !.names = b.shown].names = b.shown
    BY <1>2 DEF Layouts
  <2>4. "rule" \in Tags /\ "joined" \in Tags
    BY DEF Tags
  <2> DEFINE kept == [b.layout EXCEPT !.names = b.shown]
             rule == TheBench!Tree("rule", b.shown)
             joined == TheBench!Tree("joined", b.shown)
  <2>5. rule \in Layouts /\ joined \in Layouts /\ rule.names = b.shown /\ joined.names = b.shown
        /\ kept \in Layouts /\ kept.names = b.shown
    BY <2>2, <2>3, <2>4
  <2>6. l = IF b.shown = {} THEN b.layout
            ELSE IF b.mode = "auto" THEN (IF b.layout.names = b.shown THEN b.layout ELSE TheBench!NoTree)
            ELSE IF b.layout = TheBench!NoTree THEN rule
            ELSE IF b.shown \subseteq b.layout.knows THEN kept ELSE joined
    BY DEF TheBench!Arranged
  <2> HIDE DEF l, kept, rule, joined
  <2> QED  BY <1>1, <1>2, <2>1, <2>5, <2>6
<1>4. s = [b EXCEPT !.layout = l]
  BY DEF TheBench!Settle
<1> HIDE DEF l
<1>5. /\ s.layout = l /\ s.shown = b.shown /\ s.open = b.open /\ s.added = b.added /\ s.mode = b.mode
      /\ s.display = b.display /\ s \in Looks(Layouts)
  BY <1>1, <1>2, <1>3, <1>4 DEF Looks
<1> HIDE DEF s
<1>6. TheBench!Windows(s) = TheBench!Windows(b)
  BY <1>5 DEF TheBench!Windows
<1>7. Settled(s)
  BY <1>1, <1>3, <1>5, <1>6 DEF Settled, PlacedWell
<1> QED  BY <1>5, <1>7 DEF l, s

LEMMA StoredIsKept ==
  ASSUME NEW b, Settled(b)
  PROVE  WellKept(TheBench!Stored(b))
<1> DEFINE t == TheBench!Text(b.layout)
           ws == TheBench!Stored(b)
<1>1. b \in Looks(Layouts) /\ b.shown \subseteq TheBench!Windows(b) /\ b.layout.names \subseteq TheBench!Windows(b)
      /\ (b.shown # {} => b.layout.names = b.shown \/ (b.mode = "auto" /\ b.layout = TheBench!NoTree))
  BY DEF Settled, PlacedWell
<1>2. /\ b.mode \in BenchModes /\ b.display \in BOOLEAN /\ b.shown \in SUBSET Named
      /\ b.open \in SUBSET Devices /\ b.added \in SUBSET Views /\ b.layout \in Layouts
  BY <1>1 DEF Looks
<1>3. t \in Texts /\ t.names = b.layout.names /\ (t = TheBench!NoText <=> t.names = {})
  <2>1. b.layout.tag \in Tags /\ b.layout.names \in SUBSET Named
    BY <1>2 DEF Layouts
  <2>2. TheBench!NoText \in Texts /\ TheBench!NoText.names = {}
    BY DEF TheBench!NoText, Texts, Tags
  <2> QED  BY <2>1, <2>2 DEF TheBench!Text, Texts
<1>4. ws = [b EXCEPT !.layout = t]
  BY DEF TheBench!Stored
<1>5. TheBench!NoTree.names = {}
  BY DEF TheBench!NoTree
<1> HIDE DEF t
<1>6. /\ ws.layout = t /\ ws.shown = b.shown /\ ws.open = b.open /\ ws.added = b.added /\ ws.mode = b.mode
      /\ ws.display = b.display /\ ws \in Looks(Texts)
  BY <1>1, <1>2, <1>3, <1>4 DEF Looks
<1> HIDE DEF ws
<1>7. TheBench!Windows(ws) = TheBench!Windows(b)
  BY <1>6 DEF TheBench!Windows
<1>8. WellKept(ws)
  BY <1>1, <1>2, <1>3, <1>5, <1>6, <1>7 DEF WellKept, BenchModes
<1> QED  BY <1>8 DEF ws

\* Panels come, or one goes.
LEMMA PanelsPlaced ==
  ASSUME NEW b, PlacedWell(b), NEW ids \in SUBSET Devices, NEW states
  PROVE  /\ PlacedWell(TheBench!WithPanels(b, ids, states))
         /\ TheBench!WithPanels(b, ids, states).open = b.open \cup ids
              /\ TheBench!WithPanels(b, ids, states).added = b.added
         /\ TheBench!WithPanels(b, ids, states).mode = b.mode
              /\ TheBench!WithPanels(b, ids, states).display = b.display
         /\ TheBench!WithPanels(b, ids, states).layout = b.layout
<1> DEFINE more == {d \in ids : b.display /\ (d \in DOMAIN states => states[d])}
           w == TheBench!WithPanels(b, ids, states)
           o == b.open \cup ids
           v == b.shown \cup more
<1>1. w = [b EXCEPT !.open = o, !.shown = v]
  BY DEF TheBench!WithPanels
<1>2. b \in Looks(Layouts) /\ b.shown \subseteq TheBench!Windows(b) /\ b.layout.names \subseteq TheBench!Windows(b)
  BY DEF PlacedWell
<1>3. /\ b.mode \in BenchModes /\ b.display \in BOOLEAN /\ b.shown \in SUBSET Named
      /\ b.open \in SUBSET Devices /\ b.added \in SUBSET Views /\ b.layout \in Layouts
  BY <1>2 DEF Looks
<1>4. more \subseteq ids
  OBVIOUS
<1> HIDE DEF more
<1>5. o \in SUBSET Devices /\ v \in SUBSET Named
  BY <1>3, <1>4 DEF Named
<1>6. v \subseteq {"meter"} \cup o \cup b.added /\ b.layout.names \subseteq {"meter"} \cup o \cup b.added
  BY <1>2, <1>4 DEF TheBench!Windows
<1> HIDE DEF o, v
<1>7. w.open = o /\ w.shown = v /\ w.added = b.added /\ w.mode = b.mode /\ w.display = b.display
        /\ w.layout = b.layout
      /\ w \in Looks(Layouts)
  BY <1>1, <1>2, <1>3, <1>5 DEF Looks
<1> HIDE DEF w
<1>8. PlacedWell(w)
  BY <1>6, <1>7 DEF PlacedWell, TheBench!Windows
<1> QED  BY <1>7, <1>8 DEF w, o, v, more

LEMMA WithoutTyped ==
  ASSUME NEW l \in Layouts, NEW mode, NEW w
  PROVE  TheBench!Without(l, mode, w) \in Layouts /\ TheBench!Without(l, mode, w).names \subseteq l.names \ {w}
<1>1. TheBench!NoTree \in Layouts /\ TheBench!NoTree.names = {}
  BY DEF TheBench!NoTree, Layouts, Tags
<1>2. [l EXCEPT !.names = @ \ {w}] \in Layouts /\ [l EXCEPT !.names = @ \ {w}].names = l.names \ {w}
  BY DEF Layouts
<1> QED  BY <1>1, <1>2 DEF TheBench!Without

LEMMA NoPanelPlaced ==
  ASSUME NEW b, PlacedWell(b), NEW d
  PROVE  PlacedWell(TheBench!WithoutPanel(b, d))
<1> DEFINE w == TheBench!WithoutPanel(b, d)
           o == b.open \ {d}
           v == b.shown \ {d}
           gone == TheBench!Without(b.layout, b.mode, d)
           l == IF d \in b.open THEN gone ELSE b.layout
<1>1. w = [b EXCEPT !.open = o, !.shown = v, !.layout = l]
  BY DEF TheBench!WithoutPanel
<1>2. b \in Looks(Layouts) /\ b.shown \subseteq TheBench!Windows(b) /\ b.layout.names \subseteq TheBench!Windows(b)
  BY DEF PlacedWell
<1>3. /\ b.mode \in BenchModes /\ b.display \in BOOLEAN /\ b.shown \in SUBSET Named
      /\ b.open \in SUBSET Devices /\ b.added \in SUBSET Views /\ b.layout \in Layouts
  BY <1>2 DEF Looks
<1>4. gone \in Layouts /\ gone.names \subseteq b.layout.names \ {d}
  BY <1>3, WithoutTyped
<1> HIDE DEF gone
<1>5. o \in SUBSET Devices /\ v \in SUBSET Named /\ l \in Layouts
      /\ v \subseteq {"meter"} \cup o \cup b.added /\ l.names \subseteq {"meter"} \cup o \cup b.added
  BY <1>2, <1>3, <1>4 DEF TheBench!Windows
<1> HIDE DEF o, v, l
<1>6. w.open = o /\ w.shown = v /\ w.added = b.added /\ w.layout = l /\ w \in Looks(Layouts)
  BY <1>1, <1>2, <1>3, <1>5 DEF Looks
<1> HIDE DEF w
<1>7. PlacedWell(w)
  BY <1>5, <1>6 DEF PlacedWell, TheBench!Windows
<1> QED  BY <1>7 DEF w

\* The windows of a workspace come, the panels that are there stay.
LEMMA WorkspaceComes ==
  ASSUME NEW b \in Looks(Layouts), NEW ws \in Looks(Texts)
  PROVE  /\ PlacedWell(TheBench!ApplyWorkspace(b, ws).bench)
         /\ TheBench!ApplyWorkspace(b, ws).layout \in Texts
         /\ TheBench!ApplyWorkspace(b, ws).bench.mode = ws.mode
              /\ TheBench!ApplyWorkspace(b, ws).bench.display = ws.display
         /\ TheBench!ApplyWorkspace(b, ws).bench.open = b.open
              /\ TheBench!ApplyWorkspace(b, ws).bench.added = ws.added
         /\ TheBench!ApplyWorkspace(b, ws).bench.shown
              = ({"meter"} \cap ws.shown) \cup ws.added
                  \cup (IF ws.display THEN (b.open \cap ws.open \cap ws.shown)
                    \cup ((b.open \ ws.open) \cap b.shown) ELSE {})
         /\ TheBench!Takes(ws.layout, {"meter"} \cup b.open \cup ws.added) /\ ws.layout # TheBench!NoText
              => /\ TheBench!ApplyWorkspace(b, ws).bench.layout = TheBench!Tree(ws.layout.tag, ws.layout.names)
                 /\ TheBench!ApplyWorkspace(b, ws).layout = TheBench!NoText
         /\ ws.layout = TheBench!NoText => TheBench!ApplyWorkspace(b, ws).bench.layout = TheBench!NoTree
              /\ TheBench!ApplyWorkspace(b, ws).layout = TheBench!NoText
         /\ ~TheBench!Takes(ws.layout, {"meter"} \cup b.open \cup ws.added) /\ ws.open # {}
              => TheBench!ApplyWorkspace(b, ws).layout = ws.layout
<1> DEFINE w == TheBench!WindowsOf(b, ws)
           takes == TheBench!Takes(ws.layout, TheBench!Windows(w))
           tree == TheBench!Tree(ws.layout.tag, ws.layout.names)
           l == IF takes /\ ws.layout # TheBench!NoText THEN tree ELSE TheBench!NoTree
           later == IF ~takes /\ ws.open # {} THEN ws.layout ELSE TheBench!NoText
           panels == (b.open \cap ws.open \cap ws.shown) \cup ((b.open \ ws.open) \cap b.shown)
           v == ({"meter"} \cap ws.shown) \cup ws.added \cup (IF ws.display THEN panels ELSE {})
           new == [w EXCEPT !.layout = l]
<1>1. TheBench!ApplyWorkspace(b, ws).bench = new /\ TheBench!ApplyWorkspace(b, ws).layout = later
  BY DEF TheBench!ApplyWorkspace
<1>2. /\ b.open \in SUBSET Devices /\ b.layout \in Layouts
      /\ ws.mode \in BenchModes /\ ws.display \in BOOLEAN /\ ws.shown \in SUBSET Named
      /\ ws.open \in SUBSET Devices /\ ws.added \in SUBSET Views /\ ws.layout \in Texts
  BY DEF Looks
<1>3. panels \subseteq b.open
  OBVIOUS
<1>4. w = [b EXCEPT !.mode = ws.mode, !.display = ws.display, !.added = ws.added, !.shown = v]
  BY DEF TheBench!WindowsOf
<1> HIDE DEF panels
<1>5. v \in SUBSET Named /\ v \subseteq {"meter"} \cup b.open \cup ws.added
  BY <1>2, <1>3 DEF Named
<1> HIDE DEF v
<1>6. /\ w.mode = ws.mode /\ w.display = ws.display /\ w.added = ws.added /\ w.shown = v /\ w.open = b.open
      /\ w \in Looks(Layouts)
  BY <1>2, <1>4, <1>5 DEF Looks
<1> HIDE DEF w
<1>7. TheBench!Windows(w) = {"meter"} \cup b.open \cup ws.added
  BY <1>6 DEF TheBench!Windows
<1>8. TheBench!NoTree \in Layouts /\ TheBench!NoTree.names = {} /\ TheBench!NoText \in Texts
        /\ TheBench!NoText.names = {}
  BY DEF TheBench!NoTree, Layouts, Tags, TheBench!NoText, Texts
<1>9. tree \in Layouts /\ tree.names = ws.layout.names
  BY <1>2 DEF TheBench!Tree, Layouts, Texts
<1>10. takes <=> TheBench!Takes(ws.layout, {"meter"} \cup b.open \cup ws.added)
  BY <1>7
<1>11. takes => ws.layout.names \subseteq {"meter"} \cup b.open \cup ws.added
  BY <1>10 DEF TheBench!Takes
<1>12. ws.layout = TheBench!NoText => takes
  BY <1>8 DEF TheBench!Takes
<1> HIDE DEF tree, takes
<1>13. l \in Layouts /\ l.names \subseteq {"meter"} \cup b.open \cup ws.added /\ later \in Texts
  BY <1>2, <1>8, <1>9, <1>11
<1>14. /\ takes /\ ws.layout # TheBench!NoText => l = tree /\ later = TheBench!NoText
       /\ ws.layout = TheBench!NoText => l = TheBench!NoTree /\ later = TheBench!NoText
       /\ ~takes /\ ws.open # {} => later = ws.layout
  BY <1>12
<1> HIDE DEF l, later
<1>15. /\ new.mode = ws.mode /\ new.display = ws.display /\ new.added = ws.added /\ new.shown = v /\ new.open = b.open
       /\ new.layout = l /\ new \in Looks(Layouts)
  BY <1>6, <1>13 DEF Looks
<1> HIDE DEF new
<1>16. PlacedWell(new)
  BY <1>5, <1>13, <1>15 DEF PlacedWell, TheBench!Windows
<1> QED  BY <1>1, <1>10, <1>13, <1>14, <1>15, <1>16 DEF v, panels, tree

\* The meters open, and the layout that waited for their panels comes if they are all there.
LEMMA PendingSettles ==
  ASSUME NEW b, PlacedWell(b), NEW nowOpen \in SUBSET Devices, NEW states, NEW layout \in Texts
  PROVE  Settled(TheBench!OpenPending(b, nowOpen, states, layout))
<1> DEFINE w == TheBench!WithPanels(b, nowOpen, states)
           tree == TheBench!Tree(layout.tag, layout.names)
           x == [w EXCEPT !.layout = tree]
<1>1. PlacedWell(w)
  BY PanelsPlaced
<1>2. tree \in Layouts /\ tree.names = layout.names
  BY DEF TheBench!Tree, Layouts, Texts
<1>3. TheBench!OpenPending(b, nowOpen, states, layout)
        = IF layout # TheBench!NoText
            /\ TheBench!Takes(layout, TheBench!Windows(w)) THEN TheBench!Settle(x) ELSE TheBench!Settle(w)
  BY DEF TheBench!OpenPending
<1> HIDE DEF w, tree
<1>4. ASSUME TheBench!Takes(layout, TheBench!Windows(w)) PROVE PlacedWell(x)
  <2>1. w \in Looks(Layouts) /\ w.shown \subseteq TheBench!Windows(w)
    BY <1>1 DEF PlacedWell
  <2>2. x \in Looks(Layouts) /\ x.shown = w.shown /\ x.open = w.open /\ x.added = w.added /\ x.layout = tree
    BY <1>2, <2>1 DEF Looks
  <2>3. tree.names \subseteq TheBench!Windows(w)
    BY <1>2, <1>4 DEF TheBench!Takes
  <2> HIDE DEF x
  <2>4. TheBench!Windows(x) = TheBench!Windows(w)
    BY <2>2 DEF TheBench!Windows
  <2> QED  BY <2>1, <2>2, <2>3, <2>4 DEF PlacedWell
<1> HIDE DEF x
<1>5. CASE layout # TheBench!NoText /\ TheBench!Takes(layout, TheBench!Windows(w))
  BY <1>3, <1>4, <1>5, ArrangedSettles
<1>6. CASE ~(layout # TheBench!NoText /\ TheBench!Takes(layout, TheBench!Windows(w)))
  BY <1>1, <1>3, <1>6, ArrangedSettles
<1> QED  BY <1>5, <1>6

\* A layout laid over the windows it is of stays as it is.
LEMMA LayoutStays ==
  ASSUME NEW ws, WellKept(ws), ws.layout # TheBench!NoText, NEW b, PlacedWell(b), b.shown = ws.shown,
         b.layout = TheBench!Tree(ws.layout.tag, ws.layout.names)
  PROVE  TheBench!Settle(b).layout = b.layout
<1> DEFINE l == b.layout
<1>1. l.names = ws.layout.names /\ l.knows = ws.layout.names /\ l.names # {}
  BY DEF TheBench!Tree, WellKept
<1>2. b.shown # {} => l.names = b.shown
  BY <1>1 DEF WellKept
<1>3. l # TheBench!NoTree
  BY <1>1 DEF TheBench!NoTree
<1>4. l \in Layouts
  BY DEF PlacedWell, Looks
<1>5. b.shown # {} => [l EXCEPT !.names = b.shown] = l
  BY <1>2, <1>4 DEF Layouts
<1>6. TheBench!Settle(b).layout = TheBench!Arranged(l, b.mode, b.shown)
  BY ArrangedSettles
<1> HIDE DEF l
<1>7. b.shown # {} => b.shown \subseteq l.knows
  BY <1>1, <1>2
<1>8. TheBench!Arranged(l, b.mode, b.shown) = l
  BY <1>2, <1>3, <1>5, <1>7 DEF TheBench!Arranged
<1> QED  BY <1>6, <1>8 DEF l

\* And no layout stays none, where the workspace has none.
LEMMA NoLayoutStays ==
  ASSUME NEW ws, WellKept(ws), ws.layout = TheBench!NoText, NEW b, PlacedWell(b), b.shown \subseteq ws.shown, b.mode = ws.mode,
         b.layout = TheBench!NoTree
  PROVE  TheBench!Settle(b).layout = TheBench!NoTree
<1>1. TheBench!Settle(b).layout = TheBench!Arranged(TheBench!NoTree, b.mode, b.shown)
  BY ArrangedSettles
<1>2. b.mode = "auto" \/ b.shown = {}
  BY DEF WellKept
<1>3. TheBench!NoTree.names = {}
  BY DEF TheBench!NoTree
<1> QED  BY <1>1, <1>2, <1>3 DEF TheBench!Arranged

\* A bench that is a workspace but for the panels still to come, whose states and layout wait, is the workspace once
\* they are there.
LEMMA PanelsMakeItWhole ==
  ASSUME NEW ws, WellKept(ws), TheBench!Restorable(ws), NEW c, PlacedWell(c), NEW states, NEW layout,
         c.mode = ws.mode, c.display = ws.display, c.added = ws.added, c.open \subseteq ws.open,
         c.shown = ({"meter"} \cap ws.shown) \cup ws.added \cup (IF ws.display THEN c.open \cap ws.shown ELSE {}),
         \A d \in ws.open \ c.open : d \in DOMAIN states /\ states[d] = (d \in ws.shown),
         \/ layout = TheBench!NoText /\ ws.layout = TheBench!NoText /\ c.layout = TheBench!NoTree
         \/ layout = TheBench!NoText /\ ws.layout # TheBench!NoText
              /\ c.layout = TheBench!Tree(ws.layout.tag, ws.layout.names)
         \/ layout = ws.layout /\ layout # TheBench!NoText
  PROVE  TheBench!Stored(TheBench!OpenPending(c, ws.open \ c.open, states, layout)) = ws
<1> DEFINE rest == ws.open \ c.open
           w == TheBench!WithPanels(c, rest, states)
           tree == TheBench!Tree(ws.layout.tag, ws.layout.names)
           x == IF layout # TheBench!NoText
                  /\ TheBench!Takes(layout, TheBench!Windows(w))
                       THEN [w EXCEPT !.layout = TheBench!Tree(layout.tag, layout.names)] ELSE w
<1>1. /\ ws \in Looks(Texts) /\ ws.shown \subseteq {"meter"} \cup ws.open \cup ws.added
      /\ ws.layout # TheBench!NoText => ws.layout.names # {}
           /\ ws.layout.names \subseteq {"meter"} \cup ws.open \cup ws.added
  BY DEF WellKept, TheBench!Windows
<1>2. ws.open \in SUBSET Devices /\ ws.layout \in Texts
  BY <1>1 DEF Looks
<1>3. rest \in SUBSET Devices /\ c.open \cup rest = ws.open
  BY <1>2
<1> HIDE DEF rest
<1>4. /\ PlacedWell(w) /\ w.open = ws.open /\ w.added = ws.added /\ w.mode = ws.mode /\ w.display = ws.display
      /\ w.layout = c.layout
      /\ w.shown = c.shown \cup {d \in rest : c.display /\ (d \in DOMAIN states => states[d])}
  <2>1. /\ PlacedWell(w) /\ w.open = c.open \cup rest /\ w.added = c.added /\ w.mode = c.mode /\ w.display = c.display
        /\ w.layout = c.layout
    BY <1>3, PanelsPlaced
  <2>2. w.shown = c.shown \cup {d \in rest : c.display /\ (d \in DOMAIN states => states[d])}
    <3>1. c \in Looks(Layouts)
      BY DEF PlacedWell
    <3> QED  BY <3>1 DEF TheBench!WithPanels, Looks
  <2> HIDE DEF w
  <2> QED  BY <1>3, <2>1, <2>2
<1>5. w.shown = ws.shown
  <2>1. {d \in rest : c.display /\ (d \in DOMAIN states => states[d])} = IF ws.display THEN rest \cap ws.shown ELSE {}
    <3>1. \A d \in rest : (d \in DOMAIN states => states[d]) <=> d \in ws.shown
      BY DEF rest
    <3> QED  BY <3>1
  <2>2. ws.added \subseteq ws.shown /\ (ws.display \/ ws.shown \cap ws.open = {})
    BY DEF TheBench!Restorable
  <2>3. w.shown = ({"meter"} \cap ws.shown) \cup ws.added \cup (IF ws.display THEN ws.open \cap ws.shown ELSE {})
    BY <1>3, <1>4, <2>1
  <2> QED  BY <1>1, <2>2, <2>3
<1>6. TheBench!Windows(w) = {"meter"} \cup ws.open \cup ws.added
  BY <1>4 DEF TheBench!Windows
<1>7. TheBench!OpenPending(c, rest, states, layout) = TheBench!Settle(x)
  BY DEF TheBench!OpenPending
<1>8. /\ PlacedWell(x) /\ x.shown = ws.shown /\ x.open = ws.open /\ x.added = ws.added /\ x.mode = ws.mode
      /\ x.display = ws.display /\ x.layout = IF ws.layout = TheBench!NoText THEN TheBench!NoTree ELSE tree
  <2>1. CASE layout = TheBench!NoText
    <3>1. x = w
      BY <2>1
    <3>2. c.layout = IF ws.layout = TheBench!NoText THEN TheBench!NoTree ELSE tree
      BY <2>1
    <3> HIDE DEF w, x, tree
    <3> QED  BY <1>4, <1>5, <3>1, <3>2
  <2>2. CASE layout # TheBench!NoText
    <3>1. layout = ws.layout
      BY <2>2
    <3>2. TheBench!Takes(layout, TheBench!Windows(w))
      BY <1>1, <1>6, <2>2, <3>1 DEF TheBench!Takes
    <3>3. x = [w EXCEPT !.layout = tree]
      BY <2>2, <3>1, <3>2
    <3> HIDE DEF x
    <3>4. tree \in Layouts /\ tree.names = ws.layout.names
      BY <1>2 DEF TheBench!Tree, Layouts, Texts
    <3> HIDE DEF w, tree
    <3>5. w \in Looks(Layouts)
      BY <1>4 DEF PlacedWell
    <3>6. /\ x \in Looks(Layouts) /\ x.shown = w.shown /\ x.open = w.open /\ x.added = w.added /\ x.mode = w.mode
          /\ x.display = w.display /\ x.layout = tree
      BY <3>3, <3>4, <3>5 DEF Looks
    <3>7. x.shown \subseteq TheBench!Windows(x) /\ x.layout.names \subseteq TheBench!Windows(x)
      BY <1>1, <1>4, <1>5, <2>2, <3>1, <3>4, <3>6 DEF TheBench!Windows
    <3> QED  BY <1>4, <1>5, <2>2, <3>1, <3>6, <3>7 DEF PlacedWell
  <2> QED  BY <2>1, <2>2
<1> HIDE DEF w, x, tree
<1>9. TheBench!Settle(x).layout = x.layout
  <2>1. CASE ws.layout = TheBench!NoText
    BY <1>8, <2>1, NoLayoutStays
  <2>2. CASE ws.layout # TheBench!NoText
    BY <1>8, <2>2, LayoutStays DEF tree
  <2> QED  BY <2>1, <2>2
<1> DEFINE y == TheBench!Settle(x)
<1>10. /\ y.shown = ws.shown /\ y.open = ws.open /\ y.added = ws.added /\ y.mode = ws.mode /\ y.display = ws.display
       /\ y.layout = (IF ws.layout = TheBench!NoText THEN TheBench!NoTree ELSE tree) /\ y \in Looks(Layouts)
  BY <1>8, <1>9, ArrangedSettles DEF Settled, PlacedWell
<1> HIDE DEF y
<1>11. TheBench!Text(y.layout) = ws.layout
  <2>1. CASE ws.layout = TheBench!NoText
    BY <1>10, <2>1 DEF TheBench!Text, TheBench!NoTree, TheBench!NoText
  <2>2. CASE ws.layout # TheBench!NoText
    <3>1. ws.layout = [tag |-> ws.layout.tag, names |-> ws.layout.names]
      BY <1>2 DEF Texts
    <3> QED  BY <1>1, <1>10, <2>2, <3>1 DEF TheBench!Text, TheBench!Tree, tree
  <2> QED  BY <2>1, <2>2
<1>12. TheBench!Stored(y) = [y EXCEPT !.layout = ws.layout]
  BY <1>11 DEF TheBench!Stored
<1>13. [y EXCEPT !.layout = ws.layout] = ws
  BY <1>1, <1>10 DEF Looks
<1> QED  BY <1>7, <1>12, <1>13 DEF y, rest

-----------------------------------------------------------------------------
\* A start with a workspace, before its meters are there.
Begun(ws) ==
  LET made == TheBench!ApplyWorkspace(TheBench!Fresh, ws)
  IN /\ bench = TheBench!Settle(made.bench) /\ panelStates = made.states
     /\ pendingOpen = ws.open /\ pendingLayout = made.layout

\* Every bench is settled, every workspace of a claim one that was stored of such a bench; what was left to be shown is
\* in the settings; and a start with it has so far done nothing else.
BenchInv ==
  /\ phase \in {"Off", "Starting", "Running"} /\ Settled(bench) /\ auto \in BOOLEAN /\ startDisplay \in BOOLEAN
  /\ pendingOpen \in SUBSET Devices /\ pendingLayout \in Texts
  /\ phase = "Running" => pendingOpen = {} /\ pendingLayout = TheBench!NoText
  /\ settings \in [auto : BOOLEAN, ws : Looks(Texts)]
  /\ \A f \in DOMAIN files : WellKept(files[f].ws)
  /\ left \in [why : {"none", "closed", "loaded"}, ws : Looks(Texts)]
  /\ left.why = "closed" => settings.ws = left.ws /\ WellKept(left.ws)
  /\ want.why = "bench" => phase = "Running"
  /\ want.why = "closed" /\ phase = "Starting" => WellKept(want.ws) /\ Begun(want.ws)
  /\ TheBench!BenchIsRestored

LEMMA FreshSettled == Settled(TheBench!Fresh) /\ TheBench!Stored(TheBench!Fresh) \in Looks(Texts)
<1>1. TheBench!Fresh \in Looks(Layouts)
  BY DEF TheBench!Fresh, Looks, Layouts, TheBench!NoTree, Tags, Named, BenchModes
<1>2. Settled(TheBench!Fresh)
  BY <1>1 DEF TheBench!Fresh, Settled, PlacedWell, TheBench!Windows, TheBench!NoTree
<1> QED  BY <1>2, StoredIsKept DEF WellKept

LEMMA BenchInvInit == TheBench!Init => BenchInv
<1> SUFFICES ASSUME TheBench!Init PROVE BenchInv
  OBVIOUS
<1>1. TheBench!NoText \in Texts
  BY DEF TheBench!NoText, Texts, Tags
<1>2. left.why = "none" /\ want.why = "none" /\ left \in [why : {"none", "closed", "loaded"}, ws : Looks(Texts)]
  BY FreshSettled DEF TheBench!Init, TheBench!NoClaim, TheBench!Claim
<1>3. /\ phase = "Off" /\ Settled(bench) /\ auto \in BOOLEAN /\ startDisplay \in BOOLEAN /\ pendingOpen = {}
      /\ pendingLayout = TheBench!NoText
           /\ settings = [auto |-> TRUE, ws |-> TheBench!Stored(TheBench!Fresh)] /\ files = <<>>
  BY FreshSettled DEF TheBench!Init
<1>4. settings \in [auto : BOOLEAN, ws : Looks(Texts)]
  BY <1>3, FreshSettled
<1>5. \A f \in DOMAIN files : WellKept(files[f].ws)
  BY <1>3
<1> QED  BY <1>1, <1>2, <1>3, <1>4, <1>5 DEF BenchInv, TheBench!BenchIsRestored

\* A step that leaves what was left as it is, and makes another bench: nothing is claimed of it.
LEMMA OtherBench ==
  ASSUME BenchInv, phase \in {"Starting", "Running"}, phase' = phase, Settled(bench'), want' = TheBench!NoClaim,
         UNCHANGED <<auto, startDisplay, pendingOpen, pendingLayout, settings, files, left>>
  PROVE  BenchInv'
<1>1. want'.why = "none"
  BY DEF TheBench!NoClaim, TheBench!Claim
<1> QED  BY <1>1 DEF BenchInv, TheBench!BenchIsRestored

LEMMA StartStep == ASSUME BenchInv, TheBench!Start PROVE BenchInv'
<1> DEFINE ws == settings.ws
           made == TheBench!ApplyWorkspace(TheBench!Fresh, ws)
<1>1. /\ phase' = "Starting" /\ bench' = TheBench!Settle(made.bench) /\ panelStates' = made.states
      /\ pendingOpen' = ws.open /\ pendingLayout' = made.layout
      /\ auto' = settings.auto /\ startDisplay' = made.bench.display
      /\ want' = left /\ UNCHANGED <<settings, files, left>>
  BY DEF TheBench!Start, TheBench!disk
<1>2. ws \in Looks(Texts) /\ settings.auto \in BOOLEAN
  BY DEF BenchInv
<1>3. TheBench!Fresh \in Looks(Layouts)
  BY FreshSettled DEF Settled, PlacedWell
<1>4. PlacedWell(made.bench) /\ made.layout \in Texts /\ made.bench.display = ws.display
  BY <1>2, <1>3, WorkspaceComes
<1>5. Settled(bench')
  BY <1>1, <1>4, ArrangedSettles
<1>6. ws.open \in SUBSET Devices /\ ws.display \in BOOLEAN
  BY <1>2 DEF Looks
<1>7. want'.why = "closed" => WellKept(want'.ws) /\ Begun(want.ws)'
  <2> SUFFICES ASSUME want'.why = "closed" PROVE WellKept(want'.ws) /\ Begun(want.ws)'
    OBVIOUS
  <2>1. WellKept(want'.ws) /\ want'.ws = ws
    BY <1>1 DEF BenchInv
  <2>2. /\ bench' = TheBench!Settle(TheBench!ApplyWorkspace(TheBench!Fresh, want'.ws).bench)
             /\ panelStates' = TheBench!ApplyWorkspace(TheBench!Fresh, want'.ws).states
        /\ pendingOpen' = want'.ws.open /\ pendingLayout' = TheBench!ApplyWorkspace(TheBench!Fresh, want'.ws).layout
    BY <1>1, <2>1
  <2>3. Begun(want.ws)'
    BY <2>2 DEF Begun
  <2> QED  BY <2>1, <2>3
<1>8. left.why # "bench"
  BY DEF BenchInv
<1>9. want'.why # "bench"
  BY <1>1, <1>8
<1>10. /\ phase' = "Starting" /\ auto' \in BOOLEAN /\ startDisplay' \in BOOLEAN
       /\ pendingOpen' \in SUBSET Devices /\ pendingLayout' \in Texts /\ UNCHANGED <<settings, files, left>>
  BY <1>1, <1>2, <1>4, <1>6
<1>11. TheBench!BenchIsRestored'
  BY <1>10 DEF TheBench!BenchIsRestored, TheBench!Shows
<1> HIDE DEF made, ws
<1> QED  BY <1>5, <1>7, <1>9, <1>10, <1>11 DEF BenchInv

\* The first second's end: the meters have connected, or not all of them.
LEMMA FirstSecondStep == ASSUME BenchInv, TheBench!FirstSecond PROVE BenchInv'
<1>1. PICK nowOpen \in TheBench!MayOpen(pendingOpen, bench, library) :
        /\ bench' = TheBench!OpenPending(bench, nowOpen, panelStates, pendingLayout)
        /\ want' = IF nowOpen = pendingOpen \ bench.open
             /\ TheBench!Restorable(want.ws) THEN want ELSE TheBench!NoClaim
  BY DEF TheBench!FirstSecond
<1>2. /\ phase = "Starting" /\ phase' = "Running" /\ pendingOpen' = {} /\ pendingLayout' = TheBench!NoText
      /\ UNCHANGED <<auto, startDisplay, settings, files, left>>
  BY DEF TheBench!FirstSecond, TheBench!disk
<1>3. PlacedWell(bench) /\ nowOpen \in SUBSET Devices /\ pendingLayout \in Texts
  BY DEF BenchInv, Settled, TheBench!MayOpen
<1>4. Settled(bench')
  BY <1>1, <1>3, PendingSettles
<1>5. TheBench!NoText \in Texts
  BY DEF TheBench!NoText, Texts, Tags
<1>6. want'.why \in {"closed", "bench"} => TheBench!Stored(bench') = want'.ws
  <2> SUFFICES ASSUME want'.why \in {"closed", "bench"} PROVE TheBench!Stored(bench') = want'.ws
    OBVIOUS
  <2>1. want' = want /\ nowOpen = pendingOpen \ bench.open /\ TheBench!Restorable(want.ws)
    BY <1>1 DEF TheBench!NoClaim, TheBench!Claim
  <2> DEFINE ws == want.ws
             made == TheBench!ApplyWorkspace(TheBench!Fresh, ws)
  <2>2. WellKept(ws) /\ Begun(ws) /\ TheBench!Restorable(ws)
    BY <1>2, <2>1 DEF BenchInv
  <2>3. bench = TheBench!Settle(made.bench) /\ panelStates = made.states /\ pendingOpen = ws.open
          /\ pendingLayout = made.layout
    BY <2>2 DEF Begun
  <2>4. TheBench!Stored(TheBench!OpenPending(bench, ws.open \ bench.open, panelStates, pendingLayout)) = ws
    <3> HIDE DEF ws
    <3>1. TheBench!Fresh \in Looks(Layouts) /\ ws \in Looks(Texts) /\ TheBench!Fresh.open = {}
      BY <2>2, FreshSettled DEF Settled, PlacedWell, WellKept, TheBench!Fresh
    <3> DEFINE b == made.bench
               near == {"meter"} \cup ws.added
               v == ({"meter"} \cap ws.shown) \cup ws.added
    <3>2. /\ PlacedWell(b) /\ b.mode = ws.mode /\ b.display = ws.display /\ b.open = {} /\ b.added = ws.added
          /\ b.shown = v
          /\ TheBench!Takes(ws.layout, near) /\ ws.layout # TheBench!NoText
               => b.layout = TheBench!Tree(ws.layout.tag, ws.layout.names) /\ made.layout = TheBench!NoText
          /\ ws.layout = TheBench!NoText => b.layout = TheBench!NoTree /\ made.layout = TheBench!NoText
          /\ ~TheBench!Takes(ws.layout, near) /\ ws.open # {} => made.layout = ws.layout
      <4>1. {"meter"} \cup TheBench!Fresh.open \cup ws.added = near
        BY <3>1
      <4>2. ({"meter"} \cap ws.shown) \cup ws.added
              \cup (IF ws.display THEN (TheBench!Fresh.open \cap ws.open \cap ws.shown)
                \cup ((TheBench!Fresh.open \ ws.open) \cap TheBench!Fresh.shown) ELSE {})
              = v
        BY <3>1
      <4> HIDE DEF near, v, b, made
      <4> QED  BY <3>1, <4>1, <4>2, WorkspaceComes DEF b, made
    <3>3. panelStates = [d \in ws.open \ TheBench!Fresh.open |-> d \in ws.shown]
      BY <2>3 DEF TheBench!ApplyWorkspace
    <3> HIDE DEF made, b
    <3>4. /\ ws.shown \subseteq near \cup ws.open /\ ws.added \subseteq ws.shown
          /\ ws.layout # TheBench!NoText => ws.layout.names # {} /\ ws.layout.names \subseteq near \cup ws.open
                                   /\ (ws.shown # {} => ws.layout.names = ws.shown)
      BY <2>2 DEF WellKept, TheBench!Windows, TheBench!Restorable
    <3>5. PlacedWell(bench) /\ bench.mode = ws.mode /\ bench.display = ws.display /\ bench.open = {}
            /\ bench.added = ws.added
          /\ bench.shown = v /\ bench.layout = TheBench!Settle(b).layout
      BY <1>3, <2>3, <3>2, ArrangedSettles DEF b
    <3>6. \/ pendingLayout = TheBench!NoText /\ ws.layout = TheBench!NoText /\ bench.layout = TheBench!NoTree
          \/ pendingLayout = TheBench!NoText /\ ws.layout # TheBench!NoText
               /\ bench.layout = TheBench!Tree(ws.layout.tag, ws.layout.names)
          \/ pendingLayout = ws.layout /\ pendingLayout # TheBench!NoText
      <4>1. CASE ws.layout = TheBench!NoText
        <5>1. TheBench!Settle(b).layout = TheBench!NoTree
          <6>1. b.shown \subseteq ws.shown /\ b.layout = TheBench!NoTree
            BY <3>2, <3>4, <4>1
          <6> QED  BY <2>2, <3>2, <4>1, <6>1, NoLayoutStays
        <5> QED  BY <2>3, <3>2, <3>5, <4>1, <5>1
      <4>2. CASE ws.layout # TheBench!NoText /\ TheBench!Takes(ws.layout, near)
        <5>1. b.layout = TheBench!Tree(ws.layout.tag, ws.layout.names) /\ pendingLayout = TheBench!NoText
          BY <2>3, <3>2, <4>2
        <5>2. b.shown = ws.shown
          <6>1. ws.layout.names \subseteq near
            BY <4>2 DEF TheBench!Takes
          <6>2. ws.shown \subseteq near
            BY <3>4, <4>2, <6>1
          <6> QED  BY <3>2, <3>4, <6>2
        <5>3. TheBench!Settle(b).layout = b.layout
          BY <2>2, <3>2, <4>2, <5>1, <5>2, LayoutStays
        <5> QED  BY <3>5, <4>2, <5>1, <5>3
      <4>3. CASE ws.layout # TheBench!NoText /\ ~TheBench!Takes(ws.layout, near)
        <5>1. ws.open # {}
          BY <3>4, <4>3 DEF TheBench!Takes
        <5> QED  BY <2>3, <3>2, <4>3, <5>1
      <4> QED  BY <4>1, <4>2, <4>3
    <3>7. \A d \in ws.open \ bench.open : d \in DOMAIN panelStates /\ panelStates[d] = (d \in ws.shown)
      BY <3>1, <3>3, <3>5
    <3>8. bench.shown = ({"meter"} \cap ws.shown) \cup ws.added \cup (IF ws.display
            THEN bench.open \cap ws.shown ELSE {})
      BY <3>5
    <3>9. bench.open \subseteq ws.open
      BY <3>5
    <3> HIDE DEF near, v
    <3> QED  BY <2>2, <3>5, <3>6, <3>7, <3>8, <3>9, PanelsMakeItWhole
  <2>5. nowOpen = ws.open \ bench.open
    BY <2>1, <2>3
  <2> QED  BY <1>1, <2>1, <2>4, <2>5
<1> QED  BY <1>2, <1>4, <1>5, <1>6 DEF BenchInv, TheBench!BenchIsRestored, TheBench!Shows

\* A bench file is loaded: into a bench with meters of its own, panels the user hid, and a layout.
LEMMA LoadStep == ASSUME BenchInv, NEW f \in DOMAIN files, TheBench!LoadWorkspaceFile(f) PROVE BenchInv'
<1> DEFINE ws      == files[f].ws
           closing == bench.open \ ws.open
           closed  == [TheBench!Fresh EXCEPT !.open = bench.open \ closing, !.shown = bench.shown \ closing]
           made    == TheBench!ApplyWorkspace(closed, ws)
           b       == made.bench
           states  == TheBench!States(made.states)
           waiting == IF made.layout = TheBench!NoText THEN pendingLayout ELSE made.layout
           lib     == library \cup files[f].copies
           whole(nowOpen) == nowOpen = ws.open \ b.open /\ TheBench!Restorable(ws) /\ phase = "Running"
<1>1. /\ phase # "Off" /\ settings' = IF auto THEN settings ELSE [auto |-> TRUE, ws |-> TheBench!Stored(b)]
      /\ startDisplay' = IF auto THEN startDisplay ELSE b.display
      /\ pendingOpen' = {} /\ pendingLayout' = TheBench!NoText /\ UNCHANGED <<phase, auto, files>>
  BY DEF TheBench!LoadWorkspaceFile
<1>2. PICK nowOpen \in TheBench!MayOpen(ws.open, b, lib) :
        /\ bench' = TheBench!OpenPending(b, nowOpen, states, waiting)
        /\ want' = IF whole(nowOpen) THEN TheBench!Claim("bench", ws) ELSE TheBench!NoClaim
        /\ left' = IF auto THEN left ELSE IF whole(nowOpen) THEN TheBench!Claim("loaded", ws) ELSE TheBench!NoClaim
  BY DEF TheBench!LoadWorkspaceFile
<1>3. WellKept(ws) /\ ws \in Looks(Texts) /\ pendingLayout \in Texts /\ phase \in {"Starting", "Running"}
  BY <1>1 DEF BenchInv, WellKept
<1>4. /\ ws.open \in SUBSET Devices /\ ws.layout \in Texts /\ ws.display \in BOOLEAN
      /\ bench.open \in SUBSET Devices /\ bench.shown \in SUBSET Named
  BY <1>3 DEF Looks, BenchInv, Settled, PlacedWell
<1>5. closed \in Looks(Layouts) /\ closed.open = bench.open \cap ws.open
  <2> DEFINE o == bench.open \ closing
             v == bench.shown \ closing
  <2>1. o \in SUBSET Devices /\ v \in SUBSET Named /\ o = bench.open \cap ws.open
    BY <1>4
  <2>2. TheBench!Fresh \in Looks(Layouts)
    BY FreshSettled DEF Settled, PlacedWell
  <2> HIDE DEF o, v
  <2>3. [TheBench!Fresh EXCEPT !.open = o, !.shown = v] \in Looks(Layouts)
          /\ [TheBench!Fresh EXCEPT !.open = o, !.shown = v].open = o
    BY <2>1, <2>2 DEF Looks
  <2> QED  BY <2>1, <2>3 DEF o, v
<1> HIDE DEF closed, ws
<1> DEFINE near == {"meter"} \cup closed.open \cup ws.added
           v    == ({"meter"} \cap ws.shown) \cup ws.added \cup (IF ws.display THEN closed.open \cap ws.shown ELSE {})
<1>6. /\ PlacedWell(b) /\ made.layout \in Texts /\ b.mode = ws.mode /\ b.display = ws.display /\ b.open = closed.open
      /\ b.added = ws.added /\ b.shown = v
      /\ TheBench!Takes(ws.layout, near) /\ ws.layout # TheBench!NoText
           => b.layout = TheBench!Tree(ws.layout.tag, ws.layout.names) /\ made.layout = TheBench!NoText
      /\ ws.layout = TheBench!NoText => b.layout = TheBench!NoTree /\ made.layout = TheBench!NoText
      /\ ~TheBench!Takes(ws.layout, near) /\ ws.open # {} => made.layout = ws.layout
  <2>1. ({"meter"} \cap ws.shown) \cup ws.added
          \cup (IF ws.display THEN (closed.open \cap ws.open \cap ws.shown)
            \cup ((closed.open \ ws.open) \cap closed.shown) ELSE {})
          = v
    BY <1>5
  <2> HIDE DEF v, b, made
  <2> QED  BY <1>3, <1>5, <2>1, WorkspaceComes DEF b, made
<1>7. \A d \in ws.open \ closed.open : d \in DOMAIN states /\ states[d] = (d \in ws.shown)
  <2>1. made.states = [d \in ws.open \ closed.open |-> d \in ws.shown]
    BY DEF TheBench!ApplyWorkspace
  <2> HIDE DEF made
  <2> QED  BY <2>1 DEF TheBench!States
<1> HIDE DEF made, b, states, lib
<1>8. waiting \in Texts /\ nowOpen \in SUBSET Devices
  BY <1>3, <1>4, <1>6 DEF TheBench!MayOpen
<1>9. Settled(bench')
  BY <1>2, <1>6, <1>8, PendingSettles
<1>10. ASSUME whole(nowOpen) PROVE TheBench!Stored(bench') = ws
  <2>1. nowOpen = ws.open \ b.open /\ TheBench!Restorable(ws) /\ pendingLayout = TheBench!NoText
    BY <1>10 DEF BenchInv
  <2>2. \/ waiting = TheBench!NoText /\ ws.layout = TheBench!NoText /\ b.layout = TheBench!NoTree
        \/ waiting = TheBench!NoText /\ ws.layout # TheBench!NoText
             /\ b.layout = TheBench!Tree(ws.layout.tag, ws.layout.names)
        \/ waiting = ws.layout /\ waiting # TheBench!NoText
    <3>1. CASE ws.layout = TheBench!NoText
      BY <1>6, <2>1, <3>1
    <3>2. CASE ws.layout # TheBench!NoText /\ TheBench!Takes(ws.layout, near)
      BY <1>6, <2>1, <3>2
    <3>3. CASE ws.layout # TheBench!NoText /\ ~TheBench!Takes(ws.layout, near)
      <4>1. ws.layout.names \subseteq near \cup ws.open
        BY <1>3, <3>3 DEF WellKept, TheBench!Windows
      <4>2. ws.open # {}
        BY <3>3, <4>1 DEF TheBench!Takes
      <4>3. made.layout = ws.layout
        BY <1>6, <3>3, <4>2
      <4> QED  BY <3>3, <4>3
    <3> QED  BY <3>1, <3>2, <3>3
  <2>3. b.shown = ({"meter"} \cap ws.shown) \cup ws.added \cup (IF ws.display THEN b.open \cap ws.shown ELSE {})
    BY <1>6
  <2>4. b.open \subseteq ws.open /\ \A d \in ws.open \ b.open : d \in DOMAIN states /\ states[d] = (d \in ws.shown)
    BY <1>5, <1>6, <1>7
  <2> HIDE DEF near, v, waiting
  <2>5. TheBench!Stored(TheBench!OpenPending(b, ws.open \ b.open, states, waiting)) = ws
    BY <1>3, <1>6, <2>1, <2>2, <2>3, <2>4, PanelsMakeItWhole
  <2> QED  BY <1>2, <2>1, <2>5
<1>11. settings' \in [auto : BOOLEAN, ws : Looks(Texts)] /\ startDisplay' \in BOOLEAN
  <2>1. TheBench!Stored(b) \in Looks(Texts)
    <3>1. b \in Looks(Layouts)
      BY <1>6 DEF PlacedWell
    <3>2. b.layout.tag \in Tags /\ b.layout.names \in SUBSET Named
      BY <3>1 DEF Looks, Layouts
    <3>3. TheBench!NoText \in Texts
      BY DEF TheBench!NoText, Texts, Tags
    <3>4. TheBench!Text(b.layout) \in Texts
      BY <3>2, <3>3 DEF TheBench!Text, Texts
    <3> QED  BY <3>1, <3>4 DEF TheBench!Stored, Looks
  <2> QED  BY <1>1, <1>4, <1>6, <2>1 DEF BenchInv
<1>12. /\ left' \in [why : {"none", "closed", "loaded"}, ws : Looks(Texts)]
       /\ left'.why = "closed" => left' = left /\ settings' = settings
  <2>1. TheBench!NoClaim \in [why : {"none", "closed", "loaded"}, ws : Looks(Texts)]
          /\ TheBench!NoClaim.why # "closed"
    BY FreshSettled DEF TheBench!NoClaim, TheBench!Claim
  <2>2. TheBench!Claim("loaded", ws) \in [why : {"none", "closed", "loaded"}, ws : Looks(Texts)]
          /\ TheBench!Claim("loaded", ws).why # "closed"
    BY <1>3 DEF TheBench!Claim
  <2>3. CASE auto
    BY <1>1, <1>2, <2>3 DEF BenchInv
  <2>4. CASE ~auto
    BY <1>2, <2>1, <2>2, <2>4
  <2> QED  BY <2>3, <2>4
<1>13. /\ want'.why = "bench" => phase' = "Running" /\ TheBench!Stored(bench') = want'.ws
       /\ want'.why # "closed"
  <2>1. CASE whole(nowOpen)
    <3>1. want' = TheBench!Claim("bench", ws) /\ phase' = "Running"
      BY <1>1, <1>2, <2>1
    <3> QED  BY <1>10, <2>1, <3>1 DEF TheBench!Claim
  <2>2. CASE ~whole(nowOpen)
    <3>1. want' = TheBench!NoClaim
      BY <1>2, <2>2
    <3> QED  BY <3>1 DEF TheBench!NoClaim, TheBench!Claim
  <2> QED  BY <2>1, <2>2
<1>14. TheBench!BenchIsRestored'
  BY <1>13 DEF TheBench!BenchIsRestored, TheBench!Shows
<1>15. TheBench!NoText \in Texts
  BY DEF TheBench!NoText, Texts, Tags
<1>16. left'.why = "closed" => settings'.ws = left'.ws /\ WellKept(left'.ws)
  BY <1>12 DEF BenchInv
<1>17. \A g \in DOMAIN files' : WellKept(files'[g].ws)
  BY <1>1 DEF BenchInv
<1>18. /\ phase' \in {"Off", "Starting", "Running"} /\ auto' \in BOOLEAN
       /\ pendingOpen' \in SUBSET Devices /\ pendingLayout' \in Texts /\ pendingOpen' = {}
            /\ pendingLayout' = TheBench!NoText
  BY <1>1, <1>3, <1>15 DEF BenchInv
<1> QED  BY <1>9, <1>11, <1>12, <1>13, <1>14, <1>16, <1>17, <1>18 DEF BenchInv

\* The window closes, or the user stays.
LEMMA CloseStep == ASSUME BenchInv, NEW stays \in BOOLEAN, TheBench!Close(stays) PROVE BenchInv'
<1> DEFINE display == IF auto THEN bench.display ELSE startDisplay
           panels  == IF display THEN bench.open ELSE {}
           ws      == IF auto THEN TheBench!Stored(bench) ELSE [settings.ws EXCEPT !.display = display]
           v       == (bench.shown \ bench.open) \cup panels
           other   == [bench EXCEPT !.display = display, !.shown = v]
<1>1. /\ settings' = [auto |-> auto, ws |-> ws]
      /\ left' = IF auto THEN TheBench!Claim("closed", ws) ELSE [left EXCEPT !.ws.display = display]
      /\ bench' = IF display = bench.display THEN bench ELSE TheBench!Settle(other)
      /\ phase' = (IF stays THEN phase ELSE "Off") /\ want' = TheBench!NoClaim
      /\ UNCHANGED <<auto, startDisplay, pendingOpen, pendingLayout, files>>
  BY DEF TheBench!Close
<1>2. /\ Settled(bench) /\ bench \in Looks(Layouts) /\ bench.shown \subseteq TheBench!Windows(bench)
      /\ bench.layout.names \subseteq TheBench!Windows(bench)
      /\ auto \in BOOLEAN /\ startDisplay \in BOOLEAN /\ settings.ws \in Looks(Texts)
      /\ left \in [why : {"none", "closed", "loaded"}, ws : Looks(Texts)]
      /\ left.why = "closed" => settings.ws = left.ws /\ WellKept(left.ws)
  BY DEF BenchInv, Settled, PlacedWell
<1>3. bench.display \in BOOLEAN /\ bench.open \in SUBSET Devices /\ bench.shown \in SUBSET Named
  BY <1>2 DEF Looks
<1>4. display \in BOOLEAN /\ v \in SUBSET Named /\ v \subseteq TheBench!Windows(bench)
  BY <1>2, <1>3 DEF Named, TheBench!Windows
<1>5. WellKept(TheBench!Stored(bench))
  BY <1>2, StoredIsKept
<1> HIDE DEF display, v
<1>6. Settled(bench')
  <2>1. /\ other \in Looks(Layouts) /\ other.shown = v /\ other.open = bench.open /\ other.added = bench.added
        /\ other.layout = bench.layout
    BY <1>2, <1>4 DEF Looks
  <2> HIDE DEF other
  <2>2. PlacedWell(other)
    BY <1>2, <1>4, <2>1 DEF PlacedWell, TheBench!Windows
  <2> QED  BY <1>1, <1>2, <2>2, ArrangedSettles
<1>7. \A x \in Looks(Texts) : /\ [x EXCEPT !.display = display] \in Looks(Texts)
                              /\ WellKept(x) => WellKept([x EXCEPT !.display = display])
  <2> SUFFICES ASSUME NEW x \in Looks(Texts)
               PROVE  /\ [x EXCEPT !.display = display] \in Looks(Texts)
                      /\ WellKept(x) => WellKept([x EXCEPT !.display = display])
    OBVIOUS
  <2> DEFINE y == [x EXCEPT !.display = display]
  <2>1. /\ y \in Looks(Texts) /\ y.shown = x.shown /\ y.open = x.open /\ y.added = x.added
        /\ y.layout = x.layout /\ y.mode = x.mode
    BY <1>4 DEF Looks
  <2> HIDE DEF y
  <2>2. WellKept(x) => WellKept(y)
    BY <2>1 DEF WellKept, TheBench!Windows
  <2> QED  BY <2>1, <2>2 DEF y
<1>8. CASE auto
  <2>1. settings'.ws = TheBench!Stored(bench) /\ left' = TheBench!Claim("closed", TheBench!Stored(bench))
          /\ settings' = [auto |-> auto, ws |-> TheBench!Stored(bench)]
    BY <1>1, <1>8
  <2>2. left'.why = "closed" /\ left'.ws = TheBench!Stored(bench)
          /\ left' = [why |-> "closed", ws |-> TheBench!Stored(bench)]
    BY <2>1 DEF TheBench!Claim
  <2>3. TheBench!Stored(bench) \in Looks(Texts)
    BY <1>5 DEF WellKept
  <2>4. /\ settings' \in [auto : BOOLEAN, ws : Looks(Texts)]
             /\ left' \in [why : {"none", "closed", "loaded"}, ws : Looks(Texts)]
        /\ left'.why = "closed" => settings'.ws = left'.ws /\ WellKept(left'.ws)
    BY <1>2, <1>5, <2>1, <2>2, <2>3
  <2>5. want'.why = "none"
    BY <1>1 DEF TheBench!NoClaim, TheBench!Claim
  <2> QED  BY <1>1, <1>6, <2>4, <2>5 DEF BenchInv, TheBench!BenchIsRestored
<1>9. CASE ~auto
  <2> DEFINE new == [settings.ws EXCEPT !.display = display]
  <2>1. settings' = [auto |-> auto, ws |-> new] /\ left' = [left EXCEPT !.ws.display = display]
    BY <1>1, <1>9
  <2>2. left'.why = left.why /\ left'.ws = [left.ws EXCEPT !.display = display]
          /\ left' \in [why : {"none", "closed", "loaded"}, ws : Looks(Texts)]
    BY <1>2, <1>7, <2>1
  <2>3. new \in Looks(Texts)
    BY <1>2, <1>7
  <2>4. left.why = "closed" => left'.ws = new /\ WellKept(new)
    BY <1>2, <1>7, <2>2
  <2> HIDE DEF new
  <2>5. /\ settings' \in [auto : BOOLEAN, ws : Looks(Texts)]
        /\ left'.why = "closed" => settings'.ws = left'.ws /\ WellKept(left'.ws)
    BY <1>2, <2>1, <2>2, <2>3, <2>4
  <2>6. want'.why = "none"
    BY <1>1 DEF TheBench!NoClaim, TheBench!Claim
  <2> QED  BY <1>1, <1>6, <2>2, <2>5, <2>6 DEF BenchInv, TheBench!BenchIsRestored
<1> QED  BY <1>2, <1>8, <1>9

\* What the user does to the bench.
LEMMA ChangesStep ==
  ASSUME BenchInv, NEW b, PlacedWell(b), TheBench!Changes(b)
  PROVE  BenchInv'
<1>1. /\ phase \in {"Starting", "Running"} /\ phase' = phase /\ bench' = TheBench!Settle(b)
           /\ want' = TheBench!NoClaim
      /\ UNCHANGED <<auto, startDisplay, pendingOpen, pendingLayout, settings, files, left>>
  BY DEF TheBench!Changes, TheBench!disk, BenchInv
<1>2. Settled(bench')
  BY <1>1, ArrangedSettles
<1> QED  BY <1>1, <1>2, OtherBench

\* Other windows of the bench are shown.
LEMMA OthersPlaced ==
  ASSUME NEW b, PlacedWell(b), NEW display \in BOOLEAN, NEW v, v \subseteq TheBench!Windows(b)
  PROVE  PlacedWell([b EXCEPT !.display = display, !.shown = v])
<1> DEFINE w == [b EXCEPT !.display = display, !.shown = v]
<1>1. b \in Looks(Layouts) /\ b.layout.names \subseteq TheBench!Windows(b)
  BY DEF PlacedWell
<1>2. v \in SUBSET Named
  BY <1>1 DEF TheBench!Windows, Looks, Named
<1>3. w \in Looks(Layouts) /\ w.shown = v /\ w.open = b.open /\ w.added = b.added /\ w.layout = b.layout
  BY <1>1, <1>2 DEF Looks
<1> HIDE DEF w
<1>4. PlacedWell(w)
  BY <1>1, <1>3 DEF PlacedWell, TheBench!Windows
<1> QED  BY <1>4 DEF w

\* Another layout, or another mode.
LEMMA RelaidPlaced ==
  ASSUME NEW b, PlacedWell(b), NEW mode \in BenchModes, NEW l \in Layouts, l.names \subseteq TheBench!Windows(b)
  PROVE  PlacedWell([b EXCEPT !.mode = mode, !.layout = l])
<1> DEFINE w == [b EXCEPT !.mode = mode, !.layout = l]
<1>1. b \in Looks(Layouts) /\ b.shown \subseteq TheBench!Windows(b)
  BY DEF PlacedWell
<1>2. w \in Looks(Layouts) /\ w.shown = b.shown /\ w.open = b.open /\ w.added = b.added /\ w.layout = l
  BY <1>1 DEF Looks
<1> HIDE DEF w
<1>3. PlacedWell(w)
  BY <1>1, <1>2 DEF PlacedWell, TheBench!Windows
<1> QED  BY <1>3 DEF w

LEMMA BenchStep == BenchInv /\ [TheBench!Next]_TheBench!vars => BenchInv'
<1> SUFFICES ASSUME BenchInv, [TheBench!Next]_TheBench!vars PROVE BenchInv'
  OBVIOUS
<1>0. /\ PlacedWell(bench) /\ bench \in Looks(Layouts) /\ bench.shown \subseteq TheBench!Windows(bench)
      /\ bench.layout.names \subseteq TheBench!Windows(bench) /\ bench.display \in BOOLEAN
           /\ bench.mode \in BenchModes
      /\ bench.open \in SUBSET Devices /\ bench.added \in SUBSET Views /\ bench.layout \in Layouts
      /\ bench.shown \in SUBSET Named
  BY DEF BenchInv, Settled, PlacedWell, Looks
<1>1. CASE UNCHANGED TheBench!vars
  BY <1>1 DEF TheBench!vars, TheBench!window, TheBench!disk, BenchInv, TheBench!BenchIsRestored, TheBench!Shows, Begun
<1>2. CASE TheBench!Start
  BY <1>2, StartStep
<1>3. CASE TheBench!FirstSecond
  BY <1>3, FirstSecondStep
<1>4. ASSUME NEW stays \in BOOLEAN, TheBench!Close(stays) PROVE BenchInv'
  BY <1>4, CloseStep
<1>5. CASE TheBench!Crash
  <2>1. phase' = "Off" /\ want' = TheBench!NoClaim /\ UNCHANGED <<TheBench!window, TheBench!disk, left>>
    BY <1>5 DEF TheBench!Crash
  <2>2. want'.why = "none"
    BY <2>1 DEF TheBench!NoClaim, TheBench!Claim
  <2> QED  BY <2>1, <2>2 DEF BenchInv, TheBench!BenchIsRestored, TheBench!window, TheBench!disk
<1>6. ASSUME NEW f \in Files, TheBench!SaveWorkspace(f) PROVE BenchInv'
  <2> DEFINE new == [ws |-> TheBench!Stored(bench), copies |-> bench.open \cap library]
  <2>1. /\ phase # "Off" /\ phase' = phase /\ want' = TheBench!NoClaim
             /\ UNCHANGED <<TheBench!window, settings, left>>
        /\ files' = [g \in DOMAIN files \cup {f} |-> IF g = f THEN new ELSE files[g]]
    BY <1>6 DEF TheBench!SaveWorkspace
  <2>2. WellKept(new.ws)
    BY StoredIsKept DEF BenchInv
  <2> HIDE DEF new
  <2>3. \A g \in DOMAIN files' : WellKept(files'[g].ws)
    <3> SUFFICES ASSUME NEW g \in DOMAIN files' PROVE WellKept(files'[g].ws)
      OBVIOUS
    <3>1. g \in DOMAIN files \cup {f} /\ files'[g] = IF g = f THEN new ELSE files[g]
      BY <2>1
    <3>2. CASE g = f
      BY <2>2, <3>1, <3>2
    <3>3. CASE g # f
      BY <3>1, <3>3 DEF BenchInv
    <3> QED  BY <3>2, <3>3
  <2>4. want'.why = "none"
    BY <2>1 DEF TheBench!NoClaim, TheBench!Claim
  <2> QED  BY <2>1, <2>3, <2>4 DEF BenchInv, TheBench!BenchIsRestored, TheBench!window
<1>7. ASSUME NEW f \in DOMAIN files, TheBench!LoadWorkspaceFile(f) PROVE BenchInv'
  BY <1>7, LoadStep
<1>8. ASSUME NEW d \in Devices, TheBench!Open(d) PROVE BenchInv'
  <2>1. {d} \in SUBSET Devices
    OBVIOUS
  <2>2. TheBench!Changes(TheBench!WithPanels(bench, {d}, panelStates))
    BY <1>8 DEF TheBench!Open
  <2> QED  BY <1>0, <2>1, <2>2, PanelsPlaced, ChangesStep
<1>9. ASSUME NEW d \in Devices, TheBench!CloseDevice(d) PROVE BenchInv'
  BY <1>0, <1>9, NoPanelPlaced, ChangesStep DEF TheBench!CloseDevice
<1>10. ASSUME NEW d \in Devices, TheBench!RemoveEntry(d) PROVE BenchInv'
  BY <1>10 DEF TheBench!RemoveEntry, TheBench!window, BenchInv, TheBench!BenchIsRestored, TheBench!Shows, Begun
<1>11. ASSUME NEW d \in Devices, NEW connects \in BOOLEAN, TheBench!DeviceSettings(d, connects) PROVE BenchInv'
  <2> DEFINE gone   == TheBench!WithoutPanel(bench, d)
             states == TheBench!States([e \in {d} |-> d \in bench.shown])
             b      == IF connects THEN TheBench!WithPanels(gone, {d}, states) ELSE gone
  <2>1. TheBench!Changes(b)
    BY <1>11 DEF TheBench!DeviceSettings
  <2>2. PlacedWell(gone) /\ {d} \in SUBSET Devices
    BY <1>0, NoPanelPlaced
  <2> HIDE DEF gone, states
  <2>3. PlacedWell(b)
    BY <2>2, PanelsPlaced
  <2> HIDE DEF b
  <2> QED  BY <2>1, <2>3, ChangesStep
<1>12. ASSUME NEW w \in {"meter"} \cup Views
         \cup Devices, NEW on \in BOOLEAN, TheBench!SetShown(w, on) PROVE BenchInv'
  <2> DEFINE v == IF on THEN bench.shown \cup {w} ELSE bench.shown \ {w}
  <2>1. TheBench!Changes([bench EXCEPT !.shown = v]) /\ v \subseteq TheBench!Windows(bench)
    BY <1>0, <1>12 DEF TheBench!SetShown
  <2> HIDE DEF v
  <2>2. [bench EXCEPT !.shown = v] = [bench EXCEPT !.display = bench.display, !.shown = v]
    BY <1>0 DEF Looks
  <2> QED  BY <1>0, <2>1, <2>2, OthersPlaced, ChangesStep
<1>13. CASE TheBench!ToggleDisplay
  <2> DEFINE v == IF bench.display THEN bench.shown \ bench.open ELSE bench.shown \cup bench.open
             display == ~bench.display
  <2>1. TheBench!Changes([bench EXCEPT !.display = display, !.shown = v])
    BY <1>13 DEF TheBench!ToggleDisplay
  <2>2. v \subseteq TheBench!Windows(bench) /\ display \in BOOLEAN
    BY <1>0 DEF TheBench!Windows
  <2> HIDE DEF v, display
  <2> QED  BY <1>0, <2>1, <2>2, OthersPlaced, ChangesStep
<1>14. CASE TheBench!ToggleMeters
  <2> DEFINE all == {"meter"} \cup bench.added
             v == IF "meter" \in bench.shown THEN bench.shown \ all ELSE bench.shown \cup all
  <2>1. TheBench!Changes([bench EXCEPT !.shown = v])
    BY <1>14 DEF TheBench!ToggleMeters
  <2>2. v \subseteq TheBench!Windows(bench)
    BY <1>0 DEF TheBench!Windows
  <2> HIDE DEF v
  <2>3. [bench EXCEPT !.shown = v] = [bench EXCEPT !.display = bench.display, !.shown = v]
    BY <1>0 DEF Looks
  <2> QED  BY <1>0, <2>1, <2>2, <2>3, OthersPlaced, ChangesStep
<1>15. ASSUME NEW v \in Views, TheBench!AddView(v) PROVE BenchInv'
  <2> DEFINE a == bench.added \cup {v}
             s == bench.shown \cup {v}
             b == [bench EXCEPT !.added = a, !.shown = s]
  <2>1. TheBench!Changes(b)
    BY <1>15 DEF TheBench!AddView
  <2>2. a \in SUBSET Views /\ s \in SUBSET Named /\ s \subseteq {"meter"} \cup bench.open \cup a
        /\ bench.layout.names \subseteq {"meter"} \cup bench.open \cup a
    BY <1>0 DEF Named, TheBench!Windows
  <2> HIDE DEF a, s
  <2>3. b \in Looks(Layouts) /\ b.added = a /\ b.shown = s /\ b.open = bench.open /\ b.layout = bench.layout
    BY <1>0, <2>2 DEF Looks
  <2> HIDE DEF b
  <2>4. PlacedWell(b)
    BY <2>2, <2>3 DEF PlacedWell, TheBench!Windows
  <2> QED  BY <2>1, <2>4, ChangesStep
<1>16. ASSUME NEW v \in Views, TheBench!RemoveView(v) PROVE BenchInv'
  <2> DEFINE a == bench.added \ {v}
             s == bench.shown \ {v}
             l == TheBench!Without(bench.layout, bench.mode, v)
             b == [bench EXCEPT !.added = a, !.shown = s, !.layout = l]
  <2>1. TheBench!Changes(b)
    BY <1>16 DEF TheBench!RemoveView
  <2>2. l \in Layouts /\ l.names \subseteq bench.layout.names \ {v}
    BY <1>0, WithoutTyped
  <2> HIDE DEF l
  <2>3. a \in SUBSET Views /\ s \in SUBSET Named /\ s \subseteq {"meter"} \cup bench.open \cup a
        /\ l.names \subseteq {"meter"} \cup bench.open \cup a
    BY <1>0, <2>2 DEF TheBench!Windows
  <2> HIDE DEF a, s
  <2>4. b \in Looks(Layouts) /\ b.added = a /\ b.shown = s /\ b.open = bench.open /\ b.layout = l
    BY <1>0, <2>2, <2>3 DEF Looks
  <2> HIDE DEF b
  <2>5. PlacedWell(b)
    BY <2>3, <2>4 DEF PlacedWell, TheBench!Windows
  <2> QED  BY <2>1, <2>5, ChangesStep
<1>17. CASE TheBench!LayOut
  <2> DEFINE l == TheBench!Tree("user", bench.shown)
  <2>1. TheBench!Changes([bench EXCEPT !.layout = l])
    BY <1>17 DEF TheBench!LayOut
  <2>2. l \in Layouts /\ l.names \subseteq TheBench!Windows(bench)
    BY <1>0 DEF TheBench!Tree, Layouts, Tags
  <2> HIDE DEF l
  <2>3. [bench EXCEPT !.layout = l] = [bench EXCEPT !.mode = bench.mode, !.layout = l]
    BY <1>0 DEF Looks
  <2> QED  BY <1>0, <2>1, <2>2, <2>3, RelaidPlaced, ChangesStep
<1>18. ASSUME NEW mode \in {"auto", "fixed"}, TheBench!SetMode(mode) PROVE BenchInv'
  <2> DEFINE l == IF mode = "auto" THEN TheBench!NoTree ELSE bench.layout
  <2>1. TheBench!Changes([bench EXCEPT !.mode = mode, !.layout = l])
    BY <1>18 DEF TheBench!SetMode
  <2>2. l \in Layouts /\ l.names \subseteq TheBench!Windows(bench)
    BY <1>0 DEF TheBench!NoTree, Layouts, Tags
  <2>3. mode \in BenchModes
    BY DEF BenchModes
  <2> HIDE DEF l
  <2> QED  BY <1>0, <2>1, <2>2, <2>3, RelaidPlaced, ChangesStep
<1>19. CASE TheBench!ToggleAuto
  <2>1. auto' \in BOOLEAN /\ UNCHANGED <<phase, bench, startDisplay, panelStates, pendingOpen, pendingLayout, settings, files, left, want>>
    BY <1>19 DEF TheBench!ToggleAuto, TheBench!disk, BenchInv
  <2> QED  BY <2>1 DEF BenchInv, TheBench!BenchIsRestored, TheBench!Shows, Begun
<1> QED  BY <1>1, <1>2, <1>3, <1>4, <1>5, <1>6, <1>7, <1>8, <1>9, <1>10, <1>11, <1>12, <1>13, <1>14, <1>15, <1>16, <1>17,
            <1>18, <1>19 DEF TheBench!Next

\* MainWindow: once its meters have connected, the window shows the bench it was closed with, or the one of the file,
\* whatever it showed before, and whatever happened in between: earlier runs that crashed or did not save, entries
\* removed, meters closed (storeWorkspace, applyWorkspace, openPending).
THEOREM BenchComesBack == TheBench!Spec => []BenchIsRestored
<1>1. TheBench!Init => BenchInv
  BY BenchInvInit
<1>2. BenchInv /\ [TheBench!Next]_TheBench!vars => BenchInv'
  BY BenchStep
<1>3. BenchInv => BenchIsRestored
  BY DEF BenchInv, BenchIsRestored
<1> QED  BY <1>1, <1>2, <1>3, PTL DEF TheBench!Spec
================================================================================
