---------------------------- MODULE StoreOpsProofs ----------------------------
(***************************************************************************)
(* What the operations of a store keep, whatever the constants are: each   *)
(* takes a store to a store.                                               *)
(***************************************************************************)
EXTENDS StoreOps, TLAPS, FiniteSetTheorems, SequenceTheorems

LEMMA Empty == <<>> \in Seq(Points)
BY EmptySeq

LEMMA NewestIsPoint ==
  ASSUME NEW series \in Seq(Points), series # <<>>
  PROVE  Len(series) \in Nat /\ Len(series) >= 1 /\ Newest(series) \in Points
<1>1. Len(series) \in Nat \ {0}
  BY EmptySeq
<1> QED  BY <1>1, ElementOfSeq DEF Newest

\* How many points are not after a moment: none, or at most all.
LEMMA HoldingType ==
  ASSUME NEW series \in Seq(Points), NEW t \in Int
  PROVE  Holding(series, t) \in 0..Len(series)
<1> DEFINE early == {i \in DOMAIN series : series[i].t <= t}
<1>1. DOMAIN series = 1..Len(series) /\ Len(series) \in Nat
  BY LenProperties
<1>2. IsFiniteSet(1..Len(series)) /\ Cardinality(1..Len(series)) = Len(series)
  <2>1. IsFiniteSet(1..Len(series)) /\ Cardinality(1..Len(series)) = IF 1 > Len(series) THEN 0 ELSE Len(series) - 1 + 1
    BY <1>1, FS_Interval
  <2> QED  BY <1>1, <2>1
<1>3. IsFiniteSet(early) /\ Cardinality(early) <= Len(series)
  <2>1. early \in SUBSET (1..Len(series))
    BY <1>1
  <2> QED  BY <1>2, <2>1, FS_Subset
<1>4. Cardinality(early) \in Nat
  BY <1>3, FS_CardinalityType
<1> QED  BY <1>1, <1>3, <1>4 DEF Holding

LEMMA OriginType ==
  ASSUME NEW s \in Stores, NEW now \in Int
  PROVE  Origin(s, now) \in Nat
<1>1. CASE s.state = "Live"
  BY <1>1, StoreAssumption DEF Origin, Later, Duration, Elapsed, LiveKept, LiveWindow, Stores
<1>2. CASE s.state # "Live"
  BY <1>2 DEF Origin, Stores
<1> QED  BY <1>1, <1>2

\* Trimming leaves at least one point.
LEMMA ExcessType ==
  ASSUME NEW s \in Stores, NEW now \in Int, s.series # <<>>
  PROVE  Excess(s, now) \in 0..(Len(s.series) - 1)
<1> DEFINE n == Len(s.series)
           held == Holding(s.series, Origin(s, now))
<1>1. s.series \in Seq(Points)
  BY DEF Stores
<1>2. n \in Nat /\ n >= 1
  BY <1>1, NewestIsPoint
<1>3. held \in 0..n
  <2>1. Origin(s, now) \in Int
    BY OriginType
  <2> QED  BY <1>1, <2>1, HoldingType
<1>4. \A old \in {0, Later(0, held - 1)} :
        (IF n - old > MaxPoints + (MaxPoints \div 100) THEN n - MaxPoints ELSE old) \in 0..(n - 1)
  <2> HIDE DEF n, held
  <2>1. MaxPoints \in Nat /\ MaxPoints >= 2 /\ MaxPoints \div 100 \in Nat
    BY StoreAssumption
  <2> QED  BY <1>2, <1>3, <2>1 DEF Later
<1>5. \E old \in {0, Later(0, held - 1)} :
        Excess(s, now) = IF n - old > MaxPoints + (MaxPoints \div 100) THEN n - MaxPoints ELSE old
  BY DEF Excess
<1> QED  BY <1>4, <1>5

\* The end of a series, from its m-th point on.
LEMMA TailPart ==
  ASSUME NEW series \in Seq(Points), NEW m \in 1..Len(series)
  PROVE  LET rest == SubSeq(series, m, Len(series))
         IN  /\ rest \in Seq(Points) /\ Len(rest) = Len(series) - m + 1 /\ rest # <<>>
             /\ \A i \in 1..Len(rest) : rest[i] = series[m + i - 1]
<1> DEFINE rest == SubSeq(series, m, Len(series))
<1>1. rest \in Seq(Points)
  OBVIOUS
<1>2. Len(rest) = Len(series) - m + 1
  OBVIOUS
<1>3. \A i \in 1..(Len(series) - m + 1) : rest[i] = series[m + i - 1]
  OBVIOUS
<1>4. Len(rest) # 0
  BY <1>2, LenProperties
<1> HIDE DEF rest
<1>5. rest # <<>>
  BY <1>4, EmptySeq
<1>6. \A i \in 1..Len(rest) : rest[i] = series[m + i - 1]
  BY <1>2, <1>3
<1> QED  BY <1>1, <1>2, <1>5, <1>6 DEF rest

\* What Trim leaves of a series.
LEMMA RestType ==
  ASSUME NEW s \in Stores, NEW now \in Int, s.series # <<>>
  PROVE  LET rest == SubSeq(s.series, Excess(s, now) + 1, Len(s.series))
         IN  rest \in Seq(Points) /\ rest[1] \in Points
<1> DEFINE rest == SubSeq(s.series, Excess(s, now) + 1, Len(s.series))
<1>1. s.series \in Seq(Points)
  BY DEF Stores
<1>2. Excess(s, now) + 1 \in 1..Len(s.series)
  <2>1. Excess(s, now) \in 0..(Len(s.series) - 1)
    BY ExcessType
  <2>2. Len(s.series) \in Nat
    BY <1>1, LenProperties
  <2> QED  BY <2>1, <2>2
<1>3. rest \in Seq(Points) /\ rest # <<>>
  BY <1>1, <1>2, TailPart
<1> HIDE DEF rest
<1>4. 1 \in 1..Len(rest)
  BY <1>3, EmptySeq
<1>5. rest[1] \in Points
  BY <1>3, <1>4, ElementOfSeq
<1> QED  BY <1>3, <1>5 DEF rest

LEMMA TrimType ==
  ASSUME NEW s \in Stores, NEW now \in Int
  PROVE  Trim(s, now) \in Stores
<1>1. CASE s.series = <<>> \/ Excess(s, now) <= 0
  BY <1>1 DEF Trim
<1>2. CASE ~(s.series = <<>> \/ Excess(s, now) <= 0)
  <2> DEFINE rest  == SubSeq(s.series, Excess(s, now) + 1, Len(s.series))
             floor == IF s.state = "Live" THEN s.floor ELSE rest[1].t
             first == Later(IF s.state = "Live" THEN Origin(s, now) ELSE floor, rest[1].t)
             marks == {m \in s.marks : m.t >= first}
  <2>1. rest \in Seq(Points) /\ rest[1] \in Points
    BY <1>2, RestType
  <2>2. floor \in Nat
    BY <2>1 DEF Stores, Points
  <2>3. marks \in SUBSET Marks
    BY DEF Stores
  <2>4. Trim(s, now) = [s EXCEPT !.series = rest, !.floor = floor, !.marks = marks]
    BY <1>2 DEF Trim
  <2> HIDE DEF rest, floor, marks
  <2> QED  BY <2>1, <2>2, <2>3, <2>4 DEF Stores
<1> QED  BY <1>1, <1>2

\* A point as it is kept: not before the last one.
LEMMA KeptType ==
  ASSUME NEW s \in Stores, NEW p \in Points
  PROVE  (IF s.series = <<>> THEN p ELSE [p EXCEPT !.t = Later(@, Newest(s.series).t)]) \in Points
<1>1. CASE s.series = <<>>
  BY <1>1
<1>2. CASE s.series # <<>>
  <2>1. Newest(s.series) \in Points
    BY <1>2, NewestIsPoint DEF Stores
  <2>2. Later(p.t, Newest(s.series).t) \in Nat
    BY <2>1 DEF Points, Later
  <2> QED  BY <1>2, <2>2 DEF Points
<1> QED  BY <1>1, <1>2

LEMMA KeepType ==
  ASSUME NEW s \in Stores, NEW p \in Points, NEW now \in Int
  PROVE  Keep(s, p, now) \in Stores
<1> DEFINE at == IF s.series = <<>> THEN p ELSE [p EXCEPT !.t = Later(@, Newest(s.series).t)]
           series == Append(s.series, at)
           dirty == s.dirty \/ s.state = "Record"
<1>1. at \in Points
  BY KeptType
<1>2. series \in Seq(Points)
  BY <1>1, AppendProperties DEF Stores
<1>3. dirty \in BOOLEAN
  OBVIOUS
<1>4. Keep(s, p, now) = Trim([s EXCEPT !.series = series, !.dirty = dirty], now)
  BY DEF Keep
<1> HIDE DEF at, series, dirty
<1>5. [s EXCEPT !.series = series, !.dirty = dirty] \in Stores
  BY <1>2, <1>3 DEF Stores
<1> QED  BY <1>4, <1>5, TrimType

LEMMA ClearType ==
  ASSUME NEW s \in Stores, NEW now \in Int
  PROVE  Clear(s, now) \in Stores
<1>1. (IF s.state # "View" THEN -1 ELSE 0) \in Int
  OBVIOUS
<1>2. (IF s.pending THEN s.nextUnit ELSE s.unit) \in Words
  BY DEF Stores
<1>3. Nothing \in Words
  BY DEF Words
<1> QED  BY <1>1, <1>2, <1>3, Empty DEF Clear, Stores

LEMMA SetStaleType ==
  ASSUME NEW s \in Stores, NEW now \in Int
  PROVE  SetStale(s, now) \in Stores
<1>1. CASE s.state = "View" \/ s.series = <<>> \/ Newest(s.series).v = Gap
  BY <1>1 DEF SetStale
<1>2. CASE ~(s.state = "View" \/ s.series = <<>> \/ Newest(s.series).v = Gap)
  <2> DEFINE last == Newest(s.series)
             t == Sooner(last.t + StaleAfter, Later(last.t, Elapsed(s, now)))
             p == [t |-> t, v |-> Gap, f |-> Nothing, at |-> s.t0 + t, own |-> TRUE]
  <2>1. last \in Points
    BY <1>2, NewestIsPoint DEF Stores
  <2>2. t \in Nat
    BY <2>1, StoreAssumption DEF Sooner, Later, Elapsed, Points, Stores
  <2>3. Gap \in Int /\ Nothing \in Words
    BY DEF Gap, Words
  <2>4. s.t0 \in Int
    BY DEF Stores
  <2>5. SetStale(s, now) = Keep(s, p, now)
    BY <1>2 DEF SetStale
  <2> HIDE DEF t
  <2>6. s.t0 + t \in Int
    BY <2>2, <2>4
  <2>7. p \in Points
    BY <2>2, <2>3, <2>6 DEF Points
  <2> QED  BY <2>5, <2>7, KeepType
<1> QED  BY <1>1, <1>2

LEMMA AppendCurrentType ==
  ASSUME NEW s \in Stores, NEW now \in Int, NEW atItsTime \in BOOLEAN
  PROVE  AppendCurrent(s, now, atItsTime) \in Stores
<1>1. CASE s.reading.t < 0 \/ now - s.reading.t > StaleAfter
  BY <1>1 DEF AppendCurrent
<1>2. CASE ~(s.reading.t < 0 \/ now - s.reading.t > StaleAfter)
  <2> DEFINE t == IF atItsTime THEN Later(0, s.reading.t - s.t0) ELSE 0
             p == [t |-> t, v |-> s.reading.v, f |-> s.reading.f, at |-> s.reading.t, own |-> FALSE]
  <2>1. s.reading.t \in Int /\ s.reading.v \in Int /\ s.reading.f \in Words /\ s.t0 \in Int
    BY DEF Stores
  <2>2. t \in Nat
    BY <2>1 DEF Later
  <2>3. AppendCurrent(s, now, atItsTime) = Keep(s, p, now)
    BY <1>2 DEF AppendCurrent
  <2> HIDE DEF t
  <2>4. p \in Points
    BY <2>1, <2>2 DEF Points
  <2> QED  BY <2>3, <2>4, KeepType
<1> QED  BY <1>1, <1>2

LEMMA LivePartType ==
  ASSUME NEW s \in Stores, NEW from \in Int
  PROVE  LivePart(s, from) \in Seq(Points)
<1> DEFINE first == Later(1, Holding(s.series, from))
<1>1. s.series \in Seq(Points)
  BY DEF Stores
<1>2. CASE s.series = <<>>
  <2>1. first \in Nat /\ first >= 1
    BY <1>1, HoldingType, LenProperties DEF Later
  <2>2. Len(s.series) = 0
    BY <1>2, EmptySeq
  <2>3. SubSeq(s.series, first, 0) = <<>>
    <3> HIDE DEF first
    <3> QED  BY <2>1, SubSeqEmpty
  <2> QED  BY <2>2, <2>3, Empty DEF LivePart
<1>3. CASE s.series # <<>>
  <2>1. first \in 1..Len(s.series)
    BY <1>1, <1>3, HoldingType, NewestIsPoint DEF Later
  <2> HIDE DEF first
  <2>2. SubSeq(s.series, first, Len(s.series)) \in Seq(Points)
    BY <1>1, <2>1, TailPart
  <2> QED  BY <2>2 DEF LivePart, first
<1> QED  BY <1>2, <1>3

LEMMA AppendLivePartType ==
  ASSUME NEW s \in Stores, NEW part \in Seq(Points), NEW t0 \in Int, NEW now \in Int
  PROVE  AppendLivePart(s, part, t0, now) \in Stores
<1> DEFINE moved(p) == [p EXCEPT !.t = Later(0, t0 + p.t - s.t0), !.own = FALSE]
           more == [i \in DOMAIN part |-> moved(part[i])]
           series == s.series \o more
           dirty == s.dirty \/ part # <<>>
<1>1. DOMAIN part = 1..Len(part) /\ Len(part) \in Nat /\ \A i \in 1..Len(part) : part[i] \in Points
  BY LenProperties, ElementOfSeq
<1>2. \A p \in Points : moved(p) \in Points
  <2> TAKE p \in Points
  <2>1. Later(0, t0 + p.t - s.t0) \in Nat
    BY DEF Later, Points, Stores
  <2> QED  BY <2>1 DEF Points
<1>3. more \in Seq(Points)
  <2> HIDE DEF moved
  <2>1. [i \in 1..Len(part) |-> moved(part[i])] \in [1..Len(part) -> Points]
    BY <1>1, <1>2
  <2> QED  BY <1>1, <2>1
<1>4. series \in Seq(Points)
  <2> HIDE DEF more
  <2>1. s.series \in Seq(Points)
    BY DEF Stores
  <2> QED  BY <1>3, <2>1, ConcatProperties
<1>5. dirty \in BOOLEAN
  OBVIOUS
<1>6. AppendLivePart(s, part, t0, now) = Trim([s EXCEPT !.series = series, !.dirty = dirty], now)
  BY DEF AppendLivePart
<1> HIDE DEF series, dirty
<1>7. [s EXCEPT !.series = series, !.dirty = dirty] \in Stores
  BY <1>4, <1>5 DEF Stores
<1> QED  BY <1>6, <1>7, TrimType

LEMMA EmptiedType ==
  ASSUME NEW s \in Stores, NEW t0 \in Int, NEW hold \in BOOLEAN, NEW now \in Int
  PROVE  Emptied(s, t0, hold, now) \in Stores
<1> DEFINE cleared == Clear([s EXCEPT !.state = "Record"], now)
<1>1. cleared \in Stores
  <2>1. [s EXCEPT !.state = "Record"] \in Stores
    BY DEF Stores
  <2> QED  BY <2>1, ClearType
<1> HIDE DEF cleared
<1>2. -1 \in Int
  OBVIOUS
<1>3. [cleared EXCEPT !.stopT = -1, !.preUsed = 0, !.t0 = t0, !.hold = hold] \in Stores
  BY <1>1, <1>2 DEF Stores
<1> QED  BY <1>3 DEF Emptied, cleared

LEMMA ReachBackType ==
  ASSUME NEW s \in Stores, NEW pre \in Seq(Points), pre # <<>>, NEW preMs \in Nat, NEW now \in Int
  PROVE  ReachBack(s, pre, preMs, now) \in Stores
<1> DEFINE back == Later(0, Sooner(preMs, now - (s.t0 + pre[1].t)))
           new  == [Emptied(s, now - back, FALSE, now) EXCEPT !.preUsed = back]
           with == AppendLivePart(new, pre, s.t0, now)
           mark == [t |-> back, trigger |-> TRUE]
<1>1. s.t0 \in Int
  BY DEF Stores
<1>2. pre[1].t \in Nat
  <2>1. 1 \in 1..Len(pre)
    BY EmptySeq
  <2>2. pre[1] \in Points
    BY <2>1, ElementOfSeq
  <2> QED  BY <2>2 DEF Points
<1>3. back \in Nat /\ now - back \in Int
  BY <1>1, <1>2 DEF Later, Sooner
<1>4. ReachBack(s, pre, preMs, now) = [with EXCEPT !.marks = @ \cup {mark}]
  BY DEF ReachBack
<1> HIDE DEF back
<1>5. new \in Stores
  <2> DEFINE empty == Emptied(s, now - back, FALSE, now)
  <2>1. empty \in Stores
    BY <1>3, EmptiedType
  <2> HIDE DEF empty
  <2>2. [empty EXCEPT !.preUsed = back] \in Stores
    BY <1>3, <2>1 DEF Stores
  <2> QED  BY <2>2 DEF empty
<1> HIDE DEF new
<1>6. with \in Stores
  BY <1>1, <1>5, AppendLivePartType
<1>7. mark \in Marks
  BY <1>3 DEF Marks
<1> HIDE DEF with, mark
<1>8. with.marks \cup {mark} \in SUBSET Marks
  BY <1>6, <1>7 DEF Stores
<1> QED  BY <1>4, <1>6, <1>8 DEF Stores

LEMMA BeginType ==
  ASSUME NEW s \in Stores, NEW preMs \in Nat, NEW now \in Int
  PROVE  Begin(s, preMs, now) \in Stores
<1> DEFINE pre == IF preMs > 0 /\ s.state = "Live" THEN LivePart(s, Elapsed(s, now) - preMs) ELSE <<>>
<1>1. pre \in Seq(Points)
  <2>1. Elapsed(s, now) - preMs \in Int
    BY DEF Elapsed, Stores
  <2> QED  BY <2>1, LivePartType, Empty
<1>2. Begin(s, preMs, now) =
        IF pre = <<>> THEN AppendCurrent(Emptied(s, now, FALSE, now), now, FALSE) ELSE ReachBack(s, pre, preMs, now)
  BY DEF Begin
<1> HIDE DEF pre
<1>3. AppendCurrent(Emptied(s, now, FALSE, now), now, FALSE) \in Stores
  BY EmptiedType, AppendCurrentType
<1>4. pre # <<>> => ReachBack(s, pre, preMs, now) \in Stores
  BY <1>1, ReachBackType
<1> QED  BY <1>2, <1>3, <1>4

LEMMA StartAtType ==
  ASSUME NEW s \in Stores, NEW t0 \in Int, NEW now \in Int
  PROVE  StartAt(s, t0, now) \in Stores
<1> DEFINE since == IF s.state = "Live" THEN LivePart(s, t0 - s.t0) ELSE <<>>
           new   == Emptied(s, t0, TRUE, now)
<1>1. s.t0 \in Int
  BY DEF Stores
<1>2. since \in Seq(Points)
  <2>1. t0 - s.t0 \in Int
    BY <1>1
  <2> QED  BY <2>1, LivePartType, Empty
<1>3. new \in Stores
  BY EmptiedType
<1>4. StartAt(s, t0, now) = IF Len(since) > 1 THEN AppendLivePart(new, since, s.t0, now) ELSE AppendCurrent(new, now, TRUE)
  BY DEF StartAt
<1> HIDE DEF since, new
<1>5. AppendLivePart(new, since, s.t0, now) \in Stores
  BY <1>1, <1>2, <1>3, AppendLivePartType
<1>6. AppendCurrent(new, now, TRUE) \in Stores
  BY <1>3, AppendCurrentType
<1> QED  BY <1>4, <1>5, <1>6

LEMMA StopType ==
  ASSUME NEW s \in Stores, NEW now \in Int
  PROVE  Stop(s, now) \in Stores
<1>1. Elapsed(s, now) \in Int
  BY DEF Elapsed, Stores
<1>2. [s EXCEPT !.stopT = Elapsed(s, now), !.state = "View"] \in Stores
  BY <1>1 DEF Stores
<1> QED  BY <1>2 DEF Stop

LEMMA GoLiveType ==
  ASSUME NEW s \in Stores, NEW now \in Int
  PROVE  GoLive(s, now) \in Stores
<1> DEFINE cleared == Clear([s EXCEPT !.state = "Live"], now)
           empty   == [cleared EXCEPT !.preUsed = 0, !.hold = FALSE, !.last = Gap]
<1>1. cleared \in Stores
  <2>1. [s EXCEPT !.state = "Live"] \in Stores
    BY DEF Stores
  <2> QED  BY <2>1, ClearType
<1>2. GoLive(s, now) = AppendCurrent(empty, now, FALSE)
  BY DEF GoLive
<1>3. Gap \in Int
  BY DEF Gap
<1> HIDE DEF cleared
<1>4. empty \in Stores
  BY <1>1, <1>3 DEF Stores
<1> HIDE DEF empty
<1> QED  BY <1>2, <1>4, AppendCurrentType

LEMMA EndAtLengthType ==
  ASSUME NEW s \in Stores, NEW now \in Int
  PROVE  EndAtLength(s, now) \in Stores
<1>1. Limit(s) \in Int
  BY DEF Limit, Stores
<1>2. Stop(s, now) \in Stores
  BY StopType
<1> QED  BY <1>1, <1>2 DEF EndAtLength, Stores

LEMMA LoadType ==
  ASSUME NEW s \in Stores, NEW file, file.unit \in Words, file.series \in Seq(Points)
  PROVE  Load(s, file) \in Stores
<1>1. Nothing \in Words /\ -1 \in Int
  BY DEF Words
<1> QED  BY <1>1 DEF Load, Stores

LEMMA PollType ==
  ASSUME NEW s \in Stores, NEW startTime \in Int, NEW now \in Int
  PROVE  Poll(s, startTime, now) \in Stores
<1> DEFINE started == IF s.state = "Live" /\ s.mode = "Time" /\ now - startTime \in {0, 1} THEN Begin(s, 0, now) ELSE s
<1>1. started \in Stores
  BY BeginType
<1>2. Poll(s, startTime, now) \in {EndAtLength(started, now), started}
  BY DEF Poll
<1> HIDE DEF started
<1> QED  BY <1>1, <1>2, EndAtLengthType

LEMMA SetUnitType ==
  ASSUME NEW s \in Stores, NEW unit \in Words
  PROVE  SetUnit(s, unit) \in Stores
<1>1. [s EXCEPT !.nextUnit = unit, !.pending = unit # s.unit] \in Stores
  <2> DEFINE waits == unit # s.unit
  <2>1. waits \in BOOLEAN
    OBVIOUS
  <2> HIDE DEF waits
  <2>2. [s EXCEPT !.nextUnit = unit, !.pending = waits] \in Stores
    BY <2>1 DEF Stores
  <2> QED  BY <2>2 DEF waits
<1>2. [s EXCEPT !.unit = unit, !.pending = FALSE] \in Stores
  BY DEF Stores
<1> QED  BY <1>1, <1>2 DEF SetUnit

LEMMA TriggerType ==
  ASSUME NEW s \in Stores, NEW v \in Int, NEW now \in Int
  PROVE  Trigger(s, v, now) \in Stores
<1> DEFINE begun == IF Crosses(s, v) THEN Begin(s, s.pre, now) ELSE s
<1>1. begun \in Stores
  <2>1. s.pre \in Nat
    BY DEF Stores
  <2> QED  BY <2>1, BeginType
<1>2. Trigger(s, v, now) \in {begun, [begun EXCEPT !.last = v]}
  BY DEF Trigger
<1> HIDE DEF begun
<1> QED  BY <1>1, <1>2 DEF Stores

LEMMA FromFirstReadingType ==
  ASSUME NEW s \in Stores, NEW t \in Int
  PROVE  FromFirstReading(s, t) \in Stores
BY DEF FromFirstReading, Stores

LEMMA TakeType ==
  ASSUME NEW s \in Stores, NEW r \in Told, NEW now \in Int
  PROVE  Take(s, r, now) \in Stores
<1> DEFINE base  == FromFirstReading(s, now)
           point == [t |-> Later(0, now - base.t0), v |-> r.v, f |-> r.f, at |-> now, own |-> TRUE]
<1>1. base \in Stores
  BY FromFirstReadingType
<1>2. r.v \in Int /\ r.f \in Words
  BY DEF Told, Words
<1>3. Take(s, r, now) \in {Trigger(Keep(base, point, now), r.v, now), EndAtLength(base, now), Keep(base, point, now)}
  BY DEF Take
<1> HIDE DEF base
<1>4. Later(0, now - base.t0) \in Nat
  <2>1. base.t0 \in Int
    BY <1>1 DEF Stores
  <2> QED  BY <2>1 DEF Later
<1>5. point \in Points
  BY <1>2, <1>4 DEF Points
<1> HIDE DEF point
<1>6. Keep(base, point, now) \in Stores
  BY <1>1, <1>5, KeepType
<1>7. Trigger(Keep(base, point, now), r.v, now) \in Stores
  BY <1>2, <1>6, TriggerType
<1>8. EndAtLength(base, now) \in Stores
  BY <1>1, EndAtLengthType
<1> QED  BY <1>3, <1>6, <1>7, <1>8

LEMMA SetReadingType ==
  ASSUME NEW s \in Stores, NEW r \in Told, NEW now \in Int
  PROVE  SetReading(s, r, now) \in Stores
<1> DEFINE shown == [s EXCEPT !.reading = [t |-> now, v |-> r.v, f |-> r.f]]
           anew  == [Clear(shown, now) EXCEPT !.last = Gap]
<1>1. r.v \in Int /\ r.f \in Words
  BY DEF Told, Words
<1>2. shown \in Stores
  <2> DEFINE reading == [t |-> now, v |-> r.v, f |-> r.f]
  <2>1. reading \in [t : Int, v : Int, f : Words]
    BY <1>1
  <2> HIDE DEF reading
  <2>2. [s EXCEPT !.reading = reading] \in Stores
    BY <2>1 DEF Stores
  <2> QED  BY <2>2 DEF reading
<1> HIDE DEF shown
<1>3. anew \in Stores
  <2>1. Clear(shown, now) \in Stores /\ Gap \in Int
    BY <1>2, ClearType DEF Gap
  <2> QED  BY <2>1 DEF Stores
<1>4. SetReading(s, r, now) \in {shown, Take(shown, r, now), Stop(shown, now), Take([shown EXCEPT !.port = r.f], r, now),
                                 Take([anew EXCEPT !.port = r.f], r, now)}
  BY DEF SetReading, Anew, shown
<1> HIDE DEF anew
<1>5. [shown EXCEPT !.port = r.f] \in Stores /\ [anew EXCEPT !.port = r.f] \in Stores
  BY <1>1, <1>2, <1>3 DEF Stores
<1>6. Stop(shown, now) \in Stores
  BY <1>2, StopType
<1> QED  BY <1>2, <1>4, <1>5, <1>6, TakeType

LEMMA PublishType ==
  ASSUME NEW s \in Stores, NEW unit \in Words, NEW r \in Told, NEW now \in Int
  PROVE  Publish(s, unit, r, now) \in Stores
<1>1. r.f \in Words
  BY DEF Told, Words
<1>2. SetUnit(s, r.f) \in Stores
  BY <1>1, SetUnitType
<1> QED  BY <1>2, SetReadingType DEF Publish

LEMMA ApplySetupType ==
  ASSUME NEW s \in Stores, NEW setup, setup.length \in Nat, setup.pre \in Nat, setup.mode \in Modes, NEW now \in Int
  PROVE  ApplySetup(s, setup, now) \in Stores
<1> DEFINE limited(x) == IF s.state = "Live" THEN Trim(x, now) ELSE x
           one   == limited([s EXCEPT !.length = setup.length])
           two   == limited([one EXCEPT !.pre = setup.pre])
<1>1. \A x \in Stores : limited(x) \in Stores
  BY TrimType
<1>2. ApplySetup(s, setup, now) = [two EXCEPT !.mode = setup.mode]
  BY DEF ApplySetup
<1> HIDE DEF limited
<1>3. one \in Stores
  <2>1. [s EXCEPT !.length = setup.length] \in Stores
    BY DEF Stores
  <2> QED  BY <1>1, <2>1
<1> HIDE DEF one
<1>4. two \in Stores
  <2>1. [one EXCEPT !.pre = setup.pre] \in Stores
    BY <1>3 DEF Stores
  <2> QED  BY <1>1, <2>1
<1> HIDE DEF two
<1> QED  BY <1>2, <1>4 DEF Stores

-----------------------------------------------------------------------------
(* Where the points stand. *)

\* Points in order, none in the future, each where it belongs: counted from t0 it stands at the moment it came; only
\* the first may have been taken along from before, and stand at the start.
Proper(series, t0, now) ==
  /\ \A i \in 1..Len(series) : t0 + series[i].t <= now
  /\ \A i, j \in 1..Len(series) : i <= j => series[i].t <= series[j].t
  /\ \A i \in 1..Len(series) :
       LET p == series[i] IN Valued(p) => t0 + p.t = p.at \/ (i = 1 /\ ~p.own /\ p.at < t0 + p.t)

\* What holds of a store at any time: a recording from a file stands in View, its times are the file's.
Sound(s, now) ==
  /\ s.t0 <= now /\ s.reading.t <= now
  /\ s.fromFile => s.state = "View"
  /\ ~s.fromFile => Proper(s.series, s.t0, now)

LEMMA ProperEmpty ==
  ASSUME NEW t0 \in Int, NEW now \in Int
  PROVE  Proper(<<>>, t0, now)
<1>1. Len(<<>>) = 0
  BY EmptySeq
<1> QED  BY <1>1 DEF Proper

LEMMA PointsOf ==
  ASSUME NEW series \in Seq(Points)
  PROVE  /\ Len(series) \in Nat
         /\ \A i \in 1..Len(series) : /\ series[i] \in Points /\ series[i].t \in Nat /\ series[i].at \in Int
                                      /\ series[i].v \in Int /\ series[i].own \in BOOLEAN
<1>1. Len(series) \in Nat
  BY LenProperties
<1>2. \A i \in 1..Len(series) : series[i] \in Points
  BY ElementOfSeq
<1> QED  BY <1>1, <1>2 DEF Points

LEMMA ProperTail ==
  ASSUME NEW series \in Seq(Points), NEW m \in 1..Len(series), NEW t0 \in Int, NEW now \in Int, Proper(series, t0, now)
  PROVE  Proper(SubSeq(series, m, Len(series)), t0, now)
<1> DEFINE n    == Len(series)
           rest == SubSeq(series, m, n)
<1>1. n \in Nat
  BY PointsOf
<1>2. Len(rest) = n - m + 1 /\ \A i \in 1..Len(rest) : rest[i] = series[m + i - 1]
  BY TailPart
<1>3. \A i \in 1..Len(rest) : m + i - 1 \in 1..n /\ (m + i - 1 = 1 => i = 1)
  BY <1>1, <1>2
<1> HIDE DEF rest
<1>4. ASSUME NEW i \in 1..Len(rest)
      PROVE  t0 + rest[i].t <= now
  BY <1>2, <1>3 DEF Proper
<1>5. ASSUME NEW i \in 1..Len(rest), NEW j \in 1..Len(rest), i <= j
      PROVE  rest[i].t <= rest[j].t
  <2>1. Len(rest) \in Int /\ m + i - 1 <= m + j - 1
    BY <1>1, <1>2, <1>5
  <2> QED  BY <1>2, <1>3, <2>1 DEF Proper
<1>6. ASSUME NEW i \in 1..Len(rest), Valued(rest[i])
      PROVE  \/ t0 + rest[i].t = rest[i].at
             \/ i = 1 /\ ~rest[i].own /\ rest[i].at < t0 + rest[i].t
  <2>1. rest[i] = series[m + i - 1] /\ m + i - 1 \in 1..n /\ (m + i - 1 = 1 => i = 1)
    BY <1>2, <1>3
  <2> QED  BY <1>6, <2>1 DEF Proper
<1>7. Proper(rest, t0, now)
  BY <1>4, <1>5, <1>6 DEF Proper
<1> QED  BY <1>7 DEF rest

\* A point that comes last, or that is taken along into what is empty.
LEMMA ProperAppend ==
  ASSUME NEW series \in Seq(Points), NEW p \in Points, NEW t0 \in Int, NEW now \in Int, Proper(series, t0, now),
         t0 + p.t <= now,
         series # <<>> => Newest(series).t <= p.t,
         Valued(p) => t0 + p.t = p.at \/ (series = <<>> /\ ~p.own /\ p.at < t0 + p.t)
  PROVE  Proper(Append(series, p), t0, now)
<1> DEFINE n    == Len(series)
           more == Append(series, p)
<1>1. n \in Nat /\ more \in Seq(Points) /\ Len(more) = n + 1 /\ more[n + 1] = p /\ \A i \in 1..n : more[i] = series[i]
  BY LenProperties, AppendProperties
<1>2. \A i \in 1..n : series[i].t \in Nat
  BY PointsOf
<1>3. p.t \in Nat
  BY DEF Points
<1>4. n # 0 => series # <<>> /\ series[n].t <= p.t
  BY EmptySeq DEF Newest
<1>5. n = 0 <=> series = <<>>
  BY EmptySeq
<1> HIDE DEF more, n
<1>6. ASSUME NEW i \in 1..(n + 1)
      PROVE  t0 + more[i].t <= now
  <2>1. CASE i = n + 1
    BY <1>1, <2>1
  <2>2. CASE i \in 1..n
    BY <1>1, <2>2 DEF Proper, n
  <2> QED  BY <1>1, <2>1, <2>2
<1>7. ASSUME NEW i \in 1..(n + 1), NEW j \in 1..(n + 1), i <= j
      PROVE  more[i].t <= more[j].t
  <2>1. CASE j \in 1..n
    <3>1. i \in 1..n
      BY <1>1, <1>7, <2>1
    <3> QED  BY <1>1, <1>7, <2>1, <3>1 DEF Proper, n
  <2>2. CASE j = n + 1 /\ i \in 1..n
    <3>1. series[i].t <= series[n].t
      <4>1. n \in 1..n /\ i <= n
        BY <1>1, <2>2
      <4> QED  BY <2>2, <4>1 DEF Proper, n
    <3>2. series[n].t <= p.t /\ series[n].t \in Nat
      BY <1>1, <1>2, <1>4, <2>2
    <3>3. more[i] = series[i] /\ more[j] = p /\ series[i].t \in Nat
      BY <1>1, <1>2, <2>2
    <3> QED  BY <1>3, <3>1, <3>2, <3>3
  <2>3. CASE j = n + 1 /\ i = n + 1
    BY <1>1, <1>3, <2>3
  <2> QED  BY <1>1, <2>1, <2>2, <2>3
<1>8. ASSUME NEW i \in 1..(n + 1), Valued(more[i])
      PROVE  \/ t0 + more[i].t = more[i].at
             \/ i = 1 /\ ~more[i].own /\ more[i].at < t0 + more[i].t
  <2>1. CASE i = n + 1
    <3>1. more[i] = p /\ (series = <<>> => i = 1)
      BY <1>1, <1>5, <2>1
    <3> QED  BY <1>8, <3>1
  <2>2. CASE i \in 1..n
    <3>1. more[i] = series[i]
      BY <1>1, <2>2
    <3> QED  BY <1>8, <2>2, <3>1 DEF Proper, n
  <2> QED  BY <1>1, <2>1, <2>2
<1>9. Proper(more, t0, now)
  BY <1>1, <1>6, <1>7, <1>8 DEF Proper
<1> QED  BY <1>9 DEF more

\* The last point of a proper series is not in the future.
LEMMA NewestIsPast ==
  ASSUME NEW series \in Seq(Points), series # <<>>, NEW t0 \in Int, NEW now \in Int, Proper(series, t0, now)
  PROVE  Newest(series).t \in Nat /\ t0 + Newest(series).t <= now
<1>1. Len(series) \in 1..Len(series)
  BY NewestIsPoint
<1>2. Newest(series) \in Points
  BY NewestIsPoint
<1> QED  BY <1>1, <1>2 DEF Proper, Newest, Points

\* Trimming changes the series, where it starts and its marks, nothing else.
LEMMA TrimFrame ==
  ASSUME NEW s \in Stores, NEW now \in Int
  PROVE  LET x == Trim(s, now)
         IN  /\ x.state = s.state /\ x.t0 = s.t0 /\ x.reading = s.reading /\ x.fromFile = s.fromFile
             /\ x.dirty = s.dirty /\ x.port = s.port
             /\ x.series = s.series \/ \E m \in 1..Len(s.series) : x.series = SubSeq(s.series, m, Len(s.series))
<1>1. CASE s.series = <<>> \/ Excess(s, now) <= 0
  BY <1>1 DEF Trim
<1>2. CASE ~(s.series = <<>> \/ Excess(s, now) <= 0)
  <2> DEFINE rest  == SubSeq(s.series, Excess(s, now) + 1, Len(s.series))
             floor == IF s.state = "Live" THEN s.floor ELSE rest[1].t
             first == Later(IF s.state = "Live" THEN Origin(s, now) ELSE floor, rest[1].t)
             marks == {m \in s.marks : m.t >= first}
  <2>1. Excess(s, now) + 1 \in 1..Len(s.series)
    <3>1. Excess(s, now) \in 0..(Len(s.series) - 1)
      BY <1>2, ExcessType
    <3>2. Len(s.series) \in Nat
      BY LenProperties DEF Stores
    <3> QED  BY <3>1, <3>2
  <2>2. Trim(s, now) = [s EXCEPT !.series = rest, !.floor = floor, !.marks = marks]
    BY <1>2 DEF Trim
  <2>3. \E m \in 1..Len(s.series) : rest = SubSeq(s.series, m, Len(s.series))
    BY <2>1
  <2> HIDE DEF rest, floor, marks
  <2> QED  BY <2>2, <2>3 DEF Stores
<1> QED  BY <1>1, <1>2

LEMMA TrimSound ==
  ASSUME NEW s \in Stores, NEW now \in Int, Sound(s, now)
  PROVE  Sound(Trim(s, now), now)
<1> DEFINE x == Trim(s, now)
<1>1. /\ x.state = s.state /\ x.t0 = s.t0 /\ x.reading = s.reading /\ x.fromFile = s.fromFile
      /\ x.series = s.series \/ \E m \in 1..Len(s.series) : x.series = SubSeq(s.series, m, Len(s.series))
  BY TrimFrame
<1>2. s.series \in Seq(Points) /\ s.t0 \in Int
  BY DEF Stores
<1> HIDE DEF x
<1>3. ~s.fromFile => Proper(x.series, s.t0, now)
  BY <1>1, <1>2, ProperTail DEF Sound
<1> QED  BY <1>1, <1>3 DEF Sound, x

\* What Keep changes besides the series.
LEMMA KeepFrame ==
  ASSUME NEW s \in Stores, NEW p \in Points, NEW now \in Int
  PROVE  LET x == Keep(s, p, now)
         IN  /\ x.state = s.state /\ x.t0 = s.t0 /\ x.reading = s.reading /\ x.fromFile = s.fromFile /\ x.port = s.port
             /\ s.state = "Record" => x.dirty
<1> DEFINE at == IF s.series = <<>> THEN p ELSE [p EXCEPT !.t = Later(@, Newest(s.series).t)]
           series == Append(s.series, at)
           dirty == s.dirty \/ s.state = "Record"
           more == [s EXCEPT !.series = series, !.dirty = dirty]
<1>1. Keep(s, p, now) = Trim(more, now)
  BY DEF Keep
<1>2. more \in Stores
  <2>1. at \in Points
    BY KeptType
  <2> HIDE DEF at
  <2>2. series \in Seq(Points) /\ dirty \in BOOLEAN
    BY <2>1, AppendProperties DEF Stores
  <2> HIDE DEF series, dirty
  <2> QED  BY <2>2 DEF Stores
<1>3. more.state = s.state /\ more.t0 = s.t0 /\ more.reading = s.reading /\ more.fromFile = s.fromFile /\ more.port = s.port
  BY DEF Stores
<1>4. s.state = "Record" => more.dirty
  BY DEF Stores
<1> HIDE DEF more
<1> QED  BY <1>1, <1>2, <1>3, <1>4, TrimFrame

\* A point appended to a sound store leaves it sound, when a value stands where it came and comes last, or is the first.
LEMMA KeepSound ==
  ASSUME NEW s \in Stores, NEW p \in Points, NEW now \in Int, Sound(s, now), ~s.fromFile,
         s.t0 + p.t <= now,
         Valued(p) => \/ s.t0 + p.t = p.at /\ (s.series # <<>> => Newest(s.series).t <= p.t)
                      \/ s.series = <<>> /\ ~p.own /\ p.at < s.t0 + p.t
  PROVE  Sound(Keep(s, p, now), now)
<1> DEFINE at == IF s.series = <<>> THEN p ELSE [p EXCEPT !.t = Later(@, Newest(s.series).t)]
           series == Append(s.series, at)
           dirty == s.dirty \/ s.state = "Record"
           more == [s EXCEPT !.series = series, !.dirty = dirty]
<1>1. Keep(s, p, now) = Trim(more, now)
  BY DEF Keep
<1>2. at \in Points
  BY KeptType
<1>3. s.series \in Seq(Points) /\ s.t0 \in Int /\ Proper(s.series, s.t0, now)
  BY DEF Stores, Sound
<1>4. /\ s.t0 + at.t <= now
      /\ s.series # <<>> => Newest(s.series).t <= at.t
      /\ Valued(at) => s.t0 + at.t = at.at \/ (s.series = <<>> /\ ~at.own /\ at.at < s.t0 + at.t)
  <2>1. CASE s.series = <<>>
    BY <2>1
  <2>2. CASE s.series # <<>>
    <3>1. Newest(s.series).t \in Nat /\ s.t0 + Newest(s.series).t <= now
      BY <1>3, <2>2, NewestIsPast
    <3>2. at.t = Later(p.t, Newest(s.series).t) /\ at.at = p.at /\ at.own = p.own /\ at.v = p.v /\ p.t \in Nat
      BY <2>2 DEF Points
    <3> HIDE DEF at
    <3>3. s.t0 + at.t <= now /\ Newest(s.series).t <= at.t
      BY <1>3, <3>1, <3>2 DEF Later
    <3>4. Valued(at) => s.t0 + at.t = at.at
      BY <2>2, <3>1, <3>2 DEF Later, Valued
    <3> QED  BY <2>2, <3>3, <3>4
  <2> QED  BY <2>1, <2>2
<1> HIDE DEF at
<1>5. series \in Seq(Points) /\ dirty \in BOOLEAN
  BY <1>2, <1>3, AppendProperties
<1>6. Proper(series, s.t0, now)
  BY <1>2, <1>3, <1>4, ProperAppend
<1> HIDE DEF series, dirty
<1>7. more \in Stores
  BY <1>5 DEF Stores
<1>8. Sound(more, now)
  <2>1. more.t0 = s.t0 /\ more.reading = s.reading /\ more.fromFile = s.fromFile /\ more.state = s.state /\ more.series = series
    BY DEF Stores
  <2> HIDE DEF more
  <2> QED  BY <1>6, <2>1 DEF Sound
<1> HIDE DEF more
<1> QED  BY <1>1, <1>7, <1>8, TrimSound

LEMMA ClearFrame ==
  ASSUME NEW s \in Stores, NEW now \in Int
  PROVE  LET x == Clear(s, now)
         IN  /\ x.state = s.state /\ x.t0 = now /\ x.series = <<>> /\ x.reading = s.reading
             /\ x.fromFile = FALSE /\ x.dirty = FALSE /\ x.port = Nothing
BY DEF Clear, Stores

LEMMA EmptiedFrame ==
  ASSUME NEW s \in Stores, NEW t0 \in Int, NEW hold \in BOOLEAN, NEW now \in Int
  PROVE  LET x == Emptied(s, t0, hold, now)
         IN  /\ x.state = "Record" /\ x.t0 = t0 /\ x.series = <<>> /\ x.reading = s.reading
             /\ x.fromFile = FALSE /\ x.dirty = FALSE /\ x.port = Nothing
<1> DEFINE recording == [s EXCEPT !.state = "Record"]
           cleared   == Clear(recording, now)
<1>1. recording \in Stores /\ recording.state = "Record" /\ recording.reading = s.reading
  BY DEF Stores
<1> HIDE DEF recording
<1>2. /\ cleared \in Stores
      /\ cleared.state = "Record" /\ cleared.series = <<>> /\ cleared.reading = s.reading
      /\ cleared.fromFile = FALSE /\ cleared.dirty = FALSE /\ cleared.port = Nothing
  BY <1>1, ClearType, ClearFrame
<1>3. Emptied(s, t0, hold, now) = [cleared EXCEPT !.stopT = -1, !.preUsed = 0, !.t0 = t0, !.hold = hold]
  BY DEF Emptied, recording
<1> HIDE DEF cleared
<1> QED  BY <1>2, <1>3 DEF Stores

\* The value shown goes into what is empty: at the start, or where it came.
LEMMA AppendCurrentSound ==
  ASSUME NEW s \in Stores, NEW now \in Int, NEW atItsTime \in BOOLEAN,
         Sound(s, now), ~s.fromFile, s.series = <<>>, ~atItsTime => s.t0 = now
  PROVE  LET x == AppendCurrent(s, now, atItsTime)
         IN  /\ Sound(x, now) /\ x.state = s.state /\ ~x.fromFile /\ x.t0 = s.t0
             /\ s.state = "Record" => x.dirty \/ x.series = <<>>
<1>1. CASE s.reading.t < 0 \/ now - s.reading.t > StaleAfter
  BY <1>1 DEF AppendCurrent
<1>2. CASE ~(s.reading.t < 0 \/ now - s.reading.t > StaleAfter)
  <2> DEFINE t == IF atItsTime THEN Later(0, s.reading.t - s.t0) ELSE 0
             p == [t |-> t, v |-> s.reading.v, f |-> s.reading.f, at |-> s.reading.t, own |-> FALSE]
  <2>1. s.reading.t \in Int /\ s.reading.v \in Int /\ s.reading.f \in Words /\ s.t0 \in Int
    BY DEF Stores
  <2>2. s.t0 <= now /\ s.reading.t <= now
    BY DEF Sound
  <2>3. t \in Nat /\ s.t0 + t <= now /\ (s.t0 + t = s.reading.t \/ s.reading.t < s.t0 + t)
    BY <2>1, <2>2 DEF Later
  <2>4. AppendCurrent(s, now, atItsTime) = Keep(s, p, now)
    BY <1>2 DEF AppendCurrent
  <2> HIDE DEF t
  <2>5. p \in Points
    BY <2>1, <2>3 DEF Points
  <2>6. p.t = t /\ p.at = s.reading.t /\ p.own = FALSE
    OBVIOUS
  <2> HIDE DEF p
  <2>7. Sound(Keep(s, p, now), now)
    BY <2>3, <2>5, <2>6, KeepSound
  <2> QED  BY <2>4, <2>5, <2>7, KeepFrame
<1> QED  BY <1>1, <1>2

\* In a proper series the points that are not after a moment are the first ones.
LEMMA AfterHolding ==
  ASSUME NEW series \in Seq(Points), NEW t0 \in Int, NEW now \in Int, Proper(series, t0, now), NEW t \in Int,
         NEW i \in 1..Len(series), i > Holding(series, t)
  PROVE  series[i].t > t
<1> DEFINE early == {k \in DOMAIN series : series[k].t <= t}
<1>1. Len(series) \in Nat /\ DOMAIN series = 1..Len(series) /\ \A k \in 1..Len(series) : series[k].t \in Nat
  BY LenProperties, PointsOf
<1> SUFFICES ASSUME series[i].t <= t PROVE FALSE
  BY <1>1
<1>2. \A k \in 1..i : k \in 1..Len(series) /\ series[k].t <= series[i].t
  BY <1>1 DEF Proper
<1>3. (1..i) \in SUBSET early
  BY <1>1, <1>2
<1>4. IsFiniteSet(early)
  <2>1. IsFiniteSet(1..Len(series))
    BY <1>1, FS_Interval
  <2>2. early \in SUBSET (1..Len(series))
    BY <1>1
  <2> QED  BY <2>1, <2>2, FS_Subset
<1> HIDE DEF early
<1>5. Cardinality(1..i) <= Cardinality(early)
  BY <1>3, <1>4, FS_Subset
<1>6. Cardinality(1..i) = IF 1 > i THEN 0 ELSE i - 1 + 1
  <2>1. 1 \in Int /\ i \in Int
    BY <1>1
  <2> QED  BY <2>1, FS_Interval
<1>7. Cardinality(early) = Holding(series, t)
  BY DEF Holding, early
<1>8. Holding(series, t) \in Int /\ i \in Nat /\ i >= 1
  BY <1>1, HoldingType
<1> QED  BY <1>5, <1>6, <1>7, <1>8

\* What a recording takes along from Live: proper again, and only its first point may lie before the moment asked for.
LEMMA LivePartProper ==
  ASSUME NEW s \in Stores, NEW now \in Int, Proper(s.series, s.t0, now), NEW from \in Int
  PROVE  LET part == LivePart(s, from)
         IN  /\ Proper(part, s.t0, now)
             /\ \A i \in 1..Len(part) : i > 1 => part[i].t > from
<1> DEFINE n     == Len(s.series)
           first == Later(1, Holding(s.series, from))
           part  == SubSeq(s.series, first, n)
<1>1. s.series \in Seq(Points) /\ s.t0 \in Int
  BY DEF Stores
<1>2. n \in Nat /\ Holding(s.series, from) \in 0..n
  BY <1>1, HoldingType, LenProperties
<1>3. CASE s.series = <<>>
  <2>1. first \in Int /\ first >= 1 /\ n = 0
    BY <1>2, <1>3, EmptySeq DEF Later
  <2> HIDE DEF first
  <2>2. SubSeq(s.series, first, n) = <<>>
    BY <2>1, SubSeqEmpty
  <2>3. LivePart(s, from) = <<>>
    BY <2>2 DEF LivePart, first
  <2>4. Len(<<>>) = 0
    BY EmptySeq
  <2> QED  BY <1>1, <2>3, <2>4, ProperEmpty
<1>4. CASE s.series # <<>>
  <2>1. first \in 1..n
    BY <1>1, <1>2, <1>4, NewestIsPoint DEF Later
  <2>2. first >= Holding(s.series, from)
    BY <1>2 DEF Later
  <2>3. LivePart(s, from) = part
    BY DEF LivePart
  <2> HIDE DEF first
  <2>4. Proper(part, s.t0, now) /\ Len(part) = n - first + 1 /\ \A i \in 1..Len(part) : part[i] = s.series[first + i - 1]
    BY <1>1, <2>1, ProperTail, TailPart
  <2> HIDE DEF part
  <2>5. ASSUME NEW i \in 1..Len(part), i > 1
        PROVE  part[i].t > from
    <3>1. first + i - 1 \in 1..n /\ first + i - 1 > Holding(s.series, from)
      BY <1>2, <2>1, <2>2, <2>4, <2>5
    <3>2. s.series[first + i - 1].t > from
      BY <1>1, <3>1, AfterHolding
    <3> QED  BY <2>4, <3>2
  <2> QED  BY <2>3, <2>4, <2>5
<1> QED  BY <1>3, <1>4

LEMMA MovedTo ==
  ASSUME NEW start \in Int, NEW moment \in Int
  PROVE  start + Later(0, moment - start) = Later(start, moment)
BY DEF Later

\* A recording takes a part of the live window along: its points stay where they were, but for the first.
LEMMA AppendLivePartSound ==
  ASSUME NEW s \in Stores, NEW part \in Seq(Points), NEW t0 \in Int, NEW now \in Int,
         Sound(s, now), ~s.fromFile, s.series = <<>>,
         Proper(part, t0, now),
         \A i \in 1..Len(part) : i > 1 => t0 + part[i].t >= s.t0
  PROVE  LET x == AppendLivePart(s, part, t0, now)
         IN  /\ Sound(x, now) /\ x.state = s.state /\ ~x.fromFile /\ x.t0 = s.t0
             /\ x.dirty \/ x.series = <<>>
<1> DEFINE moved(p) == [p EXCEPT !.t = Later(0, t0 + p.t - s.t0), !.own = FALSE]
           more == [i \in DOMAIN part |-> moved(part[i])]
           dirty == s.dirty \/ part # <<>>
           with == [s EXCEPT !.series = more, !.dirty = dirty]
<1>1. DOMAIN part = 1..Len(part) /\ Len(part) \in Nat /\ \A i \in 1..Len(part) : part[i] \in Points
  BY LenProperties, ElementOfSeq
<1>2. s.t0 \in Int /\ s.t0 <= now
  BY DEF Stores, Sound
<1>3. \A p \in Points : /\ moved(p) \in Points /\ moved(p).t = Later(0, t0 + p.t - s.t0)
                        /\ moved(p).own = FALSE /\ moved(p).at = p.at /\ moved(p).v = p.v
  <2> TAKE p \in Points
  <2>1. Later(0, t0 + p.t - s.t0) \in Nat
    BY <1>2 DEF Later, Points
  <2> QED  BY <2>1 DEF Points
<1> HIDE DEF moved
<1>4. more \in Seq(Points)
  <2>1. [i \in 1..Len(part) |-> moved(part[i])] \in [1..Len(part) -> Points]
    BY <1>1, <1>3
  <2> QED  BY <1>1, <2>1
<1>5. Len(more) = Len(part) /\ \A i \in 1..Len(part) : more[i] = moved(part[i])
  BY <1>1
<1> HIDE DEF more
<1>6. Proper(more, s.t0, now)
  <2>1. \A i \in 1..Len(part) : /\ more[i].t = Later(0, t0 + part[i].t - s.t0) /\ more[i].own = FALSE
                                /\ more[i].at = part[i].at /\ more[i].v = part[i].v
                                /\ part[i].t \in Nat /\ part[i].at \in Int /\ t0 + part[i].t <= now
    BY <1>1, <1>3, <1>5, PointsOf DEF Proper
  <2> DEFINE moment(i) == t0 + part[i].t
  <2>2. \A i \in 1..Len(part) : moment(i) \in Int /\ s.t0 + more[i].t = Later(s.t0, moment(i)) /\ moment(i) <= now
    <3> TAKE i \in 1..Len(part)
    <3>1. moment(i) \in Int /\ moment(i) <= now
      BY <2>1
    <3>2. more[i].t = Later(0, moment(i) - s.t0)
      <4>1. more[i].t = Later(0, t0 + part[i].t - s.t0)
        BY <2>1, Zenon
      <4>2. part[i].t \in Int /\ s.t0 \in Int
        BY <1>2, <2>1
      <4> QED  BY <4>1, <4>2 DEF Later
    <3> HIDE DEF moment
    <3> QED  BY <1>2, <3>1, <3>2, MovedTo
  <2>5. ASSUME NEW i \in 1..Len(more)
        PROVE  s.t0 + more[i].t <= now
    <3>1. moment(i) \in Int /\ s.t0 + more[i].t = Later(s.t0, moment(i)) /\ moment(i) <= now
      BY <1>5, <2>2
    <3> HIDE DEF moment
    <3> QED  BY <1>2, <3>1 DEF Later
  <2>3. ASSUME NEW i \in 1..Len(more), NEW j \in 1..Len(more), i <= j
        PROVE  more[i].t <= more[j].t
    <3>1. part[i].t <= part[j].t
      BY <1>5, <2>3 DEF Proper
    <3> QED  BY <1>2, <1>5, <2>1, <3>1 DEF Later
  <2>4. ASSUME NEW i \in 1..Len(more), Valued(more[i])
        PROVE  \/ s.t0 + more[i].t = more[i].at
               \/ i = 1 /\ ~more[i].own /\ more[i].at < s.t0 + more[i].t
    <3>1. t0 + part[i].t = part[i].at \/ (i = 1 /\ part[i].at < t0 + part[i].t)
      BY <1>5, <2>1, <2>4 DEF Proper, Valued
    <3>2. i > 1 => t0 + part[i].t >= s.t0
      BY <1>5
    <3>3. i \in Nat /\ i >= 1
      BY <1>1, <1>5
    <3>4. s.t0 + more[i].t = more[i].at \/ (i = 1 /\ more[i].at < s.t0 + more[i].t)
      <4>1. /\ moment(i) \in Int /\ s.t0 + more[i].t = Later(s.t0, moment(i))
            /\ more[i].at = part[i].at /\ part[i].at \in Int
        BY <1>5, <2>1, <2>2
      <4>2. moment(i) = part[i].at \/ (i = 1 /\ part[i].at < moment(i))
        BY <3>1
      <4>3. i = 1 \/ moment(i) >= s.t0
        BY <3>2, <3>3
      <4> HIDE DEF moment
      <4> QED  BY <1>2, <4>1, <4>2, <4>3 DEF Later
    <3>5. more[i].own = FALSE
      BY <1>5, <2>1
    <3> QED  BY <3>4, <3>5
  <2> QED  BY <2>5, <2>3, <2>4 DEF Proper
<1>7. AppendLivePart(s, part, t0, now) = Trim(with, now)
  <2>1. s.series \o more = more
    BY <1>4, ConcatEmptySeq
  <2>2. AppendLivePart(s, part, t0, now) = Trim([s EXCEPT !.series = s.series \o more, !.dirty = dirty], now)
    BY DEF AppendLivePart, more, moved
  <2> HIDE DEF dirty
  <2> QED  BY <2>1, <2>2
<1>8. part = <<>> => more = <<>>
  <2>1. part = <<>> => Len(more) = 0
    BY <1>5, EmptySeq
  <2> QED  BY <1>4, <2>1, EmptySeq
<1>9. dirty \in BOOLEAN
  OBVIOUS
<1>10. /\ with \in Stores /\ with.t0 = s.t0 /\ with.reading = s.reading /\ with.fromFile = s.fromFile
       /\ with.state = s.state /\ with.series = more /\ with.dirty = dirty
  <2> HIDE DEF dirty
  <2> QED  BY <1>4, <1>9 DEF Stores
<1> HIDE DEF with
<1>11. Sound(with, now)
  BY <1>6, <1>10 DEF Sound
<1> DEFINE x == Trim(with, now)
<1>12. /\ x.state = s.state /\ x.t0 = s.t0 /\ x.fromFile = s.fromFile /\ x.dirty = dirty
       /\ x.series = more \/ \E m \in 1..Len(more) : x.series = SubSeq(more, m, Len(more))
  BY <1>10, TrimFrame
<1>13. Sound(x, now)
  BY <1>10, <1>11, TrimSound
<1> HIDE DEF x
<1>14. more = <<>> => x.series = <<>>
  <2>1. more = <<>> => Len(more) = 0
    BY EmptySeq
  <2>2. more = <<>> => ~(\E m \in 1..Len(more) : x.series = SubSeq(more, m, Len(more)))
    BY <2>1
  <2> QED  BY <1>12, <2>2
<1> QED  BY <1>7, <1>8, <1>12, <1>13, <1>14 DEF x

\* A recording that begins, still empty.
Blank(x, s, t0, now) ==
  /\ x \in Stores /\ x.state = "Record" /\ x.t0 = t0 /\ x.series = <<>> /\ x.reading = s.reading
  /\ x.fromFile = FALSE /\ x.dirty = FALSE /\ Sound(x, now)

LEMMA EmptiedBlank ==
  ASSUME NEW s \in Stores, NEW t0 \in Int, NEW hold \in BOOLEAN, NEW now \in Int, t0 <= now, s.reading.t <= now
  PROVE  Blank(Emptied(s, t0, hold, now), s, t0, now)
<1> DEFINE x == Emptied(s, t0, hold, now)
<1>1. /\ x.state = "Record" /\ x.t0 = t0 /\ x.series = <<>> /\ x.reading = s.reading
      /\ x.fromFile = FALSE /\ x.dirty = FALSE /\ x.port = Nothing
  BY EmptiedFrame, Zenon
<1>2. x \in Stores
  BY EmptiedType, Zenon
<1> HIDE DEF x
<1>3. Sound(x, now)
  BY <1>1, ProperEmpty DEF Sound
<1>4. Blank(x, s, t0, now)
  BY <1>1, <1>2, <1>3, Zenon DEF Blank
<1> QED  BY <1>4 DEF x

\* What a new recording is, whatever started it.
Fresh(x, now) == Sound(x, now) /\ x.state = "Record" /\ ~x.fromFile /\ (x.dirty \/ x.series = <<>>)

LEMMA ReachBackFresh ==
  ASSUME NEW s \in Stores, NEW preMs \in Nat, NEW now \in Int, s.reading.t <= now, Proper(s.series, s.t0, now),
         NEW pre, pre = LivePart(s, Elapsed(s, now) - preMs), pre # <<>>
  PROVE  Fresh(ReachBack(s, pre, preMs, now), now)
<1> DEFINE back  == Later(0, Sooner(preMs, now - (s.t0 + pre[1].t)))
           empty == Emptied(s, now - back, FALSE, now)
           new   == [empty EXCEPT !.preUsed = back]
           with  == AppendLivePart(new, pre, s.t0, now)
           mark  == [t |-> back, trigger |-> TRUE]
<1>1. s.t0 \in Int /\ s.reading.t \in Int
  BY DEF Stores
<1>2. Elapsed(s, now) - preMs \in Int /\ Elapsed(s, now) = now - s.t0
  BY <1>1 DEF Elapsed
<1>3. pre \in Seq(Points)
  BY <1>2, LivePartType
<1>4. Proper(pre, s.t0, now) /\ \A i \in 1..Len(pre) : i > 1 => pre[i].t > Elapsed(s, now) - preMs
  BY <1>2, LivePartProper
<1>5. Len(pre) \in Nat /\ 1 \in 1..Len(pre) /\ \A i \in 1..Len(pre) : pre[i].t \in Nat
  BY <1>3, EmptySeq, PointsOf
<1>6. back \in Nat /\ now - back \in Int /\ now - back <= now
  BY <1>1, <1>5 DEF Later, Sooner
<1>7. \A i \in 1..Len(pre) : i > 1 => s.t0 + pre[i].t >= now - back
  <2> SUFFICES ASSUME NEW i \in 1..Len(pre), i > 1 PROVE s.t0 + pre[i].t >= now - back
    OBVIOUS
  <2>1. pre[1].t <= pre[i].t /\ s.t0 + pre[1].t <= now
    <3>1. 1 <= i
      BY <1>5
    <3> QED  BY <1>4, <1>5, <3>1 DEF Proper
  <2>2. pre[i].t > now - s.t0 - preMs
    BY <1>2, <1>4
  <2>3. pre[i].t \in Nat /\ pre[1].t \in Nat
    BY <1>5
  <2>4. back >= preMs \/ back >= now - (s.t0 + pre[1].t)
    BY <1>1, <2>3 DEF Later, Sooner
  <2> HIDE DEF back
  <2> QED  BY <1>1, <1>6, <2>1, <2>2, <2>3, <2>4
<1>8. ReachBack(s, pre, preMs, now) = [with EXCEPT !.marks = @ \cup {mark}]
  BY DEF ReachBack
<1> HIDE DEF back
<1>9. Blank(empty, s, now - back, now)
  <2>1. FALSE \in BOOLEAN
    OBVIOUS
  <2> QED  BY <1>6, <2>1, EmptiedBlank, Zenon
<1> HIDE DEF empty
<1>10. /\ new \in Stores /\ new.t0 = now - back /\ new.series = <<>> /\ new.fromFile = FALSE
       /\ new.state = "Record" /\ new.reading = s.reading
  BY <1>6, <1>9 DEF Stores, Blank
<1> HIDE DEF new
<1>11. Sound(new, now)
  BY <1>6, <1>10, ProperEmpty DEF Sound
<1>12. /\ Sound(with, now) /\ with.state = "Record" /\ ~with.fromFile
       /\ with.dirty \/ with.series = <<>>
  BY <1>1, <1>3, <1>4, <1>7, <1>10, <1>11, AppendLivePartSound
<1>13. with \in Stores
  BY <1>1, <1>3, <1>10, AppendLivePartType
<1> HIDE DEF with, mark
<1> DEFINE y == [with EXCEPT !.marks = @ \cup {mark}]
<1>14. /\ y.t0 = with.t0 /\ y.reading = with.reading /\ y.fromFile = with.fromFile /\ y.state = with.state
       /\ y.series = with.series /\ y.dirty = with.dirty
  BY <1>13 DEF Stores
<1> HIDE DEF y
<1>15. Fresh(y, now)
  BY <1>12, <1>14 DEF Fresh, Sound
<1> QED  BY <1>8, <1>15 DEF y

LEMMA BeginFresh ==
  ASSUME NEW s \in Stores, NEW preMs \in Nat, NEW now \in Int, Sound(s, now)
  PROVE  Fresh(Begin(s, preMs, now), now)
<1> DEFINE pre == IF preMs > 0 /\ s.state = "Live" THEN LivePart(s, Elapsed(s, now) - preMs) ELSE <<>>
           new == Emptied(s, now, FALSE, now)
<1>1. s.reading.t <= now
  BY DEF Sound
<1>2. Begin(s, preMs, now) = IF pre = <<>> THEN AppendCurrent(new, now, FALSE) ELSE ReachBack(s, pre, preMs, now)
  BY DEF Begin
<1>3. pre # <<>> => pre = LivePart(s, Elapsed(s, now) - preMs) /\ s.state = "Live"
  OBVIOUS
<1> HIDE DEF pre
<1>4. pre # <<>> => Fresh(ReachBack(s, pre, preMs, now), now)
  <2>1. s.state = "Live" => Proper(s.series, s.t0, now)
    BY DEF Sound
  <2> QED  BY <1>1, <1>3, <2>1, ReachBackFresh
<1>5. Fresh(AppendCurrent(new, now, FALSE), now)
  <2>1. FALSE \in BOOLEAN /\ now <= now
    OBVIOUS
  <2>2. Blank(new, s, now, now)
    BY <1>1, <2>1, EmptiedBlank, Zenon
  <2> HIDE DEF new
  <2> QED  BY <2>2, AppendCurrentSound DEF Fresh, Blank
<1> QED  BY <1>2, <1>4, <1>5

LEMMA StartAtFresh ==
  ASSUME NEW s \in Stores, NEW t0 \in Int, NEW now \in Int, t0 <= now, Sound(s, now)
  PROVE  Fresh(StartAt(s, t0, now), now)
<1> DEFINE since == IF s.state = "Live" THEN LivePart(s, t0 - s.t0) ELSE <<>>
           new   == Emptied(s, t0, TRUE, now)
<1>1. s.reading.t <= now /\ s.t0 \in Int
  BY DEF Sound, Stores
<1>2. t0 - s.t0 \in Int
  BY <1>1
<1>3. since \in Seq(Points)
  BY <1>2, LivePartType, Empty
<1>4. StartAt(s, t0, now) = IF Len(since) > 1 THEN AppendLivePart(new, since, s.t0, now) ELSE AppendCurrent(new, now, TRUE)
  BY DEF StartAt
<1>5. Blank(new, s, t0, now)
  <2>1. TRUE \in BOOLEAN
    OBVIOUS
  <2> QED  BY <1>1, <2>1, EmptiedBlank, Zenon
<1>6. Len(since) > 1 => Proper(since, s.t0, now) /\ \A i \in 1..Len(since) : i > 1 => since[i].t > t0 - s.t0
  <2>1. Len(since) > 1 => since = LivePart(s, t0 - s.t0) /\ s.state = "Live"
    BY EmptySeq
  <2>2. s.state = "Live" => Proper(s.series, s.t0, now)
    BY DEF Sound
  <2> HIDE DEF since
  <2> QED  BY <1>2, <2>1, <2>2, LivePartProper
<1> HIDE DEF since, new
<1>7. Len(since) > 1 => Fresh(AppendLivePart(new, since, s.t0, now), now)
  <2>1. \A i \in 1..Len(since) : since[i].t \in Nat
    BY <1>3, PointsOf
  <2>2. Len(since) > 1 => \A i \in 1..Len(since) : i > 1 => s.t0 + since[i].t >= new.t0
    BY <1>1, <1>5, <1>6, <2>1 DEF Blank
  <2> QED  BY <1>1, <1>3, <1>5, <1>6, <2>2, AppendLivePartSound DEF Fresh, Blank
<1>8. Fresh(AppendCurrent(new, now, TRUE), now)
  BY <1>5, AppendCurrentSound DEF Fresh, Blank
<1> QED  BY <1>4, <1>7, <1>8

-----------------------------------------------------------------------------
(* What readings, silence and the clock do: the store stays sound, and what is not dirty is as it was. *)

\* From s to x: Live goes on or becomes a recording that is dirty or empty; what is no Live becomes dirty or stays.
Guarded(s, x) ==
  IF s.state = "Live" THEN x.state = "Live" \/ x.dirty \/ x.series = <<>>
  ELSE x.state # "Live" /\ (x.dirty \/ (x.series = s.series /\ x.dirty = s.dirty))

Goes(s, x, now) == Sound(x, now) /\ Guarded(s, x)

LEMMA GoesOn ==
  ASSUME NEW now \in Int, NEW s \in Stores, NEW x \in Stores, NEW y \in Stores, Goes(s, x, now), Goes(x, y, now)
  PROVE  Goes(s, y, now)
<1>1. Sound(y, now) /\ Guarded(s, x) /\ Guarded(x, y)
  BY DEF Goes
<1>2. Guarded(s, y)
  BY <1>1 DEF Guarded
<1> QED  BY <1>1, <1>2 DEF Goes

LEMMA StopGoes ==
  ASSUME NEW s \in Stores, NEW now \in Int, Sound(s, now)
  PROVE  Goes(s, Stop(s, now), now)
<1>1. CASE s.state # "Record"
  BY <1>1 DEF Stop, Goes, Guarded
<1>2. CASE s.state = "Record"
  <2> DEFINE x == Stop(s, now)
  <2>1. /\ x.state = "View" /\ x.series = s.series /\ x.t0 = s.t0 /\ x.reading = s.reading
        /\ x.fromFile = s.fromFile /\ x.dirty = s.dirty
    BY <1>2 DEF Stop, Stores
  <2> HIDE DEF x
  <2>2. Sound(x, now)
    BY <2>1 DEF Sound
  <2>3. Guarded(s, x)
    BY <1>2, <2>1 DEF Guarded
  <2> QED  BY <2>2, <2>3 DEF Goes, x
<1> QED  BY <1>1, <1>2

LEMMA EndAtLengthGoes ==
  ASSUME NEW s \in Stores, NEW now \in Int, Sound(s, now)
  PROVE  Goes(s, EndAtLength(s, now), now)
<1> DEFINE stopped == Stop(s, now)
           x == [stopped EXCEPT !.stopT = Limit(s)]
<1>1. stopped \in Stores /\ Sound(stopped, now) /\ Guarded(s, stopped)
  BY StopType, StopGoes DEF Goes
<1>2. EndAtLength(s, now) = x
  BY DEF EndAtLength
<1> HIDE DEF stopped
<1>3. /\ x.state = stopped.state /\ x.series = stopped.series /\ x.t0 = stopped.t0 /\ x.reading = stopped.reading
      /\ x.fromFile = stopped.fromFile /\ x.dirty = stopped.dirty
  BY <1>1 DEF Stores
<1> HIDE DEF x
<1>4. Sound(x, now)
  BY <1>1, <1>3 DEF Sound
<1>5. Guarded(s, x)
  BY <1>1, <1>3 DEF Guarded
<1> QED  BY <1>2, <1>4, <1>5 DEF Goes

\* A recording that starts from Live.
LEMMA BeginGoes ==
  ASSUME NEW s \in Stores, NEW preMs \in Nat, NEW now \in Int, Sound(s, now), s.state = "Live"
  PROVE  Goes(s, Begin(s, preMs, now), now)
<1>1. Fresh(Begin(s, preMs, now), now)
  BY BeginFresh
<1> QED  BY <1>1 DEF Fresh, Goes, Guarded

LEMMA KeepGoes ==
  ASSUME NEW s \in Stores, NEW p \in Points, NEW now \in Int, Sound(s, now), s.state # "View",
         s.t0 + p.t <= now,
         Valued(p) => s.t0 + p.t = p.at /\ (s.series # <<>> => Newest(s.series).t <= p.t)
  PROVE  Goes(s, Keep(s, p, now), now)
<1>1. ~s.fromFile
  BY DEF Sound
<1>2. Sound(Keep(s, p, now), now)
  BY <1>1, KeepSound
<1>3. s.state \in {"Live", "Record"}
  BY DEF Stores
<1>4. Guarded(s, Keep(s, p, now))
  BY <1>3, KeepFrame DEF Guarded
<1> QED  BY <1>2, <1>4 DEF Goes

LEMMA SetStaleGoes ==
  ASSUME NEW s \in Stores, NEW now \in Int, Sound(s, now)
  PROVE  Goes(s, SetStale(s, now), now)
<1>1. CASE s.state = "View" \/ s.series = <<>> \/ Newest(s.series).v = Gap
  BY <1>1 DEF SetStale, Goes, Guarded
<1>2. CASE ~(s.state = "View" \/ s.series = <<>> \/ Newest(s.series).v = Gap)
  <2> DEFINE last == Newest(s.series)
             t == Sooner(last.t + StaleAfter, Later(last.t, Elapsed(s, now)))
             p == [t |-> t, v |-> Gap, f |-> Nothing, at |-> s.t0 + t, own |-> TRUE]
  <2>1. SetStale(s, now) = Keep(s, p, now)
    BY <1>2 DEF SetStale
  <2>2. s.series \in Seq(Points) /\ s.t0 \in Int /\ Proper(s.series, s.t0, now)
    BY <1>2 DEF Sound, Stores
  <2>3. last.t \in Nat /\ s.t0 + last.t <= now
    BY <1>2, <2>2, NewestIsPast
  <2>4. t \in Nat /\ s.t0 + t <= now
    BY <2>2, <2>3, StoreAssumption DEF Sooner, Later, Elapsed
  <2>5. Gap \in Int /\ Nothing \in Words
    BY DEF Gap, Words
  <2> HIDE DEF t
  <2>6. s.t0 + t \in Int
    BY <2>2, <2>4
  <2>7. p \in Points /\ p.t = t
    BY <2>4, <2>5, <2>6 DEF Points
  <2>8. ~Valued(p)
    BY DEF Valued
  <2> HIDE DEF p
  <2> QED  BY <1>2, <2>1, <2>4, <2>7, <2>8, KeepGoes
<1> QED  BY <1>1, <1>2

LEMMA PollGoes ==
  ASSUME NEW s \in Stores, NEW startTime \in Int, NEW now \in Int, Sound(s, now)
  PROVE  Goes(s, Poll(s, startTime, now), now)
<1> DEFINE started == IF s.state = "Live" /\ s.mode = "Time" /\ now - startTime \in {0, 1} THEN Begin(s, 0, now) ELSE s
<1>1. Goes(s, s, now)
  BY DEF Goes, Guarded
<1>2. started \in Stores /\ Goes(s, started, now)
  BY <1>1, BeginType, BeginGoes
<1>3. Poll(s, startTime, now) \in {EndAtLength(started, now), started}
  BY DEF Poll
<1> HIDE DEF started
<1>4. Sound(started, now)
  BY <1>2 DEF Goes
<1>5. Goes(s, EndAtLength(started, now), now)
  BY <1>2, <1>4, EndAtLengthType, EndAtLengthGoes, GoesOn
<1> QED  BY <1>2, <1>3, <1>5

LEMMA SetUnitGoes ==
  ASSUME NEW s \in Stores, NEW unit \in Words, NEW now \in Int, Sound(s, now)
  PROVE  Goes(s, SetUnit(s, unit), now)
<1> DEFINE x == SetUnit(s, unit)
<1>1. /\ x.state = s.state /\ x.series = s.series /\ x.t0 = s.t0 /\ x.reading = s.reading
      /\ x.fromFile = s.fromFile /\ x.dirty = s.dirty
  BY DEF SetUnit, Stores
<1> HIDE DEF x
<1>2. Sound(x, now)
  BY <1>1 DEF Sound
<1>3. Guarded(s, x)
  BY <1>1 DEF Guarded
<1> QED  BY <1>2, <1>3 DEF Goes, x

LEMMA TriggerGoes ==
  ASSUME NEW s \in Stores, NEW v \in Int, NEW now \in Int, Sound(s, now), s.state = "Live"
  PROVE  Goes(s, Trigger(s, v, now), now)
<1> DEFINE begun == IF Crosses(s, v) THEN Begin(s, s.pre, now) ELSE s
           x     == [begun EXCEPT !.last = v]
<1>1. begun \in Stores /\ Goes(s, begun, now)
  <2>1. s.pre \in Nat
    BY DEF Stores
  <2>2. Goes(s, s, now)
    BY DEF Goes, Guarded
  <2> QED  BY <2>1, <2>2, BeginType, BeginGoes
<1>2. Trigger(s, v, now) \in {begun, x}
  BY DEF Trigger
<1> HIDE DEF begun
<1>3. /\ x.state = begun.state /\ x.series = begun.series /\ x.t0 = begun.t0 /\ x.reading = begun.reading
      /\ x.fromFile = begun.fromFile /\ x.dirty = begun.dirty
  BY <1>1 DEF Stores
<1> HIDE DEF x
<1>4. Sound(begun, now) /\ Guarded(s, begun)
  BY <1>1 DEF Goes
<1>5. Sound(x, now)
  BY <1>3, <1>4 DEF Sound
<1>6. Guarded(s, x)
  BY <1>3, <1>4 DEF Guarded
<1> QED  BY <1>1, <1>2, <1>5, <1>6 DEF Goes

LEMMA FromFirstReadingGoes ==
  ASSUME NEW s \in Stores, NEW now \in Int, Sound(s, now)
  PROVE  LET x == FromFirstReading(s, now) IN Goes(s, x, now) /\ x.state = s.state
<1>1. CASE FromFirstReading(s, now) = s
  BY <1>1 DEF Goes, Guarded
<1>2. CASE s.series = <<>> /\ FromFirstReading(s, now) = [s EXCEPT !.t0 = now]
  <2> DEFINE x == [s EXCEPT !.t0 = now]
  <2>1. /\ x.state = s.state /\ x.series = s.series /\ x.t0 = now /\ x.reading = s.reading
        /\ x.fromFile = s.fromFile /\ x.dirty = s.dirty
    BY DEF Stores
  <2> HIDE DEF x
  <2>2. Sound(x, now)
    BY <1>2, <2>1, ProperEmpty DEF Sound
  <2>3. Guarded(s, x)
    BY <2>1 DEF Guarded
  <2> QED  BY <1>2, <2>1, <2>2, <2>3 DEF Goes, x
<1> QED  BY <1>1, <1>2 DEF FromFirstReading

LEMMA TakeGoes ==
  ASSUME NEW s \in Stores, NEW r \in Told, NEW now \in Int, Sound(s, now), s.state # "View"
  PROVE  Goes(s, Take(s, r, now), now)
<1> DEFINE base  == FromFirstReading(s, now)
           point == [t |-> Later(0, now - base.t0), v |-> r.v, f |-> r.f, at |-> now, own |-> TRUE]
           kept  == Keep(base, point, now)
<1>1. base \in Stores /\ Goes(s, base, now) /\ base.state = s.state
  BY FromFirstReadingType, FromFirstReadingGoes
<1>2. r.v \in Int /\ r.f \in Words
  BY DEF Told, Words
<1>3. Take(s, r, now) = IF s.state = "Live" THEN Trigger(kept, r.v, now)
                        ELSE IF LengthReached(base, point.t) THEN EndAtLength(base, now) ELSE kept
  BY DEF Take
<1> HIDE DEF base
<1>4. base.t0 \in Int /\ base.t0 <= now /\ Sound(base, now) /\ base.series \in Seq(Points)
  BY <1>1 DEF Goes, Sound, Stores
<1>5. Later(0, now - base.t0) \in Nat /\ base.t0 + Later(0, now - base.t0) = now
  BY <1>4 DEF Later
<1>6. point \in Points /\ base.t0 + point.t = now /\ point.at = now
  <2>1. point \in Points
    BY <1>2, <1>5 DEF Points
  <2> QED  BY <1>5, <2>1
<1> HIDE DEF point
<1>7. base.series # <<>> => Newest(base.series).t <= point.t
  <2> SUFFICES ASSUME base.series # <<>> PROVE Newest(base.series).t <= point.t
    OBVIOUS
  <2>1. Proper(base.series, base.t0, now)
    BY <1>1, <1>4 DEF Sound
  <2>2. Newest(base.series).t \in Nat /\ base.t0 + Newest(base.series).t <= now
    BY <1>4, <2>1, NewestIsPast
  <2>3. point.t \in Nat
    BY <1>6 DEF Points
  <2> QED  BY <1>4, <1>6, <2>2, <2>3
<1>8. kept \in Stores /\ Goes(base, kept, now) /\ kept.state = s.state
  <2>1. Goes(base, kept, now)
    <3>1. base.t0 + point.t <= now
      BY <1>6
    <3> QED  BY <1>1, <1>4, <1>6, <1>7, <3>1, KeepGoes
  <2>2. kept \in Stores /\ kept.state = base.state
    BY <1>1, <1>6, KeepType, KeepFrame
  <2> QED  BY <1>1, <2>1, <2>2
<1> HIDE DEF kept
<1>9. Goes(s, kept, now)
  BY <1>1, <1>8, GoesOn
<1>10. CASE s.state = "Live"
  <2>1. Sound(kept, now)
    BY <1>8 DEF Goes
  <2>2. Trigger(kept, r.v, now) \in Stores /\ Goes(kept, Trigger(kept, r.v, now), now)
    BY <1>2, <1>8, <1>10, <2>1, TriggerType, TriggerGoes
  <2> QED  BY <1>3, <1>8, <1>9, <1>10, <2>2, GoesOn
<1>11. CASE s.state # "Live"
  <2>1. EndAtLength(base, now) \in Stores /\ Goes(base, EndAtLength(base, now), now)
    BY <1>1, <1>4, EndAtLengthType, EndAtLengthGoes
  <2>2. Goes(s, EndAtLength(base, now), now)
    BY <1>1, <2>1, GoesOn
  <2> QED  BY <1>3, <1>9, <1>11, <2>2
<1> QED  BY <1>10, <1>11

LEMMA ClearSound ==
  ASSUME NEW s \in Stores, NEW now \in Int, s.reading.t <= now
  PROVE  LET x == Clear(s, now) IN Sound(x, now) /\ x.state = s.state /\ x.series = <<>>
<1> DEFINE x == Clear(s, now)
<1>1. x.state = s.state /\ x.t0 = now /\ x.series = <<>> /\ x.reading = s.reading /\ x.fromFile = FALSE
  BY ClearFrame, Zenon
<1> HIDE DEF x
<1>2. Sound(x, now)
  BY <1>1, ProperEmpty DEF Sound
<1> QED  BY <1>1, <1>2 DEF x

LEMMA GoLiveSound ==
  ASSUME NEW s \in Stores, NEW now \in Int, s.reading.t <= now
  PROVE  LET x == GoLive(s, now) IN Sound(x, now) /\ x.state = "Live"
<1> DEFINE live    == [s EXCEPT !.state = "Live"]
           cleared == Clear(live, now)
           empty   == [cleared EXCEPT !.preUsed = 0, !.hold = FALSE, !.last = Gap]
<1>1. live \in Stores /\ live.reading = s.reading /\ live.state = "Live"
  BY DEF Stores
<1>2. GoLive(s, now) = AppendCurrent(empty, now, FALSE)
  BY DEF GoLive
<1> HIDE DEF live
<1>3. /\ cleared \in Stores /\ cleared.state = "Live" /\ cleared.t0 = now /\ cleared.series = <<>>
      /\ cleared.reading = s.reading /\ cleared.fromFile = FALSE
  BY <1>1, ClearType, ClearFrame
<1> HIDE DEF cleared
<1>4. Gap \in Int
  BY DEF Gap
<1>5. /\ empty \in Stores /\ empty.state = "Live" /\ empty.t0 = now /\ empty.series = <<>>
      /\ empty.reading = s.reading /\ empty.fromFile = FALSE
  BY <1>3, <1>4 DEF Stores
<1> HIDE DEF empty
<1>6. Sound(empty, now)
  BY <1>5, ProperEmpty DEF Sound
<1> QED  BY <1>2, <1>5, <1>6, AppendCurrentSound

LEMMA LoadSound ==
  ASSUME NEW s \in Stores, NEW now \in Int, Sound(s, now), NEW file, file.unit \in Words, file.series \in Seq(Points)
  PROVE  LET x == Load(s, file) IN Sound(x, now) /\ x.state = "View" /\ x.series = file.series /\ x.dirty = FALSE
<1> DEFINE x == Load(s, file)
<1>1. /\ x.state = "View" /\ x.t0 = s.t0 /\ x.series = file.series /\ x.reading = s.reading
      /\ x.fromFile = TRUE /\ x.dirty = FALSE
  BY DEF Load, Stores
<1> HIDE DEF x
<1>2. Sound(x, now)
  BY <1>1 DEF Sound
<1> QED  BY <1>1, <1>2 DEF x

LEMMA SetReadingGoes ==
  ASSUME NEW s \in Stores, NEW r \in Told, NEW now \in Int, Sound(s, now)
  PROVE  Goes(s, SetReading(s, r, now), now)
<1> DEFINE reading == [t |-> now, v |-> r.v, f |-> r.f]
           shown   == [s EXCEPT !.reading = reading]
           other   == [shown EXCEPT !.port = r.f]
           cleared == [Clear(shown, now) EXCEPT !.last = Gap]
           anew    == [cleared EXCEPT !.port = r.f]
<1>1. r.v \in Int /\ r.f \in Words /\ Gap \in Int
  BY DEF Told, Words, Gap
<1>2. reading \in [t : Int, v : Int, f : Words] /\ reading.t = now
  BY <1>1
<1>3. SetReading(s, r, now) =
        IF s.state = "View" THEN shown
        ELSE IF ~Says(r) \/ r.f = s.port THEN Take(shown, r, now)
        ELSE IF s.port = Nothing THEN Take(other, r, now)
        ELSE IF s.state = "Record" THEN Stop(shown, now)
        ELSE Take(anew, r, now)
  BY DEF SetReading, Anew
<1> HIDE DEF reading
<1>4. /\ shown \in Stores /\ shown.state = s.state /\ shown.series = s.series /\ shown.t0 = s.t0
      /\ shown.reading.t = now /\ shown.fromFile = s.fromFile /\ shown.dirty = s.dirty
  BY <1>2 DEF Stores
<1> HIDE DEF shown
<1>5. /\ other \in Stores /\ other.state = s.state /\ other.series = s.series /\ other.t0 = s.t0
      /\ other.reading.t = now /\ other.fromFile = s.fromFile /\ other.dirty = s.dirty
  BY <1>1, <1>4 DEF Stores
<1>6. Goes(s, shown, now) /\ Goes(s, other, now) /\ Sound(shown, now) /\ Sound(other, now)
  <2> HIDE DEF other
  <2>1. Sound(shown, now) /\ Sound(other, now)
    BY <1>4, <1>5 DEF Sound
  <2>2. Guarded(s, shown) /\ Guarded(s, other)
    BY <1>4, <1>5 DEF Guarded
  <2> QED  BY <2>1, <2>2 DEF Goes
<1> HIDE DEF other
<1>7. ASSUME s.state # "View"
      PROVE  Goes(s, Take(shown, r, now), now) /\ Goes(s, Take(other, r, now), now)
  BY <1>4, <1>5, <1>6, <1>7, TakeType, TakeGoes, GoesOn
<1>8. Goes(s, Stop(shown, now), now)
  BY <1>4, <1>6, StopType, StopGoes, GoesOn
<1>9. ASSUME s.state = "Live"
      PROVE  Goes(s, Take(anew, r, now), now)
  <2> DEFINE empty == Clear(shown, now)
  <2>1. empty \in Stores /\ empty.state = "Live" /\ Sound(empty, now)
    BY <1>4, <1>9, ClearType, ClearSound
  <2> HIDE DEF empty
  <2>2. /\ cleared \in Stores /\ cleared.state = empty.state /\ cleared.series = empty.series /\ cleared.t0 = empty.t0
        /\ cleared.reading = empty.reading /\ cleared.fromFile = empty.fromFile
    BY <1>1, <2>1 DEF Stores, empty
  <2> HIDE DEF cleared
  <2>3. /\ anew \in Stores /\ anew.state = empty.state /\ anew.series = empty.series /\ anew.t0 = empty.t0
        /\ anew.reading = empty.reading /\ anew.fromFile = empty.fromFile
    BY <1>1, <2>2 DEF Stores
  <2> HIDE DEF anew
  <2>4. Sound(anew, now)
    BY <2>1, <2>3 DEF Sound
  <2>5. Goes(s, anew, now)
    BY <1>9, <2>1, <2>3, <2>4 DEF Goes, Guarded
  <2>6. anew.state # "View"
    BY <2>1, <2>3
  <2> QED  BY <2>3, <2>4, <2>5, <2>6, TakeType, TakeGoes, GoesOn
<1> HIDE DEF anew
<1>10. s.state \in {"View", "Live", "Record"}
  BY DEF Stores
<1> QED  BY <1>3, <1>6, <1>7, <1>8, <1>9, <1>10

LEMMA PublishGoes ==
  ASSUME NEW s \in Stores, NEW unit \in Words, NEW r \in Told, NEW now \in Int, Sound(s, now)
  PROVE  Goes(s, Publish(s, unit, r, now), now)
<1> DEFINE base == IF unit # r.f THEN SetUnit(s, r.f) ELSE s
<1>1. r.f \in Words
  BY DEF Told, Words
<1>2. base \in Stores /\ Goes(s, base, now)
  <2>1. Goes(s, s, now)
    BY DEF Goes, Guarded
  <2> QED  BY <1>1, <2>1, SetUnitType, SetUnitGoes
<1>3. Publish(s, unit, r, now) = SetReading(base, r, now)
  BY DEF Publish
<1> HIDE DEF base
<1>4. Sound(base, now)
  BY <1>2 DEF Goes
<1> QED  BY <1>2, <1>3, <1>4, SetReadingType, SetReadingGoes, GoesOn

LEMMA ApplySetupGoes ==
  ASSUME NEW s \in Stores, NEW setup, setup.length \in Nat, setup.pre \in Nat, setup.mode \in Modes, NEW now \in Int,
         Sound(s, now)
  PROVE  Goes(s, ApplySetup(s, setup, now), now)
<1> DEFINE limited(x) == IF s.state = "Live" THEN Trim(x, now) ELSE x
           longer == [s EXCEPT !.length = setup.length]
           one    == limited(longer)
           before == [one EXCEPT !.pre = setup.pre]
           two    == limited(before)
           x      == [two EXCEPT !.mode = setup.mode]
           Same(a, b) == /\ b \in Stores /\ b.state = a.state /\ b.t0 = a.t0 /\ b.reading = a.reading
                         /\ b.fromFile = a.fromFile /\ b.dirty = a.dirty /\ Sound(b, now)
                         /\ a.state = "Live" \/ b.series = a.series
<1>1. ASSUME NEW a \in Stores, NEW b \in Stores, Sound(a, now), b.series = a.series, b.state = a.state, b.t0 = a.t0,
             b.reading = a.reading, b.fromFile = a.fromFile, b.dirty = a.dirty
      PROVE  Same(a, b)
  <2>1. Sound(b, now)
    BY <1>1 DEF Sound
  <2> QED  BY <1>1, <2>1
<1>2. ASSUME NEW a \in Stores, Sound(a, now), a.state = s.state
      PROVE  Same(a, limited(a))
  <2>1. CASE s.state # "Live"
    BY <1>2, <2>1
  <2>2. CASE s.state = "Live"
    <3>1. Trim(a, now) \in Stores /\ Sound(Trim(a, now), now)
      BY <1>2, TrimType, TrimSound
    <3>2. /\ Trim(a, now).state = a.state /\ Trim(a, now).t0 = a.t0 /\ Trim(a, now).reading = a.reading
          /\ Trim(a, now).fromFile = a.fromFile /\ Trim(a, now).dirty = a.dirty
      BY TrimFrame
    <3> QED  BY <1>2, <2>2, <3>1, <3>2, Zenon
  <2> QED  BY <2>1, <2>2
<1>3. ApplySetup(s, setup, now) = x
  BY DEF ApplySetup
<1> HIDE DEF limited
<1>4. Same(s, longer)
  <2>1. /\ longer \in Stores /\ longer.series = s.series /\ longer.state = s.state /\ longer.t0 = s.t0
        /\ longer.reading = s.reading /\ longer.fromFile = s.fromFile /\ longer.dirty = s.dirty
    BY DEF Stores
  <2> HIDE DEF longer, Same
  <2> QED  BY <1>1, <2>1
<1> HIDE DEF longer
<1>5. Same(longer, one)
  BY <1>2, <1>4
<1> HIDE DEF one
<1>6. Same(one, before)
  <2>1. /\ before \in Stores /\ before.series = one.series /\ before.state = one.state /\ before.t0 = one.t0
        /\ before.reading = one.reading /\ before.fromFile = one.fromFile /\ before.dirty = one.dirty
    BY <1>5 DEF Stores
  <2>2. one \in Stores /\ Sound(one, now)
    BY <1>5
  <2> HIDE DEF before, Same
  <2> QED  BY <1>1, <2>1, <2>2
<1> HIDE DEF before
<1>7. Same(before, two)
  <2>1. before.state = s.state
    BY <1>4, <1>5, <1>6
  <2> QED  BY <1>2, <1>6, <2>1
<1> HIDE DEF two
<1>8. Same(two, x)
  <2>1. /\ x \in Stores /\ x.series = two.series /\ x.state = two.state /\ x.t0 = two.t0
        /\ x.reading = two.reading /\ x.fromFile = two.fromFile /\ x.dirty = two.dirty
    BY <1>7 DEF Stores
  <2>2. two \in Stores /\ Sound(two, now)
    BY <1>7
  <2> HIDE DEF x, Same
  <2> QED  BY <1>1, <2>1, <2>2
<1> HIDE DEF x
<1>9. Sound(x, now) /\ x.state = s.state /\ x.dirty = s.dirty /\ (s.state = "Live" \/ x.series = s.series)
  BY <1>4, <1>5, <1>6, <1>7, <1>8
<1>10. Guarded(s, x)
  BY <1>9 DEF Guarded
<1> QED  BY <1>3, <1>9, <1>10 DEF Goes
-----------------------------------------------------------------------------
(* Of what the points are. *)

\* A reading that came since the start and says what was measured: it is of this function.
OfPort(p, port) == p.own /\ Valued(p) /\ p.f # Unknown => p.f = port /\ p.f # Nothing

\* What was measured since the start of a recording that is of no file: one function, and it is known.
Pure(s) == ~s.fromFile => \A i \in 1..Len(s.series) : OfPort(s.series[i], s.port)

LEMMA PureSame ==
  ASSUME NEW s \in Stores, Pure(s), NEW x, x.fromFile = s.fromFile, x.series = s.series, x.port = s.port
  PROVE  Pure(x)
BY DEF Pure

LEMMA PureEmpty ==
  ASSUME NEW x, x.series = <<>>
  PROVE  Pure(x)
<1>1. Len(x.series) = 0
  BY EmptySeq
<1> QED  BY <1>1 DEF Pure

LEMMA TrimPure ==
  ASSUME NEW s \in Stores, NEW now \in Int, Pure(s)
  PROVE  Pure(Trim(s, now))
<1> DEFINE x == Trim(s, now)
<1>1. /\ x.fromFile = s.fromFile /\ x.port = s.port
      /\ x.series = s.series \/ \E m \in 1..Len(s.series) : x.series = SubSeq(s.series, m, Len(s.series))
  BY TrimFrame
<1>2. s.series \in Seq(Points) /\ Len(s.series) \in Nat
  BY LenProperties DEF Stores
<1> HIDE DEF x
<1>3. CASE x.series = s.series
  BY <1>1, <1>3, PureSame DEF x
<1>4. ASSUME NEW m \in 1..Len(s.series), x.series = SubSeq(s.series, m, Len(s.series))
      PROVE  Pure(x)
  <2>1. Len(x.series) = Len(s.series) - m + 1 /\ \A i \in 1..Len(x.series) : x.series[i] = s.series[m + i - 1]
    BY <1>2, <1>4, TailPart
  <2>2. \A i \in 1..Len(x.series) : m + i - 1 \in 1..Len(s.series)
    BY <1>2, <2>1
  <2> QED  BY <1>1, <2>1, <2>2 DEF Pure
<1> QED  BY <1>1, <1>3, <1>4 DEF x

LEMMA KeepPure ==
  ASSUME NEW s \in Stores, NEW p \in Points, NEW now \in Int, Pure(s), OfPort(p, s.port)
  PROVE  Pure(Keep(s, p, now))
<1> DEFINE at == IF s.series = <<>> THEN p ELSE [p EXCEPT !.t = Later(@, Newest(s.series).t)]
           series == Append(s.series, at)
           dirty == s.dirty \/ s.state = "Record"
           more == [s EXCEPT !.series = series, !.dirty = dirty]
<1>1. Keep(s, p, now) = Trim(more, now)
  BY DEF Keep
<1>2. at \in Points /\ OfPort(at, s.port)
  <2>1. at \in Points
    BY KeptType
  <2>2. at.own = p.own /\ at.v = p.v /\ at.f = p.f
    BY DEF Points
  <2> QED  BY <2>1, <2>2 DEF OfPort, Valued
<1> HIDE DEF at
<1>3. s.series \in Seq(Points) /\ Len(s.series) \in Nat
  BY LenProperties DEF Stores
<1>4. /\ series \in Seq(Points) /\ Len(series) = Len(s.series) + 1 /\ series[Len(s.series) + 1] = at
      /\ \A i \in 1..Len(s.series) : series[i] = s.series[i]
  BY <1>2, <1>3, AppendProperties
<1>5. dirty \in BOOLEAN
  OBVIOUS
<1> HIDE DEF series, dirty
<1>6. more \in Stores /\ more.series = series /\ more.fromFile = s.fromFile /\ more.port = s.port
  BY <1>4, <1>5 DEF Stores
<1> HIDE DEF more
<1>7. Pure(more)
  <2> SUFFICES ASSUME ~s.fromFile, NEW i \in 1..Len(series) PROVE OfPort(series[i], s.port)
    BY <1>6 DEF Pure
  <2>1. CASE i = Len(s.series) + 1
    BY <1>2, <1>4, <2>1
  <2>2. CASE i \in 1..Len(s.series)
    BY <1>4, <2>2 DEF Pure
  <2> QED  BY <1>3, <1>4, <2>1, <2>2
<1> QED  BY <1>1, <1>6, <1>7, TrimPure

LEMMA AppendCurrentPure ==
  ASSUME NEW s \in Stores, NEW now \in Int, NEW atItsTime \in BOOLEAN, Pure(s)
  PROVE  Pure(AppendCurrent(s, now, atItsTime))
<1>1. CASE s.reading.t < 0 \/ now - s.reading.t > StaleAfter
  BY <1>1 DEF AppendCurrent
<1>2. CASE ~(s.reading.t < 0 \/ now - s.reading.t > StaleAfter)
  <2> DEFINE t == IF atItsTime THEN Later(0, s.reading.t - s.t0) ELSE 0
             p == [t |-> t, v |-> s.reading.v, f |-> s.reading.f, at |-> s.reading.t, own |-> FALSE]
  <2>1. s.reading.t \in Int /\ s.reading.v \in Int /\ s.reading.f \in Words /\ s.t0 \in Int
    BY DEF Stores
  <2>2. t \in Nat
    BY <2>1 DEF Later
  <2>3. AppendCurrent(s, now, atItsTime) = Keep(s, p, now)
    BY <1>2 DEF AppendCurrent
  <2> HIDE DEF t
  <2>4. p \in Points /\ OfPort(p, s.port)
    BY <2>1, <2>2 DEF Points, OfPort
  <2> HIDE DEF p
  <2> QED  BY <2>3, <2>4, KeepPure
<1> QED  BY <1>1, <1>2

LEMMA AppendLivePartPure ==
  ASSUME NEW s \in Stores, NEW part \in Seq(Points), NEW t0 \in Int, NEW now \in Int, Pure(s)
  PROVE  Pure(AppendLivePart(s, part, t0, now))
<1> DEFINE moved(p) == [p EXCEPT !.t = Later(0, t0 + p.t - s.t0), !.own = FALSE]
           more == [i \in DOMAIN part |-> moved(part[i])]
           series == s.series \o more
           dirty == s.dirty \/ part # <<>>
           with == [s EXCEPT !.series = series, !.dirty = dirty]
<1>1. DOMAIN part = 1..Len(part) /\ Len(part) \in Nat /\ \A i \in 1..Len(part) : part[i] \in Points
  BY LenProperties, ElementOfSeq
<1>2. \A p \in Points : moved(p) \in Points /\ moved(p).own = FALSE
  <2> TAKE p \in Points
  <2>1. Later(0, t0 + p.t - s.t0) \in Nat
    BY DEF Later, Points, Stores
  <2> QED  BY <2>1 DEF Points
<1> HIDE DEF moved
<1>3. more \in Seq(Points) /\ Len(more) = Len(part) /\ \A i \in 1..Len(part) : more[i].own = FALSE
  <2>1. [i \in 1..Len(part) |-> moved(part[i])] \in [1..Len(part) -> Points]
    BY <1>1, <1>2
  <2>2. \A i \in 1..Len(part) : more[i] = moved(part[i])
    BY <1>1
  <2>3. more \in Seq(Points) /\ Len(more) = Len(part)
    BY <1>1, <2>1
  <2> QED  BY <1>1, <1>2, <2>2, <2>3
<1>4. AppendLivePart(s, part, t0, now) = Trim(with, now)
  BY DEF AppendLivePart, moved
<1> HIDE DEF more
<1>5. s.series \in Seq(Points) /\ Len(s.series) \in Nat
  BY LenProperties DEF Stores
<1>6. /\ series \in Seq(Points) /\ Len(series) = Len(s.series) + Len(part)
      /\ \A i \in 1..Len(series) : series[i] = IF i <= Len(s.series) THEN s.series[i] ELSE more[i - Len(s.series)]
  <2> DEFINE old == s.series
  <2>1. old \in Seq(Points) /\ more \in Seq(Points) /\ Len(more) = Len(part) /\ series = old \o more
    BY <1>3, <1>5
  <2> HIDE DEF old, series
  <2>2. /\ old \o more \in Seq(Points) /\ Len(old \o more) = Len(old) + Len(more)
        /\ \A i \in 1..(Len(old) + Len(more)) : (old \o more)[i] = IF i <= Len(old) THEN old[i] ELSE more[i - Len(old)]
    BY <2>1, ConcatProperties, Zenon
  <2> QED  BY <2>1, <2>2 DEF old
<1>7. dirty \in BOOLEAN
  OBVIOUS
<1> HIDE DEF series, dirty
<1>8. with \in Stores /\ with.series = series /\ with.fromFile = s.fromFile /\ with.port = s.port
  BY <1>6, <1>7 DEF Stores
<1> HIDE DEF with
<1>9. Pure(with)
  <2> SUFFICES ASSUME ~s.fromFile, NEW i \in 1..Len(series) PROVE OfPort(series[i], s.port)
    BY <1>8 DEF Pure
  <2>1. CASE i <= Len(s.series)
    <3>1. i \in 1..Len(s.series) /\ series[i] = s.series[i]
      BY <1>5, <1>6, <2>1
    <3> QED  BY <3>1 DEF Pure
  <2>2. CASE ~(i <= Len(s.series))
    <3>1. i - Len(s.series) \in 1..Len(part) /\ series[i] = more[i - Len(s.series)]
      BY <1>1, <1>5, <1>6, <2>2
    <3>2. series[i].own = FALSE
      BY <1>3, <3>1
    <3> QED  BY <3>2 DEF OfPort
  <2> QED  BY <2>1, <2>2
<1> QED  BY <1>4, <1>8, <1>9, TrimPure

LEMMA EmptiedPure ==
  ASSUME NEW s \in Stores, NEW t0 \in Int, NEW hold \in BOOLEAN, NEW now \in Int
  PROVE  Pure(Emptied(s, t0, hold, now))
<1>1. Emptied(s, t0, hold, now).series = <<>>
  BY EmptiedFrame, Zenon
<1> QED  BY <1>1, PureEmpty

LEMMA ReachBackPure ==
  ASSUME NEW s \in Stores, NEW pre \in Seq(Points), pre # <<>>, NEW preMs \in Nat, NEW now \in Int
  PROVE  Pure(ReachBack(s, pre, preMs, now))
<1> DEFINE back  == Later(0, Sooner(preMs, now - (s.t0 + pre[1].t)))
           empty == Emptied(s, now - back, FALSE, now)
           new   == [empty EXCEPT !.preUsed = back]
           with  == AppendLivePart(new, pre, s.t0, now)
           marks == with.marks \cup {[t |-> back, trigger |-> TRUE]}
           x     == [with EXCEPT !.marks = marks]
<1>1. s.t0 \in Int
  BY DEF Stores
<1>2. back \in Nat /\ now - back \in Int
  <2>1. 1 \in 1..Len(pre)
    BY EmptySeq
  <2>2. pre[1].t \in Nat
    BY <2>1, PointsOf
  <2> QED  BY <1>1, <2>2 DEF Later, Sooner
<1>3. ReachBack(s, pre, preMs, now) = x
  BY DEF ReachBack
<1> HIDE DEF back
<1>4. empty \in Stores /\ empty.series = <<>>
  BY <1>2, EmptiedType, EmptiedFrame
<1> HIDE DEF empty
<1>5. new \in Stores /\ new.series = <<>>
  BY <1>2, <1>4 DEF Stores
<1> HIDE DEF new
<1>6. with \in Stores /\ Pure(with)
  BY <1>1, <1>5, PureEmpty, AppendLivePartType, AppendLivePartPure
<1> HIDE DEF with, marks
<1>7. x.series = with.series /\ x.fromFile = with.fromFile /\ x.port = with.port
  BY <1>6 DEF Stores
<1> HIDE DEF x
<1> QED  BY <1>3, <1>6, <1>7, PureSame

LEMMA BeginPure ==
  ASSUME NEW s \in Stores, NEW preMs \in Nat, NEW now \in Int
  PROVE  Pure(Begin(s, preMs, now))
<1> DEFINE pre == IF preMs > 0 /\ s.state = "Live" THEN LivePart(s, Elapsed(s, now) - preMs) ELSE <<>>
           new == Emptied(s, now, FALSE, now)
<1>1. pre \in Seq(Points)
  <2>1. Elapsed(s, now) - preMs \in Int
    BY DEF Elapsed, Stores
  <2> QED  BY <2>1, LivePartType, Empty
<1>2. Begin(s, preMs, now) = IF pre = <<>> THEN AppendCurrent(new, now, FALSE) ELSE ReachBack(s, pre, preMs, now)
  BY DEF Begin
<1> HIDE DEF pre
<1>3. new \in Stores /\ Pure(new)
  BY EmptiedType, EmptiedPure
<1> HIDE DEF new
<1>4. Pure(AppendCurrent(new, now, FALSE))
  BY <1>3, AppendCurrentPure
<1>5. pre # <<>> => Pure(ReachBack(s, pre, preMs, now))
  BY <1>1, ReachBackPure
<1> QED  BY <1>2, <1>4, <1>5

LEMMA StartAtPure ==
  ASSUME NEW s \in Stores, NEW t0 \in Int, NEW now \in Int
  PROVE  Pure(StartAt(s, t0, now))
<1> DEFINE since == IF s.state = "Live" THEN LivePart(s, t0 - s.t0) ELSE <<>>
           new   == Emptied(s, t0, TRUE, now)
<1>1. s.t0 \in Int
  BY DEF Stores
<1>2. since \in Seq(Points)
  <2>1. t0 - s.t0 \in Int
    BY <1>1
  <2> QED  BY <2>1, LivePartType, Empty
<1>3. new \in Stores /\ Pure(new)
  BY EmptiedType, EmptiedPure
<1>4. StartAt(s, t0, now) = IF Len(since) > 1 THEN AppendLivePart(new, since, s.t0, now) ELSE AppendCurrent(new, now, TRUE)
  BY DEF StartAt
<1> HIDE DEF since, new
<1>5. Pure(AppendLivePart(new, since, s.t0, now))
  BY <1>1, <1>2, <1>3, AppendLivePartPure
<1>6. Pure(AppendCurrent(new, now, TRUE))
  BY <1>3, AppendCurrentPure
<1> QED  BY <1>4, <1>5, <1>6

LEMMA StopPure ==
  ASSUME NEW s \in Stores, NEW now \in Int, Pure(s)
  PROVE  Pure(Stop(s, now))
<1> DEFINE x == Stop(s, now)
<1>1. x.series = s.series /\ x.fromFile = s.fromFile /\ x.port = s.port
  BY DEF Stop, Stores
<1> HIDE DEF x
<1>2. Pure(x)
  BY <1>1, PureSame
<1> QED  BY <1>2 DEF x

LEMMA EndAtLengthPure ==
  ASSUME NEW s \in Stores, NEW now \in Int, Pure(s)
  PROVE  Pure(EndAtLength(s, now))
<1> DEFINE stopped == Stop(s, now)
           x == [stopped EXCEPT !.stopT = Limit(s)]
<1>1. stopped \in Stores /\ Pure(stopped)
  BY StopType, StopPure
<1>2. EndAtLength(s, now) = x
  BY DEF EndAtLength
<1> HIDE DEF stopped
<1>3. x.series = stopped.series /\ x.fromFile = stopped.fromFile /\ x.port = stopped.port
  BY <1>1 DEF Stores
<1> HIDE DEF x
<1> QED  BY <1>1, <1>2, <1>3, PureSame

LEMMA GoLivePure ==
  ASSUME NEW s \in Stores, NEW now \in Int
  PROVE  Pure(GoLive(s, now))
<1> DEFINE live    == [s EXCEPT !.state = "Live"]
           cleared == Clear(live, now)
           empty   == [cleared EXCEPT !.preUsed = 0, !.hold = FALSE, !.last = Gap]
<1>1. live \in Stores
  BY DEF Stores
<1>2. GoLive(s, now) = AppendCurrent(empty, now, FALSE)
  BY DEF GoLive
<1> HIDE DEF live
<1>3. cleared \in Stores /\ cleared.series = <<>>
  BY <1>1, ClearType, ClearFrame
<1> HIDE DEF cleared
<1>4. empty \in Stores /\ empty.series = <<>>
  <2>1. Gap \in Int
    BY DEF Gap
  <2> QED  BY <1>3, <2>1 DEF Stores
<1> HIDE DEF empty
<1> QED  BY <1>2, <1>4, PureEmpty, AppendCurrentPure

LEMMA SetStalePure ==
  ASSUME NEW s \in Stores, NEW now \in Int, Pure(s)
  PROVE  Pure(SetStale(s, now))
<1>1. CASE s.state = "View" \/ s.series = <<>> \/ Newest(s.series).v = Gap
  BY <1>1 DEF SetStale
<1>2. CASE ~(s.state = "View" \/ s.series = <<>> \/ Newest(s.series).v = Gap)
  <2> DEFINE last == Newest(s.series)
             t == Sooner(last.t + StaleAfter, Later(last.t, Elapsed(s, now)))
             at == s.t0 + t
             p == [t |-> t, v |-> Gap, f |-> Nothing, at |-> at, own |-> TRUE]
  <2>1. SetStale(s, now) = Keep(s, p, now)
    BY <1>2 DEF SetStale
  <2>2. last \in Points /\ s.t0 \in Int
    BY <1>2, NewestIsPoint DEF Stores
  <2>3. t \in Nat
    BY <2>2, StoreAssumption DEF Sooner, Later, Elapsed, Points
  <2>4. Gap \in Int /\ Nothing \in Words
    BY DEF Gap, Words
  <2> HIDE DEF t
  <2>5. at \in Int
    BY <2>2, <2>3
  <2> HIDE DEF at
  <2>6. p \in Points /\ p.v = Gap
    BY <2>3, <2>4, <2>5 DEF Points
  <2> HIDE DEF p
  <2>7. OfPort(p, s.port)
    BY <2>6 DEF OfPort, Valued
  <2> QED  BY <2>1, <2>6, <2>7, KeepPure
<1> QED  BY <1>1, <1>2

LEMMA PollPure ==
  ASSUME NEW s \in Stores, NEW startTime \in Int, NEW now \in Int, Pure(s)
  PROVE  Pure(Poll(s, startTime, now))
<1> DEFINE started == IF s.state = "Live" /\ s.mode = "Time" /\ now - startTime \in {0, 1} THEN Begin(s, 0, now) ELSE s
<1>1. started \in Stores /\ Pure(started)
  BY BeginType, BeginPure
<1>2. Poll(s, startTime, now) \in {EndAtLength(started, now), started}
  BY DEF Poll
<1> HIDE DEF started
<1> QED  BY <1>1, <1>2, EndAtLengthPure

LEMMA SetUnitPure ==
  ASSUME NEW s \in Stores, NEW unit \in Words, Pure(s)
  PROVE  Pure(SetUnit(s, unit))
<1> DEFINE x == SetUnit(s, unit)
<1>1. x.series = s.series /\ x.fromFile = s.fromFile /\ x.port = s.port
  BY DEF SetUnit, Stores
<1> HIDE DEF x
<1>2. Pure(x)
  BY <1>1, PureSame
<1> QED  BY <1>2 DEF x

LEMMA TriggerPure ==
  ASSUME NEW s \in Stores, NEW v \in Int, NEW now \in Int, Pure(s)
  PROVE  Pure(Trigger(s, v, now))
<1> DEFINE begun == IF Crosses(s, v) THEN Begin(s, s.pre, now) ELSE s
           x     == [begun EXCEPT !.last = v]
<1>1. begun \in Stores /\ Pure(begun)
  <2>1. s.pre \in Nat
    BY DEF Stores
  <2> QED  BY <2>1, BeginType, BeginPure
<1>2. Trigger(s, v, now) \in {begun, x}
  BY DEF Trigger
<1> HIDE DEF begun
<1>3. x.series = begun.series /\ x.fromFile = begun.fromFile /\ x.port = begun.port
  BY <1>1 DEF Stores
<1> HIDE DEF x
<1>4. Pure(x)
  BY <1>1, <1>3, PureSame
<1> QED  BY <1>1, <1>2, <1>4

\* A reading is taken when it says nothing about the function, or is of the one that is recorded.
LEMMA TakePure ==
  ASSUME NEW s \in Stores, NEW r \in Told, NEW now \in Int, Pure(s), ~Says(r) \/ r.f = s.port
  PROVE  Pure(Take(s, r, now))
<1> DEFINE base  == FromFirstReading(s, now)
           t     == Later(0, now - base.t0)
           point == [t |-> t, v |-> r.v, f |-> r.f, at |-> now, own |-> TRUE]
           kept  == Keep(base, point, now)
<1>1. base \in Stores
  BY FromFirstReadingType
<1>2. base.series = s.series /\ base.fromFile = s.fromFile /\ base.port = s.port
  BY DEF FromFirstReading, Stores
<1>3. r.v \in Int /\ r.f \in Words /\ r.f # Nothing
  <2>1. Nothing # Unknown
    BY DEF Nothing, Unknown
  <2> QED  BY <2>1, FunctionsAssumption DEF Told, Words
<1>4. Take(s, r, now) \in {Trigger(kept, r.v, now), EndAtLength(base, now), kept}
  BY DEF Take
<1> HIDE DEF base
<1>5. Pure(base)
  BY <1>2, PureSame
<1>6. t \in Nat
  <2>1. base.t0 \in Int
    BY <1>1 DEF Stores
  <2> QED  BY <2>1 DEF Later
<1> HIDE DEF t
<1>7. point \in Points /\ point.v = r.v /\ point.f = r.f
  BY <1>3, <1>6 DEF Points
<1> HIDE DEF point
<1>8. OfPort(point, base.port)
  BY <1>2, <1>3, <1>7 DEF OfPort, Valued, Says
<1>9. kept \in Stores /\ Pure(kept)
  BY <1>1, <1>5, <1>7, <1>8, KeepType, KeepPure
<1> HIDE DEF kept
<1>10. Pure(Trigger(kept, r.v, now))
  BY <1>3, <1>9, TriggerPure
<1>11. Pure(EndAtLength(base, now))
  BY <1>1, <1>5, EndAtLengthPure
<1> QED  BY <1>4, <1>9, <1>10, <1>11

\* A recorder that knows no function has no own reading that says one: it may be told any.
LEMMA PortMayBeTold ==
  ASSUME NEW s \in Stores, Pure(s), s.port = Nothing, NEW f \in Words
  PROVE  Pure([s EXCEPT !.port = f])
<1> DEFINE x == [s EXCEPT !.port = f]
<1>1. x.series = s.series /\ x.fromFile = s.fromFile /\ x.port = f
  BY DEF Stores
<1> HIDE DEF x
<1>2. \A p : OfPort(p, Nothing) => OfPort(p, f)
  BY DEF OfPort
<1>3. Pure(x)
  BY <1>1, <1>2 DEF Pure
<1> QED  BY <1>3 DEF x

LEMMA SetReadingPure ==
  ASSUME NEW s \in Stores, NEW r \in Told, NEW now \in Int, Pure(s)
  PROVE  Pure(SetReading(s, r, now))
<1> DEFINE reading == [t |-> now, v |-> r.v, f |-> r.f]
           shown   == [s EXCEPT !.reading = reading]
           other   == [shown EXCEPT !.port = r.f]
           empty   == Clear(shown, now)
           cleared == [empty EXCEPT !.last = Gap]
           anew    == [cleared EXCEPT !.port = r.f]
<1>1. r.v \in Int /\ r.f \in Words /\ Gap \in Int
  BY DEF Told, Words, Gap
<1>2. reading \in [t : Int, v : Int, f : Words]
  BY <1>1
<1>3. SetReading(s, r, now) =
        IF s.state = "View" THEN shown
        ELSE IF ~Says(r) \/ r.f = s.port THEN Take(shown, r, now)
        ELSE IF s.port = Nothing THEN Take(other, r, now)
        ELSE IF s.state = "Record" THEN Stop(shown, now)
        ELSE Take(anew, r, now)
  BY DEF SetReading, Anew
<1> HIDE DEF reading
<1>4. shown \in Stores /\ shown.series = s.series /\ shown.fromFile = s.fromFile /\ shown.port = s.port
  BY <1>2 DEF Stores
<1> HIDE DEF shown
<1>5. Pure(shown) /\ Pure(Stop(shown, now))
  BY <1>4, PureSame, StopPure
<1>6. ~Says(r) \/ r.f = s.port => Pure(Take(shown, r, now))
  BY <1>4, <1>5, TakePure
<1>7. s.port = Nothing => Pure(Take(other, r, now))
  <2> SUFFICES ASSUME s.port = Nothing PROVE Pure(Take(other, r, now))
    OBVIOUS
  <2>1. Pure(other)
    BY <1>1, <1>4, <1>5, PortMayBeTold
  <2>2. other \in Stores /\ other.port = r.f
    BY <1>1, <1>4 DEF Stores
  <2> HIDE DEF other
  <2> QED  BY <2>1, <2>2, TakePure
<1>8. Pure(Take(anew, r, now))
  <2>1. empty \in Stores /\ empty.series = <<>>
    BY <1>4, ClearType, ClearFrame
  <2> HIDE DEF empty
  <2>2. cleared \in Stores /\ cleared.series = <<>>
    BY <1>1, <2>1 DEF Stores
  <2> HIDE DEF cleared
  <2>3. anew \in Stores /\ anew.series = <<>> /\ anew.port = r.f
    BY <1>1, <2>2 DEF Stores
  <2> HIDE DEF anew
  <2> QED  BY <2>3, PureEmpty, TakePure
<1> HIDE DEF other, anew
<1> QED  BY <1>3, <1>5, <1>6, <1>7, <1>8

LEMMA PublishPure ==
  ASSUME NEW s \in Stores, NEW unit \in Words, NEW r \in Told, NEW now \in Int, Pure(s)
  PROVE  Pure(Publish(s, unit, r, now))
<1> DEFINE base == IF unit # r.f THEN SetUnit(s, r.f) ELSE s
<1>1. r.f \in Words
  BY DEF Told, Words
<1>2. base \in Stores /\ Pure(base)
  BY <1>1, SetUnitType, SetUnitPure
<1>3. Publish(s, unit, r, now) = SetReading(base, r, now)
  BY DEF Publish
<1> HIDE DEF base
<1> QED  BY <1>2, <1>3, SetReadingPure

LEMMA ApplySetupPure ==
  ASSUME NEW s \in Stores, NEW setup, setup.length \in Nat, setup.pre \in Nat, setup.mode \in Modes, NEW now \in Int,
         Pure(s)
  PROVE  Pure(ApplySetup(s, setup, now))
<1> DEFINE limited(x) == IF s.state = "Live" THEN Trim(x, now) ELSE x
           longer == [s EXCEPT !.length = setup.length]
           one    == limited(longer)
           before == [one EXCEPT !.pre = setup.pre]
           two    == limited(before)
           x      == [two EXCEPT !.mode = setup.mode]
<1>1. \A a \in Stores : Pure(a) => limited(a) \in Stores /\ Pure(limited(a))
  BY TrimType, TrimPure
<1>2. ApplySetup(s, setup, now) = x
  BY DEF ApplySetup
<1> HIDE DEF limited
<1>3. longer \in Stores /\ Pure(longer)
  <2>1. longer \in Stores /\ longer.series = s.series /\ longer.fromFile = s.fromFile /\ longer.port = s.port
    BY DEF Stores
  <2> HIDE DEF longer
  <2> QED  BY <2>1, PureSame
<1>4. one \in Stores /\ Pure(one)
  BY <1>1, <1>3
<1> HIDE DEF one
<1>5. before \in Stores /\ Pure(before)
  <2>1. before \in Stores /\ before.series = one.series /\ before.fromFile = one.fromFile /\ before.port = one.port
    BY <1>4 DEF Stores
  <2> HIDE DEF before
  <2> QED  BY <1>4, <2>1, PureSame
<1>6. two \in Stores /\ Pure(two)
  BY <1>1, <1>5
<1> HIDE DEF two
<1>7. x.series = two.series /\ x.fromFile = two.fromFile /\ x.port = two.port
  BY <1>6 DEF Stores
<1> HIDE DEF x
<1> QED  BY <1>2, <1>6, <1>7, PureSame
-----------------------------------------------------------------------------
(* The state of a store, its time base and its start mode: what a session of several stores goes by. *)

\* The store stays in its state, its place in time and its setup.
Same(s, x) == x.mode = s.mode /\ x.hold = s.hold /\ x.state = s.state /\ x.t0 = s.t0

LEMMA TrimSame ==
  ASSUME NEW s \in Stores, NEW now \in Int
  PROVE  Same(s, Trim(s, now))
<1>1. CASE s.series = <<>> \/ Excess(s, now) <= 0
  BY <1>1 DEF Trim, Same
<1>2. CASE ~(s.series = <<>> \/ Excess(s, now) <= 0)
  <2> DEFINE rest  == SubSeq(s.series, Excess(s, now) + 1, Len(s.series))
             floor == IF s.state = "Live" THEN s.floor ELSE rest[1].t
             first == Later(IF s.state = "Live" THEN Origin(s, now) ELSE floor, rest[1].t)
             marks == {m \in s.marks : m.t >= first}
  <2>1. Trim(s, now) = [s EXCEPT !.series = rest, !.floor = floor, !.marks = marks]
    BY <1>2 DEF Trim
  <2> HIDE DEF rest, floor, marks
  <2> QED  BY <2>1 DEF Stores, Same
<1> QED  BY <1>1, <1>2

LEMMA KeepSame ==
  ASSUME NEW s \in Stores, NEW p \in Points, NEW now \in Int
  PROVE  Same(s, Keep(s, p, now))
<1> DEFINE at == IF s.series = <<>> THEN p ELSE [p EXCEPT !.t = Later(@, Newest(s.series).t)]
           series == Append(s.series, at)
           dirty == s.dirty \/ s.state = "Record"
           more == [s EXCEPT !.series = series, !.dirty = dirty]
<1>1. Keep(s, p, now) = Trim(more, now)
  BY DEF Keep
<1>2. more \in Stores
  <2>1. at \in Points
    BY KeptType
  <2> HIDE DEF at
  <2>2. series \in Seq(Points) /\ dirty \in BOOLEAN
    BY <2>1, AppendProperties DEF Stores
  <2> HIDE DEF series, dirty
  <2> QED  BY <2>2 DEF Stores
<1>3. Same(s, more)
  BY DEF Stores, Same
<1> HIDE DEF more
<1>4. Same(more, Trim(more, now))
  BY <1>2, TrimSame
<1> QED  BY <1>1, <1>3, <1>4 DEF Same

LEMMA SetStaleSame ==
  ASSUME NEW s \in Stores, NEW now \in Int
  PROVE  Same(s, SetStale(s, now))
<1>1. CASE s.state = "View" \/ s.series = <<>> \/ Newest(s.series).v = Gap
  BY <1>1 DEF SetStale, Same
<1>2. CASE ~(s.state = "View" \/ s.series = <<>> \/ Newest(s.series).v = Gap)
  <2> DEFINE last == Newest(s.series)
             t    == Sooner(last.t + StaleAfter, Later(last.t, Elapsed(s, now)))
             p    == [t |-> t, v |-> Gap, f |-> Nothing, at |-> s.t0 + t, own |-> TRUE]
  <2>1. SetStale(s, now) = Keep(s, p, now)
    BY <1>2 DEF SetStale
  <2>2. last \in Points /\ s.t0 \in Int
    BY <1>2, NewestIsPoint DEF Stores
  <2>3. t \in Nat
    BY <2>2, StoreAssumption DEF Sooner, Later, Elapsed, Points
  <2> HIDE DEF t
  <2>4. p \in Points
    BY <2>2, <2>3 DEF Points, Gap, Words
  <2> HIDE DEF p
  <2> QED  BY <2>1, <2>4, KeepSame
<1> QED  BY <1>1, <1>2

LEMMA AppendCurrentSame ==
  ASSUME NEW s \in Stores, NEW now \in Int, NEW atItsTime \in BOOLEAN
  PROVE  Same(s, AppendCurrent(s, now, atItsTime))
<1>1. CASE s.reading.t < 0 \/ now - s.reading.t > StaleAfter
  BY <1>1 DEF AppendCurrent, Same
<1>2. CASE ~(s.reading.t < 0 \/ now - s.reading.t > StaleAfter)
  <2> DEFINE t == IF atItsTime THEN Later(0, s.reading.t - s.t0) ELSE 0
             p == [t |-> t, v |-> s.reading.v, f |-> s.reading.f, at |-> s.reading.t, own |-> FALSE]
  <2>1. s.reading.t \in Int /\ s.reading.v \in Int /\ s.reading.f \in Words /\ s.t0 \in Int
    BY DEF Stores
  <2>2. t \in Nat
    BY <2>1 DEF Later
  <2>3. AppendCurrent(s, now, atItsTime) = Keep(s, p, now)
    BY <1>2 DEF AppendCurrent
  <2> HIDE DEF t
  <2>4. p \in Points
    BY <2>1, <2>2 DEF Points
  <2> HIDE DEF p
  <2> QED  BY <2>3, <2>4, KeepSame
<1> QED  BY <1>1, <1>2

LEMMA AppendLivePartSame ==
  ASSUME NEW s \in Stores, NEW part \in Seq(Points), NEW t0 \in Int, NEW now \in Int
  PROVE  Same(s, AppendLivePart(s, part, t0, now))
<1> DEFINE moved(p) == [p EXCEPT !.t = Later(0, t0 + p.t - s.t0), !.own = FALSE]
           more == [i \in DOMAIN part |-> moved(part[i])]
           series == s.series \o more
           dirty == s.dirty \/ part # <<>>
           with == [s EXCEPT !.series = series, !.dirty = dirty]
<1>1. DOMAIN part = 1..Len(part) /\ Len(part) \in Nat /\ \A i \in 1..Len(part) : part[i] \in Points
  BY LenProperties, ElementOfSeq
<1>2. \A p \in Points : moved(p) \in Points
  <2> TAKE p \in Points
  <2>1. Later(0, t0 + p.t - s.t0) \in Nat
    BY DEF Later, Points, Stores
  <2> QED  BY <2>1 DEF Points
<1>3. more \in Seq(Points)
  <2> HIDE DEF moved
  <2>1. [i \in 1..Len(part) |-> moved(part[i])] \in [1..Len(part) -> Points]
    BY <1>1, <1>2
  <2> QED  BY <1>1, <2>1
<1>4. series \in Seq(Points)
  <2> HIDE DEF more
  <2>1. s.series \in Seq(Points)
    BY DEF Stores
  <2> QED  BY <1>3, <2>1, ConcatProperties
<1>5. AppendLivePart(s, part, t0, now) = Trim(with, now)
  BY DEF AppendLivePart
<1> HIDE DEF series
<1>6. with \in Stores /\ Same(s, with)
  BY <1>4 DEF Stores, Same
<1> HIDE DEF with
<1>7. Same(with, Trim(with, now))
  BY <1>6, TrimSame
<1> QED  BY <1>5, <1>6, <1>7 DEF Same

LEMMA ClearMode ==
  ASSUME NEW s \in Stores, NEW now \in Int
  PROVE  LET x == Clear(s, now) IN x.state = s.state /\ x.mode = s.mode /\ x.hold = s.hold /\ x.t0 = now
BY DEF Clear, Stores

LEMMA EmptiedMode ==
  ASSUME NEW s \in Stores, NEW t0 \in Int, NEW hold \in BOOLEAN, NEW now \in Int
  PROVE  /\ Emptied(s, t0, hold, now).state = "Record"
         /\ Emptied(s, t0, hold, now).mode = s.mode
         /\ Emptied(s, t0, hold, now).t0 = t0
<1> DEFINE recording == [s EXCEPT !.state = "Record"]
           cleared   == Clear(recording, now)
<1>1. recording \in Stores /\ recording.state = "Record" /\ recording.mode = s.mode
  BY DEF Stores
<1> HIDE DEF recording
<1>2. cleared \in Stores /\ cleared.state = "Record" /\ cleared.mode = s.mode
  BY <1>1, ClearType, ClearMode
<1>3. Emptied(s, t0, hold, now) = [cleared EXCEPT !.stopT = -1, !.preUsed = 0, !.t0 = t0, !.hold = hold]
  BY DEF Emptied, recording
<1> HIDE DEF cleared
<1> QED  BY <1>2, <1>3 DEF Stores

LEMMA EmptiedHolds ==
  ASSUME NEW s \in Stores, NEW t0 \in Int, NEW now \in Int
  PROVE  Emptied(s, t0, TRUE, now).hold
<1> DEFINE recording == [s EXCEPT !.state = "Record"]
           cleared   == Clear(recording, now)
<1>1. recording \in Stores
  BY DEF Stores
<1> HIDE DEF recording
<1>2. cleared \in Stores
  BY <1>1, ClearType
<1>3. Emptied(s, t0, TRUE, now) = [cleared EXCEPT !.stopT = -1, !.preUsed = 0, !.t0 = t0, !.hold = TRUE]
  BY DEF Emptied, recording
<1> HIDE DEF cleared
<1> QED  BY <1>2, <1>3 DEF Stores

LEMMA BeginMode ==
  ASSUME NEW s \in Stores, NEW preMs \in Nat, NEW now \in Int
  PROVE  LET x == Begin(s, preMs, now) IN x.state = "Record" /\ x.mode = s.mode
<1> DEFINE pre   == IF preMs > 0 /\ s.state = "Live" THEN LivePart(s, Elapsed(s, now) - preMs) ELSE <<>>
           empty == Emptied(s, now, FALSE, now)
<1>1. pre \in Seq(Points)
  <2>1. Elapsed(s, now) - preMs \in Int
    BY DEF Elapsed, Stores
  <2> QED  BY <2>1, LivePartType, Empty
<1>2. Begin(s, preMs, now) = IF pre = <<>> THEN AppendCurrent(empty, now, FALSE) ELSE ReachBack(s, pre, preMs, now)
  BY DEF Begin
<1> HIDE DEF pre
<1>3. empty \in Stores /\ empty.state = "Record" /\ empty.mode = s.mode
  <2>1. empty \in Stores
    BY EmptiedType
  <2>2. FALSE \in BOOLEAN
    OBVIOUS
  <2>3. empty.state = "Record" /\ empty.mode = s.mode
    BY <2>2, EmptiedMode
  <2> QED  BY <2>1, <2>3
<1> HIDE DEF empty
<1>4. Same(empty, AppendCurrent(empty, now, FALSE))
  BY <1>3, AppendCurrentSame
<1>5. pre # <<>> => ReachBack(s, pre, preMs, now).state = "Record" /\ ReachBack(s, pre, preMs, now).mode = s.mode
  <2> SUFFICES ASSUME pre # <<>>
               PROVE  ReachBack(s, pre, preMs, now).state = "Record" /\ ReachBack(s, pre, preMs, now).mode = s.mode
    OBVIOUS
  <2> DEFINE back  == Later(0, Sooner(preMs, now - (s.t0 + pre[1].t)))
             clean == Emptied(s, now - back, FALSE, now)
             new   == [clean EXCEPT !.preUsed = back]
             with  == AppendLivePart(new, pre, s.t0, now)
             mark  == [t |-> back, trigger |-> TRUE]
  <2>1. s.t0 \in Int
    BY DEF Stores
  <2>2. pre[1].t \in Nat
    <3>1. 1 \in 1..Len(pre)
      BY <1>1, EmptySeq
    <3>2. pre[1] \in Points
      BY <1>1, <3>1, ElementOfSeq
    <3> QED  BY <3>2 DEF Points
  <2>3. back \in Nat /\ now - back \in Int
    BY <2>1, <2>2 DEF Later, Sooner
  <2>4. ReachBack(s, pre, preMs, now) = [with EXCEPT !.marks = @ \cup {mark}]
    BY DEF ReachBack
  <2> HIDE DEF back, mark
  <2>5. clean \in Stores /\ clean.state = "Record" /\ clean.mode = s.mode
    <3>1. FALSE \in BOOLEAN
      OBVIOUS
    <3>2. clean \in Stores
      BY <2>3, <3>1, EmptiedType
    <3>3. clean.state = "Record" /\ clean.mode = s.mode
      BY <2>3, <3>1, EmptiedMode
    <3> QED  BY <3>2, <3>3
  <2> HIDE DEF clean
  <2>6. new \in Stores /\ new.state = "Record" /\ new.mode = s.mode
    BY <2>3, <2>5 DEF Stores
  <2> HIDE DEF new
  <2>7. with \in Stores /\ Same(new, with)
    BY <1>1, <2>1, <2>6, AppendLivePartType, AppendLivePartSame
  <2> HIDE DEF with
  <2> QED  BY <2>4, <2>6, <2>7 DEF Same, Stores
<1> QED  BY <1>2, <1>3, <1>4, <1>5 DEF Same

\* A follower's recording is on the time base it is given, and stays there.
LEMMA StartAtMode ==
  ASSUME NEW s \in Stores, NEW t0 \in Int, NEW now \in Int
  PROVE  LET x == StartAt(s, t0, now) IN x.state = "Record" /\ x.mode = s.mode /\ x.t0 = t0 /\ x.hold
<1> DEFINE since == IF s.state = "Live" THEN LivePart(s, t0 - s.t0) ELSE <<>>
           new   == Emptied(s, t0, TRUE, now)
<1>1. s.t0 \in Int
  BY DEF Stores
<1>2. since \in Seq(Points)
  <2>1. t0 - s.t0 \in Int
    BY <1>1
  <2> QED  BY <2>1, LivePartType, Empty
<1>3. new \in Stores /\ new.state = "Record" /\ new.mode = s.mode /\ new.t0 = t0 /\ new.hold
  <2>1. new \in Stores
    BY EmptiedType
  <2>2. TRUE \in BOOLEAN
    OBVIOUS
  <2>3. new.state = "Record" /\ new.mode = s.mode /\ new.t0 = t0
    BY <2>2, EmptiedMode
  <2>4. new.hold
    BY EmptiedHolds
  <2> QED  BY <2>1, <2>3, <2>4
<1>4. StartAt(s, t0, now) = IF Len(since) > 1 THEN AppendLivePart(new, since, s.t0, now) ELSE AppendCurrent(new, now, TRUE)
  BY DEF StartAt
<1> HIDE DEF since, new
<1>5. Same(new, AppendLivePart(new, since, s.t0, now))
  BY <1>1, <1>2, <1>3, AppendLivePartSame
<1>6. Same(new, AppendCurrent(new, now, TRUE))
  BY <1>3, AppendCurrentSame
<1> QED  BY <1>3, <1>4, <1>5, <1>6 DEF Same

LEMMA GoLiveMode ==
  ASSUME NEW s \in Stores, NEW now \in Int
  PROVE  LET x == GoLive(s, now) IN x.state = "Live" /\ x.mode = s.mode
<1> DEFINE live    == [s EXCEPT !.state = "Live"]
           cleared == Clear(live, now)
           empty   == [cleared EXCEPT !.preUsed = 0, !.hold = FALSE, !.last = Gap]
<1>1. live \in Stores /\ live.state = "Live" /\ live.mode = s.mode
  BY DEF Stores
<1> HIDE DEF live
<1>2. cleared \in Stores /\ cleared.state = "Live" /\ cleared.mode = s.mode
  BY <1>1, ClearType, ClearMode
<1>3. GoLive(s, now) = AppendCurrent(empty, now, FALSE)
  BY DEF GoLive, live
<1> HIDE DEF cleared
<1>4. empty \in Stores /\ empty.state = "Live" /\ empty.mode = s.mode
  <2>1. Gap \in Int
    BY DEF Gap
  <2>2. empty \in Stores
    BY <1>2, <2>1 DEF Stores
  <2>3. empty.state = cleared.state /\ empty.mode = cleared.mode
    BY <1>2 DEF Stores
  <2> QED  BY <1>2, <2>2, <2>3
<1> HIDE DEF empty
<1>5. Same(empty, AppendCurrent(empty, now, FALSE))
  BY <1>4, AppendCurrentSame
<1> QED  BY <1>3, <1>4, <1>5 DEF Same

LEMMA StopMode ==
  ASSUME NEW s \in Stores, NEW now \in Int
  PROVE  LET x == Stop(s, now)
         IN  /\ x.mode = s.mode /\ x.state # "Record" /\ (s.state # "Record" => x = s)
             /\ s.state = "Record" => x.state = "View"
BY DEF Stop, Stores

\* What readings, silence and the clock may do to a store in a session: a start is by its own mode, and a recording whose
\* start is held keeps it.
Steps(s, x) ==
  /\ x.mode = s.mode
  /\ x.state = "Record" /\ s.state # "Record" => s.mode # "Manual"
  /\ x.state = "Record" /\ s.state = "Record" /\ s.hold => x.t0 = s.t0 /\ x.hold

LEMMA EndAtLengthMode ==
  ASSUME NEW s \in Stores, NEW now \in Int
  PROVE  EndAtLength(s, now).mode = s.mode /\ EndAtLength(s, now).state # "Record"
<1> DEFINE x == Stop(s, now)
<1>1. x \in Stores /\ x.mode = s.mode /\ x.state # "Record"
  BY StopType, StopMode
<1> HIDE DEF x
<1> QED  BY <1>1 DEF EndAtLength, x, Stores

LEMMA PollSteps ==
  ASSUME NEW s \in Stores, NEW startTime \in Int, NEW now \in Int
  PROVE  Steps(s, Poll(s, startTime, now))
<1> DEFINE starts  == s.state = "Live" /\ s.mode = "Time" /\ now - startTime \in {0, 1}
           started == IF starts THEN Begin(s, 0, now) ELSE s
<1>1. started \in Stores /\ started.mode = s.mode
  BY BeginType, BeginMode
<1>2. starts => started.state = "Record" /\ s.state = "Live" /\ s.mode # "Manual"
  BY BeginMode
<1>3. ~starts => started = s
  OBVIOUS
<1>4. Poll(s, startTime, now) = IF LengthReached(started, Elapsed(started, now)) THEN EndAtLength(started, now) ELSE started
  BY DEF Poll
<1> HIDE DEF starts, started
<1>5. EndAtLength(started, now).mode = started.mode /\ EndAtLength(started, now).state # "Record"
  BY <1>1, EndAtLengthMode
<1> QED  BY <1>1, <1>2, <1>3, <1>4, <1>5 DEF Steps

LEMMA TriggerSteps ==
  ASSUME NEW s \in Stores, NEW v \in Int, NEW now \in Int, s.state = "Live"
  PROVE  Steps(s, Trigger(s, v, now))
<1> DEFINE begun == IF Crosses(s, v) THEN Begin(s, s.pre, now) ELSE s
<1>1. s.pre \in Nat
  BY DEF Stores
<1>2. begun \in Stores /\ begun.mode = s.mode
  BY <1>1, BeginType, BeginMode
<1>3. begun.state = "Record" => s.mode # "Manual"
  BY DEF Crosses
<1>4. Trigger(s, v, now) = IF v = Gap THEN begun ELSE [begun EXCEPT !.last = v]
  BY DEF Trigger
<1> HIDE DEF begun
<1> QED  BY <1>2, <1>3, <1>4 DEF Steps, Stores

LEMMA TakeSteps ==
  ASSUME NEW s \in Stores, NEW r \in Told, NEW now \in Int
  PROVE  Steps(s, Take(s, r, now))
<1> DEFINE base  == FromFirstReading(s, now)
           point == [t |-> Later(0, now - base.t0), v |-> r.v, f |-> r.f, at |-> now, own |-> TRUE]
           kept  == Keep(base, point, now)
<1>1. base \in Stores /\ base.mode = s.mode /\ base.state = s.state /\ (s.hold => base.t0 = s.t0 /\ base.hold)
  BY FromFirstReadingType DEF FromFirstReading, Stores
<1>2. Take(s, r, now) =
        IF s.state = "Live" THEN Trigger(kept, r.v, now)
        ELSE IF LengthReached(base, point.t) THEN EndAtLength(base, now) ELSE kept
  BY DEF Take
<1> HIDE DEF base
<1>3. point \in Points
  <2>1. r.v \in Int /\ r.f \in Words
    BY DEF Told, Words
  <2>2. base.t0 \in Int
    BY <1>1 DEF Stores
  <2>3. Later(0, now - base.t0) \in Nat
    BY <2>2 DEF Later
  <2> QED  BY <2>1, <2>3 DEF Points
<1> HIDE DEF point
<1>4. kept \in Stores /\ Same(base, kept)
  BY <1>1, <1>3, KeepType, KeepSame
<1> HIDE DEF kept
<1>5. s.state = "Live" => Steps(kept, Trigger(kept, r.v, now))
  <2>1. r.v \in Int
    BY DEF Told
  <2> QED  BY <1>1, <1>4, <2>1, TriggerSteps DEF Same
<1>6. EndAtLength(base, now).mode = base.mode /\ EndAtLength(base, now).state # "Record"
  BY <1>1, EndAtLengthMode
<1> QED  BY <1>1, <1>2, <1>4, <1>5, <1>6 DEF Steps, Same

LEMMA SetReadingSteps ==
  ASSUME NEW s \in Stores, NEW r \in Told, NEW now \in Int
  PROVE  Steps(s, SetReading(s, r, now))
<1> DEFINE reading == [t |-> now, v |-> r.v, f |-> r.f]
           shown   == [s EXCEPT !.reading = reading]
           other   == [shown EXCEPT !.port = r.f]
           cleared == Clear(shown, now)
           empty   == [cleared EXCEPT !.last = Gap]
           anew    == [empty EXCEPT !.port = r.f]
<1>1. r.f \in Words /\ r.v \in Int
  BY DEF Told, Words
<1>2. shown \in Stores /\ Same(s, shown)
  BY <1>1 DEF Stores, Same
<1>3. SetReading(s, r, now) =
        IF s.state = "View" THEN shown
        ELSE IF ~Says(r) \/ r.f = s.port THEN Take(shown, r, now)
        ELSE IF s.port = Nothing THEN Take(other, r, now)
        ELSE IF s.state = "Record" THEN Stop(shown, now)
        ELSE Take(anew, r, now)
  BY DEF SetReading, Anew
<1> HIDE DEF shown
<1>4. other \in Stores /\ Same(s, other)
  BY <1>1, <1>2 DEF Stores, Same
<1> HIDE DEF other
<1>5. cleared \in Stores /\ cleared.state = s.state /\ cleared.mode = s.mode
  BY <1>2, ClearType, ClearMode DEF Same
<1> HIDE DEF cleared
<1>6. anew \in Stores /\ anew.state = s.state /\ anew.mode = s.mode
  <2>1. Gap \in Int
    BY DEF Gap
  <2>2. empty \in Stores /\ empty.state = cleared.state /\ empty.mode = cleared.mode
    BY <1>5, <2>1 DEF Stores
  <2> HIDE DEF empty
  <2>3. anew \in Stores /\ anew.state = empty.state /\ anew.mode = empty.mode
    BY <1>1, <2>2 DEF Stores
  <2> QED  BY <1>5, <2>2, <2>3
<1> HIDE DEF anew
<1>7. Steps(shown, Take(shown, r, now)) /\ Steps(other, Take(other, r, now)) /\ Steps(anew, Take(anew, r, now))
  BY <1>2, <1>4, <1>6, TakeSteps
<1>8. Stop(shown, now).mode = shown.mode /\ Stop(shown, now).state # "Record"
  BY <1>2, StopMode
<1> QED  BY <1>2, <1>3, <1>4, <1>6, <1>7, <1>8 DEF Steps, Same

LEMMA ApplySetupMode ==
  ASSUME NEW s \in Stores, NEW setup, setup.length \in Nat, setup.pre \in Nat, setup.mode \in Modes, NEW now \in Int
  PROVE  LET x == ApplySetup(s, setup, now)
         IN  x.state = s.state /\ x.t0 = s.t0 /\ x.hold = s.hold /\ x.mode = setup.mode
<1> DEFINE limited(x) == IF s.state = "Live" THEN Trim(x, now) ELSE x
           longer == [s EXCEPT !.length = setup.length]
           one    == limited(longer)
           back   == [one EXCEPT !.pre = setup.pre]
           two    == limited(back)
<1>1. longer \in Stores /\ Same(s, longer)
  BY DEF Stores, Same
<1> HIDE DEF longer
<1>2. one \in Stores /\ Same(longer, one)
  <2>1. Trim(longer, now) \in Stores /\ Same(longer, Trim(longer, now))
    BY <1>1, TrimType, TrimSame
  <2> QED  BY <1>1, <2>1 DEF Same
<1> HIDE DEF one
<1>3. back \in Stores /\ Same(one, back)
  BY <1>2 DEF Stores, Same
<1> HIDE DEF back
<1>4. two \in Stores /\ Same(back, two)
  <2>1. Trim(back, now) \in Stores /\ Same(back, Trim(back, now))
    BY <1>3, TrimType, TrimSame
  <2> QED  BY <1>3, <2>1 DEF Same
<1>5. ApplySetup(s, setup, now) = [two EXCEPT !.mode = setup.mode]
  BY DEF ApplySetup, longer, one, back
<1> HIDE DEF two
<1> QED  BY <1>1, <1>2, <1>3, <1>4, <1>5 DEF Same, Stores

-----------------------------------------------------------------------------
(* What is dropped, and what stays: the points that hold, where a recording begins and where it ends. *)

\* A series whose first k points are the ones not after a moment: that many hold.
LEMMA HoldingIs ==
  ASSUME NEW series \in Seq(Points), NEW t \in Int, NEW k \in 0..Len(series),
         \A i \in 1..Len(series) : series[i].t <= t <=> i <= k
  PROVE  Holding(series, t) = k
<1>1. DOMAIN series = 1..Len(series) /\ Len(series) \in Nat
  BY LenProperties
<1>2. {i \in DOMAIN series : series[i].t <= t} = 1..k
  BY <1>1
<1>3. Cardinality(1..k) = k
  <2>1. Cardinality(1..k) = IF 1 > k THEN 0 ELSE k - 1 + 1
    BY <1>1, FS_Interval
  <2> QED  BY <1>1, <2>1
<1> QED  BY <1>2, <1>3 DEF Holding

\* In a proper series exactly the points up to the one that holds are not after a moment.
LEMMA UpToHolding ==
  ASSUME NEW series \in Seq(Points), NEW t0 \in Int, NEW now \in Int, Proper(series, t0, now), NEW t \in Int
  PROVE  \A i \in 1..Len(series) : series[i].t <= t <=> i <= Holding(series, t)
<1> DEFINE early == {k \in DOMAIN series : series[k].t <= t}
<1>1. Len(series) \in Nat /\ DOMAIN series = 1..Len(series) /\ \A k \in 1..Len(series) : series[k].t \in Nat
  BY LenProperties, PointsOf
<1>2. Holding(series, t) \in 0..Len(series) /\ Holding(series, t) = Cardinality(early)
  BY HoldingType DEF Holding
<1>3. ASSUME NEW i \in 1..Len(series), i > Holding(series, t)
      PROVE  series[i].t > t
  BY <1>3, AfterHolding
<1>4. ASSUME NEW i \in 1..Len(series), series[i].t > t
      PROVE  i > Holding(series, t)
  <2>1. \A k \in 1..Len(series) : k >= i => series[k].t > t
    BY <1>1, <1>4 DEF Proper
  <2>2. early \in SUBSET (1..(i - 1))
    BY <1>1, <1>4, <2>1
  <2> HIDE DEF early
  <2>3. IsFiniteSet(1..(i - 1)) /\ Cardinality(1..(i - 1)) = i - 1
    <3> DEFINE j == i - 1
    <3>1. j \in Nat
      BY <1>1
    <3> HIDE DEF j
    <3>2. IsFiniteSet(1..j) /\ Cardinality(1..j) = IF 1 > j THEN 0 ELSE j - 1 + 1
      BY <3>1, FS_Interval
    <3>3. IsFiniteSet(1..j) /\ Cardinality(1..j) = j
      BY <3>1, <3>2
    <3> QED  BY <3>3 DEF j
  <2>4. Cardinality(early) <= i - 1
    BY <2>2, <2>3, FS_Subset
  <2> QED  BY <1>1, <1>2, <2>4
<1> QED  BY <1>1, <1>2, <1>3, <1>4

\* What holds at a moment holds in the end of a series, too, if that begins no later.
LEMMA HoldingOfTail ==
  ASSUME NEW series \in Seq(Points), NEW t0 \in Int, NEW now \in Int, Proper(series, t0, now), NEW t \in Int,
         NEW m \in 1..Len(series), m <= Later(1, Holding(series, t))
  PROVE  LET rest == SubSeq(series, m, Len(series))
             k    == Holding(rest, t)
         IN  /\ k = Holding(series, t) - m + 1 /\ (k = 0 <=> Holding(series, t) = 0)
             /\ k # 0 => rest[k] = series[Holding(series, t)]
<1> DEFINE rest == SubSeq(series, m, Len(series))
           h    == Holding(series, t)
<1>1. Len(series) \in Nat /\ h \in 0..Len(series)
  BY HoldingType, LenProperties
<1>2. /\ rest \in Seq(Points) /\ Len(rest) = Len(series) - m + 1
      /\ \A i \in 1..Len(rest) : rest[i] = series[m + i - 1]
  BY TailPart
<1>3. \A i \in 1..Len(series) : series[i].t <= t <=> i <= h
  BY UpToHolding
<1>4. h = 0 => m = 1
  BY <1>1 DEF Later
<1>5. h # 0 => m <= h
  BY <1>1 DEF Later
<1> HIDE DEF rest, h
<1>6. h - m + 1 \in 0..Len(rest)
  BY <1>1, <1>2, <1>4, <1>5
<1>7. \A i \in 1..Len(rest) : rest[i].t <= t <=> i <= h - m + 1
  <2> TAKE i \in 1..Len(rest)
  <2>1. m + i - 1 \in 1..Len(series) /\ rest[i] = series[m + i - 1]
    BY <1>1, <1>2
  <2>2. series[m + i - 1].t <= t <=> m + i - 1 <= h
    BY <1>3, <2>1
  <2>3. m + i - 1 <= h <=> i <= h - m + 1
    BY <1>1, <1>2
  <2> QED  BY <2>1, <2>2, <2>3
<1>8. Holding(rest, t) = h - m + 1
  BY <1>2, <1>6, <1>7, HoldingIs
<1>9. h - m + 1 = 0 <=> h = 0
  BY <1>1, <1>4, <1>5
<1>10. h # 0 => rest[h - m + 1] = series[h]
  <2>1. h # 0 => h - m + 1 \in 1..Len(rest) /\ m + (h - m + 1) - 1 = h
    BY <1>1, <1>2, <1>5
  <2> QED  BY <1>2, <2>1
<1> QED  BY <1>8, <1>9, <1>10 DEF rest, h

\* A point changes nothing of the time before it.
LEMMA HoldingBefore ==
  ASSUME NEW series \in Seq(Points), NEW p \in Points, NEW t \in Int, t < p.t
  PROVE  LET more == Append(series, p)
             k    == Holding(more, t)
         IN  k = Holding(series, t) /\ (k # 0 => more[k] = series[k])
<1> DEFINE more == Append(series, p)
           n    == Len(series)
<1>1. n \in Nat /\ more \in Seq(Points) /\ Len(more) = n + 1 /\ more[n + 1] = p /\ \A i \in 1..n : more[i] = series[i]
  BY LenProperties, AppendProperties
<1>2. DOMAIN series = 1..n /\ DOMAIN more = 1..(n + 1) /\ p.t \in Nat
  BY <1>1, LenProperties DEF Points
<1>3. Holding(series, t) \in 0..n
  BY HoldingType
<1> HIDE DEF more, n
<1>4. {i \in DOMAIN more : more[i].t <= t} = {i \in DOMAIN series : series[i].t <= t}
  <2>1. ~(more[n + 1].t <= t)
    BY <1>1, <1>2
  <2> QED  BY <1>1, <1>2, <2>1
<1>5. Holding(more, t) = Holding(series, t)
  BY <1>4 DEF Holding
<1> QED  BY <1>1, <1>3, <1>5 DEF more, n

-----------------------------------------------------------------------------
\* What a store may hold at most, over the most points by a hundredth.
MostHeld == MaxPoints + (MaxPoints \div 100)

LEMMA MostHeldType == MostHeld \in Nat /\ MaxPoints \in Nat /\ MaxPoints >= 2 /\ MaxPoints <= MostHeld
BY StoreAssumption DEF MostHeld

LEMMA WholePart ==
  ASSUME NEW series \in Seq(Points)
  PROVE  SubSeq(series, 1, Len(series)) = series
OBVIOUS

\* Trimming leaves a series from its m-th point on: at most what held at the origin goes, or all but the most points.
Trimmed(s, x, now, m) ==
  LET n == Len(s.series)
  IN  /\ m \in 1..n /\ x.series = SubSeq(s.series, m, n)
      /\ m = 1 => x = s
      /\ m > 1 => /\ x.floor = IF s.state = "Live" THEN s.floor ELSE x.series[1].t
                  /\ s.state # "Live" => \A k \in x.marks : k.t >= x.floor
      /\ x.marks \in SUBSET s.marks
      /\ \/ n - m + 1 = MaxPoints /\ n > MostHeld
         \/ m <= Later(1, Holding(s.series, Origin(s, now))) /\ (s.state # "Live" => m = 1) /\ n - m + 1 <= MostHeld

LEMMA TrimIs ==
  ASSUME NEW s \in Stores, NEW now \in Int, s.series # <<>>
  PROVE  \E m \in 1..Len(s.series) : Trimmed(s, Trim(s, now), now, m)
<1> DEFINE n     == Len(s.series)
           gone  == Excess(s, now)
           m     == gone + 1
           rest  == SubSeq(s.series, m, n)
           floor == IF s.state = "Live" THEN s.floor ELSE rest[1].t
           first == Later(IF s.state = "Live" THEN Origin(s, now) ELSE floor, rest[1].t)
           marks == {k \in s.marks : k.t >= first}
           held  == Holding(s.series, Origin(s, now))
           x     == Trim(s, now)
<1>1. s.series \in Seq(Points) /\ n \in Nat /\ n >= 1
  BY NewestIsPoint DEF Stores
<1>2. gone \in 0..(n - 1)
  BY ExcessType
<1>3. held \in 0..n
  <2>1. Origin(s, now) \in Int
    BY OriginType
  <2> QED  BY <1>1, <2>1, HoldingType
<1>4. \/ n - m + 1 = MaxPoints /\ n > MostHeld
      \/ m <= Later(1, held) /\ (s.state # "Live" => m = 1) /\ n - m + 1 <= MostHeld
  <2>1. \E old \in {0, Later(0, held - 1)} :
          /\ gone = IF n - old > MostHeld THEN n - MaxPoints ELSE old
          /\ s.state # "Live" => old = 0
    BY DEF Excess, MostHeld
  <2> HIDE DEF gone, n, held
  <2> QED  BY <1>1, <1>2, <1>3, <2>1, MostHeldType DEF Later
<1>5. x = IF gone <= 0 THEN s ELSE [s EXCEPT !.series = rest, !.floor = floor, !.marks = marks]
  BY DEF Trim
<1>6. m \in 1..n /\ (m = 1 <=> gone <= 0)
  BY <1>1, <1>2
<1>7. rest[1] \in Points
  <2>1. rest \in Seq(Points) /\ Len(rest) = n - m + 1
    BY <1>1, <1>6, TailPart
  <2>2. 1 \in 1..Len(rest)
    BY <1>1, <1>6, <2>1
  <2> HIDE DEF rest
  <2> QED  BY <2>1, <2>2, ElementOfSeq
<1>8. m = 1 => rest = s.series
  BY <1>1, WholePart
<1>9. \A k \in marks : k.t \in Nat /\ k.t >= first
  BY DEF Stores, Marks
<1>10. rest[1].t \in Nat /\ first \in Int /\ (s.state # "Live" => first >= floor)
  <2> HIDE DEF rest
  <2>1. rest[1].t \in Nat /\ Origin(s, now) \in Nat /\ s.floor \in Nat
    BY <1>7, OriginType DEF Points, Stores
  <2> QED  BY <2>1 DEF Later
<1>11. s.state # "Live" => floor = rest[1].t
  OBVIOUS
<1>12. marks \in SUBSET s.marks
  OBVIOUS
<1> HIDE DEF gone, rest, first, marks, floor, x, held
<1>13. CASE gone <= 0
  <2>1. x = s /\ m = 1 /\ x.series = rest
    BY <1>5, <1>6, <1>8, <1>13
  <2>2. Trimmed(s, x, now, m)
    BY <1>4, <1>6, <2>1 DEF Trimmed, rest, held
  <2> QED  BY <1>6, <2>2 DEF x
<1>14. CASE ~(gone <= 0)
  <2>1. x = [s EXCEPT !.series = rest, !.floor = floor, !.marks = marks] /\ m # 1
    BY <1>5, <1>6, <1>14
  <2>2. x.series = rest /\ x.floor = floor /\ x.marks = marks
    BY <2>1 DEF Stores
  <2>3. x.floor = IF s.state = "Live" THEN s.floor ELSE x.series[1].t
    BY <2>2 DEF floor
  <2>4. s.state # "Live" => \A k \in x.marks : k.t >= x.floor
    BY <1>9, <1>10, <1>11, <2>2
  <2>5. Trimmed(s, x, now, m)
    BY <1>4, <1>6, <1>12, <2>1, <2>2, <2>3, <2>4 DEF Trimmed, rest, held
  <2> QED  BY <1>6, <2>5 DEF x
<1> QED  BY <1>13, <1>14

-----------------------------------------------------------------------------
\* What the length of a recording and its reach are counted from.
Framed(s, x) ==
  /\ x.state = s.state /\ x.t0 = s.t0 /\ x.length = s.length /\ x.pre = s.pre /\ x.preUsed = s.preUsed
  /\ x.reading = s.reading /\ x.fromFile = s.fromFile

LEMMA TrimFramed ==
  ASSUME NEW s \in Stores, NEW now \in Int
  PROVE  Framed(s, Trim(s, now))
<1>1. CASE s.series = <<>> \/ Excess(s, now) <= 0
  BY <1>1 DEF Trim, Framed
<1>2. CASE ~(s.series = <<>> \/ Excess(s, now) <= 0)
  <2> DEFINE rest  == SubSeq(s.series, Excess(s, now) + 1, Len(s.series))
             floor == IF s.state = "Live" THEN s.floor ELSE rest[1].t
             first == Later(IF s.state = "Live" THEN Origin(s, now) ELSE floor, rest[1].t)
             marks == {m \in s.marks : m.t >= first}
  <2>1. Trim(s, now) = [s EXCEPT !.series = rest, !.floor = floor, !.marks = marks]
    BY <1>2 DEF Trim
  <2> HIDE DEF rest, floor, marks
  <2> QED  BY <2>1 DEF Stores, Framed
<1> QED  BY <1>1, <1>2

\* A point where it is kept, and the store before it is trimmed.
Placed(s, p) == IF s.series = <<>> THEN p ELSE [p EXCEPT !.t = Later(@, Newest(s.series).t)]

With(s, p) == [s EXCEPT !.series = Append(s.series, Placed(s, p)), !.dirty = s.dirty \/ s.state = "Record"]

LEMMA PlacedType ==
  ASSUME NEW s \in Stores, NEW p \in Points
  PROVE  /\ Placed(s, p) \in Points /\ Placed(s, p).v = p.v /\ Placed(s, p).at = p.at
         /\ s.series = <<>> => Placed(s, p).t = p.t
         /\ s.series # <<>> => Placed(s, p).t = Later(p.t, Newest(s.series).t)
<1>1. Placed(s, p) \in Points
  BY KeptType DEF Placed
<1> QED  BY <1>1 DEF Placed, Points

LEMMA WithIs ==
  ASSUME NEW s \in Stores, NEW p \in Points, NEW now \in Int
  PROVE  /\ Keep(s, p, now) = Trim(With(s, p), now)
         /\ With(s, p) \in Stores /\ Framed(s, With(s, p)) /\ With(s, p).floor = s.floor /\ With(s, p).marks = s.marks
         /\ With(s, p).series = Append(s.series, Placed(s, p))
<1> DEFINE series == Append(s.series, Placed(s, p))
           dirty  == s.dirty \/ s.state = "Record"
<1>1. Keep(s, p, now) = Trim(With(s, p), now)
  BY DEF Keep, With, Placed
<1>2. series \in Seq(Points)
  BY PlacedType, AppendProperties DEF Stores
<1>3. dirty \in BOOLEAN
  OBVIOUS
<1>4. With(s, p) = [s EXCEPT !.series = series, !.dirty = dirty]
  BY DEF With
<1> HIDE DEF series, dirty
<1>5. /\ With(s, p) \in Stores /\ Framed(s, With(s, p)) /\ With(s, p).floor = s.floor /\ With(s, p).marks = s.marks
      /\ With(s, p).series = series
  BY <1>2, <1>3, <1>4 DEF Stores, Framed
<1> QED  BY <1>1, <1>5 DEF series

\* The series with one more point.
LEMMA WithSeries ==
  ASSUME NEW s \in Stores, NEW p \in Points
  PROVE  LET more == With(s, p).series
             n    == Len(s.series)
         IN  /\ n \in Nat /\ more \in Seq(Points) /\ Len(more) = n + 1 /\ more # <<>>
             /\ more[n + 1] = Placed(s, p) /\ \A i \in 1..n : more[i] = s.series[i]
<1> DEFINE more == Append(s.series, Placed(s, p))
           n    == Len(s.series)
<1>1. s.series \in Seq(Points) /\ Placed(s, p) \in Points
  BY PlacedType DEF Stores
<1>2. /\ n \in Nat /\ more \in Seq(Points) /\ Len(more) = n + 1
      /\ more[n + 1] = Placed(s, p) /\ \A i \in 1..n : more[i] = s.series[i]
  BY <1>1, LenProperties, AppendProperties
<1>3. With(s, p).series = more
  BY WithIs
<1> HIDE DEF more
<1>4. more # <<>>
  <2>1. Len(more) # 0
    BY <1>2
  <2> QED  BY <1>2, <2>1, EmptySeq
<1> QED  BY <1>2, <1>3, <1>4

\* The series of a sound store stays proper with a point that stands where it came, or is the first.
LEMMA WithProper ==
  ASSUME NEW s \in Stores, NEW p \in Points, NEW now \in Int, Proper(s.series, s.t0, now),
         s.t0 + p.t <= now,
         Valued(p) => \/ s.t0 + p.t = p.at /\ (s.series # <<>> => Newest(s.series).t <= p.t)
                      \/ s.series = <<>> /\ ~p.own /\ p.at < s.t0 + p.t
  PROVE  Proper(With(s, p).series, s.t0, now)
<1> DEFINE at == Placed(s, p)
<1>1. s.series \in Seq(Points) /\ s.t0 \in Int /\ p.t \in Nat
  BY DEF Stores, Points
<1>2. at \in Points /\ at.v = p.v /\ at.at = p.at
  BY PlacedType
<1>3. s.series = <<>> => at = p
  BY DEF Placed
<1>4. s.series # <<>> => /\ at.t = Later(p.t, Newest(s.series).t) /\ Newest(s.series).t \in Nat
                         /\ s.t0 + Newest(s.series).t <= now
  BY <1>1, PlacedType, NewestIsPast
<1>5. With(s, p).series = Append(s.series, at)
  BY WithIs
<1> HIDE DEF at
<1>6. s.t0 + at.t <= now /\ (s.series # <<>> => Newest(s.series).t <= at.t)
  BY <1>1, <1>3, <1>4 DEF Later
<1>7. Valued(at) => s.t0 + at.t = at.at \/ (s.series = <<>> /\ ~at.own /\ at.at < s.t0 + at.t)
  <2>1. Valued(at) <=> Valued(p)
    BY <1>2 DEF Valued
  <2>2. CASE s.series = <<>>
    BY <1>3, <2>2
  <2>3. CASE s.series # <<>>
    BY <1>1, <1>2, <1>4, <2>1, <2>3 DEF Later
  <2> QED  BY <2>2, <2>3
<1> QED  BY <1>1, <1>2, <1>5, <1>6, <1>7, ProperAppend

-----------------------------------------------------------------------------
(* What stands, stays. *)

\* The last k points of a series begin the other one.
Grown(old, new, k) ==
  k \in 0..Len(old) /\ k <= Len(new) /\ SubSeq(new, 1, k) = SubSeq(old, Len(old) - k + 1, Len(old))

\* Nothing of a recording is gone, or the oldest when there were more than the most points.
Undiscarded(s, x) ==
  \/ Grown(s.series, x.series, Len(s.series))
  \/ s.state = "Record" /\ \E k \in 0..Len(s.series) : Grown(s.series, x.series, k) /\ k >= MaxPoints - 1

LEMMA UndiscardedSame ==
  ASSUME NEW s \in Stores, NEW x, x.series = s.series
  PROVE  Undiscarded(s, x)
<1>1. s.series \in Seq(Points) /\ Len(s.series) \in Nat
  BY LenProperties DEF Stores
<1>2. Len(s.series) - Len(s.series) + 1 = 1
  BY <1>1
<1> QED  BY <1>1, <1>2 DEF Undiscarded, Grown

LEMMA GrownByOne ==
  ASSUME NEW old \in Seq(Points), NEW more \in Seq(Points), Len(more) = Len(old) + 1,
         \A i \in 1..Len(old) : more[i] = old[i], NEW m \in 1..Len(more)
  PROVE  Grown(old, SubSeq(more, m, Len(more)), Len(more) - m)
<1> DEFINE n    == Len(old)
           k    == Len(more) - m
           new  == SubSeq(more, m, Len(more))
           mine == SubSeq(new, 1, k)
           part == SubSeq(old, n - k + 1, n)
<1>1. n \in Nat /\ k \in 0..n /\ Len(more) = n + 1 /\ n - k + 1 = m
  BY LenProperties
<1>2. new \in Seq(Points) /\ Len(new) = k + 1 /\ \A i \in 1..Len(new) : new[i] = more[m + i - 1]
  <2>1. new \in Seq(Points) /\ Len(new) = Len(more) - m + 1 /\ \A i \in 1..Len(new) : new[i] = more[m + i - 1]
    BY TailPart
  <2> QED  BY <1>1, <2>1
<1> HIDE DEF n, k, new
<1>3. CASE k = 0
  <2>1. mine = <<>>
    BY <1>3, SubSeqEmpty
  <2>2. part = <<>>
    BY <1>1, <1>3, SubSeqEmpty DEF n
  <2> QED  BY <1>1, <1>2, <1>3, <2>1, <2>2 DEF Grown, n, k, new
<1>4. CASE k # 0
  <2>1. 1 \in 1..Len(new) /\ k \in 0..Len(new) /\ k \in Int
    BY <1>1, <1>2
  <2>2. mine \in Seq(Points) /\ Len(mine) = k /\ \A i \in 1..k : mine[i] = new[i]
    <3>1. mine \in Seq(Points)
      BY <1>1, <1>2, <2>1
    <3>2. Len(mine) = k
      BY <1>1, <1>2, <2>1
    <3>3. \A i \in 1..k : mine[i] = new[i]
      BY <1>1, <1>2, <2>1
    <3> QED  BY <3>1, <3>2, <3>3
  <2>3. m \in 1..n
    BY <1>1, <1>4
  <2>4. part \in Seq(Points) /\ Len(part) = k /\ \A i \in 1..k : part[i] = old[m + i - 1]
    <3> DEFINE tail == SubSeq(old, m, n)
    <3>1. tail \in Seq(Points) /\ Len(tail) = n - m + 1 /\ \A i \in 1..Len(tail) : tail[i] = old[m + i - 1]
      BY <2>3, TailPart DEF n
    <3>2. part = tail
      BY <1>1
    <3> HIDE DEF tail
    <3> QED  BY <1>1, <3>1, <3>2
  <2> HIDE DEF mine, part
  <2>5. \A i \in 1..k : mine[i] = part[i]
    <3> TAKE i \in 1..k
    <3>1. i \in 1..Len(new) /\ m + i - 1 \in 1..n
      BY <1>1, <1>2
    <3> QED  BY <1>2, <2>2, <2>4, <3>1 DEF n
  <2>6. mine = part
    BY <2>2, <2>4, <2>5, SeqEqual
  <2> QED  BY <1>1, <1>2, <2>6 DEF Grown, mine, part, n, k, new
<1> QED  BY <1>3, <1>4

LEMMA KeepUndiscarded ==
  ASSUME NEW s \in Stores, NEW p \in Points, NEW now \in Int, s.state = "Record"
  PROVE  Undiscarded(s, Keep(s, p, now))
<1> DEFINE with == With(s, p)
           n    == Len(s.series)
           x    == Keep(s, p, now)
<1>1. with \in Stores /\ with.state = "Record" /\ x = Trim(with, now)
  BY WithIs DEF Framed
<1>2. /\ n \in Nat /\ with.series \in Seq(Points) /\ Len(with.series) = n + 1 /\ with.series # <<>>
      /\ \A i \in 1..n : with.series[i] = s.series[i]
  BY WithSeries
<1> HIDE DEF with, x
<1>3. PICK m \in 1..Len(with.series) : Trimmed(with, x, now, m)
  BY <1>1, <1>2, TrimIs
<1> DEFINE k == Len(with.series) - m
<1>4. x.series = SubSeq(with.series, m, Len(with.series))
  BY <1>3 DEF Trimmed
<1>5. Grown(s.series, x.series, k)
  <2>1. s.series \in Seq(Points)
    BY DEF Stores
  <2> QED  BY <1>2, <1>4, <2>1, GrownByOne
<1>6. m = 1 \/ Len(with.series) - m + 1 = MaxPoints
  BY <1>1, <1>3 DEF Trimmed
<1>7. k \in 0..n /\ (k = n \/ k >= MaxPoints - 1)
  BY <1>2, <1>6, MostHeldType
<1> HIDE DEF k
<1>8. CASE k = n
  BY <1>5, <1>8 DEF Undiscarded, x
<1>9. CASE k >= MaxPoints - 1
  <2>1. \E j \in 0..Len(s.series) : Grown(s.series, x.series, j) /\ j >= MaxPoints - 1
    BY <1>5, <1>7, <1>9
  <2> QED  BY <2>1 DEF Undiscarded, x
<1> QED  BY <1>7, <1>8, <1>9 DEF x

\* What one step leaves of a series that was there before it.
LEMMA UndiscardedBefore ==
  ASSUME NEW s, NEW b, NEW x, b.series = s.series, b.state = s.state, Undiscarded(b, x)
  PROVE  Undiscarded(s, x)
BY DEF Undiscarded

LEMMA SetStaleUndiscarded ==
  ASSUME NEW s \in Stores, NEW now \in Int, s.state # "Live"
  PROVE  Undiscarded(s, SetStale(s, now))
<1>1. CASE s.state = "View" \/ s.series = <<>> \/ Newest(s.series).v = Gap
  BY <1>1, UndiscardedSame DEF SetStale
<1>2. CASE ~(s.state = "View" \/ s.series = <<>> \/ Newest(s.series).v = Gap)
  <2> DEFINE last == Newest(s.series)
             t    == Sooner(last.t + StaleAfter, Later(last.t, Elapsed(s, now)))
             p    == [t |-> t, v |-> Gap, f |-> Nothing, at |-> s.t0 + t, own |-> TRUE]
  <2>1. SetStale(s, now) = Keep(s, p, now)
    BY <1>2 DEF SetStale
  <2>2. last \in Points /\ s.t0 \in Int
    BY <1>2, NewestIsPoint DEF Stores
  <2>3. t \in Nat
    BY <2>2, StoreAssumption DEF Sooner, Later, Elapsed, Points
  <2> HIDE DEF t
  <2>4. p \in Points
    BY <2>2, <2>3 DEF Points, Gap, Words
  <2> HIDE DEF p
  <2>5. s.state = "Record"
    BY <1>2 DEF Stores
  <2> QED  BY <2>1, <2>4, <2>5, KeepUndiscarded
<1> QED  BY <1>1, <1>2

LEMMA StopSeries ==
  ASSUME NEW s \in Stores, NEW now \in Int
  PROVE  Stop(s, now).series = s.series /\ EndAtLength(s, now).series = s.series
<1> DEFINE x == Stop(s, now)
<1>1. x \in Stores /\ x.series = s.series
  BY StopType DEF Stop, Stores
<1> HIDE DEF x
<1>2. EndAtLength(s, now).series = x.series
  BY <1>1 DEF EndAtLength, x, Stores
<1> QED  BY <1>1, <1>2 DEF x

LEMMA PollUndiscarded ==
  ASSUME NEW s \in Stores, NEW startTime \in Int, NEW now \in Int, s.state # "Live"
  PROVE  Undiscarded(s, Poll(s, startTime, now))
<1>1. Poll(s, startTime, now) \in {EndAtLength(s, now), s}
  BY DEF Poll
<1> QED  BY <1>1, StopSeries, UndiscardedSame

LEMMA TakeUndiscarded ==
  ASSUME NEW s \in Stores, NEW r \in Told, NEW now \in Int, s.state = "Record"
  PROVE  Undiscarded(s, Take(s, r, now))
<1> DEFINE base  == FromFirstReading(s, now)
           point == [t |-> Later(0, now - base.t0), v |-> r.v, f |-> r.f, at |-> now, own |-> TRUE]
<1>1. base \in Stores /\ base.state = s.state /\ base.series = s.series
  BY FromFirstReadingType DEF FromFirstReading, Stores
<1>2. Take(s, r, now) = IF LengthReached(base, point.t) THEN EndAtLength(base, now) ELSE Keep(base, point, now)
  BY DEF Take
<1> HIDE DEF base
<1>3. point \in Points
  <2>1. r.v \in Int /\ r.f \in Words
    BY DEF Told, Words
  <2>2. base.t0 \in Int
    BY <1>1 DEF Stores
  <2>3. Later(0, now - base.t0) \in Nat
    BY <2>2 DEF Later
  <2> QED  BY <2>1, <2>3 DEF Points
<1> HIDE DEF point
<1>4. Undiscarded(base, Keep(base, point, now))
  BY <1>1, <1>3, KeepUndiscarded
<1>5. Undiscarded(base, EndAtLength(base, now))
  BY <1>1, StopSeries, UndiscardedSame
<1> QED  BY <1>1, <1>2, <1>4, <1>5, UndiscardedBefore

LEMMA SetReadingUndiscarded ==
  ASSUME NEW s \in Stores, NEW r \in Told, NEW now \in Int, s.state # "Live"
  PROVE  Undiscarded(s, SetReading(s, r, now))
<1> DEFINE reading == [t |-> now, v |-> r.v, f |-> r.f]
           shown   == [s EXCEPT !.reading = reading]
           other   == [shown EXCEPT !.port = r.f]
<1>1. r.f \in Words /\ r.v \in Int
  BY DEF Told, Words
<1>2. shown \in Stores /\ shown.state = s.state /\ shown.series = s.series
  BY <1>1 DEF Stores
<1>3. SetReading(s, r, now) \in {shown, Take(shown, r, now), Take(other, r, now), Stop(shown, now)}
      /\ (s.state = "View" => SetReading(s, r, now) = shown)
  <2>1. s.state = "View" \/ s.state = "Record"
    BY DEF Stores
  <2> HIDE DEF other
  <2>2. SetReading(s, r, now) =
        IF s.state = "View" THEN shown
        ELSE IF ~Says(r) \/ r.f = s.port THEN Take(shown, r, now)
        ELSE IF s.port = Nothing THEN Take(other, r, now)
        ELSE IF s.state = "Record" THEN Stop(shown, now)
        ELSE Take([Anew(shown, now) EXCEPT !.port = r.f], r, now)
    BY DEF SetReading, other
  <2> HIDE DEF shown
  <2> QED  BY <2>1, <2>2
<1> HIDE DEF shown
<1>4. other \in Stores /\ other.state = s.state /\ other.series = s.series
  BY <1>1, <1>2 DEF Stores
<1> HIDE DEF other
<1>5. Undiscarded(s, shown) /\ Undiscarded(s, Stop(shown, now))
  BY <1>2, StopSeries, UndiscardedSame
<1>6. ASSUME s.state = "Record"
      PROVE  Undiscarded(s, Take(shown, r, now)) /\ Undiscarded(s, Take(other, r, now))
  BY <1>2, <1>4, <1>6, TakeUndiscarded, UndiscardedBefore
<1>7. s.state = "View" \/ s.state = "Record"
  BY DEF Stores
<1> QED  BY <1>3, <1>5, <1>6, <1>7

LEMMA PublishUndiscarded ==
  ASSUME NEW s \in Stores, NEW unit \in Words, NEW r \in Told, NEW now \in Int, s.state # "Live"
  PROVE  Undiscarded(s, Publish(s, unit, r, now))
<1> DEFINE base == IF unit # r.f THEN SetUnit(s, r.f) ELSE s
<1>1. r.f \in Words
  BY DEF Told, Words
<1>2. base \in Stores /\ base.state = s.state /\ base.series = s.series
  <2>1. SetUnit(s, r.f) \in Stores
    BY <1>1, SetUnitType
  <2>2. SetUnit(s, r.f).state = s.state /\ SetUnit(s, r.f).series = s.series
    BY DEF SetUnit, Stores
  <2> QED  BY <2>1, <2>2
<1>3. Publish(s, unit, r, now) = SetReading(base, r, now)
  BY DEF Publish
<1> HIDE DEF base
<1>4. Undiscarded(base, SetReading(base, r, now))
  BY <1>2, SetReadingUndiscarded
<1> QED  BY <1>2, <1>3, <1>4, UndiscardedBefore

-----------------------------------------------------------------------------
(* A reading that is taken. *)

\* The point of a reading that comes now.
PointNow(base, r, now) == [t |-> Later(0, now - base.t0), v |-> r.v, f |-> r.f, at |-> now, own |-> TRUE]

LEMMA TakeIs ==
  ASSUME NEW s \in Stores, NEW r \in Told, NEW now \in Int
  PROVE  Take(s, r, now) =
           IF s.state = "Live"
           THEN Trigger(Keep(FromFirstReading(s, now), PointNow(FromFirstReading(s, now), r, now), now), r.v, now)
           ELSE IF LengthReached(FromFirstReading(s, now), PointNow(FromFirstReading(s, now), r, now).t)
                THEN EndAtLength(FromFirstReading(s, now), now)
                ELSE Keep(FromFirstReading(s, now), PointNow(FromFirstReading(s, now), r, now), now)
BY DEF Take, PointNow

\* Where the time starts with the first reading, nothing else changes.
LEMMA FromFirstReadingIs ==
  ASSUME NEW s \in Stores, NEW now \in Int
  PROVE  /\ FromFirstReading(s, now) \in Stores
         /\ \/ FromFirstReading(s, now) = s
            \/ s.series = <<>> /\ s.t0 < now /\ FromFirstReading(s, now).t0 = now
         /\ FromFirstReading(s, now).state = s.state /\ FromFirstReading(s, now).series = s.series
         /\ FromFirstReading(s, now).length = s.length /\ FromFirstReading(s, now).pre = s.pre
         /\ FromFirstReading(s, now).preUsed = s.preUsed /\ FromFirstReading(s, now).floor = s.floor
         /\ FromFirstReading(s, now).marks = s.marks /\ FromFirstReading(s, now).fromFile = s.fromFile
         /\ FromFirstReading(s, now).reading = s.reading
<1>1. FromFirstReading(s, now) \in Stores
  BY FromFirstReadingType
<1> QED  BY <1>1 DEF FromFirstReading, Stores

\* A reading stands at the moment it came, after all that came before.
LEMMA PointNowIs ==
  ASSUME NEW base \in Stores, NEW r \in Told, NEW now \in Int, Sound(base, now), ~base.fromFile
  PROVE  /\ PointNow(base, r, now) \in Points
         /\ base.t0 + PointNow(base, r, now).t = now /\ PointNow(base, r, now).at = now
         /\ base.series # <<>> => Newest(base.series).t <= PointNow(base, r, now).t
<1> DEFINE t == Later(0, now - base.t0)
           p == PointNow(base, r, now)
<1>1. r.v \in Int /\ r.f \in Words
  BY DEF Told, Words
<1>2. base.t0 \in Int /\ base.t0 <= now /\ base.series \in Seq(Points)
  BY DEF Stores, Sound
<1>3. t \in Nat /\ base.t0 + t = now
  BY <1>2 DEF Later
<1>4. p = [t |-> t, v |-> r.v, f |-> r.f, at |-> now, own |-> TRUE]
  BY DEF PointNow
<1> HIDE DEF t, p
<1>5. p \in Points /\ p.t = t /\ p.at = now
  BY <1>1, <1>3, <1>4 DEF Points
<1>6. base.series # <<>> => Newest(base.series).t <= p.t
  <2>1. base.series # <<>> => Newest(base.series).t \in Nat /\ base.t0 + Newest(base.series).t <= now
    BY <1>2, NewestIsPast DEF Sound
  <2> QED  BY <1>2, <1>3, <1>5, <2>1
<1> QED  BY <1>3, <1>5, <1>6 DEF p

-----------------------------------------------------------------------------
(* While Live runs through. *)

LEMMA HoldsAtIs ==
  ASSUME NEW a \in Seq(Points), NEW b \in Seq(Points), NEW t \in Int, Holding(a, t) = 0 <=> Holding(b, t) = 0,
         Holding(a, t) # 0 => a[Holding(a, t)] = b[Holding(b, t)]
  PROVE  HoldsAt(a, t) = HoldsAt(b, t)
<1>1. CASE Holding(a, t) = 0
  <2>1. {Holding(a, t)} \ {0} = {} /\ {Holding(b, t)} \ {0} = {}
    BY <1>1
  <2> QED  BY <2>1 DEF HoldsAt
<1>2. CASE Holding(a, t) # 0
  <2>1. {Holding(a, t)} \ {0} = {Holding(a, t)} /\ {Holding(b, t)} \ {0} = {Holding(b, t)}
    BY <1>2
  <2> QED  BY <1>2, <2>1 DEF HoldsAt
<1> QED  BY <1>1, <1>2

LEMMA HoldingLater ==
  ASSUME NEW series \in Seq(Points), NEW t \in Int, NEW u \in Int, t <= u
  PROVE  Holding(series, t) <= Holding(series, u)
<1> DEFINE early == {i \in DOMAIN series : series[i].t <= t}
           more  == {i \in DOMAIN series : series[i].t <= u}
<1>1. DOMAIN series = 1..Len(series) /\ Len(series) \in Nat /\ \A i \in 1..Len(series) : series[i].t \in Nat
  BY LenProperties, PointsOf
<1>2. early \in SUBSET more
  BY <1>1
<1>3. IsFiniteSet(more)
  <2>1. IsFiniteSet(1..Len(series))
    BY <1>1, FS_Interval
  <2>2. more \in SUBSET (1..Len(series))
    BY <1>1
  <2> QED  BY <2>1, <2>2, FS_Subset
<1> HIDE DEF early, more
<1>4. Cardinality(early) <= Cardinality(more)
  BY <1>2, <1>3, FS_Subset
<1> QED  BY <1>4 DEF Holding, early, more

LEMMA OriginFramed ==
  ASSUME NEW s \in Stores, NEW x \in Stores, NEW now \in Int, Framed(s, x), s.state = "Live"
  PROVE  Origin(x, now) = Origin(s, now)
BY DEF Framed, Origin, Duration, Elapsed, LiveKept, LiveWindow

\* Trimming the live window keeps what holds from its origin on, and its last point.
LEMMA TrimKeepsPart ==
  ASSUME NEW s \in Stores, NEW now \in Int, s.series # <<>>, s.state = "Live", Proper(s.series, s.t0, now)
  PROVE  /\ Trim(s, now).series # <<>> /\ Newest(Trim(s, now).series) = Newest(s.series)
         /\ \A t \in Int : t >= Origin(s, now) =>
              HoldsAt(Trim(s, now).series, t) = HoldsAt(s.series, t) \/ Len(Trim(s, now).series) = MaxPoints
<1> DEFINE n == Len(s.series)
           x == Trim(s, now)
<1>1. s.series \in Seq(Points) /\ s.t0 \in Int /\ n \in Nat
  BY LenProperties DEF Stores
<1>2. PICK m \in 1..n : Trimmed(s, x, now, m)
  BY TrimIs
<1> DEFINE rest == SubSeq(s.series, m, n)
<1>3. x.series = rest
  BY <1>2 DEF Trimmed
<1>4. /\ rest \in Seq(Points) /\ Len(rest) = n - m + 1 /\ rest # <<>>
      /\ \A i \in 1..Len(rest) : rest[i] = s.series[m + i - 1]
  BY <1>1, TailPart
<1> HIDE DEF x, rest, n
<1>5. Newest(rest) = Newest(s.series)
  <2>1. Len(rest) \in 1..Len(rest) /\ m + Len(rest) - 1 = n
    BY <1>1, <1>4
  <2> QED  BY <1>4, <2>1 DEF Newest, n
<1>6. ASSUME NEW t \in Int, t >= Origin(s, now), Len(rest) # MaxPoints
      PROVE  HoldsAt(rest, t) = HoldsAt(s.series, t)
  <2>1. m <= Later(1, Holding(s.series, Origin(s, now)))
    BY <1>2, <1>4, <1>6 DEF Trimmed, n
  <2>2. Holding(s.series, Origin(s, now)) <= Holding(s.series, t)
    BY <1>1, <1>6, OriginType, HoldingLater
  <2>3. Holding(s.series, Origin(s, now)) \in Nat /\ Holding(s.series, t) \in Nat
    <3>1. Origin(s, now) \in Int /\ Len(s.series) \in Nat
      BY <1>1, OriginType, LenProperties
    <3>2. Holding(s.series, Origin(s, now)) \in 0..Len(s.series) /\ Holding(s.series, t) \in 0..Len(s.series)
      BY <1>1, <3>1, HoldingType
    <3> QED  BY <3>1, <3>2
  <2>4. m <= Later(1, Holding(s.series, t))
    BY <1>1, <2>1, <2>2, <2>3 DEF Later
  <2>5. /\ Holding(rest, t) = Holding(s.series, t) - m + 1 /\ (Holding(rest, t) = 0 <=> Holding(s.series, t) = 0)
        /\ Holding(rest, t) # 0 => rest[Holding(rest, t)] = s.series[Holding(s.series, t)]
    <3>1. m \in 1..Len(s.series) /\ rest = SubSeq(s.series, m, Len(s.series))
      BY DEF n, rest
    <3> QED  BY <1>1, <2>4, <3>1, HoldingOfTail
  <2> QED  BY <1>1, <1>4, <2>5, HoldsAtIs
<1> QED  BY <1>3, <1>4, <1>5, <1>6 DEF x

\* What Live knew of the part it keeps, it still knows; unless the window began anew.
PartKept(s, x, now) ==
  x.state = "Live" /\ x.t0 = s.t0 /\ x.series # <<>> =>
    \A t \in Origin(x, now)..(Newest(x.series).t - 1) :
      HoldsAt(x.series, t) = HoldsAt(s.series, t) \/ Len(x.series) = MaxPoints

LEMMA PartKeptSame ==
  ASSUME NEW s, NEW x, NEW now, x.series = s.series
  PROVE  PartKept(s, x, now)
BY DEF PartKept

LEMMA KeepKeepsPart ==
  ASSUME NEW s \in Stores, NEW p \in Points, NEW now \in Int, Sound(s, now), s.state = "Live",
         s.t0 + p.t <= now,
         Valued(p) => s.t0 + p.t = p.at /\ (s.series # <<>> => Newest(s.series).t <= p.t)
  PROVE  PartKept(s, Keep(s, p, now), now)
<1> DEFINE with == With(s, p)
           n    == Len(s.series)
           x    == Keep(s, p, now)
           at   == Placed(s, p)
<1>1. with \in Stores /\ Framed(s, with) /\ x = Trim(with, now) /\ with.series = Append(s.series, at)
  BY WithIs
<1>2. /\ n \in Nat /\ with.series \in Seq(Points) /\ Len(with.series) = n + 1 /\ with.series # <<>>
      /\ with.series[n + 1] = at
  BY WithSeries
<1>3. at \in Points /\ s.series \in Seq(Points) /\ s.t0 \in Int
  BY PlacedType DEF Stores
<1>4. Proper(s.series, s.t0, now)
  BY DEF Sound
<1>5. Proper(with.series, s.t0, now)
  BY <1>4, WithProper
<1> HIDE DEF with, x, at, n
<1>6. with.state = "Live" /\ with.t0 = s.t0
  BY <1>1 DEF Framed
<1>7. /\ x.series # <<>> /\ Newest(x.series) = Newest(with.series)
      /\ \A t \in Int : t >= Origin(with, now) =>
           HoldsAt(x.series, t) = HoldsAt(with.series, t) \/ Len(x.series) = MaxPoints
  BY <1>1, <1>2, <1>5, <1>6, TrimKeepsPart
<1>8. x \in Stores /\ Framed(with, x)
  BY <1>1, TrimType, TrimFramed
<1>9. Origin(x, now) = Origin(with, now) /\ Origin(with, now) \in Nat
  BY <1>1, <1>6, <1>8, OriginFramed, OriginType
<1>10. Newest(with.series) = at
  BY <1>2 DEF Newest
<1>11. ASSUME NEW t \in Int, t < at.t
       PROVE  HoldsAt(with.series, t) = HoldsAt(s.series, t)
  <2>1. /\ Holding(with.series, t) = Holding(s.series, t)
        /\ Holding(with.series, t) # 0 => with.series[Holding(with.series, t)] = s.series[Holding(with.series, t)]
    <3> DEFINE more == Append(s.series, at)
    <3>1. /\ Holding(more, t) = Holding(s.series, t)
          /\ Holding(more, t) # 0 => more[Holding(more, t)] = s.series[Holding(s.series, t)]
      BY <1>3, <1>11, HoldingBefore
    <3> QED  BY <1>1, <3>1
  <2> QED  BY <1>2, <1>3, <2>1, HoldsAtIs
<1>12. at.t \in Nat
  BY <1>3 DEF Points
<1>13. \A t \in Origin(x, now)..(at.t - 1) :
         HoldsAt(x.series, t) = HoldsAt(s.series, t) \/ Len(x.series) = MaxPoints
  <2> TAKE t \in Origin(x, now)..(at.t - 1)
  <2>1. t \in Int /\ t < at.t /\ t >= Origin(with, now)
    BY <1>9, <1>12
  <2> QED  BY <1>7, <1>11, <2>1
<1> QED  BY <1>7, <1>10, <1>13 DEF PartKept, x

LEMMA SetStalePart ==
  ASSUME NEW s \in Stores, NEW now \in Int, Sound(s, now), s.state = "Live"
  PROVE  PartKept(s, SetStale(s, now), now)
<1>1. CASE s.series = <<>> \/ Newest(s.series).v = Gap
  BY <1>1, PartKeptSame DEF SetStale
<1>2. CASE ~(s.series = <<>> \/ Newest(s.series).v = Gap)
  <2> DEFINE last == Newest(s.series)
             t == Sooner(last.t + StaleAfter, Later(last.t, Elapsed(s, now)))
             p == [t |-> t, v |-> Gap, f |-> Nothing, at |-> s.t0 + t, own |-> TRUE]
  <2>1. SetStale(s, now) = Keep(s, p, now)
    BY <1>2 DEF SetStale
  <2>2. s.series \in Seq(Points) /\ s.t0 \in Int /\ Proper(s.series, s.t0, now)
    BY <1>2 DEF Sound, Stores
  <2>3. last.t \in Nat /\ s.t0 + last.t <= now
    BY <1>2, <2>2, NewestIsPast
  <2>4. t \in Nat /\ s.t0 + t <= now
    BY <2>2, <2>3, StoreAssumption DEF Sooner, Later, Elapsed
  <2>5. Gap \in Int /\ Nothing \in Words
    BY DEF Gap, Words
  <2> HIDE DEF t
  <2>6. s.t0 + t \in Int
    BY <2>2, <2>4
  <2>7. p \in Points /\ p.t = t
    BY <2>4, <2>5, <2>6 DEF Points
  <2>8. ~Valued(p)
    BY DEF Valued
  <2> HIDE DEF p
  <2> QED  BY <2>1, <2>4, <2>7, <2>8, KeepKeepsPart
<1> QED  BY <1>1, <1>2

\* A recording that begins is no window any more.
LEMMA TriggerPart ==
  ASSUME NEW s, NEW b \in Stores, NEW v \in Int, NEW now \in Int, PartKept(s, b, now), b.state = "Live"
  PROVE  PartKept(s, Trigger(b, v, now), now)
<1>1. CASE Crosses(b, v)
  <2> DEFINE begun == Begin(b, b.pre, now)
  <2>1. b.pre \in Nat
    BY DEF Stores
  <2>2. begun \in Stores /\ begun.state = "Record"
    BY <2>1, BeginType, BeginMode
  <2>3. Trigger(b, v, now) = IF v = Gap THEN begun ELSE [begun EXCEPT !.last = v]
    BY <1>1 DEF Trigger
  <2> HIDE DEF begun
  <2>4. Trigger(b, v, now).state = "Record"
    BY <2>2, <2>3 DEF Stores
  <2> QED  BY <2>4 DEF PartKept
<1>2. CASE ~Crosses(b, v)
  <2> DEFINE x == [b EXCEPT !.last = v]
  <2>1. Trigger(b, v, now) \in {b, x}
    BY <1>2 DEF Trigger
  <2>2. x \in Stores /\ Framed(b, x) /\ x.series = b.series
    BY DEF Stores, Framed
  <2> HIDE DEF x
  <2>3. Origin(x, now) = Origin(b, now)
    BY <2>2, OriginFramed
  <2>4. PartKept(s, x, now)
    BY <2>2, <2>3 DEF PartKept, Framed
  <2> QED  BY <2>1, <2>4
<1> QED  BY <1>1, <1>2

LEMMA TakePart ==
  ASSUME NEW s \in Stores, NEW r \in Told, NEW now \in Int, Sound(s, now), s.state = "Live"
  PROVE  PartKept(s, Take(s, r, now), now)
<1> DEFINE base  == FromFirstReading(s, now)
           point == PointNow(base, r, now)
           kept  == Keep(base, point, now)
<1>1. base \in Stores /\ base.state = "Live" /\ base.series = s.series /\ base.fromFile = s.fromFile
  BY FromFirstReadingIs
<1>2. Sound(base, now) /\ ~base.fromFile
  <2>1. Sound(base, now)
    BY FromFirstReadingGoes DEF Goes
  <2> QED  BY <1>1, <2>1 DEF Sound
<1>3. base.t0 # s.t0 => s.series = <<>>
  BY FromFirstReadingIs
<1>4. Take(s, r, now) = Trigger(kept, r.v, now)
  BY TakeIs
<1> HIDE DEF base
<1>5. point \in Points /\ base.t0 + point.t = now /\ point.at = now
      /\ (base.series # <<>> => Newest(base.series).t <= point.t)
  BY <1>1, <1>2, PointNowIs
<1> HIDE DEF point
<1>6. PartKept(base, kept, now)
  BY <1>1, <1>2, <1>5, KeepKeepsPart
<1>7. kept \in Stores /\ kept.t0 = base.t0 /\ kept.state = "Live"
  BY <1>1, <1>5, KeepType, KeepFrame
<1> HIDE DEF kept
<1>8. PartKept(s, kept, now)
  BY <1>1, <1>6, <1>7 DEF PartKept
<1>9. r.v \in Int
  BY DEF Told
<1> QED  BY <1>4, <1>7, <1>8, <1>9, TriggerPart

\* A window that begins now keeps nothing before.
LEMMA NewWindow ==
  ASSUME NEW x \in Stores, NEW now \in Int, Sound(x, now), x.state = "Live", x.t0 = now, x.series # <<>>
  PROVE  Origin(x, now)..(Newest(x.series).t - 1) = {}
<1>1. Proper(x.series, now, now) /\ x.series \in Seq(Points)
  BY DEF Sound, Stores
<1>2. Newest(x.series).t \in Nat /\ now + Newest(x.series).t <= now
  BY <1>1, NewestIsPast
<1>3. Origin(x, now) \in Nat
  BY OriginType
<1> QED  BY <1>2, <1>3

\* The window stays where it began, or begins with the reading.
LEMMA TakeTime ==
  ASSUME NEW s \in Stores, NEW r \in Told, NEW now \in Int, Sound(s, now), s.state = "Live", Take(s, r, now).state = "Live"
  PROVE  Take(s, r, now).t0 \in {s.t0, now}
<1> DEFINE base  == FromFirstReading(s, now)
           point == PointNow(base, r, now)
           kept  == Keep(base, point, now)
<1>1. base \in Stores /\ base.state = "Live" /\ base.t0 \in {s.t0, now} /\ base.fromFile = s.fromFile
  BY FromFirstReadingIs
<1>2. Sound(base, now) /\ ~base.fromFile
  <2>1. Sound(base, now)
    BY FromFirstReadingGoes DEF Goes
  <2> QED  BY <1>1, <2>1 DEF Sound
<1>3. Take(s, r, now) = Trigger(kept, r.v, now)
  BY TakeIs
<1> HIDE DEF base
<1>4. point \in Points
  BY <1>1, <1>2, PointNowIs
<1> HIDE DEF point
<1>5. kept \in Stores /\ kept.t0 = base.t0 /\ kept.state = "Live"
  BY <1>1, <1>4, KeepType, KeepFrame
<1> HIDE DEF kept
<1>6. r.v \in Int
  BY DEF Told
<1>7. CASE Crosses(kept, r.v)
  <2> DEFINE begun == Begin(kept, kept.pre, now)
  <2>1. kept.pre \in Nat
    BY <1>5 DEF Stores
  <2>2. begun \in Stores /\ begun.state = "Record"
    BY <1>5, <2>1, BeginType, BeginMode
  <2>3. Trigger(kept, r.v, now) = IF r.v = Gap THEN begun ELSE [begun EXCEPT !.last = r.v]
    BY <1>7 DEF Trigger
  <2> HIDE DEF begun
  <2>4. Trigger(kept, r.v, now).state = "Record"
    BY <2>2, <2>3 DEF Stores
  <2> QED  BY <1>3, <2>4
<1>8. CASE ~Crosses(kept, r.v)
  <2>1. Trigger(kept, r.v, now).t0 = kept.t0
    BY <1>5, <1>8 DEF Trigger, Stores
  <2> QED  BY <1>1, <1>3, <1>5, <2>1
<1> QED  BY <1>7, <1>8

LEMMA SetReadingPart ==
  ASSUME NEW s \in Stores, NEW r \in Told, NEW now \in Int, Sound(s, now), s.state = "Live"
  PROVE  PartKept(s, SetReading(s, r, now), now)
<1> DEFINE reading == [t |-> now, v |-> r.v, f |-> r.f]
           shown   == [s EXCEPT !.reading = reading]
           other   == [shown EXCEPT !.port = r.f]
           cleared == Clear(shown, now)
           empty   == [cleared EXCEPT !.last = Gap]
           anew    == [empty EXCEPT !.port = r.f]
<1>1. r.f \in Words /\ r.v \in Int /\ Gap \in Int
  BY DEF Told, Words, Gap
<1>2. reading \in [t : Int, v : Int, f : Words] /\ reading.t = now
  BY <1>1
<1>3. SetReading(s, r, now) \in {Take(shown, r, now), Take(other, r, now), Take(anew, r, now)}
  BY DEF SetReading, Anew
<1> HIDE DEF reading
<1>4. /\ shown \in Stores /\ shown.state = s.state /\ shown.series = s.series /\ shown.t0 = s.t0
      /\ shown.fromFile = s.fromFile /\ shown.reading.t = now
  BY <1>2 DEF Stores
<1> HIDE DEF shown
<1>5. /\ other \in Stores /\ other.state = s.state /\ other.series = s.series /\ other.t0 = s.t0
      /\ other.fromFile = s.fromFile /\ other.reading.t = now
  BY <1>1, <1>4 DEF Stores
<1> HIDE DEF other
<1>6. Sound(shown, now) /\ Sound(other, now)
  BY <1>4, <1>5 DEF Sound
<1>7. ASSUME NEW b \in Stores, b.state = s.state, b.series = s.series, b.t0 = s.t0, Sound(b, now)
      PROVE  PartKept(s, Take(b, r, now), now)
  <2>1. PartKept(b, Take(b, r, now), now)
    BY <1>7, TakePart
  <2> QED  BY <1>7, <2>1 DEF PartKept
<1>8. PartKept(s, Take(shown, r, now), now) /\ PartKept(s, Take(other, r, now), now)
  BY <1>4, <1>5, <1>6, <1>7
<1>9. PartKept(s, Take(anew, r, now), now)
  <2>1. cleared \in Stores /\ cleared.state = "Live" /\ cleared.t0 = now /\ cleared.series = <<>>
        /\ cleared.reading = shown.reading /\ cleared.fromFile = FALSE
    BY <1>4, ClearType, ClearFrame
  <2> HIDE DEF cleared
  <2>2. empty \in Stores /\ empty.state = "Live" /\ empty.t0 = now /\ empty.series = <<>>
        /\ empty.reading = shown.reading /\ empty.fromFile = FALSE
    BY <1>1, <2>1 DEF Stores
  <2> HIDE DEF empty
  <2>3. anew \in Stores /\ anew.state = "Live" /\ anew.t0 = now /\ anew.series = <<>>
        /\ anew.reading = shown.reading /\ anew.fromFile = FALSE
    BY <1>1, <2>2 DEF Stores
  <2> HIDE DEF anew
  <2>4. Sound(anew, now)
    BY <1>4, <2>3, ProperEmpty DEF Sound
  <2> DEFINE x == Take(anew, r, now)
  <2>5. x \in Stores
    BY <2>3, TakeType
  <2>6. Sound(x, now)
    BY <2>3, <2>4, TakeGoes DEF Goes
  <2> HIDE DEF x
  <2>8. x.state = "Live" => x.t0 = now
    <3>1. x.state = "Live" => x.t0 \in {anew.t0, now}
      BY <2>3, <2>4, TakeTime DEF x
    <3> QED  BY <2>3, <3>1
  <2>9. x.state = "Live" /\ x.series # <<>> => Origin(x, now)..(Newest(x.series).t - 1) = {}
    BY <2>5, <2>6, <2>8, NewWindow
  <2> QED  BY <2>9 DEF PartKept, x
<1> QED  BY <1>3, <1>8, <1>9

LEMMA PublishPart ==
  ASSUME NEW s \in Stores, NEW unit \in Words, NEW r \in Told, NEW now \in Int, Sound(s, now), s.state = "Live"
  PROVE  PartKept(s, Publish(s, unit, r, now), now)
<1> DEFINE base == IF unit # r.f THEN SetUnit(s, r.f) ELSE s
<1>1. r.f \in Words
  BY DEF Told, Words
<1>2. base \in Stores /\ base.state = s.state /\ base.series = s.series /\ base.t0 = s.t0 /\ Sound(base, now)
  <2>1. SetUnit(s, r.f) \in Stores /\ Sound(SetUnit(s, r.f), now)
    BY <1>1, SetUnitType, SetUnitGoes DEF Goes
  <2>2. SetUnit(s, r.f).state = s.state /\ SetUnit(s, r.f).series = s.series /\ SetUnit(s, r.f).t0 = s.t0
    BY DEF SetUnit, Stores
  <2> QED  BY <2>1, <2>2
<1>3. Publish(s, unit, r, now) = SetReading(base, r, now)
  BY DEF Publish
<1> HIDE DEF base
<1>4. PartKept(base, SetReading(base, r, now), now)
  BY <1>2, SetReadingPart
<1> QED  BY <1>2, <1>3, <1>4 DEF PartKept

\* The clock starts a recording from Live, or leaves it alone.
LEMMA PollPart ==
  ASSUME NEW s \in Stores, NEW startTime \in Int, NEW now \in Int, s.state = "Live"
  PROVE  PartKept(s, Poll(s, startTime, now), now)
<1> DEFINE starts  == s.mode = "Time" /\ now - startTime \in {0, 1}
           started == IF starts THEN Begin(s, 0, now) ELSE s
           x       == Poll(s, startTime, now)
<1>1. started \in Stores /\ (starts => started.state = "Record") /\ (~starts => started = s)
  BY BeginType, BeginMode
<1>2. x = IF LengthReached(started, Elapsed(started, now)) THEN EndAtLength(started, now) ELSE started
  BY DEF Poll
<1> HIDE DEF started, starts, x
<1>3. CASE started = s
  <2>1. ~LengthReached(started, Elapsed(started, now))
    BY <1>3 DEF LengthReached
  <2> QED  BY <1>2, <1>3, <2>1, PartKeptSame DEF x
<1>4. CASE started.state = "Record"
  <2> DEFINE y == Stop(started, now)
  <2>1. y \in Stores /\ y.state = "View"
    BY <1>1, <1>4, StopType, StopMode
  <2> HIDE DEF y
  <2>2. EndAtLength(started, now).state = "View"
    BY <2>1 DEF EndAtLength, y, Stores
  <2>3. x.state # "Live"
    BY <1>2, <1>4, <2>2
  <2> QED  BY <2>3 DEF PartKept, x
<1> QED  BY <1>1, <1>3, <1>4

-----------------------------------------------------------------------------
(* Where a recording begins. *)

\* What a store calls its start: nothing in Live and of a file, else where its points start, and its marks after it.
Grounded(s) ==
  /\ s.state = "Live" \/ s.fromFile => s.floor = 0
  /\ s.floor > 0 => s.series # <<>> /\ s.series[1].t = s.floor /\ \A m \in s.marks : m.t >= s.floor

LEMMA GroundedAtZero ==
  ASSUME NEW s, s.floor = 0
  PROVE  Grounded(s)
BY DEF Grounded

LEMMA TrimGrounded ==
  ASSUME NEW s \in Stores, NEW now \in Int, Grounded(s), ~s.fromFile
  PROVE  Grounded(Trim(s, now))
<1> DEFINE x == Trim(s, now)
<1>1. CASE s.series = <<>>
  BY <1>1 DEF Trim
<1>2. CASE s.series # <<>>
  <2>1. PICK m \in 1..Len(s.series) : Trimmed(s, x, now, m)
    BY <1>2, TrimIs
  <2>2. Framed(s, x)
    BY TrimFramed
  <2>3. x.series # <<>>
    <3>1. s.series \in Seq(Points)
      BY DEF Stores
    <3>2. SubSeq(s.series, m, Len(s.series)) # <<>>
      BY <3>1, TailPart
    <3> QED  BY <2>1, <3>2 DEF Trimmed
  <2>4. m = 1 \/ m > 1
    <3>1. Len(s.series) \in Nat
      BY LenProperties DEF Stores
    <3> QED  BY <3>1
  <2> HIDE DEF x
  <2>5. CASE m = 1
    BY <2>1, <2>5 DEF Trimmed, x
  <2>6. CASE m > 1
    <3>1. /\ x.floor = IF s.state = "Live" THEN s.floor ELSE x.series[1].t
          /\ s.state # "Live" => \A k \in x.marks : k.t >= x.floor
      BY <2>1, <2>6 DEF Trimmed
    <3>2. s.state = "Live" => x.floor = 0
      BY <3>1 DEF Grounded
    <3>3. x.state = s.state /\ ~x.fromFile
      BY <2>2 DEF Framed
    <3> QED  BY <2>3, <3>1, <3>2, <3>3 DEF Grounded, x
  <2> QED  BY <2>4, <2>5, <2>6
<1> QED  BY <1>1, <1>2

LEMMA KeepGrounded ==
  ASSUME NEW s \in Stores, NEW p \in Points, NEW now \in Int, Grounded(s), ~s.fromFile
  PROVE  Grounded(Keep(s, p, now)) /\ ~Keep(s, p, now).fromFile
<1> DEFINE with == With(s, p)
           n    == Len(s.series)
<1>1. /\ with \in Stores /\ Framed(s, with) /\ Keep(s, p, now) = Trim(with, now)
      /\ with.floor = s.floor /\ with.marks = s.marks
  BY WithIs
<1>2. n \in Nat /\ with.series # <<>> /\ \A i \in 1..n : with.series[i] = s.series[i]
  BY WithSeries
<1> HIDE DEF with
<1>3. with.state = s.state /\ with.fromFile = s.fromFile
  BY <1>1 DEF Framed
<1>4. s.series # <<>> => with.series[1] = s.series[1]
  <2>1. s.series # <<>> => 1 \in 1..n
    BY NewestIsPoint DEF Stores
  <2> QED  BY <1>2, <2>1
<1>5. Grounded(with)
  BY <1>1, <1>2, <1>3, <1>4 DEF Grounded
<1>6. Framed(with, Trim(with, now))
  BY <1>1, TrimFramed
<1> QED  BY <1>1, <1>3, <1>5, <1>6, TrimGrounded DEF Framed

\* A store that differs in nothing of it.
LEMMA GroundedSame ==
  ASSUME NEW s, NEW x, Grounded(s), x.floor = s.floor, x.series = s.series, x.marks = s.marks,
         x.state = s.state \/ x.state # "Live", x.fromFile = s.fromFile
  PROVE  Grounded(x)
BY DEF Grounded

LEMMA SetStaleGrounded ==
  ASSUME NEW s \in Stores, NEW now \in Int, Grounded(s), s.fromFile => s.state = "View"
  PROVE  Grounded(SetStale(s, now))
<1>1. CASE s.state = "View" \/ s.series = <<>> \/ Newest(s.series).v = Gap
  BY <1>1 DEF SetStale
<1>2. CASE ~(s.state = "View" \/ s.series = <<>> \/ Newest(s.series).v = Gap)
  <2> DEFINE last == Newest(s.series)
             t    == Sooner(last.t + StaleAfter, Later(last.t, Elapsed(s, now)))
             p    == [t |-> t, v |-> Gap, f |-> Nothing, at |-> s.t0 + t, own |-> TRUE]
  <2>1. SetStale(s, now) = Keep(s, p, now)
    BY <1>2 DEF SetStale
  <2>2. last \in Points /\ s.t0 \in Int
    BY <1>2, NewestIsPoint DEF Stores
  <2>3. t \in Nat
    BY <2>2, StoreAssumption DEF Sooner, Later, Elapsed, Points
  <2> HIDE DEF t
  <2>4. p \in Points
    BY <2>2, <2>3 DEF Points, Gap, Words
  <2> HIDE DEF p
  <2> QED  BY <1>2, <2>1, <2>4, KeepGrounded
<1> QED  BY <1>1, <1>2

LEMMA AppendCurrentGrounded ==
  ASSUME NEW s \in Stores, NEW now \in Int, NEW atItsTime \in BOOLEAN, Grounded(s), ~s.fromFile
  PROVE  Grounded(AppendCurrent(s, now, atItsTime))
<1>1. CASE s.reading.t < 0 \/ now - s.reading.t > StaleAfter
  BY <1>1 DEF AppendCurrent
<1>2. CASE ~(s.reading.t < 0 \/ now - s.reading.t > StaleAfter)
  <2> DEFINE t == IF atItsTime THEN Later(0, s.reading.t - s.t0) ELSE 0
             p == [t |-> t, v |-> s.reading.v, f |-> s.reading.f, at |-> s.reading.t, own |-> FALSE]
  <2>1. s.reading.t \in Int /\ s.reading.v \in Int /\ s.reading.f \in Words /\ s.t0 \in Int
    BY DEF Stores
  <2>2. t \in Nat
    BY <2>1 DEF Later
  <2>3. AppendCurrent(s, now, atItsTime) = Keep(s, p, now)
    BY <1>2 DEF AppendCurrent
  <2> HIDE DEF t
  <2>4. p \in Points
    BY <2>1, <2>2 DEF Points
  <2> HIDE DEF p
  <2> QED  BY <2>3, <2>4, KeepGrounded
<1> QED  BY <1>1, <1>2

\* What Clear leaves begins at 0.
LEMMA ClearFloor ==
  ASSUME NEW s \in Stores, NEW now \in Int
  PROVE  Clear(s, now).floor = 0 /\ Clear(s, now).length = s.length /\ Clear(s, now).pre = s.pre
BY DEF Clear, Stores

LEMMA EmptiedFloor ==
  ASSUME NEW s \in Stores, NEW t0 \in Int, NEW hold \in BOOLEAN, NEW now \in Int
  PROVE  Emptied(s, t0, hold, now).floor = 0 /\ Emptied(s, t0, hold, now).preUsed = 0
<1> DEFINE recording == [s EXCEPT !.state = "Record"]
           cleared   == Clear(recording, now)
<1>1. recording \in Stores
  BY DEF Stores
<1> HIDE DEF recording
<1>2. cleared \in Stores /\ cleared.floor = 0
  BY <1>1, ClearType, ClearFloor
<1>3. Emptied(s, t0, hold, now) = [cleared EXCEPT !.stopT = -1, !.preUsed = 0, !.t0 = t0, !.hold = hold]
  BY DEF Emptied, recording
<1> HIDE DEF cleared
<1> QED  BY <1>2, <1>3 DEF Stores

-----------------------------------------------------------------------------
(* A recording that reaches back. *)

\* A point of the window, its time counted from the recording's start; the recording with those taken along.
MovedPoint(s, t0, p) == [p EXCEPT !.t = Later(0, t0 + p.t - s.t0), !.own = FALSE]

WithPart(s, part, t0) ==
  [s EXCEPT !.series = s.series \o [i \in DOMAIN part |-> MovedPoint(s, t0, part[i])], !.dirty = s.dirty \/ part # <<>>]

LEMMA WithPartIs ==
  ASSUME NEW s \in Stores, NEW part \in Seq(Points), NEW t0 \in Int, NEW now \in Int, s.series = <<>>
  PROVE  /\ AppendLivePart(s, part, t0, now) = Trim(WithPart(s, part, t0), now)
         /\ WithPart(s, part, t0) \in Stores /\ Framed(s, WithPart(s, part, t0))
         /\ WithPart(s, part, t0).floor = s.floor /\ WithPart(s, part, t0).marks = s.marks
         /\ Len(WithPart(s, part, t0).series) = Len(part)
         /\ \A i \in 1..Len(part) : /\ WithPart(s, part, t0).series[i].t = Later(0, t0 + part[i].t - s.t0)
                                    /\ WithPart(s, part, t0).series[i].at = part[i].at
<1> DEFINE more  == [i \in DOMAIN part |-> MovedPoint(s, t0, part[i])]
           dirty == s.dirty \/ part # <<>>
           x     == WithPart(s, part, t0)
<1>1. DOMAIN part = 1..Len(part) /\ Len(part) \in Nat /\ \A i \in 1..Len(part) : part[i] \in Points
  BY LenProperties, ElementOfSeq
<1>2. \A p \in Points : /\ MovedPoint(s, t0, p) \in Points /\ MovedPoint(s, t0, p).t = Later(0, t0 + p.t - s.t0)
                        /\ MovedPoint(s, t0, p).at = p.at
  <2> TAKE p \in Points
  <2>1. Later(0, t0 + p.t - s.t0) \in Nat
    BY DEF Later, Points, Stores
  <2> QED  BY <2>1 DEF Points, MovedPoint
<1>3. more \in Seq(Points)
  <2>1. [i \in 1..Len(part) |-> MovedPoint(s, t0, part[i])] \in [1..Len(part) -> Points]
    BY <1>1, <1>2
  <2> QED  BY <1>1, <2>1
<1>4. Len(more) = Len(part) /\ \A i \in 1..Len(part) : more[i] = MovedPoint(s, t0, part[i])
  BY <1>1
<1>5. AppendLivePart(s, part, t0, now) = Trim(x, now)
  BY DEF AppendLivePart, WithPart, MovedPoint
<1>6. x = [s EXCEPT !.series = s.series \o more, !.dirty = dirty]
  BY DEF WithPart
<1> HIDE DEF more, dirty, x
<1>7. s.series \o more = more
  BY <1>3, ConcatEmptySeq
<1>8. dirty \in BOOLEAN
  BY DEF dirty
<1>9. x = [s EXCEPT !.series = more, !.dirty = dirty]
  BY <1>6, <1>7
<1>10. x \in Stores /\ Framed(s, x) /\ x.floor = s.floor /\ x.marks = s.marks /\ x.series = more
  BY <1>3, <1>8, <1>9 DEF Stores, Framed
<1>11. \A i \in 1..Len(part) : more[i].t = Later(0, t0 + part[i].t - s.t0) /\ more[i].at = part[i].at
  BY <1>1, <1>2, <1>4
<1> QED  BY <1>4, <1>5, <1>10, <1>11 DEF x

\* How far it reaches back.
Back(s, pre, preMs, now) == Later(0, Sooner(preMs, now - (s.t0 + pre[1].t)))

\* The recording that takes the part along, before its mark is set.
Reaching(s, pre, preMs, now) ==
  [Emptied(s, now - Back(s, pre, preMs, now), FALSE, now) EXCEPT !.preUsed = Back(s, pre, preMs, now)]

LEMMA ReachingIs ==
  ASSUME NEW s \in Stores, NEW pre \in Seq(Points), pre # <<>>, NEW preMs \in Nat, NEW now \in Int
  PROVE  /\ Back(s, pre, preMs, now) \in Nat /\ Back(s, pre, preMs, now) <= preMs
         /\ Reaching(s, pre, preMs, now) \in Stores
         /\ Reaching(s, pre, preMs, now).state = "Record"
         /\ Reaching(s, pre, preMs, now).t0 = now - Back(s, pre, preMs, now)
         /\ Reaching(s, pre, preMs, now).series = <<>>
         /\ ~Reaching(s, pre, preMs, now).fromFile
         /\ Reaching(s, pre, preMs, now).floor = 0
         /\ Reaching(s, pre, preMs, now).preUsed = Back(s, pre, preMs, now)
         /\ ReachBack(s, pre, preMs, now) =
              [AppendLivePart(Reaching(s, pre, preMs, now), pre, s.t0, now)
                 EXCEPT !.marks = @ \cup {[t |-> Back(s, pre, preMs, now), trigger |-> TRUE]}]
<1> DEFINE back  == Back(s, pre, preMs, now)
           clean == Emptied(s, now - back, FALSE, now)
           new   == Reaching(s, pre, preMs, now)
<1>1. s.t0 \in Int /\ pre[1].t \in Nat
  <2>1. 1 \in 1..Len(pre)
    BY EmptySeq
  <2>2. pre[1] \in Points
    BY <2>1, ElementOfSeq
  <2> QED  BY <2>2 DEF Points, Stores
<1>2. back \in Nat /\ back <= preMs /\ now - back \in Int
  BY <1>1 DEF Back, Later, Sooner
<1>3. ReachBack(s, pre, preMs, now) =
        [AppendLivePart(new, pre, s.t0, now) EXCEPT !.marks = @ \cup {[t |-> back, trigger |-> TRUE]}]
  BY DEF ReachBack, Reaching, Back
<1>4. new = [clean EXCEPT !.preUsed = back]
  BY DEF Reaching
<1> HIDE DEF back, new
<1>5. /\ clean \in Stores /\ clean.state = "Record" /\ clean.t0 = now - back /\ clean.series = <<>>
      /\ clean.fromFile = FALSE /\ clean.floor = 0
  <2>1. FALSE \in BOOLEAN
    OBVIOUS
  <2>2. clean \in Stores
    BY <1>2, <2>1, EmptiedType
  <2>3. clean.state = "Record" /\ clean.t0 = now - back /\ clean.series = <<>> /\ clean.fromFile = FALSE
    BY <1>2, <2>1, EmptiedFrame, Zenon
  <2>4. clean.floor = 0
    BY <1>2, <2>1, EmptiedFloor
  <2> QED  BY <2>2, <2>3, <2>4
<1> HIDE DEF clean
<1>6. /\ new \in Stores /\ new.state = "Record" /\ new.t0 = now - back /\ new.series = <<>>
      /\ new.fromFile = FALSE /\ new.floor = 0 /\ new.preUsed = back
  BY <1>2, <1>4, <1>5 DEF Stores
<1> QED  BY <1>2, <1>3, <1>6 DEF back, new

LEMMA ReachBackGrounded ==
  ASSUME NEW s \in Stores, NEW preMs \in Nat, NEW now \in Int, NEW pre \in Seq(Points), pre # <<>>,
         Fresh(ReachBack(s, pre, preMs, now), now)
  PROVE  Grounded(ReachBack(s, pre, preMs, now))
<1> DEFINE back == Back(s, pre, preMs, now)
           new  == Reaching(s, pre, preMs, now)
           with == AppendLivePart(new, pre, s.t0, now)
           mark == [t |-> back, trigger |-> TRUE]
           x    == ReachBack(s, pre, preMs, now)
<1>1. s.t0 \in Int
  BY DEF Stores
<1>2. /\ back \in Nat /\ new \in Stores /\ new.t0 = now - back /\ new.series = <<>> /\ ~new.fromFile
      /\ new.floor = 0 /\ new.state = "Record" /\ x = [with EXCEPT !.marks = @ \cup {mark}]
  BY <1>1, ReachingIs
<1>3. Fresh(x, now)
  OBVIOUS
<1> HIDE DEF new, back, x
<1> DEFINE more == WithPart(new, pre, s.t0)
<1>4. with = Trim(more, now) /\ more \in Stores /\ Framed(new, more) /\ more.floor = 0
  BY <1>1, <1>2, WithPartIs
<1> HIDE DEF with, more
<1>5. with \in Stores /\ Framed(more, with) /\ Grounded(with)
  <2>1. ~more.fromFile
    BY <1>2, <1>4 DEF Framed
  <2>2. Grounded(more)
    BY <1>4, GroundedAtZero
  <2> QED  BY <1>4, <2>1, <2>2, TrimType, TrimFramed, TrimGrounded
<1>6. with.t0 = now - back /\ with.state = "Record" /\ ~with.fromFile
  BY <1>2, <1>4, <1>5 DEF Framed
<1> HIDE DEF mark
<1>7. x.series = with.series /\ x.t0 = with.t0 /\ x.fromFile = with.fromFile /\ x.floor = with.floor
      /\ x.state = with.state /\ x.marks = with.marks \cup {mark}
  BY <1>2, <1>5 DEF Stores
<1>8. with.floor > 0 => mark.t >= with.floor
  <2> SUFFICES ASSUME with.floor > 0 PROVE mark.t >= with.floor
    OBVIOUS
  <2>1. with.series # <<>> /\ with.series[1].t = with.floor
    BY <1>5 DEF Grounded
  <2>2. Proper(with.series, now - back, now)
    BY <1>3, <1>6, <1>7 DEF Fresh, Sound
  <2>3. 1 \in 1..Len(with.series) /\ with.floor \in Nat
    <3>1. with.series \in Seq(Points) /\ with.floor \in Nat
      BY <1>5 DEF Stores
    <3> QED  BY <2>1, <3>1, EmptySeq
  <2>4. now - back + with.series[1].t <= now
    BY <2>2, <2>3 DEF Proper
  <2>5. mark.t = back
    BY DEF mark
  <2> QED  BY <1>2, <2>1, <2>3, <2>4, <2>5
<1>9. \A k \in x.marks : k \in with.marks \/ k = mark
  BY <1>7
<1>10. Grounded(x)
  BY <1>5, <1>6, <1>7, <1>8, <1>9 DEF Grounded
<1> QED  BY <1>10 DEF x

LEMMA EmptiedGrounded ==
  ASSUME NEW s \in Stores, NEW t0 \in Int, NEW hold \in BOOLEAN, NEW now \in Int
  PROVE  /\ Emptied(s, t0, hold, now) \in Stores /\ Grounded(Emptied(s, t0, hold, now))
         /\ ~Emptied(s, t0, hold, now).fromFile /\ Emptied(s, t0, hold, now).series = <<>>
<1> DEFINE x == Emptied(s, t0, hold, now)
<1>1. x \in Stores
  BY EmptiedType, Zenon
<1>2. /\ x.state = "Record" /\ x.t0 = t0 /\ x.series = <<>> /\ x.reading = s.reading
      /\ x.fromFile = FALSE /\ x.dirty = FALSE /\ x.port = Nothing
  BY EmptiedFrame, Zenon
<1>3. x.floor = 0
  BY EmptiedFloor, Zenon
<1> HIDE DEF x
<1>4. Grounded(x)
  BY <1>3, GroundedAtZero
<1> QED  BY <1>1, <1>2, <1>4 DEF x

LEMMA BeginGrounded ==
  ASSUME NEW s \in Stores, NEW preMs \in Nat, NEW now \in Int, Sound(s, now)
  PROVE  Grounded(Begin(s, preMs, now))
<1> DEFINE pre == IF preMs > 0 /\ s.state = "Live" THEN LivePart(s, Elapsed(s, now) - preMs) ELSE <<>>
           new == Emptied(s, now, FALSE, now)
<1>1. Fresh(Begin(s, preMs, now), now)
  BY BeginFresh
<1>2. pre \in Seq(Points)
  <2>1. Elapsed(s, now) - preMs \in Int
    BY DEF Elapsed, Stores
  <2> QED  BY <2>1, LivePartType, Empty
<1>3. Begin(s, preMs, now) = IF pre = <<>> THEN AppendCurrent(new, now, FALSE) ELSE ReachBack(s, pre, preMs, now)
  BY DEF Begin
<1> HIDE DEF pre
<1>4. pre # <<>> => Grounded(ReachBack(s, pre, preMs, now))
  <2> SUFFICES ASSUME pre # <<>> PROVE Grounded(ReachBack(s, pre, preMs, now))
    OBVIOUS
  <2>1. Fresh(ReachBack(s, pre, preMs, now), now)
    BY <1>1, <1>3
  <2> QED  BY <1>2, <2>1, ReachBackGrounded
<1>5. new \in Stores /\ Grounded(new) /\ ~new.fromFile
  <2>1. FALSE \in BOOLEAN
    OBVIOUS
  <2> QED  BY <2>1, EmptiedGrounded
<1> HIDE DEF new
<1>6. Grounded(AppendCurrent(new, now, FALSE))
  BY <1>5, AppendCurrentGrounded
<1> QED  BY <1>3, <1>4, <1>6

LEMMA StartAtGrounded ==
  ASSUME NEW s \in Stores, NEW t0 \in Int, NEW now \in Int
  PROVE  Grounded(StartAt(s, t0, now))
<1> DEFINE since == IF s.state = "Live" THEN LivePart(s, t0 - s.t0) ELSE <<>>
           new   == Emptied(s, t0, TRUE, now)
<1>1. s.t0 \in Int
  BY DEF Stores
<1>2. since \in Seq(Points)
  <2>1. t0 - s.t0 \in Int
    BY <1>1
  <2> QED  BY <2>1, LivePartType, Empty
<1>3. StartAt(s, t0, now) = IF Len(since) > 1 THEN AppendLivePart(new, since, s.t0, now) ELSE AppendCurrent(new, now, TRUE)
  BY DEF StartAt
<1>4. new \in Stores /\ Grounded(new) /\ ~new.fromFile /\ new.series = <<>> /\ new.floor = 0
  <2>1. TRUE \in BOOLEAN
    OBVIOUS
  <2>2. new.floor = 0
    BY <2>1, EmptiedFloor
  <2>3. new \in Stores /\ Grounded(new) /\ ~new.fromFile /\ new.series = <<>>
    BY <2>1, EmptiedGrounded
  <2> QED  BY <2>2, <2>3
<1> HIDE DEF since, new
<1>5. Grounded(AppendLivePart(new, since, s.t0, now))
  <2> DEFINE more == WithPart(new, since, s.t0)
  <2>1. /\ AppendLivePart(new, since, s.t0, now) = Trim(more, now)
        /\ more \in Stores /\ Framed(new, more) /\ more.floor = 0
    BY <1>1, <1>2, <1>4, WithPartIs
  <2> HIDE DEF more
  <2>2. ~more.fromFile /\ Grounded(more)
    BY <1>4, <2>1, GroundedAtZero DEF Framed
  <2> QED  BY <2>1, <2>2, TrimGrounded
<1>6. Grounded(AppendCurrent(new, now, TRUE))
  BY <1>4, AppendCurrentGrounded
<1> QED  BY <1>3, <1>5, <1>6

LEMMA GoLiveGrounded ==
  ASSUME NEW s \in Stores, NEW now \in Int
  PROVE  Grounded(GoLive(s, now))
<1> DEFINE live    == [s EXCEPT !.state = "Live"]
           cleared == Clear(live, now)
           empty   == [cleared EXCEPT !.preUsed = 0, !.hold = FALSE, !.last = Gap]
<1>1. live \in Stores
  BY DEF Stores
<1>2. GoLive(s, now) = AppendCurrent(empty, now, FALSE)
  BY DEF GoLive
<1> HIDE DEF live
<1>3. cleared \in Stores /\ cleared.floor = 0 /\ ~cleared.fromFile
  <2>1. cleared.fromFile = FALSE
    BY <1>1, ClearFrame, Zenon
  <2> QED  BY <1>1, <2>1, ClearType, ClearFloor
<1> HIDE DEF cleared
<1>4. Gap \in Int
  BY DEF Gap
<1>5. empty \in Stores /\ empty.floor = 0 /\ ~empty.fromFile
  BY <1>3, <1>4 DEF Stores
<1> HIDE DEF empty
<1>6. Grounded(empty)
  BY <1>5, GroundedAtZero
<1> QED  BY <1>2, <1>5, <1>6, AppendCurrentGrounded

LEMMA StopIs ==
  ASSUME NEW s \in Stores, NEW now \in Int
  PROVE  LET x == Stop(s, now)
         IN  /\ x.floor = s.floor /\ x.series = s.series /\ x.marks = s.marks /\ x.fromFile = s.fromFile
             /\ x.state = s.state \/ x.state = "View"
BY DEF Stop, Stores

LEMMA EndAtLengthIs ==
  ASSUME NEW s \in Stores, NEW now \in Int, s.state = "Record"
  PROVE  LET x == EndAtLength(s, now)
         IN  /\ x.floor = s.floor /\ x.series = s.series /\ x.marks = s.marks /\ x.fromFile = s.fromFile
             /\ x.state = "View"
<1> DEFINE stopped == Stop(s, now)
<1>1. /\ stopped \in Stores /\ stopped.floor = s.floor /\ stopped.series = s.series /\ stopped.marks = s.marks
      /\ stopped.fromFile = s.fromFile /\ stopped.state = "View"
  BY StopType, StopIs, StopMode
<1> HIDE DEF stopped
<1> QED  BY <1>1 DEF EndAtLength, stopped, Stores

LEMMA EndGrounded ==
  ASSUME NEW s \in Stores, NEW now \in Int, Grounded(s)
  PROVE  Grounded(Stop(s, now)) /\ (s.state = "Record" => Grounded(EndAtLength(s, now)))
<1>1. Grounded(Stop(s, now))
  <2> DEFINE x == Stop(s, now)
  <2>1. /\ x.floor = s.floor /\ x.series = s.series /\ x.marks = s.marks /\ x.fromFile = s.fromFile
        /\ x.state = s.state \/ x.state = "View"
    BY StopIs, Zenon
  <2> HIDE DEF x
  <2>2. Grounded(x)
    BY <2>1 DEF Grounded
  <2> QED  BY <2>2 DEF x
<1>2. ASSUME s.state = "Record"
      PROVE  Grounded(EndAtLength(s, now))
  <2> DEFINE x == EndAtLength(s, now)
  <2>1. /\ x.floor = s.floor /\ x.series = s.series /\ x.marks = s.marks /\ x.fromFile = s.fromFile
        /\ x.state = "View"
    BY <1>2, EndAtLengthIs, Zenon
  <2> HIDE DEF x
  <2>2. Grounded(x)
    BY <2>1 DEF Grounded
  <2> QED  BY <2>2 DEF x
<1> QED  BY <1>1, <1>2

LEMMA PollGrounded ==
  ASSUME NEW s \in Stores, NEW startTime \in Int, NEW now \in Int, Sound(s, now), Grounded(s)
  PROVE  Grounded(Poll(s, startTime, now))
<1> DEFINE started == IF s.state = "Live" /\ s.mode = "Time" /\ now - startTime \in {0, 1} THEN Begin(s, 0, now) ELSE s
<1>1. started \in Stores /\ Grounded(started)
  BY BeginType, BeginGrounded
<1>2. Poll(s, startTime, now) = IF LengthReached(started, Elapsed(started, now)) THEN EndAtLength(started, now) ELSE started
  BY DEF Poll
<1> HIDE DEF started
<1>3. LengthReached(started, Elapsed(started, now)) => started.state = "Record"
  BY DEF LengthReached
<1> QED  BY <1>1, <1>2, <1>3, EndGrounded

LEMMA TriggerGrounded ==
  ASSUME NEW s \in Stores, NEW v \in Int, NEW now \in Int, Sound(s, now), Grounded(s)
  PROVE  Grounded(Trigger(s, v, now))
<1> DEFINE begun == IF Crosses(s, v) THEN Begin(s, s.pre, now) ELSE s
           x     == [begun EXCEPT !.last = v]
<1>1. begun \in Stores /\ Grounded(begun)
  <2>1. s.pre \in Nat
    BY DEF Stores
  <2> QED  BY <2>1, BeginType, BeginGrounded
<1>2. Trigger(s, v, now) \in {begun, x}
  BY DEF Trigger
<1> HIDE DEF begun
<1>3. /\ x.state = begun.state /\ x.series = begun.series /\ x.floor = begun.floor /\ x.marks = begun.marks
      /\ x.fromFile = begun.fromFile
  BY <1>1 DEF Stores
<1> HIDE DEF x
<1>4. Grounded(x)
  BY <1>1, <1>3 DEF Grounded
<1> QED  BY <1>1, <1>2, <1>4

LEMMA TakeGrounded ==
  ASSUME NEW s \in Stores, NEW r \in Told, NEW now \in Int, Sound(s, now), s.state # "View", Grounded(s)
  PROVE  Grounded(Take(s, r, now))
<1> DEFINE base  == FromFirstReading(s, now)
           point == PointNow(base, r, now)
           kept  == Keep(base, point, now)
<1>1. /\ base \in Stores /\ base.state = s.state /\ base.series = s.series /\ base.fromFile = s.fromFile
      /\ base.floor = s.floor /\ base.marks = s.marks
  BY FromFirstReadingIs
<1>2. Sound(base, now) /\ ~base.fromFile
  <2>1. Sound(base, now)
    BY FromFirstReadingGoes DEF Goes
  <2> QED  BY <1>1, <2>1 DEF Sound
<1>3. Take(s, r, now) = IF s.state = "Live" THEN Trigger(kept, r.v, now)
                        ELSE IF LengthReached(base, point.t) THEN EndAtLength(base, now) ELSE kept
  BY TakeIs
<1> HIDE DEF base
<1>4. Grounded(base)
  BY <1>1 DEF Grounded
<1>5. point \in Points /\ base.t0 + point.t = now /\ point.at = now
      /\ (base.series # <<>> => Newest(base.series).t <= point.t)
  BY <1>1, <1>2, PointNowIs
<1> HIDE DEF point
<1>6. kept \in Stores /\ Sound(kept, now) /\ Grounded(kept)
  <2>1. base.t0 + point.t <= now
    BY <1>5
  <2>2. Sound(kept, now)
    BY <1>1, <1>2, <1>5, <2>1, KeepSound
  <2> QED  BY <1>1, <1>2, <1>4, <1>5, <2>2, KeepType, KeepGrounded
<1> HIDE DEF kept
<1>7. Grounded(Trigger(kept, r.v, now))
  <2>1. r.v \in Int
    BY DEF Told
  <2> QED  BY <1>6, <2>1, TriggerGrounded
<1>8. LengthReached(base, point.t) => Grounded(EndAtLength(base, now))
  <2>1. LengthReached(base, point.t) => base.state = "Record"
    BY DEF LengthReached
  <2> QED  BY <1>1, <1>4, <2>1, EndGrounded
<1> QED  BY <1>3, <1>6, <1>7, <1>8

LEMMA SetReadingGrounded ==
  ASSUME NEW s \in Stores, NEW r \in Told, NEW now \in Int, Sound(s, now), Grounded(s)
  PROVE  Grounded(SetReading(s, r, now))
<1> DEFINE reading == [t |-> now, v |-> r.v, f |-> r.f]
           shown   == [s EXCEPT !.reading = reading]
           other   == [shown EXCEPT !.port = r.f]
           cleared == Clear(shown, now)
           empty   == [cleared EXCEPT !.last = Gap]
           anew    == [empty EXCEPT !.port = r.f]
<1>1. r.f \in Words /\ r.v \in Int /\ Gap \in Int
  BY DEF Told, Words, Gap
<1>2. reading \in [t : Int, v : Int, f : Words] /\ reading.t = now
  BY <1>1
<1>3. SetReading(s, r, now) =
        IF s.state = "View" THEN shown
        ELSE IF ~Says(r) \/ r.f = s.port THEN Take(shown, r, now)
        ELSE IF s.port = Nothing THEN Take(other, r, now)
        ELSE IF s.state = "Record" THEN Stop(shown, now)
        ELSE Take(anew, r, now)
  BY DEF SetReading, Anew
<1> HIDE DEF reading
<1>4. /\ shown \in Stores /\ shown.state = s.state /\ shown.series = s.series /\ shown.t0 = s.t0
      /\ shown.fromFile = s.fromFile /\ shown.reading.t = now /\ shown.floor = s.floor /\ shown.marks = s.marks
  BY <1>2 DEF Stores
<1> HIDE DEF shown
<1>5. /\ other \in Stores /\ other.state = s.state /\ other.series = s.series /\ other.t0 = s.t0
      /\ other.fromFile = s.fromFile /\ other.reading.t = now /\ other.floor = s.floor /\ other.marks = s.marks
  BY <1>1, <1>4 DEF Stores
<1> HIDE DEF other
<1>6. Sound(shown, now) /\ Sound(other, now)
  BY <1>4, <1>5 DEF Sound
<1>7. Grounded(shown) /\ Grounded(other)
  BY <1>4, <1>5 DEF Grounded
<1>8. s.state # "View" => Grounded(Take(shown, r, now)) /\ Grounded(Take(other, r, now))
  BY <1>4, <1>5, <1>6, <1>7, TakeGrounded
<1>9. Grounded(Stop(shown, now))
  BY <1>4, <1>7, EndGrounded
<1>10. s.state # "View" => Grounded(Take(anew, r, now))
  <2> SUFFICES ASSUME s.state # "View" PROVE Grounded(Take(anew, r, now))
    OBVIOUS
  <2>1. cleared \in Stores /\ cleared.state = s.state /\ cleared.t0 = now /\ cleared.series = <<>>
        /\ cleared.reading = shown.reading /\ cleared.fromFile = FALSE /\ cleared.floor = 0
    BY <1>4, ClearType, ClearFrame, ClearFloor
  <2> HIDE DEF cleared
  <2>2. empty \in Stores /\ empty.state = s.state /\ empty.t0 = now /\ empty.series = <<>>
        /\ empty.reading = shown.reading /\ empty.fromFile = FALSE /\ empty.floor = 0
    BY <1>1, <2>1 DEF Stores
  <2> HIDE DEF empty
  <2>3. anew \in Stores /\ anew.state = s.state /\ anew.t0 = now /\ anew.series = <<>>
        /\ anew.reading = shown.reading /\ anew.fromFile = FALSE /\ anew.floor = 0
    BY <1>1, <2>2 DEF Stores
  <2> HIDE DEF anew
  <2>4. Sound(anew, now)
    BY <1>4, <2>3, ProperEmpty DEF Sound
  <2>5. Grounded(anew)
    BY <2>3, GroundedAtZero
  <2> QED  BY <2>3, <2>4, <2>5, TakeGrounded
<1> HIDE DEF anew
<1> QED  BY <1>3, <1>7, <1>8, <1>9, <1>10

LEMMA PublishGrounded ==
  ASSUME NEW s \in Stores, NEW unit \in Words, NEW r \in Told, NEW now \in Int, Sound(s, now), Grounded(s)
  PROVE  Grounded(Publish(s, unit, r, now))
<1> DEFINE base == IF unit # r.f THEN SetUnit(s, r.f) ELSE s
           x    == SetUnit(s, r.f)
<1>1. r.f \in Words
  BY DEF Told, Words
<1>2. x \in Stores /\ Sound(x, now)
  BY <1>1, SetUnitType, SetUnitGoes DEF Goes
<1>3. x.state = s.state /\ x.series = s.series /\ x.floor = s.floor /\ x.marks = s.marks /\ x.fromFile = s.fromFile
  BY DEF SetUnit, Stores
<1>4. Publish(s, unit, r, now) = SetReading(base, r, now)
  BY DEF Publish
<1> HIDE DEF x
<1>5. Grounded(x)
  BY <1>3 DEF Grounded
<1>6. base \in Stores /\ Sound(base, now) /\ Grounded(base)
  BY <1>2, <1>5 DEF x
<1> HIDE DEF base
<1> QED  BY <1>4, <1>6, SetReadingGrounded

LEMMA ApplySetupGrounded ==
  ASSUME NEW s \in Stores, NEW setup, setup.length \in Nat, setup.pre \in Nat, setup.mode \in Modes, NEW now \in Int,
         Grounded(s), s.state = "Live" => ~s.fromFile
  PROVE  Grounded(ApplySetup(s, setup, now))
<1> DEFINE limited(x) == IF s.state = "Live" THEN Trim(x, now) ELSE x
           longer == [s EXCEPT !.length = setup.length]
           one    == limited(longer)
           back   == [one EXCEPT !.pre = setup.pre]
           two    == limited(back)
           x      == [two EXCEPT !.mode = setup.mode]
           Fine(a) == a \in Stores /\ Grounded(a) /\ a.fromFile = s.fromFile
<1>1. ASSUME NEW a \in Stores, NEW b \in Stores, Fine(a), b.floor = a.floor, b.series = a.series, b.marks = a.marks,
             b.state = a.state, b.fromFile = a.fromFile
      PROVE  Fine(b)
  BY <1>1 DEF Grounded
<1>2. ASSUME NEW a, Fine(a)
      PROVE  Fine(limited(a))
  <2>1. CASE s.state = "Live"
    <3>1. Framed(a, Trim(a, now)) /\ Trim(a, now) \in Stores /\ Grounded(Trim(a, now))
      BY <1>2, <2>1, TrimType, TrimFramed, TrimGrounded
    <3> QED  BY <1>2, <2>1, <3>1 DEF Framed
  <2>2. CASE s.state # "Live"
    BY <1>2, <2>2
  <2> QED  BY <2>1, <2>2
<1>3. ApplySetup(s, setup, now) = x
  BY DEF ApplySetup
<1> HIDE DEF limited
<1>4. Fine(s)
  OBVIOUS
<1>5. Fine(longer)
  <2>1. /\ longer \in Stores /\ longer.floor = s.floor /\ longer.series = s.series /\ longer.marks = s.marks
        /\ longer.state = s.state /\ longer.fromFile = s.fromFile
    BY DEF Stores
  <2> HIDE DEF longer, Fine
  <2> QED  BY <1>1, <1>4, <2>1
<1> HIDE DEF longer
<1>6. Fine(one)
  BY <1>2, <1>5
<1> HIDE DEF one
<1>7. Fine(back)
  <2>1. one \in Stores
    BY <1>6
  <2>2. /\ back \in Stores /\ back.floor = one.floor /\ back.series = one.series /\ back.marks = one.marks
        /\ back.state = one.state /\ back.fromFile = one.fromFile
    BY <2>1 DEF Stores
  <2> HIDE DEF back, Fine
  <2> QED  BY <1>1, <1>6, <2>1, <2>2
<1> HIDE DEF back
<1>8. Fine(two)
  BY <1>2, <1>7
<1> HIDE DEF two
<1>9. Fine(x)
  <2>1. two \in Stores
    BY <1>8
  <2>2. /\ x \in Stores /\ x.floor = two.floor /\ x.series = two.series /\ x.marks = two.marks
        /\ x.state = two.state /\ x.fromFile = two.fromFile
    BY <2>1 DEF Stores
  <2> HIDE DEF x, Fine
  <2> QED  BY <1>1, <1>8, <2>1, <2>2
<1> QED  BY <1>3, <1>9

LEMMA MarkGrounded ==
  ASSUME NEW s \in Stores, NEW now \in Int, Sound(s, now), Grounded(s), s.marks = {}, NEW x,
         NEW t, t = IF s.state # "View" THEN Elapsed(s, now) ELSE IF s.series = <<>> THEN 0 ELSE Newest(s.series).t,
         x = [s EXCEPT !.marks = {[t |-> t, trigger |-> FALSE]}]
  PROVE  Grounded(x)
<1>1. /\ x.floor = s.floor /\ x.series = s.series /\ x.state = s.state /\ x.fromFile = s.fromFile
      /\ x.marks = {[t |-> t, trigger |-> FALSE]}
  BY DEF Stores
<1>2. s.floor > 0 => t >= s.floor
  <2> SUFFICES ASSUME s.floor > 0 PROVE t >= s.floor
    OBVIOUS
  <2>1. s.series # <<>> /\ s.series[1].t = s.floor /\ ~s.fromFile
    BY DEF Grounded
  <2>2. Proper(s.series, s.t0, now) /\ s.series \in Seq(Points) /\ s.t0 \in Int /\ s.floor \in Nat
    BY <2>1 DEF Sound, Stores
  <2>3. 1 \in 1..Len(s.series) /\ Len(s.series) \in 1..Len(s.series) /\ 1 <= Len(s.series)
    BY <2>1, <2>2, NewestIsPoint
  <2>4. s.t0 + s.floor <= now /\ s.floor <= Newest(s.series).t
    BY <2>1, <2>2, <2>3 DEF Proper, Newest
  <2>5. CASE s.state # "View"
    BY <2>2, <2>4, <2>5 DEF Elapsed
  <2>6. CASE s.state = "View"
    BY <2>1, <2>4, <2>6
  <2> QED  BY <2>5, <2>6
<1> QED  BY <1>1, <1>2 DEF Grounded

-----------------------------------------------------------------------------
(* Where a trigger stands, and where a recording ends. *)

LEMMA KeepFramed ==
  ASSUME NEW s \in Stores, NEW p \in Points, NEW now \in Int
  PROVE  Framed(s, Keep(s, p, now))
<1> DEFINE with == With(s, p)
<1>1. with \in Stores /\ Framed(s, with) /\ Keep(s, p, now) = Trim(with, now)
  BY WithIs
<1> HIDE DEF with
<1>2. Framed(with, Trim(with, now))
  BY <1>1, TrimFramed
<1> QED  BY <1>1, <1>2 DEF Framed

\* What is kept comes last, and no more than the most is held.
LEMMA KeepNewest ==
  ASSUME NEW s \in Stores, NEW p \in Points, NEW now \in Int
  PROVE  /\ Keep(s, p, now).series # <<>> /\ Newest(Keep(s, p, now).series) = Placed(s, p)
         /\ Len(Keep(s, p, now).series) <= MostHeld /\ Len(Keep(s, p, now).series) <= Len(s.series) + 1
<1> DEFINE with == With(s, p)
           n    == Len(s.series)
           x    == Keep(s, p, now)
<1>1. with \in Stores /\ x = Trim(with, now)
  BY WithIs
<1>2. n \in Nat /\ with.series \in Seq(Points) /\ Len(with.series) = n + 1 /\ with.series # <<>> /\ with.series[n + 1] = Placed(s, p)
  BY WithSeries
<1> HIDE DEF with, x
<1>3. PICK m \in 1..Len(with.series) : Trimmed(with, x, now, m)
  BY <1>1, <1>2, TrimIs
<1> DEFINE rest == SubSeq(with.series, m, Len(with.series))
<1>4. /\ rest # <<>> /\ Len(rest) = Len(with.series) - m + 1 /\ \A i \in 1..Len(rest) : rest[i] = with.series[m + i - 1]
  BY <1>2, TailPart
<1>5. x.series = rest
  BY <1>3 DEF Trimmed
<1> HIDE DEF rest, n
<1>6. Newest(rest) = Placed(s, p)
  <2>1. Len(rest) \in 1..Len(rest) /\ m + Len(rest) - 1 = n + 1
    BY <1>2, <1>4
  <2> QED  BY <1>2, <1>4, <2>1 DEF Newest
<1>7. Len(rest) <= MostHeld /\ Len(rest) <= n + 1
  <2>1. Len(rest) = MaxPoints \/ Len(rest) <= MostHeld
    BY <1>3, <1>4 DEF Trimmed
  <2> QED  BY <1>2, <1>4, <2>1, MostHeldType
<1> QED  BY <1>4, <1>5, <1>6, <1>7 DEF x, n

\* A reading that is taken comes last, at its moment.
LEMMA KeepNow ==
  ASSUME NEW base \in Stores, NEW r \in Told, NEW now \in Int, Sound(base, now), ~base.fromFile
  PROVE  /\ base.t0 + Newest(Keep(base, PointNow(base, r, now), now).series).t = now
         /\ Newest(Keep(base, PointNow(base, r, now), now).series).t = PointNow(base, r, now).t
         /\ Newest(Keep(base, PointNow(base, r, now), now).series).at = now
<1> DEFINE p  == PointNow(base, r, now)
           at == Placed(base, p)
<1>1. p \in Points /\ base.t0 + p.t = now /\ p.at = now /\ (base.series # <<>> => Newest(base.series).t <= p.t)
  BY PointNowIs
<1> HIDE DEF p
<1>2. Newest(Keep(base, p, now).series) = at
  BY <1>1, KeepNewest
<1>3. /\ at.at = p.at /\ (base.series = <<>> => at.t = p.t)
      /\ base.series # <<>> => at.t = Later(p.t, Newest(base.series).t)
  BY <1>1, PlacedType
<1>4. base.series # <<>> => Newest(base.series).t \in Nat
  <2>1. base.series # <<>> => Newest(base.series) \in Points
    BY NewestIsPoint DEF Stores
  <2> QED  BY <2>1 DEF Points
<1>5. at.t = p.t
  <2>1. p.t \in Nat
    BY <1>1 DEF Points
  <2> HIDE DEF at
  <2> QED  BY <1>1, <1>3, <1>4, <2>1 DEF Later
<1> QED  BY <1>1, <1>2, <1>3, <1>5 DEF p

LEMMA AppendCurrentFramed ==
  ASSUME NEW s \in Stores, NEW now \in Int, NEW atItsTime \in BOOLEAN
  PROVE  Framed(s, AppendCurrent(s, now, atItsTime))
<1>1. CASE s.reading.t < 0 \/ now - s.reading.t > StaleAfter
  BY <1>1 DEF AppendCurrent, Framed
<1>2. CASE ~(s.reading.t < 0 \/ now - s.reading.t > StaleAfter)
  <2> DEFINE t == IF atItsTime THEN Later(0, s.reading.t - s.t0) ELSE 0
             p == [t |-> t, v |-> s.reading.v, f |-> s.reading.f, at |-> s.reading.t, own |-> FALSE]
  <2>1. s.reading.t \in Int /\ s.reading.v \in Int /\ s.reading.f \in Words /\ s.t0 \in Int
    BY DEF Stores
  <2>2. t \in Nat
    BY <2>1 DEF Later
  <2>3. AppendCurrent(s, now, atItsTime) = Keep(s, p, now)
    BY <1>2 DEF AppendCurrent
  <2> HIDE DEF t
  <2>4. p \in Points
    BY <2>1, <2>2 DEF Points
  <2> HIDE DEF p
  <2> QED  BY <2>3, <2>4, KeepFramed
<1> QED  BY <1>1, <1>2

\* The trigger stands at its mark, as far from the start as the recording reaches back, and nothing of that time misses.
AtMark(x, preMs, now) ==
  x.preUsed > 0 =>
    /\ [t |-> x.preUsed, trigger |-> TRUE] \in x.marks
    /\ Newest(x.series).t = x.preUsed /\ Newest(x.series).at = now
    /\ x.preUsed <= preMs /\ x.series[1].t = 0

LEMMA ReachBackAtMark ==
  ASSUME NEW s \in Stores, NEW preMs \in Nat, NEW now \in Int, NEW pre \in Seq(Points), pre # <<>>,
         Len(pre) <= MostHeld, s.t0 + pre[1].t <= now, s.t0 + Newest(pre).t = now, Newest(pre).at = now
  PROVE  AtMark(ReachBack(s, pre, preMs, now), preMs, now)
<1> DEFINE back == Back(s, pre, preMs, now)
           new  == Reaching(s, pre, preMs, now)
           with == AppendLivePart(new, pre, s.t0, now)
           more == WithPart(new, pre, s.t0)
           mark == [t |-> back, trigger |-> TRUE]
           x    == ReachBack(s, pre, preMs, now)
           n    == Len(pre)
<1>1. s.t0 \in Int /\ n \in Nat /\ n \in 1..n /\ 1 \in 1..n /\ pre[1].t \in Nat /\ pre[n].t \in Nat /\ pre[n] = Newest(pre)
  <2>1. n \in Nat /\ n >= 1
    BY NewestIsPoint
  <2>2. \A i \in 1..n : pre[i].t \in Nat
    BY PointsOf
  <2> QED  BY <2>1, <2>2 DEF Stores, Newest
<1>2. /\ back \in Nat /\ back <= preMs /\ new \in Stores /\ new.t0 = now - back /\ new.series = <<>>
      /\ new.state = "Record" /\ new.preUsed = back /\ x = [with EXCEPT !.marks = @ \cup {mark}]
  BY ReachingIs
<1>3. back = Later(0, Sooner(preMs, now - (s.t0 + pre[1].t)))
  BY DEF Back
<1> HIDE DEF new, back, x
<1>4. with = Trim(more, now) /\ more \in Stores /\ Framed(new, more) /\ Len(more.series) = n
      /\ \A i \in 1..n : /\ more.series[i].t = Later(0, s.t0 + pre[i].t - new.t0)
                         /\ more.series[i].at = pre[i].at
  BY <1>1, <1>2, WithPartIs
<1> HIDE DEF with, more
<1>5. more.series # <<>> /\ more.state = "Record" /\ more.preUsed = back
  <2>1. more.series # <<>>
    BY <1>1, <1>4, EmptySeq
  <2> QED  BY <1>2, <1>4, <2>1 DEF Framed
<1>6. PICK m \in 1..Len(more.series) : Trimmed(more, with, now, m)
  BY <1>4, <1>5, TrimIs
<1>7. m = 1
  BY <1>1, <1>4, <1>5, <1>6, MostHeldType DEF Trimmed, n
<1>8. with = more
  BY <1>6, <1>7 DEF Trimmed
<1> HIDE DEF mark
<1>9. x.series = more.series /\ x.preUsed = back /\ mark \in x.marks
  BY <1>2, <1>4, <1>5, <1>8 DEF Stores
<1>10. more.series[1].t = Later(0, s.t0 + pre[1].t - (now - back)) /\ more.series[n].t = Later(0, s.t0 + pre[n].t - (now - back))
  BY <1>1, <1>2, <1>4
<1>11. more.series[1].t = 0
  <2>1. now - (s.t0 + pre[1].t) >= back
    <3>1. now - (s.t0 + pre[1].t) \in Nat
      BY <1>1
    <3> QED  BY <1>3, <3>1 DEF Later, Sooner
  <2> DEFINE d == s.t0 + pre[1].t - (now - back)
  <2>2. d \in Int /\ d <= 0
    BY <1>1, <1>2, <2>1
  <2>3. more.series[1].t = Later(0, d)
    BY <1>10
  <2> HIDE DEF d
  <2> QED  BY <2>2, <2>3 DEF Later
<1>12. more.series[n].t = back
  <2>1. s.t0 + pre[n].t = now
    BY <1>1
  <2> QED  BY <1>1, <1>2, <1>10, <2>1 DEF Later
<1>13. more.series[n].at = now
  BY <1>1, <1>4
<1>14. Newest(x.series).t = back /\ Newest(x.series).at = now
  BY <1>4, <1>9, <1>12, <1>13 DEF Newest
<1> HIDE DEF n
<1> QED  BY <1>2, <1>9, <1>11, <1>14 DEF AtMark, mark, x

\* A recording that takes nothing along reaches back nowhere.
LEMMA BeginNow ==
  ASSUME NEW s \in Stores, NEW now \in Int
  PROVE  AppendCurrent(Emptied(s, now, FALSE, now), now, FALSE).preUsed = 0 /\ Begin(s, 0, now).preUsed = 0
<1> DEFINE new == Emptied(s, now, FALSE, now)
<1>1. new \in Stores /\ new.preUsed = 0
  <2>1. FALSE \in BOOLEAN
    OBVIOUS
  <2> QED  BY <2>1, EmptiedType, EmptiedFloor
<1>2. Begin(s, 0, now) = AppendCurrent(new, now, FALSE)
  BY DEF Begin
<1> HIDE DEF new
<1>3. Framed(new, AppendCurrent(new, now, FALSE))
  BY <1>1, AppendCurrentFramed
<1> QED  BY <1>1, <1>2, <1>3 DEF Framed, new

LEMMA BeginAtMark ==
  ASSUME NEW s \in Stores, NEW preMs \in Nat, NEW now \in Int, Sound(s, now), s.state = "Live", s.series # <<>>,
         Len(s.series) <= MostHeld, s.t0 + Newest(s.series).t = now, Newest(s.series).at = now
  PROVE  AtMark(Begin(s, preMs, now), preMs, now)
<1> DEFINE from  == Elapsed(s, now) - preMs
           first == Later(1, Holding(s.series, from))
           part  == LivePart(s, from)
           n     == Len(s.series)
<1>1. s.series \in Seq(Points) /\ s.t0 \in Int /\ n \in Nat /\ n >= 1 /\ from \in Int
  <2>1. s.series \in Seq(Points) /\ s.t0 \in Int
    BY DEF Stores
  <2>2. from \in Int
    BY <2>1 DEF Elapsed
  <2> QED  BY <2>1, <2>2, NewestIsPoint
<1> HIDE DEF from
<1>2. first \in 1..n
  <2>1. Holding(s.series, from) \in 0..n
    BY <1>1, HoldingType
  <2> QED  BY <1>1, <2>1 DEF Later
<1>3. part = SubSeq(s.series, first, n)
  BY DEF LivePart
<1> HIDE DEF first
<1>4. /\ part \in Seq(Points) /\ Len(part) = n - first + 1 /\ part # <<>>
      /\ \A i \in 1..Len(part) : part[i] = s.series[first + i - 1]
  BY <1>1, <1>2, <1>3, TailPart
<1> HIDE DEF part
<1>5. Newest(part) = Newest(s.series)
  <2>1. Len(part) \in 1..Len(part) /\ first + Len(part) - 1 = n
    BY <1>1, <1>2, <1>4
  <2> QED  BY <1>4, <2>1 DEF Newest, n
<1>6. s.t0 + part[1].t <= now
  <2>1. 1 \in 1..Len(part) /\ first + 1 - 1 = first
    BY <1>1, <1>2, <1>4
  <2>2. part[1] = s.series[first]
    BY <1>4, <2>1
  <2>3. Proper(s.series, s.t0, now)
    BY DEF Sound
  <2> QED  BY <1>2, <2>2, <2>3 DEF Proper
<1>7. Len(part) <= MostHeld
  BY <1>1, <1>2, <1>4, MostHeldType
<1>8. Begin(s, preMs, now) = IF preMs > 0 THEN ReachBack(s, part, preMs, now)
                             ELSE AppendCurrent(Emptied(s, now, FALSE, now), now, FALSE)
  <2>1. preMs > 0 => Begin(s, preMs, now) = ReachBack(s, part, preMs, now)
    BY <1>4 DEF Begin, part, from
  <2>2. ~(preMs > 0) => Begin(s, preMs, now) = AppendCurrent(Emptied(s, now, FALSE, now), now, FALSE)
    BY DEF Begin
  <2> QED  BY <2>1, <2>2
<1>9. AtMark(ReachBack(s, part, preMs, now), preMs, now)
  BY <1>4, <1>5, <1>6, <1>7, ReachBackAtMark
<1>10. AtMark(AppendCurrent(Emptied(s, now, FALSE, now), now, FALSE), preMs, now)
  <2> DEFINE y == AppendCurrent(Emptied(s, now, FALSE, now), now, FALSE)
  <2>1. y.preUsed = 0
    BY BeginNow, Zenon
  <2> HIDE DEF y
  <2>2. AtMark(y, preMs, now)
    BY <2>1 DEF AtMark
  <2> QED  BY <2>2 DEF y
<1> QED  BY <1>8, <1>9, <1>10

\* What readings do to the live window: it goes on, or a recording begins at its mark.
Marked(s, x, now) == x.state = "Record" => AtMark(x, s.pre, now)

LEMMA TriggerMarked ==
  ASSUME NEW s \in Stores, NEW v \in Int, NEW now \in Int, Sound(s, now), s.state = "Live", s.series # <<>>,
         Len(s.series) <= MostHeld, s.t0 + Newest(s.series).t = now, Newest(s.series).at = now
  PROVE  Marked(s, Trigger(s, v, now), now)
<1> DEFINE begun == Begin(s, s.pre, now)
           x     == [begun EXCEPT !.last = v]
<1>1. s.pre \in Nat
  BY DEF Stores
<1>2. CASE Crosses(s, v)
  <2>1. begun \in Stores /\ AtMark(begun, s.pre, now)
    BY <1>1, BeginType, BeginAtMark
  <2>2. Trigger(s, v, now) \in {begun, x}
    BY <1>2 DEF Trigger
  <2> HIDE DEF begun
  <2>3. x.preUsed = begun.preUsed /\ x.marks = begun.marks /\ x.series = begun.series
    BY <2>1 DEF Stores
  <2> HIDE DEF x
  <2>4. AtMark(x, s.pre, now)
    BY <2>1, <2>3 DEF AtMark
  <2> QED  BY <2>1, <2>2, <2>4 DEF Marked
<1>3. CASE ~Crosses(s, v)
  <2>1. Trigger(s, v, now) \in {s, [s EXCEPT !.last = v]}
    BY <1>3 DEF Trigger
  <2>2. Trigger(s, v, now).state = "Live"
    BY <2>1 DEF Stores
  <2> QED  BY <2>2 DEF Marked
<1> QED  BY <1>2, <1>3

LEMMA TakeMarked ==
  ASSUME NEW s \in Stores, NEW r \in Told, NEW now \in Int, Sound(s, now), s.state = "Live"
  PROVE  Marked(s, Take(s, r, now), now)
<1> DEFINE base  == FromFirstReading(s, now)
           point == PointNow(base, r, now)
           kept  == Keep(base, point, now)
<1>1. base \in Stores /\ base.state = "Live" /\ base.pre = s.pre /\ base.fromFile = s.fromFile
  BY FromFirstReadingIs
<1>2. Sound(base, now) /\ ~base.fromFile
  <2>1. Sound(base, now)
    BY FromFirstReadingGoes DEF Goes
  <2> QED  BY <1>1, <2>1 DEF Sound
<1>3. Take(s, r, now) = Trigger(kept, r.v, now)
  BY TakeIs
<1> HIDE DEF base
<1>4. base.t0 + Newest(kept.series).t = now /\ Newest(kept.series).at = now
  BY <1>1, <1>2, KeepNow
<1>5. point \in Points /\ base.t0 + point.t = now /\ point.at = now
      /\ (base.series # <<>> => Newest(base.series).t <= point.t)
  BY <1>1, <1>2, PointNowIs
<1> HIDE DEF point
<1>6. kept \in Stores /\ kept.series # <<>> /\ Len(kept.series) <= MostHeld /\ Framed(base, kept)
  BY <1>1, <1>5, KeepType, KeepNewest, KeepFramed
<1>7. Sound(kept, now)
  <2>1. base.t0 + point.t <= now
    BY <1>5
  <2> QED  BY <1>1, <1>2, <1>5, <2>1, KeepSound
<1> HIDE DEF kept
<1>8. kept.state = "Live" /\ kept.t0 = base.t0 /\ kept.pre = s.pre
  BY <1>1, <1>6 DEF Framed
<1>9. Marked(kept, Trigger(kept, r.v, now), now)
  <2>1. r.v \in Int
    BY DEF Told
  <2> QED  BY <1>4, <1>6, <1>7, <1>8, <2>1, TriggerMarked
<1> QED  BY <1>3, <1>8, <1>9 DEF Marked

LEMMA SetReadingMarked ==
  ASSUME NEW s \in Stores, NEW r \in Told, NEW now \in Int, Sound(s, now), s.state = "Live"
  PROVE  Marked(s, SetReading(s, r, now), now)
<1> DEFINE reading == [t |-> now, v |-> r.v, f |-> r.f]
           shown   == [s EXCEPT !.reading = reading]
           other   == [shown EXCEPT !.port = r.f]
           cleared == Clear(shown, now)
           empty   == [cleared EXCEPT !.last = Gap]
           anew    == [empty EXCEPT !.port = r.f]
<1>1. r.f \in Words /\ r.v \in Int /\ Gap \in Int
  BY DEF Told, Words, Gap
<1>2. reading \in [t : Int, v : Int, f : Words] /\ reading.t = now
  BY <1>1
<1>3. SetReading(s, r, now) \in {Take(shown, r, now), Take(other, r, now), Take(anew, r, now)}
  BY DEF SetReading, Anew
<1> HIDE DEF reading
<1>4. /\ shown \in Stores /\ shown.state = "Live" /\ shown.series = s.series /\ shown.t0 = s.t0 /\ shown.pre = s.pre
      /\ shown.fromFile = s.fromFile /\ shown.reading.t = now
  BY <1>2 DEF Stores
<1> HIDE DEF shown
<1>5. /\ other \in Stores /\ other.state = "Live" /\ other.series = s.series /\ other.t0 = s.t0 /\ other.pre = s.pre
      /\ other.fromFile = s.fromFile /\ other.reading.t = now
  BY <1>1, <1>4 DEF Stores
<1> HIDE DEF other
<1>6. Sound(shown, now) /\ Sound(other, now)
  BY <1>4, <1>5 DEF Sound
<1>7. Marked(s, Take(shown, r, now), now) /\ Marked(s, Take(other, r, now), now)
  BY <1>4, <1>5, <1>6, TakeMarked DEF Marked
<1>8. Marked(s, Take(anew, r, now), now)
  <2>1. cleared \in Stores /\ cleared.state = "Live" /\ cleared.t0 = now /\ cleared.series = <<>>
        /\ cleared.reading = shown.reading /\ cleared.fromFile = FALSE /\ cleared.pre = s.pre
    BY <1>4, ClearType, ClearFrame, ClearFloor
  <2> HIDE DEF cleared
  <2>2. empty \in Stores /\ empty.state = "Live" /\ empty.t0 = now /\ empty.series = <<>>
        /\ empty.reading = shown.reading /\ empty.fromFile = FALSE /\ empty.pre = s.pre
    BY <1>1, <2>1 DEF Stores
  <2> HIDE DEF empty
  <2>3. anew \in Stores /\ anew.state = "Live" /\ anew.t0 = now /\ anew.series = <<>>
        /\ anew.reading = shown.reading /\ anew.fromFile = FALSE /\ anew.pre = s.pre
    BY <1>1, <2>2 DEF Stores
  <2> HIDE DEF anew
  <2>4. Sound(anew, now)
    BY <1>4, <2>3, ProperEmpty DEF Sound
  <2> QED  BY <2>3, <2>4, TakeMarked DEF Marked
<1> QED  BY <1>3, <1>7, <1>8

LEMMA SetUnitIs ==
  ASSUME NEW s \in Stores, NEW unit \in Words
  PROVE  /\ SetUnit(s, unit) \in Stores /\ Framed(s, SetUnit(s, unit)) /\ SetUnit(s, unit).series = s.series
<1>1. SetUnit(s, unit) \in Stores
  BY SetUnitType
<1>2. Framed(s, SetUnit(s, unit)) /\ SetUnit(s, unit).series = s.series
  BY DEF SetUnit, Stores, Framed
<1> QED  BY <1>1, <1>2

\* A unit is told before its reading.
LEMMA PublishIs ==
  ASSUME NEW s \in Stores, NEW unit \in Words, NEW r \in Told, NEW now \in Int, Sound(s, now)
  PROVE  \E base \in Stores : /\ Publish(s, unit, r, now) = SetReading(base, r, now) /\ Sound(base, now)
                              /\ Framed(s, base) /\ base.series = s.series
<1> DEFINE base == IF unit # r.f THEN SetUnit(s, r.f) ELSE s
<1>1. r.f \in Words
  BY DEF Told, Words
<1>2. Sound(SetUnit(s, r.f), now)
  BY <1>1, SetUnitGoes DEF Goes
<1>3. Framed(s, s)
  BY DEF Framed
<1>4. base \in Stores /\ Sound(base, now) /\ Framed(s, base) /\ base.series = s.series
  BY <1>1, <1>2, <1>3, SetUnitIs
<1>5. Publish(s, unit, r, now) = SetReading(base, r, now)
  BY DEF Publish
<1> HIDE DEF base
<1> QED  BY <1>4, <1>5

LEMMA PublishMarked ==
  ASSUME NEW s \in Stores, NEW unit \in Words, NEW r \in Told, NEW now \in Int, Sound(s, now), s.state = "Live"
  PROVE  Marked(s, Publish(s, unit, r, now), now)
<1>1. PICK base \in Stores : /\ Publish(s, unit, r, now) = SetReading(base, r, now) /\ Sound(base, now)
                             /\ Framed(s, base) /\ base.series = s.series
  BY PublishIs
<1>2. base.state = "Live" /\ base.pre = s.pre
  BY <1>1 DEF Framed
<1>3. Marked(base, SetReading(base, r, now), now)
  BY <1>1, <1>2, SetReadingMarked
<1> QED  BY <1>1, <1>2, <1>3 DEF Marked

\* Neither the clock nor the user, nor another meter's start, reaches back.
LEMMA PollNow ==
  ASSUME NEW s \in Stores, NEW startTime \in Int, NEW now \in Int, s.state = "Live"
  PROVE  Poll(s, startTime, now).state = "Record" => Poll(s, startTime, now).preUsed = 0
<1> DEFINE starts  == s.mode = "Time" /\ now - startTime \in {0, 1}
           started == IF starts THEN Begin(s, 0, now) ELSE s
           x       == Poll(s, startTime, now)
<1>1. started \in Stores /\ (starts => started.preUsed = 0) /\ (~starts => started.state = "Live")
  BY BeginType, BeginNow
<1>2. x = IF LengthReached(started, Elapsed(started, now)) THEN EndAtLength(started, now) ELSE started
  BY DEF Poll
<1> HIDE DEF started, starts, x
<1>3. EndAtLength(started, now).state # "Record"
  BY <1>1, EndAtLengthMode
<1> QED  BY <1>1, <1>2, <1>3 DEF x

LEMMA StartAtNow ==
  ASSUME NEW s \in Stores, NEW t0 \in Int, NEW now \in Int
  PROVE  StartAt(s, t0, now).preUsed = 0
<1> DEFINE since == IF s.state = "Live" THEN LivePart(s, t0 - s.t0) ELSE <<>>
           new   == Emptied(s, t0, TRUE, now)
<1>1. s.t0 \in Int
  BY DEF Stores
<1>2. since \in Seq(Points)
  <2>1. t0 - s.t0 \in Int
    BY <1>1
  <2> QED  BY <2>1, LivePartType, Empty
<1>3. StartAt(s, t0, now) = IF Len(since) > 1 THEN AppendLivePart(new, since, s.t0, now) ELSE AppendCurrent(new, now, TRUE)
  BY DEF StartAt
<1>4. new \in Stores /\ new.series = <<>> /\ new.preUsed = 0
  <2>1. TRUE \in BOOLEAN
    OBVIOUS
  <2>2. new.preUsed = 0
    BY <2>1, EmptiedFloor
  <2>3. new \in Stores /\ new.series = <<>>
    BY <2>1, EmptiedGrounded
  <2> QED  BY <2>2, <2>3
<1> HIDE DEF since, new
<1>5. AppendLivePart(new, since, s.t0, now).preUsed = 0
  <2> DEFINE more == WithPart(new, since, s.t0)
  <2>1. AppendLivePart(new, since, s.t0, now) = Trim(more, now) /\ more \in Stores /\ Framed(new, more)
    BY <1>1, <1>2, <1>4, WithPartIs
  <2> HIDE DEF more
  <2>2. Framed(more, Trim(more, now))
    BY <2>1, TrimFramed
  <2> QED  BY <1>4, <2>1, <2>2 DEF Framed
<1>6. AppendCurrent(new, now, TRUE).preUsed = 0
  <2>1. Framed(new, AppendCurrent(new, now, TRUE))
    BY <1>4, AppendCurrentFramed
  <2> QED  BY <1>4, <2>1 DEF Framed
<1> QED  BY <1>3, <1>5, <1>6

-----------------------------------------------------------------------------
(* Nothing after the length. *)

\* A recording without a point waits: what the meter showed at its start is too old, or came before it.
Waiting(s, t) ==
  s.state = "Record" /\ s.series = <<>> =>
    s.reading.t < 0 \/ t - s.reading.t > StaleAfter \/ s.reading.t <= s.t0

\* What comes to a recording comes before its end.
Ends(s, x) ==
  s.state = "Record" /\ x.state = "Record" /\ s.length > 0 /\ Len(x.series) > Len(s.series) /\ x.t0 = s.t0
    => (Valued(Newest(x.series)) => Newest(x.series).t < Limit(s))

LEMMA EndsSame ==
  ASSUME NEW s \in Stores, NEW x, x.series = s.series
  PROVE  Ends(s, x)
<1>1. Len(s.series) \in Nat
  BY LenProperties DEF Stores
<1> QED  BY <1>1 DEF Ends

LEMMA EndsBefore ==
  ASSUME NEW s, NEW b, NEW x, Ends(b, x), b.state = s.state, b.series = s.series, b.t0 = s.t0,
         b.length = s.length, b.preUsed = s.preUsed
  PROVE  Ends(s, x)
BY DEF Ends, Limit

LEMMA TrimHolds ==
  ASSUME NEW s \in Stores, NEW now \in Int, s.series # <<>>
  PROVE  Trim(s, now).series # <<>>
<1> DEFINE x == Trim(s, now)
<1>1. PICK m \in 1..Len(s.series) : Trimmed(s, x, now, m)
  BY TrimIs
<1> DEFINE rest == SubSeq(s.series, m, Len(s.series))
<1>2. rest # <<>>
  BY TailPart DEF Stores
<1>3. x.series = rest
  BY <1>1 DEF Trimmed
<1> HIDE DEF rest, x
<1> QED  BY <1>2, <1>3 DEF x

\* What a recording starts with: nothing, or the value that is shown, no later than it came.
LEMMA AppendCurrentIs ==
  ASSUME NEW s \in Stores, NEW now \in Int, NEW atItsTime \in BOOLEAN, s.series = <<>>
  PROVE  \/ AppendCurrent(s, now, atItsTime) = s /\ (s.reading.t < 0 \/ now - s.reading.t > StaleAfter)
         \/ /\ ~(s.reading.t < 0 \/ now - s.reading.t > StaleAfter)
            /\ AppendCurrent(s, now, atItsTime).series # <<>> /\ Len(AppendCurrent(s, now, atItsTime).series) <= 1
            /\ Newest(AppendCurrent(s, now, atItsTime).series).t <= Later(0, s.reading.t - s.t0)
<1>1. CASE s.reading.t < 0 \/ now - s.reading.t > StaleAfter
  BY <1>1 DEF AppendCurrent
<1>2. CASE ~(s.reading.t < 0 \/ now - s.reading.t > StaleAfter)
  <2> DEFINE shown == Later(0, s.reading.t - s.t0)
             t == IF atItsTime THEN shown ELSE 0
             p == [t |-> t, v |-> s.reading.v, f |-> s.reading.f, at |-> s.reading.t, own |-> FALSE]
  <2>1. s.reading.t \in Int /\ s.reading.v \in Int /\ s.reading.f \in Words /\ s.t0 \in Int
    BY DEF Stores
  <2>2. t \in Nat /\ t <= shown
    BY <2>1 DEF Later
  <2>3. AppendCurrent(s, now, atItsTime) = Keep(s, p, now)
    BY <1>2 DEF AppendCurrent
  <2> HIDE DEF t, shown
  <2>4. p \in Points /\ p.t = t
    BY <2>1, <2>2 DEF Points
  <2> HIDE DEF p
  <2> DEFINE x == Keep(s, p, now)
  <2>5. x.series # <<>> /\ Newest(x.series) = Placed(s, p) /\ Len(x.series) <= Len(s.series) + 1
    BY <2>4, KeepNewest
  <2>6. Placed(s, p).t = t
    BY <2>4, PlacedType
  <2>7. Len(x.series) <= 1
    BY <2>5
  <2> HIDE DEF x
  <2> QED  BY <1>2, <2>2, <2>3, <2>5, <2>6, <2>7 DEF x, shown
<1> QED  BY <1>1, <1>2

LEMMA AppendCurrentWaits ==
  ASSUME NEW s \in Stores, NEW now \in Int, NEW atItsTime \in BOOLEAN, s.series = <<>>
  PROVE  Waiting(AppendCurrent(s, now, atItsTime), now)
<1> DEFINE x == AppendCurrent(s, now, atItsTime)
<1>1. \/ x = s /\ (s.reading.t < 0 \/ now - s.reading.t > StaleAfter)
      \/ x.series # <<>>
  BY AppendCurrentIs
<1> HIDE DEF x
<1>2. Waiting(x, now)
  BY <1>1 DEF Waiting
<1> QED  BY <1>2 DEF x

LEMMA WithPartHolds ==
  ASSUME NEW s \in Stores, NEW part \in Seq(Points), part # <<>>, NEW t0 \in Int, NEW now \in Int, s.series = <<>>
  PROVE  AppendLivePart(s, part, t0, now).series # <<>>
<1> DEFINE more == WithPart(s, part, t0)
<1>1. AppendLivePart(s, part, t0, now) = Trim(more, now) /\ more \in Stores /\ Len(more.series) = Len(part)
  BY WithPartIs
<1> HIDE DEF more
<1>2. more.series # <<>>
  <2>1. Len(part) # 0 /\ Len(<<>>) = 0
    BY EmptySeq
  <2> QED  BY <1>1, <2>1
<1> QED  BY <1>1, <1>2, TrimHolds

LEMMA BeginWaits ==
  ASSUME NEW s \in Stores, NEW preMs \in Nat, NEW now \in Int
  PROVE  Waiting(Begin(s, preMs, now), now)
<1> DEFINE pre == IF preMs > 0 /\ s.state = "Live" THEN LivePart(s, Elapsed(s, now) - preMs) ELSE <<>>
           new == Emptied(s, now, FALSE, now)
<1>1. pre \in Seq(Points)
  <2>1. Elapsed(s, now) - preMs \in Int
    BY DEF Elapsed, Stores
  <2> QED  BY <2>1, LivePartType, Empty
<1>2. Begin(s, preMs, now) = IF pre = <<>> THEN AppendCurrent(new, now, FALSE) ELSE ReachBack(s, pre, preMs, now)
  BY DEF Begin
<1> HIDE DEF pre
<1>3. pre # <<>> => ReachBack(s, pre, preMs, now).series # <<>>
  <2> SUFFICES ASSUME pre # <<>> PROVE ReachBack(s, pre, preMs, now).series # <<>>
    OBVIOUS
  <2> DEFINE reaching == Reaching(s, pre, preMs, now)
             back     == Back(s, pre, preMs, now)
             with     == AppendLivePart(reaching, pre, s.t0, now)
             marks    == with.marks \cup {[t |-> back, trigger |-> TRUE]}
  <2>1. reaching \in Stores /\ reaching.series = <<>> /\ s.t0 \in Int
    <3>1. s.t0 \in Int
      BY DEF Stores
    <3> QED  BY <1>1, <3>1, ReachingIs
  <2>2. ReachBack(s, pre, preMs, now) = [with EXCEPT !.marks = marks]
    BY <1>1, ReachingIs
  <2> HIDE DEF reaching
  <2>3. with \in Stores /\ with.series # <<>>
    BY <1>1, <2>1, AppendLivePartType, WithPartHolds
  <2> HIDE DEF with, marks
  <2> QED  BY <2>2, <2>3 DEF Stores
<1>4. new \in Stores /\ new.series = <<>>
  <2>1. FALSE \in BOOLEAN
    OBVIOUS
  <2> QED  BY <2>1, EmptiedGrounded
<1> HIDE DEF new
<1>5. Waiting(AppendCurrent(new, now, FALSE), now)
  BY <1>4, AppendCurrentWaits
<1>6. pre # <<>> => Waiting(ReachBack(s, pre, preMs, now), now)
  BY <1>3 DEF Waiting
<1> QED  BY <1>2, <1>5, <1>6

\* Another meter's start is no late point of the recording it replaces: what is shown came before that start.
LEMMA StartAtEnds ==
  ASSUME NEW s \in Stores, NEW t0 \in Int, NEW now \in Int, Waiting(s, now)
  PROVE  Waiting(StartAt(s, t0, now), now) /\ Ends(s, StartAt(s, t0, now))
<1> DEFINE since == IF s.state = "Live" THEN LivePart(s, t0 - s.t0) ELSE <<>>
           new   == Emptied(s, t0, TRUE, now)
           x     == StartAt(s, t0, now)
           shown == AppendCurrent(new, now, TRUE)
<1>1. s.t0 \in Int /\ s.reading.t \in Int /\ s.length \in Nat /\ s.preUsed \in Nat
  BY DEF Stores
<1>2. since \in Seq(Points)
  <2>1. t0 - s.t0 \in Int
    BY <1>1
  <2> QED  BY <2>1, LivePartType, Empty
<1>3. x = IF Len(since) > 1 THEN AppendLivePart(new, since, s.t0, now) ELSE shown
  BY DEF StartAt
<1>4. s.state # "Live" => Len(since) = 0
  BY EmptySeq
<1>5. new \in Stores /\ new.series = <<>> /\ new.t0 = t0 /\ new.reading = s.reading
  <2>1. TRUE \in BOOLEAN
    OBVIOUS
  <2>2. /\ new.state = "Record" /\ new.t0 = t0 /\ new.series = <<>> /\ new.reading = s.reading
        /\ new.fromFile = FALSE /\ new.dirty = FALSE /\ new.port = Nothing
    BY <2>1, EmptiedFrame, Zenon
  <2>3. new \in Stores
    BY <2>1, EmptiedType
  <2> QED  BY <2>2, <2>3
<1>6. x.t0 = t0
  BY StartAtMode
<1> HIDE DEF since, new, x
<1>7. Waiting(x, now)
  <2>1. CASE Len(since) > 1
    <3>1. since # <<>>
      BY <1>2, <2>1, EmptySeq
    <3>2. AppendLivePart(new, since, s.t0, now).series # <<>>
      BY <1>1, <1>2, <1>5, <3>1, WithPartHolds
    <3> QED  BY <1>3, <2>1, <3>2 DEF Waiting
  <2>2. CASE ~(Len(since) > 1)
    <3>1. Waiting(shown, now)
      BY <1>5, AppendCurrentWaits
    <3>2. x = shown
      BY <1>3, <2>2
    <3> QED  BY <3>1, <3>2
  <2> QED  BY <2>1, <2>2
<1>8. Ends(s, x)
  <2> SUFFICES ASSUME s.state = "Record", s.length > 0, Len(x.series) > Len(s.series), x.t0 = s.t0
               PROVE  Newest(x.series).t < Limit(s)
    BY DEF Ends
  <2>1. x = shown
    BY <1>3, <1>4
  <2>2. Len(s.series) \in Nat /\ s.series \in Seq(Points)
    BY LenProperties DEF Stores
  <2>3. \/ shown = new /\ (new.reading.t < 0 \/ now - new.reading.t > StaleAfter)
        \/ /\ ~(new.reading.t < 0 \/ now - new.reading.t > StaleAfter)
           /\ shown.series # <<>> /\ Len(shown.series) <= 1
           /\ Newest(shown.series).t <= Later(0, new.reading.t - new.t0)
    BY <1>5, AppendCurrentIs
  <2> HIDE DEF shown
  <2>4. shown # new
    <3>1. Len(new.series) = 0
      BY <1>5, EmptySeq
    <3> QED  BY <2>1, <2>2, <3>1
  <2>5. /\ ~(s.reading.t < 0 \/ now - s.reading.t > StaleAfter) /\ Len(x.series) <= 1
        /\ Newest(x.series).t <= Later(0, s.reading.t - s.t0)
    BY <1>5, <1>6, <2>1, <2>3, <2>4
  <2>6. x.series \in Seq(Points) /\ x.series # <<>>
    <3>1. x \in Stores
      BY StartAtType DEF x
    <3> QED  BY <2>1, <2>3, <2>4, <3>1 DEF Stores
  <2>7. s.series = <<>>
    <3>1. Len(x.series) \in Nat
      BY <2>6, LenProperties
    <3> QED  BY <2>2, <2>5, <3>1, EmptySeq
  <2>8. s.reading.t <= s.t0
    BY <2>5, <2>7 DEF Waiting
  <2>9. Later(0, s.reading.t - s.t0) = 0
    BY <1>1, <2>8 DEF Later
  <2>10. Newest(x.series).t \in Nat
    <3>1. Newest(x.series) \in Points
      BY <2>6, NewestIsPoint
    <3> QED  BY <3>1 DEF Points
  <2>11. Limit(s) \in Nat /\ Limit(s) > 0
    BY <1>1 DEF Limit
  <2> QED  BY <2>5, <2>9, <2>10, <2>11
<1> QED  BY <1>7, <1>8 DEF x

\* What the meter and the clock leave of a recording.
InTime(s, x, t) == Waiting(x, t) /\ Ends(s, x)

LEMMA InTimeOver ==
  ASSUME NEW s, NEW x, NEW t, x.state # "Record"
  PROVE  InTime(s, x, t)
BY DEF InTime, Waiting, Ends

LEMMA InTimeSame ==
  ASSUME NEW s \in Stores, NEW x, NEW t, Waiting(s, t), x.state = s.state \/ x.state # "Record", x.series = s.series,
         x.t0 = s.t0, x.reading = s.reading
  PROVE  InTime(s, x, t)
<1>1. Ends(s, x)
  BY EndsSame
<1>2. Waiting(x, t)
  BY DEF Waiting
<1> QED  BY <1>1, <1>2 DEF InTime

\* Where nothing is recorded, all that can go wrong is a start that misses what is shown.
LEMMA InTimeNew ==
  ASSUME NEW s, NEW x, NEW t, s.state # "Record", Waiting(x, t)
  PROVE  InTime(s, x, t)
BY DEF InTime, Ends

LEMMA SetStaleInTime ==
  ASSUME NEW s \in Stores, NEW now \in Int, Waiting(s, now)
  PROVE  InTime(s, SetStale(s, now), now)
<1>1. CASE s.state = "View" \/ s.series = <<>> \/ Newest(s.series).v = Gap
  <2>1. SetStale(s, now) = s
    BY <1>1 DEF SetStale
  <2> QED  BY <2>1, InTimeSame
<1>2. CASE ~(s.state = "View" \/ s.series = <<>> \/ Newest(s.series).v = Gap)
  <2> DEFINE last == Newest(s.series)
             t    == Sooner(last.t + StaleAfter, Later(last.t, Elapsed(s, now)))
             p    == [t |-> t, v |-> Gap, f |-> Nothing, at |-> s.t0 + t, own |-> TRUE]
             x    == Keep(s, p, now)
  <2>1. SetStale(s, now) = x
    BY <1>2 DEF SetStale
  <2>2. last.t \in Nat /\ s.t0 \in Int
    <3>1. last \in Points
      BY <1>2, NewestIsPoint DEF Stores
    <3> QED  BY <3>1 DEF Points, Stores
  <2>3. t \in Nat
    BY <2>2, StoreAssumption DEF Later, Sooner, Elapsed
  <2>4. Gap \in Int /\ Nothing \in Words
    BY DEF Gap, Words
  <2> HIDE DEF t
  <2>5. p \in Points /\ p.v = Gap
    BY <2>2, <2>3, <2>4 DEF Points
  <2> HIDE DEF p
  <2>6. x.series # <<>> /\ Newest(x.series) = Placed(s, p) /\ Placed(s, p).v = Gap
    BY <2>5, KeepNewest, PlacedType
  <2> HIDE DEF x
  <2>7. Waiting(x, now) /\ Ends(s, x)
    BY <2>6 DEF Waiting, Ends, Valued
  <2> QED  BY <2>1, <2>7 DEF InTime
<1> QED  BY <1>1, <1>2

LEMMA PollInTime ==
  ASSUME NEW s \in Stores, NEW startTime \in Int, NEW now \in Int, Waiting(s, now)
  PROVE  InTime(s, Poll(s, startTime, now), now)
<1> DEFINE starts  == s.state = "Live" /\ s.mode = "Time" /\ now - startTime \in {0, 1}
           started == IF starts THEN Begin(s, 0, now) ELSE s
           x       == Poll(s, startTime, now)
<1>1. started \in Stores
  BY BeginType
<1>2. x = IF LengthReached(started, Elapsed(started, now)) THEN EndAtLength(started, now) ELSE started
  BY DEF Poll
<1>3. InTime(s, started, now)
  <2>1. CASE starts
    <3>1. Waiting(Begin(s, 0, now), now)
      BY BeginWaits
    <3> QED  BY <2>1, <3>1, InTimeNew
  <2>2. CASE ~starts
    BY <2>2, InTimeSame
  <2> QED  BY <2>1, <2>2
<1> HIDE DEF started, starts, x
<1>4. InTime(s, EndAtLength(started, now), now)
  <2>1. EndAtLength(started, now).state # "Record"
    BY <1>1, EndAtLengthMode
  <2> QED  BY <2>1, InTimeOver
<1> QED  BY <1>2, <1>3, <1>4 DEF x

LEMMA TriggerWaits ==
  ASSUME NEW s \in Stores, NEW v \in Int, NEW now \in Int, s.state = "Live"
  PROVE  Waiting(Trigger(s, v, now), now)
<1> DEFINE begun == Begin(s, s.pre, now)
           x     == [begun EXCEPT !.last = v]
<1>1. begun \in Stores /\ Waiting(begun, now)
  <2>1. s.pre \in Nat
    BY DEF Stores
  <2> QED  BY <2>1, BeginType, BeginWaits
<1>2. Trigger(s, v, now) \in {begun, x, s, [s EXCEPT !.last = v]}
  BY DEF Trigger
<1> HIDE DEF begun
<1>3. x.state = begun.state /\ x.series = begun.series /\ x.t0 = begun.t0 /\ x.reading = begun.reading
  BY <1>1 DEF Stores
<1> HIDE DEF x
<1>4. Waiting(x, now)
  BY <1>1, <1>3 DEF Waiting
<1>5. [s EXCEPT !.last = v].state = "Live"
  BY DEF Stores
<1> QED  BY <1>1, <1>2, <1>4, <1>5 DEF Waiting

LEMMA TakeInTime ==
  ASSUME NEW s \in Stores, NEW r \in Told, NEW now \in Int, Sound(s, now), s.state # "View"
  PROVE  InTime(s, Take(s, r, now), now)
<1> DEFINE base  == FromFirstReading(s, now)
           point == PointNow(base, r, now)
           kept  == Keep(base, point, now)
<1>1. /\ base \in Stores /\ base.state = s.state /\ base.series = s.series /\ base.length = s.length
      /\ base.preUsed = s.preUsed /\ base.fromFile = s.fromFile
      /\ base = s \/ base.t0 # s.t0
  BY FromFirstReadingIs
<1>2. Sound(base, now) /\ ~base.fromFile
  <2>1. Sound(base, now)
    BY FromFirstReadingGoes DEF Goes
  <2> QED  BY <1>1, <2>1 DEF Sound
<1>3. Take(s, r, now) = IF s.state = "Live" THEN Trigger(kept, r.v, now)
                        ELSE IF LengthReached(base, point.t) THEN EndAtLength(base, now) ELSE kept
  BY TakeIs
<1> HIDE DEF base
<1>4. Newest(kept.series).t = point.t
  BY <1>1, <1>2, KeepNow
<1>5. point \in Points
  BY <1>1, <1>2, PointNowIs
<1> HIDE DEF point
<1>6. kept \in Stores /\ kept.series # <<>> /\ Framed(base, kept)
  BY <1>1, <1>5, KeepType, KeepNewest, KeepFramed
<1> HIDE DEF kept
<1>7. kept.state = s.state /\ kept.t0 = base.t0
  BY <1>1, <1>6 DEF Framed
<1>8. CASE s.state = "Live"
  <2>1. r.v \in Int
    BY DEF Told
  <2>2. Waiting(Trigger(kept, r.v, now), now)
    BY <1>6, <1>7, <1>8, <2>1, TriggerWaits
  <2> QED  BY <1>3, <1>8, <2>2, InTimeNew
<1>9. CASE s.state # "Live" /\ LengthReached(base, point.t)
  <2>1. EndAtLength(base, now).state # "Record"
    BY <1>1, EndAtLengthMode
  <2> QED  BY <1>3, <1>9, <2>1, InTimeOver
<1>10. CASE s.state # "Live" /\ ~LengthReached(base, point.t)
  <2>1. Take(s, r, now) = kept
    BY <1>3, <1>10
  <2>2. Waiting(kept, now)
    BY <1>6 DEF Waiting
  <2>3. Ends(s, kept)
    <3> SUFFICES ASSUME s.state = "Record", s.length > 0 PROVE Newest(kept.series).t < Limit(s)
      BY DEF Ends
    <3>1. ~(point.t >= Limit(base))
      BY <1>1, <1>10 DEF LengthReached
    <3>2. Limit(base) = Limit(s)
      BY <1>1 DEF Limit
    <3>3. s.length \in Nat /\ s.preUsed \in Nat
      BY DEF Stores
    <3>4. Limit(s) \in Int
      BY <3>3 DEF Limit
    <3>5. point.t \in Int
      BY <1>5 DEF Points
    <3> QED  BY <1>4, <3>1, <3>2, <3>4, <3>5
  <2> QED  BY <2>1, <2>2, <2>3 DEF InTime
<1> QED  BY <1>8, <1>9, <1>10

LEMMA InTimeBefore ==
  ASSUME NEW s, NEW b, NEW x, NEW t, InTime(b, x, t), b.state = s.state, b.series = s.series, b.t0 = s.t0,
         b.length = s.length, b.preUsed = s.preUsed
  PROVE  InTime(s, x, t)
BY EndsBefore DEF InTime

LEMMA SetReadingInTime ==
  ASSUME NEW s \in Stores, NEW r \in Told, NEW now \in Int, Sound(s, now)
  PROVE  InTime(s, SetReading(s, r, now), now)
<1> DEFINE reading == [t |-> now, v |-> r.v, f |-> r.f]
           shown   == [s EXCEPT !.reading = reading]
           other   == [shown EXCEPT !.port = r.f]
           cleared == Clear(shown, now)
           empty   == [cleared EXCEPT !.last = Gap]
           anew    == [empty EXCEPT !.port = r.f]
<1>1. r.f \in Words /\ r.v \in Int /\ Gap \in Int
  BY DEF Told, Words, Gap
<1>2. reading \in [t : Int, v : Int, f : Words] /\ reading.t = now
  BY <1>1
<1>3. SetReading(s, r, now) =
        IF s.state = "View" THEN shown
        ELSE IF ~Says(r) \/ r.f = s.port THEN Take(shown, r, now)
        ELSE IF s.port = Nothing THEN Take(other, r, now)
        ELSE IF s.state = "Record" THEN Stop(shown, now)
        ELSE Take(anew, r, now)
  BY DEF SetReading, Anew
<1> HIDE DEF reading
<1>4. /\ shown \in Stores /\ shown.state = s.state /\ shown.series = s.series /\ shown.t0 = s.t0
      /\ shown.length = s.length /\ shown.preUsed = s.preUsed
      /\ shown.fromFile = s.fromFile /\ shown.reading.t = now
  BY <1>2 DEF Stores
<1> HIDE DEF shown
<1>5. /\ other \in Stores /\ other.state = s.state /\ other.series = s.series /\ other.t0 = s.t0
      /\ other.length = s.length /\ other.preUsed = s.preUsed
      /\ other.fromFile = s.fromFile /\ other.reading.t = now
  BY <1>1, <1>4 DEF Stores
<1> HIDE DEF other
<1>6. Sound(shown, now) /\ Sound(other, now)
  BY <1>4, <1>5 DEF Sound
<1>7. s.state # "View" => InTime(s, Take(shown, r, now), now)
  <2>1. s.state # "View" => InTime(shown, Take(shown, r, now), now)
    BY <1>4, <1>6, TakeInTime
  <2> QED  BY <1>4, <2>1, InTimeBefore
<1>8. s.state # "View" => InTime(s, Take(other, r, now), now)
  <2>1. s.state # "View" => InTime(other, Take(other, r, now), now)
    BY <1>5, <1>6, TakeInTime
  <2> QED  BY <1>5, <2>1, InTimeBefore
<1>9. s.state = "Live" => InTime(s, Take(anew, r, now), now)
  <2> SUFFICES ASSUME s.state = "Live" PROVE InTime(s, Take(anew, r, now), now)
    OBVIOUS
  <2>1. cleared \in Stores /\ cleared.state = "Live" /\ cleared.t0 = now /\ cleared.series = <<>>
        /\ cleared.reading = shown.reading /\ cleared.fromFile = FALSE
    BY <1>4, ClearType, ClearFrame
  <2> HIDE DEF cleared
  <2>2. empty \in Stores /\ empty.state = "Live" /\ empty.t0 = now /\ empty.series = <<>>
        /\ empty.reading = shown.reading /\ empty.fromFile = FALSE
    BY <1>1, <2>1 DEF Stores
  <2> HIDE DEF empty
  <2>3. anew \in Stores /\ anew.state = "Live" /\ anew.t0 = now /\ anew.series = <<>>
        /\ anew.reading = shown.reading /\ anew.fromFile = FALSE
    BY <1>1, <2>2 DEF Stores
  <2> HIDE DEF anew
  <2>4. Sound(anew, now)
    BY <1>4, <2>3, ProperEmpty DEF Sound
  <2>5. InTime(anew, Take(anew, r, now), now)
    BY <2>3, <2>4, TakeInTime
  <2> QED  BY <2>5, InTimeNew DEF InTime
<1>10. s.state = "View" => InTime(s, shown, now)
  BY <1>4, InTimeOver
<1>11. InTime(s, Stop(shown, now), now)
  <2>1. Stop(shown, now).state # "Record"
    BY <1>4, StopMode
  <2> QED  BY <2>1, InTimeOver
<1>12. s.state \in {"View", "Live", "Record"}
  BY DEF Stores
<1> QED  BY <1>3, <1>7, <1>8, <1>9, <1>10, <1>11, <1>12

LEMMA PublishInTime ==
  ASSUME NEW s \in Stores, NEW unit \in Words, NEW r \in Told, NEW now \in Int, Sound(s, now)
  PROVE  InTime(s, Publish(s, unit, r, now), now)
<1>1. PICK base \in Stores : /\ Publish(s, unit, r, now) = SetReading(base, r, now) /\ Sound(base, now)
                             /\ Framed(s, base) /\ base.series = s.series
  BY PublishIs
<1>2. InTime(base, SetReading(base, r, now), now)
  BY <1>1, SetReadingInTime
<1> QED  BY <1>1, <1>2, InTimeBefore DEF Framed

\* What the user does: a recording goes on as it was, ends, or begins with what is shown.
LEMMA ClearInTime ==
  ASSUME NEW s \in Stores, NEW now \in Int, Sound(s, now)
  PROVE  InTime(s, Clear(s, now), now)
<1> DEFINE x == Clear(s, now)
<1>1. x.t0 = now /\ x.series = <<>> /\ x.reading = s.reading
  BY ClearFrame
<1> HIDE DEF x
<1>2. s.reading.t <= now
  BY DEF Sound
<1>3. Waiting(x, now)
  BY <1>1, <1>2 DEF Waiting
<1>4. Ends(s, x)
  <2>1. Len(s.series) \in Nat /\ Len(x.series) = 0
    BY <1>1, EmptySeq, LenProperties DEF Stores
  <2> QED  BY <2>1 DEF Ends
<1> QED  BY <1>3, <1>4 DEF InTime, x

LEMMA ApplySetupInTime ==
  ASSUME NEW s \in Stores, NEW setup, setup.length \in Nat, setup.pre \in Nat, setup.mode \in Modes, NEW now \in Int,
         Waiting(s, now)
  PROVE  InTime(s, ApplySetup(s, setup, now), now)
<1> DEFINE x      == ApplySetup(s, setup, now)
           longer == [s EXCEPT !.length = setup.length]
           back   == [longer EXCEPT !.pre = setup.pre]
<1>1. x.state = s.state
  BY ApplySetupMode
<1>2. CASE s.state # "Record"
  BY <1>1, <1>2, InTimeOver
<1>3. CASE s.state = "Record"
  <2>1. x = [back EXCEPT !.mode = setup.mode]
    BY <1>3 DEF ApplySetup
  <2>2. longer \in Stores /\ longer.series = s.series /\ longer.t0 = s.t0 /\ longer.reading = s.reading
    BY DEF Stores
  <2> HIDE DEF longer, x
  <2>3. back \in Stores /\ back.series = s.series /\ back.t0 = s.t0 /\ back.reading = s.reading
    BY <2>2 DEF Stores
  <2> HIDE DEF back
  <2>4. x.series = s.series /\ x.t0 = s.t0 /\ x.reading = s.reading
    BY <2>1, <2>3 DEF Stores
  <2>5. InTime(s, x, now)
    BY <1>1, <2>4, InTimeSame DEF x
  <2> QED  BY <2>5 DEF x
<1> QED  BY <1>2, <1>3

\* What a step that starts no recording by a threshold keeps of both ends; what one that does keeps.
Bounded(s, x, t) == InTime(s, x, t) /\ (s.state = "Live" => Marked(s, x, t))

LEMMA BoundedElse ==
  ASSUME NEW s, NEW x, NEW t, InTime(s, x, t), s.state # "Live" \/ x.state # "Record" \/ x.preUsed = 0
  PROVE  Bounded(s, x, t)
BY DEF Bounded, Marked, AtMark
===============================================================================
