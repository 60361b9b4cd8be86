-------------------------- MODULE MeterValuesProofs --------------------------
(***************************************************************************)
(* What MeterValues keeps for every set of values a decoder can make,      *)
(* every limit test and every length of time.                              *)
(***************************************************************************)
EXTENDS MeterValues, TLAPS, FiniteSetTheorems

-----------------------------------------------------------------------------
(* The memories (MinMaxMemory::feed). *)

\* What a memory of the values S keeps: extremes of the one function its port names, of none before it has one.
Pure(mm, S) ==
  /\ mm.count \in Nat /\ mm.ids \subseteq S
  /\ mm.of = IF mm.port = NoPort THEN {} ELSE {mm.port}

LEMMA EmptyIsPure == ASSUME NEW S PROVE Pure(Empty, S)
BY DEF Pure, Empty

\* feed() keeps to one function: a reading of another one begins afresh, one that says none adds none.
LEMMA FedIsPure ==
  ASSUME NEW mm, NEW S, Pure(mm, S), NEW c, c.id \in S, NEW main
  PROVE  Pure(Fed(mm, c, Port(c, main)), S)
<1> DEFINE p   == Port(c, main)
           was == IF SaysFunction(c) /\ mm.port # NoPort /\ mm.port # p THEN Empty ELSE mm
<1>1. Pure(was, S)
  BY EmptyIsPure
<1>2. SaysFunction(c) => p # NoPort
  BY DEF SaysFunction, Port, NoPort
<1>3. SaysFunction(c) => was.port \in {NoPort, p}
  BY DEF Empty
<1>4. /\ Fed(mm, c, p).count \in {was.count, was.count + 1}
      /\ Fed(mm, c, p).ids = was.ids \cup {c.id}
      /\ Fed(mm, c, p).port = IF SaysFunction(c) THEN p ELSE was.port
      /\ Fed(mm, c, p).of = IF SaysFunction(c) THEN was.of \cup {p} ELSE was.of
  BY DEF Fed
<1>5. Fed(mm, c, p).count \in Nat /\ Fed(mm, c, p).ids \subseteq S
  <2> HIDE DEF p, was
  <2> QED
    BY <1>1, <1>4 DEF Pure
<1>6. Fed(mm, c, p).of = IF Fed(mm, c, p).port = NoPort THEN {} ELSE {Fed(mm, c, p).port}
  <2> HIDE DEF p, was
  <2> QED
    BY <1>1, <1>2, <1>3, <1>4 DEF Pure
<1> QED
  BY <1>5, <1>6 DEF Pure

-----------------------------------------------------------------------------
(* The types of what the values go through. *)

LEMMA QualityTyped ==
  ASSUME NEW c \in Channels
  PROVE  Quality(c) \in {"Valid", "Overload", "NoValue", "Fault"}
BY ValuesAssumption DEF Quality

LEMMA JudgeTyped ==
  ASSUME NEW t, NEW c
  PROVE  Judge(t, c) \in {"Pass", "High", "Low", NoVerdict}
BY DEF Judge

\* Connection, choices and memories.
ValuesTyped ==
  /\ link \in Link!Up \cup {"Closed", "Error"} /\ wanted \in BOOLEAN /\ open \in BOOLEAN /\ opened \in BOOLEAN
  /\ known \subseteq Ids /\ came \subseteq Ids /\ minMaxId \in Ids /\ viewId \in Ids /\ heard \in BOOLEAN
  /\ staleShown \in BOOLEAN

LEMMA ValuesTypedInit == Init => ValuesTyped
BY ValuesAssumption DEF Init, ValuesTyped, Link!Init

LEMMA ValuesTypedNext == ValuesTyped /\ [Next]_vars => ValuesTyped'
<1> SUFFICES ASSUME ValuesTyped, [Next]_vars PROVE ValuesTyped'
  OBVIOUS
<1> USE DEF ValuesTyped
<1>1. CASE OpenMeter
  BY <1>1, ValuesAssumption DEF OpenMeter, Link!Open, Link!Up, NothingHeard
<1>2. CASE CloseMeter
  BY <1>2 DEF CloseMeter, Link!Close, NothingHeard
<1>3. ASSUME NEW on \in BOOLEAN, ConnectMeter(on) PROVE ValuesTyped'
  BY <1>3 DEF ConnectMeter, Link!Open, Link!Close, Link!Up, NothingHeard
<1>4. ASSUME NEW c \in Channels, Publish(c) PROVE ValuesTyped'
  <2>1. c.id \in Ids
    BY ValuesAssumption
  <2> QED
    BY <1>4, <2>1 DEF Publish, Link!Frame, Link!Up
<1>5. CASE LinkMoves
  BY <1>5 DEF LinkMoves, Link!Silence, Link!Lose, Link!Reopen, Link!Up, NothingHeard
<1>6. CASE TimerEvent
  BY <1>6 DEF TimerEvent, linkVars, feedVars, IsStale
<1>7. ASSUME NEW d \in Gaps, Pass(d) PROVE ValuesTyped'
  BY <1>7 DEF Pass, linkVars, feedVars
<1>8. ASSUME NEW id \in Ids, SetMinMaxValue(id) \/ SetValue(id) PROVE ValuesTyped'
  BY <1>8 DEF SetMinMaxValue, SetValue, HasValueNow, linkVars, feedVars
<1>9. CASE ResetMinMax
  BY <1>9 DEF ResetMinMax, linkVars, feedVars
<1>10. ASSUME NEW t \in Tests, SetLimitTest(t) PROVE ValuesTyped'
  BY <1>10 DEF SetLimitTest, linkVars, feedVars
<1>11. CASE UNCHANGED vars
  BY <1>11 DEF vars, linkVars, feedVars
<1> QED
  BY <1>1, <1>2, <1>3, <1>4, <1>5, <1>6, <1>7, <1>8, <1>9, <1>10, <1>11 DEF Next

-----------------------------------------------------------------------------
(* The memories hold what their invariant says. *)

MemoriesInv ==
  /\ minMaxId \in Ids /\ Pure(minMax, {minMaxId})
  /\ valueMinMax = [i \in Ids |-> valueMinMax[i]] /\ \A i \in Ids : Pure(valueMinMax[i], {i})

LEMMA MemoriesInvInit == Init => MemoriesInv
BY EmptyIsPure, ValuesAssumption DEF Init, MemoriesInv

LEMMA MemoriesInvNext == MemoriesInv /\ [Next]_vars => MemoriesInv'
<1> SUFFICES ASSUME MemoriesInv, [Next]_vars PROVE MemoriesInv'
  OBVIOUS
<1>1. CASE OpenMeter
  BY <1>1, EmptyIsPure, ValuesAssumption DEF OpenMeter, MemoriesInv
<1>2. ASSUME NEW c \in Channels, Publish(c) PROVE MemoriesInv'
  <2> DEFINE p == Port(c, IF c.id = 0 THEN c.quantity ELSE mainKey)
  <2>1. c.id \in Ids
    BY ValuesAssumption
  <2>2. minMaxId' = minMaxId
    BY <1>2 DEF Publish
  <2>3. \/ minMax' = minMax
        \/ c.id = minMaxId /\ minMax' = Fed(minMax, c, p)
    BY <1>2 DEF Publish
  <2>4. \/ valueMinMax' = valueMinMax
        \/ valueMinMax' = [valueMinMax EXCEPT ![c.id] = Fed(@, c, p)]
    BY <1>2 DEF Publish
  <2>5. Pure(minMax', {minMaxId})
    BY <2>3, FedIsPure DEF MemoriesInv
  <2>6. Pure(Fed(valueMinMax[c.id], c, p), {c.id})
    BY <2>1, FedIsPure DEF MemoriesInv
  <2> HIDE DEF p
  <2>7. \A i \in Ids : Pure(valueMinMax'[i], {i})
    BY <2>1, <2>4, <2>6 DEF MemoriesInv
  <2>8. valueMinMax' = [i \in Ids |-> valueMinMax'[i]]
    BY <2>1, <2>4 DEF MemoriesInv
  <2> QED
    BY <2>2, <2>5, <2>7, <2>8 DEF MemoriesInv
<1>3. ASSUME NEW id \in Ids, SetMinMaxValue(id) PROVE MemoriesInv'
  BY <1>3, EmptyIsPure DEF SetMinMaxValue, MemoriesInv
<1>4. CASE ResetMinMax
  BY <1>4, EmptyIsPure DEF ResetMinMax, MemoriesInv
<1>5. CASE UNCHANGED <<minMaxId, minMax, valueMinMax>>
  BY <1>5 DEF MemoriesInv
<1> QED
  <2>1. \/ OpenMeter \/ (\E c \in Channels : Publish(c)) \/ (\E id \in Ids : SetMinMaxValue(id)) \/ ResetMinMax
        \/ UNCHANGED <<minMaxId, minMax, valueMinMax>>
    BY DEF Next, vars, CloseMeter, ConnectMeter, LinkMoves, TimerEvent, Pass, SetValue, SetLimitTest
  <2> QED
    BY <1>1, <1>2, <1>3, <1>4, <1>5, <2>1

-----------------------------------------------------------------------------
(* The limit test: what AlarmService was told, and what it plays. *)

SoundInv ==
  /\ {verdict, told, sounding} \subseteq {"Pass", "High", "Low", NoVerdict}
  /\ SoundFitsVerdict
  /\ open => wanted

LEMMA JudgedSounds ==
  ASSUME SoundInv, NEW v \in {"Pass", "High", "Low", NoVerdict}, Judged(v)
  PROVE  /\ {verdict', told', sounding'} \subseteq {"Pass", "High", "Low", NoVerdict}
         /\ verdict' = v /\ told' = v /\ sounding' \in {NoVerdict, v}
BY DEF SoundInv, SoundFitsVerdict, Judged

LEMMA UnjudgedIsSilent ==
  ASSUME SoundInv, Unjudged
  PROVE  verdict' = NoVerdict /\ told' = NoVerdict /\ sounding' = NoVerdict
BY JudgedSounds DEF Unjudged, SoundInv, SoundFitsVerdict

LEMMA SoundInvInit == Init => SoundInv
BY DEF Init, Link!Init, SoundInv, SoundFitsVerdict

LEMMA SoundInvNext == SoundInv /\ [Next]_vars => SoundInv'
<1> SUFFICES ASSUME SoundInv, [Next]_vars PROVE SoundInv'
  OBVIOUS
<1>1. CASE OpenMeter
  BY <1>1 DEF OpenMeter, Link!Open, SoundInv, SoundFitsVerdict
<1>2. CASE CloseMeter
  BY <1>2, UnjudgedIsSilent DEF CloseMeter, Link!Close, SoundInv, SoundFitsVerdict
<1>3. ASSUME NEW on \in BOOLEAN, ConnectMeter(on) PROVE SoundInv'
  <2>1. CASE on
    BY <1>3, <2>1 DEF ConnectMeter, Link!Open, SoundInv, SoundFitsVerdict
  <2>2. CASE ~on
    BY <1>3, <2>2, UnjudgedIsSilent DEF ConnectMeter, Link!Close, SoundInv, SoundFitsVerdict
  <2> QED
    BY <2>1, <2>2
<1>4. ASSUME NEW c \in Channels, Publish(c) PROVE SoundInv'
  <2>1. wanted /\ wanted' /\ open'
    BY <1>4 DEF Publish, Link!Frame, SoundInv
  <2>2. \/ Judged(Judge(test, c))
        \/ UNCHANGED <<verdict, told, sounding>>
    BY <1>4 DEF Publish
  <2>3. CASE Judged(Judge(test, c))
    BY <2>1, <2>3, JudgeTyped, JudgedSounds DEF SoundInv, SoundFitsVerdict
  <2>4. CASE UNCHANGED <<verdict, told, sounding>>
    BY <2>1, <2>4 DEF SoundInv, SoundFitsVerdict
  <2> QED
    BY <2>2, <2>3, <2>4
<1>5. CASE LinkMoves
  BY <1>5 DEF LinkMoves, limitVars, Link!Silence, Link!Lose, Link!Reopen, SoundInv, SoundFitsVerdict
<1>6. ASSUME NEW t \in Tests, SetLimitTest(t) PROVE SoundInv'
  BY <1>6 DEF SetLimitTest, linkVars, SoundInv, SoundFitsVerdict
<1>7. CASE UNCHANGED <<wanted, open, verdict, told, sounding>>
  BY <1>7 DEF SoundInv, SoundFitsVerdict
<1> QED
  <2>1. \/ OpenMeter \/ CloseMeter \/ (\E on \in BOOLEAN : ConnectMeter(on)) \/ (\E c \in Channels : Publish(c))
        \/ LinkMoves \/ (\E t \in Tests : SetLimitTest(t)) \/ UNCHANGED <<wanted, open, verdict, told, sounding>>
    BY DEF Next, vars, linkVars, limitVars, TimerEvent, Pass, SetMinMaxValue, SetValue, ResetMinMax
  <2> QED
    BY <1>1, <1>2, <1>3, <1>4, <1>5, <1>6, <1>7, <2>1

\* The sound that repeats belongs to the verdict that stands, and a meter that is not connected has none
\* (AlarmService::limitJudged, MeterController::connectMeter).
THEOREM SoundsFitVerdicts == Spec => []SoundFitsVerdict
<1>1. SoundInv => SoundFitsVerdict
  BY DEF SoundInv
<1> QED
  BY <1>1, SoundInvInit, SoundInvNext, PTL DEF Spec

-----------------------------------------------------------------------------
(* The rhythm of a meter (StaleRule::arrived). *)

\* A gap within the limit; one beyond half a minute has none that fits it.
Fits(gap) == 1000 * gap <= MaxAge \/ (gap > 30 /\ MaxAge = 30000)

RhythmTyped ==
  /\ age \in Int /\ age >= -1 /\ interval \in Nat
  /\ gaps \in Seq(Nat \ {0}) /\ Len(gaps) <= 2

\* The last gap fits, or the next one like it is the rhythm (m_gapBefore).
LastFits == Len(gaps) > 0 /\ ~gapBefore => Fits(gaps[1])

\* A gap that does not fit is another one than the gap before it, which did.
NewsAreNew == gapBefore => ~(Len(gaps) = 2 /\ gaps[1] = gaps[2] /\ gaps[1] <= 30)

RhythmInv == RhythmTyped /\ gapBefore \in BOOLEAN /\ LastFits /\ NewsAreNew

LEMMA MaxAgeIsBounded == ASSUME interval \in Nat PROVE MaxAge \in 1000..30000
BY DEF MaxAge

\* The average of a gap that fits and the interval of before allows the gap again.
LEMMA AverageFits ==
  ASSUME NEW g \in Nat \ {0}, interval \in Nat \ {0}, 1000 * g <= MaxAge, interval' = (4 * interval + 1000 * g) \div 5
  PROVE  interval' \in Nat /\ Fits(g)'
<1>1. 5 * interval' <= 4 * interval + 1000 * g /\ 4 * interval + 1000 * g < 5 * interval' + 5 /\ interval' \in Nat
  OBVIOUS
<1>2. interval' >= 200
  BY <1>1
<1>3. CASE g = 1
  BY <1>2, <1>3, <1>1 DEF MaxAge, Fits
<1>4. CASE g > 1
  <2>1. 1000 * g <= 3 * interval /\ g <= 30
    BY <1>4 DEF MaxAge
  <2>2. 1000 * g <= 3 * interval'
    BY <1>1, <2>1
  <2> QED
    BY <1>1, <2>1, <2>2 DEF MaxAge, Fits
<1> QED
  BY <1>3, <1>4

\* A gap that is taken for the rhythm allows itself.
LEMMA NewRhythmFits ==
  ASSUME NEW g \in Nat \ {0}, interval' = 1000 * g
  PROVE  interval' \in Nat /\ Fits(g)'
BY DEF MaxAge, Fits

LEMMA RhythmInvInit == Init => RhythmInv
<1> SUFFICES ASSUME Init PROVE RhythmInv
  OBVIOUS
<1>1. gaps = <<>> /\ age = -1 /\ interval = 0
  BY DEF Init
<1>2. gapBefore \in BOOLEAN /\ ~gapBefore
  BY DEF Init
<1>3. Len(gaps) = 0
  BY <1>1
<1>4. RhythmTyped
  BY <1>1, <1>3 DEF RhythmTyped
<1> QED
  BY <1>2, <1>3, <1>4 DEF RhythmInv, LastFits, NewsAreNew

\* A main value after one second or more.
LEMMA ArrivedKeepsRhythm ==
  ASSUME RhythmInv, Arrived, age > 0
  PROVE  RhythmInv'
<1>1. PICK g \in Nat \ {0} : g = age
  BY DEF RhythmInv, RhythmTyped
<1>2. age' = 0 /\ interval \in Nat /\ ~(g <= 0) /\ ~(age <= 0) /\ MaxAge \in 1000..30000
  BY <1>1, MaxAgeIsBounded DEF RhythmInv, RhythmTyped, Arrived
<1>3. \/ gaps = <<>> /\ gaps' = <<g>>
      \/ Len(gaps) > 0 /\ gaps[1] \in Nat \ {0} /\ gaps' = <<g, gaps[1]>>
  <2>1. CASE gaps = <<>>
    BY <1>1, <1>2, <2>1 DEF Arrived, NextGaps
  <2>2. CASE gaps # <<>>
    <3>1. gaps \in Seq(Nat \ {0})
      BY DEF RhythmInv, RhythmTyped
    <3>2. Len(gaps) > 0 /\ gaps[1] \in Nat \ {0} /\ Head(gaps) = gaps[1]
      BY <2>2, <3>1
    <3> QED
      BY <1>1, <1>2, <2>2, <3>2 DEF Arrived, NextGaps
  <2> QED
    BY <2>1, <2>2
<1>4. gaps' \in Seq(Nat \ {0}) /\ Len(gaps') > 0 /\ Len(gaps') <= 2 /\ gaps'[1] = g
  <2>1. CASE gaps' = <<g>>
    BY <2>1
  <2>2. CASE gaps[1] \in Nat \ {0} /\ gaps' = <<g, gaps[1]>>
    BY <2>2
  <2> QED
    BY <1>3, <2>1, <2>2
<1>5. Len(gaps') = 2 => Len(gaps) > 0 /\ gaps'[2] = gaps[1]
  BY <1>3
<1>6. interval' \in Nat => RhythmTyped'
  <2>1. age' \in Int /\ age' >= -1
    BY <1>2
  <2>2. gaps' \in Seq(Nat \ {0}) /\ Len(gaps') <= 2
    BY <1>4
  <2> QED
    BY <2>1, <2>2 DEF RhythmTyped
<1>7. Fits(g)' => Fits(gaps[1])'
  BY <1>4 DEF Fits
<1>8. CASE ~IsStale
  <2>1. gapBefore' = FALSE
    BY <1>2, <1>8 DEF Arrived
  <2>2. interval' = IF interval > 0 THEN (4 * interval + 1000 * g) \div 5 ELSE 1000 * g
    BY <1>1, <1>2, <1>8 DEF Arrived
  <2>3. 1000 * g <= MaxAge
    BY <1>1, <1>2, <1>8 DEF IsStale
  <2>4. interval' \in Nat /\ Fits(g)'
    <3>1. CASE interval > 0
      BY <1>2, <2>2, <2>3, <3>1, AverageFits
    <3>2. CASE interval = 0
      BY <2>2, <3>2, NewRhythmFits
    <3> QED
      BY <1>2, <3>1, <3>2
  <2> QED
    BY <1>6, <1>7, <2>1, <2>4 DEF RhythmInv, LastFits, NewsAreNew
<1>9. CASE IsStale /\ gapBefore
  <2>1. interval' = 1000 * g
    BY <1>1, <1>2, <1>9 DEF Arrived
  <2>2. gapBefore' = ~gapBefore
    BY <1>2, <1>9 DEF Arrived
  <2>3. interval' \in Nat /\ Fits(g)'
    BY <2>1, NewRhythmFits
  <2> QED
    BY <1>6, <1>7, <1>9, <2>2, <2>3 DEF RhythmInv, LastFits, NewsAreNew
<1>10. CASE IsStale /\ ~gapBefore
  <2>1. interval' = interval
    BY <1>2, <1>10 DEF Arrived
  <2>2. gapBefore' = ~gapBefore
    BY <1>2, <1>10 DEF Arrived
  <2>3. 1000 * g > MaxAge
    BY <1>1, <1>2, <1>10 DEF IsStale
  <2>4. Len(gaps) > 0 => Fits(gaps[1])
    BY <1>10 DEF RhythmInv, LastFits
  <2>5. ~(Len(gaps') = 2 /\ gaps'[1] = gaps'[2] /\ gaps'[1] <= 30)
    BY <1>2, <1>4, <1>5, <2>3, <2>4 DEF Fits
  <2>6. RhythmTyped'
    BY <1>2, <1>6, <2>1
  <2> QED
    BY <1>10, <2>2, <2>5, <2>6 DEF RhythmInv, LastFits, NewsAreNew
<1> QED
  BY <1>8, <1>9, <1>10 DEF RhythmInv

LEMMA RhythmInvNext == RhythmInv /\ [Next]_vars => RhythmInv'
<1> SUFFICES ASSUME RhythmInv, [Next]_vars PROVE RhythmInv'
  OBVIOUS
<1>1. CASE RhythmForgotten
  <2>1. gaps' = <<>> /\ age' = -1 /\ interval' = 0
    BY <1>1 DEF RhythmForgotten
  <2>2. gapBefore' \in BOOLEAN /\ ~gapBefore'
    BY <1>1 DEF RhythmForgotten
  <2>3. Len(gaps') = 0
    BY <2>1
  <2>4. RhythmTyped'
    BY <2>1, <2>3 DEF RhythmTyped
  <2> QED
    BY <2>2, <2>3, <2>4 DEF RhythmInv, LastFits, NewsAreNew
<1>2. ASSUME UNCHANGED <<interval, gapBefore, gaps>>, age' \in Int, age' >= -1 PROVE RhythmInv'
  BY <1>2 DEF RhythmInv, RhythmTyped, LastFits, NewsAreNew, Fits, MaxAge
<1>3. CASE Arrived
  <2>1. CASE age > 0
    BY <1>3, <2>1, ArrivedKeepsRhythm
  <2>2. CASE ~(age > 0)
    BY <1>2, <1>3, <2>2 DEF Arrived, NextGaps, RhythmInv, RhythmTyped
  <2> QED
    BY <2>1, <2>2
<1>4. ASSUME NEW d \in Gaps, Pass(d) PROVE RhythmInv'
  BY <1>2, <1>4, ValuesAssumption DEF Pass
<1>5. CASE UNCHANGED <<rhythm, gaps>>
  BY <1>2, <1>5 DEF rhythm, RhythmInv, RhythmTyped
<1> QED
  <2>1. \/ RhythmForgotten \/ Arrived \/ (\E d \in Gaps : Pass(d)) \/ UNCHANGED <<rhythm, gaps>>
    BY DEF Next, vars, OpenMeter, CloseMeter, ConnectMeter, Publish, LinkMoves, TimerEvent, SetMinMaxValue, SetValue,
           ResetMinMax, SetLimitTest
  <2> QED
    BY <1>1, <1>3, <1>4, <1>5, <2>1

\* A meter that keeps a rhythm of up to half a minute is not stale between its readings, whatever outages and faster
\* times came before (StaleRule::arrived: "Two such gaps in a row are the rhythm after all").
THEOREM RhythmsAreLearned == Spec => []RhythmIsLearned
<1>1. RhythmInv => RhythmIsLearned
  <2> SUFFICES ASSUME RhythmInv PROVE RhythmIsLearned
    OBVIOUS
  <2>1. MaxAge \in 1000..30000
    BY MaxAgeIsBounded DEF RhythmInv, RhythmTyped
  <2>2. ASSUME Len(gaps) = 2, gaps[1] = gaps[2], gaps[1] <= 30 PROVE 1000 * gaps[1] <= MaxAge
    <3>1. gaps[1] \in Nat
      BY <2>2 DEF RhythmInv, RhythmTyped
    <3>2. ~gapBefore
      BY <2>2 DEF RhythmInv, NewsAreNew
    <3>3. Fits(gaps[1])
      BY <2>2, <3>2 DEF RhythmInv, LastFits
    <3> QED
      BY <2>2, <3>1, <3>3 DEF Fits
  <2> QED
    BY <2>1, <2>2 DEF RhythmIsLearned
<1> QED
  BY <1>1, RhythmInvInit, RhythmInvNext, PTL DEF Spec

-----------------------------------------------------------------------------
\* Every step of connection, readings, user and clock leaves the members in their ranges (MeterController, StaleRule,
\* MinMaxMemory, ValueFeed).
THEOREM TypeCorrect == Spec => []TypeOK
<1>1. MemoriesInv => \A mm \in Memories : mm.count \in Nat /\ Cardinality(mm.of) \in Nat
  <2> SUFFICES ASSUME MemoriesInv, NEW mm \in Memories PROVE mm.count \in Nat /\ Cardinality(mm.of) \in Nat
    OBVIOUS
  <2>1. PICK S : Pure(mm, S)
    BY DEF MemoriesInv, Memories
  <2>2. IsFiniteSet(mm.of)
    BY <2>1, FS_EmptySet, FS_Singleton DEF Pure
  <2> QED
    BY <2>1, <2>2, FS_CardinalityType DEF Pure
<1>2. ValuesTyped /\ MemoriesInv /\ SoundInv /\ RhythmInv => TypeOK
  BY <1>1 DEF ValuesTyped, SoundInv, RhythmInv, RhythmTyped, TypeOK
<1> QED
  BY <1>2, ValuesTypedInit, ValuesTypedNext, MemoriesInvInit, MemoriesInvNext, SoundInvInit, SoundInvNext, RhythmInvInit,
     RhythmInvNext, PTL DEF Spec

\* The extremes shown are of one function and one value (MinMaxMemory::feed, MeterController::setMinMaxValue): a dial
\* turned through overload, hold and readings of unknown quantity never leaves an extreme of the function before.
THEOREM ExtremesAreOfOneFunction == Spec => []ExtremesAreOfOnePort
<1>1. MemoriesInv => \A mm \in Memories : Cardinality(mm.of) <= 1
  <2> SUFFICES ASSUME MemoriesInv, NEW mm \in Memories PROVE Cardinality(mm.of) <= 1
    OBVIOUS
  <2>1. PICK S : Pure(mm, S)
    BY DEF MemoriesInv, Memories
  <2>2. mm.of = {} \/ \E p : mm.of = {p}
    BY <2>1 DEF Pure
  <2>3. CASE mm.of = {}
    BY <2>3, FS_EmptySet
  <2>4. ASSUME NEW p, mm.of = {p} PROVE Cardinality(mm.of) <= 1
    <3>1. Cardinality(mm.of) = 1
      BY <2>4, FS_Singleton
    <3> QED
      BY <3>1
  <2> QED
    BY <2>2, <2>3, <2>4
<1>2. TypeOK /\ MemoriesInv => ExtremesAreOfOnePort
  BY <1>1 DEF MemoriesInv, Pure, ExtremesAreOfOnePort
<1> QED
  BY <1>2, TypeCorrect, MemoriesInvInit, MemoriesInvNext, PTL DEF Spec

\* The notice of a view goes on telling the truth as long as the view keeps its value (ValueFeed).
THEOREM NoticesStayTrue == Spec => NoticeStaysTrue
<1> DEFINE Kept == opened' /\ viewId' = viewId /\ (heard <=> viewId \in came) => (heard' <=> viewId \in came')
<1>1. ValuesTyped /\ [Next]_vars => [Kept]_vars
  <2> SUFFICES ASSUME ValuesTyped, [Next]_vars, opened', viewId' = viewId, heard <=> viewId \in came
               PROVE  heard' <=> viewId \in came'
    OBVIOUS
  <2>1. CASE NothingHeard
    BY <2>1 DEF NothingHeard
  <2>2. ASSUME NEW c \in Channels, Publish(c) PROVE heard' <=> viewId \in came'
    BY <2>2 DEF Publish
  <2>3. CASE UNCHANGED <<heard, came>>
    BY <2>3
  <2>4. \/ NothingHeard \/ (\E c \in Channels : Publish(c)) \/ UNCHANGED <<heard, came>>
    BY DEF Next, vars, feedVars, OpenMeter, CloseMeter, ConnectMeter, LinkMoves, TimerEvent, Pass, SetMinMaxValue, SetValue,
           ResetMinMax, SetLimitTest
  <2> QED
    BY <2>1, <2>2, <2>3, <2>4
<1>2. ValuesTyped /\ [Next]_vars /\ ValuesTyped' => [Kept]_vars
  BY <1>1
<1> QED
  BY <1>2, ValuesTypedInit, ValuesTypedNext, PTL DEF Spec, NoticeStaysTrue
=============================================================================
