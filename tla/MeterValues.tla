----------------------------- MODULE MeterValues -----------------------------
(***************************************************************************)
(* What a meter's controller keeps of its readings (MeterController::      *)
(* publish in service/metercontroller.cpp): the min/max memories           *)
(* (core/minmaxmemory.h), the limit test with its sound (core/limittest,   *)
(* ui/alarmservice.cpp), the age of the main value (core/stalerule.h) -    *)
(* and a view that follows one of the values (service/valuefeed.cpp).      *)
(*                                                                         *)
(* One unit of time is one second; intervals are kept in whole ms.         *)
(***************************************************************************)
EXTENDS Integers, Sequences, FiniteSets

CONSTANTS
  Channels,    \* what a decoder makes of a value: [id, value, text, shown, quantity, hold]
  Tests,       \* limit tests the user may set up: [enabled, id, low, high, repeat]
  Ids,         \* values of the meter, 0 is the main one
  Gaps,        \* how long time may pass at once
  MaxReadings, \* readings until the end (bounds the state space)
  MaxRequests  \* what user, connection and session do until the end (bounds it, too)

ASSUME ValuesAssumption ==
  /\ 0 \in Ids /\ Gaps \subseteq Nat \ {0} /\ {MaxReadings, MaxRequests} \subseteq Nat
  /\ \A c \in Channels : /\ c.id \in Ids /\ c.value \in Int /\ c.hold \in BOOLEAN
                         /\ c.text \in {"number", "letters", "damaged", "empty"}
                         /\ c.shown \in {"Valid", "NoValue", "Fault"}
  /\ \A t \in Tests : t.id \in Ids /\ t.enabled \in BOOLEAN /\ t.repeat \in SUBSET {"Pass", "High", "Low"}

VARIABLES
  wanted, link, open,   \* MeterLink
  opened,               \* the session has the meter
  known,                \* ids with a reading (m_lastReadings)
  minMaxId,             \* m_minMaxId: the value the display's memory follows
  minMax,               \* m_minMax
  valueMinMax,          \* m_valueMinMax
  mainKey,              \* ReadingAdapter::m_mainKey
  test, verdict,        \* m_limitTest, m_verdict
  told,                 \* AlarmService: the verdict it was told last
  sounding,             \* the verdict whose sound repeats, NoVerdict for none
  age,                  \* seconds since the last main value, -1 for none since the connection began
  interval, gapBefore,  \* StaleRule::m_interval in ms, m_gapBefore
  staleShown,           \* m_staleShown
  viewId, heard,        \* ValueFeed: the value it follows, m_heard
  came,                 \* auxiliary: ids that came since the link was Connecting last
  gaps,                 \* auxiliary: the last two gaps between main values, newest first
  readings, requests    \* bounds: readings and other steps so far

linkVars  == <<wanted, link, open, opened>>
limitVars == <<test, verdict, told, sounding>>
rhythm    == <<age, interval, gapBefore>>
feedVars  == <<viewId, heard, came>>
vars == <<linkVars, known, minMaxId, minMax, valueMinMax, mainKey, limitVars, rhythm, staleShown, feedVars, gaps, readings, requests>>

Link == INSTANCE MeterLink

NoVerdict == "NoVerdict"
Nothing   == "unknown"  \* Quantity::Unknown

-----------------------------------------------------------------------------
(* ReadingAdapter::adaptValue: quality and port of a value. *)

Quality(c) ==
  CASE c.shown # "Valid"    -> c.shown
    [] c.shown = "Valid" /\ c.text = "letters" -> "Overload"
    [] c.shown = "Valid" /\ c.text = "damaged" -> "NoValue"
    [] OTHER -> "Valid"

\* A second display that shows the quantity of the main one is a slot of its own.
Port(c, main) == [quantity |-> c.quantity, slot |-> IF c.id # 0 /\ c.quantity = main THEN c.id ELSE 0]

HasNumber(c) == Quality(c) = "Valid"

\* An empty second value: the meter's secondary display is off.
IsOff(c) == c.id > 0 /\ c.text = "empty"

-----------------------------------------------------------------------------
(* MinMaxMemory *)

NoPort == [quantity |-> Nothing, slot |-> 0]
Empty  == [lo |-> 99, hi |-> -99, port |-> NoPort, count |-> 0, of |-> {}, ids |-> {}]

SaysFunction(c) == HasNumber(c) /\ c.quantity # Nothing

\* A slip: the memory goes on with the readings of another function.
FedOn(mm, c, p) ==
  LET number == HasNumber(c)
  IN [lo |-> IF number /\ c.value < mm.lo THEN c.value ELSE mm.lo,
      hi |-> IF number /\ c.value > mm.hi THEN c.value ELSE mm.hi,
      port |-> IF SaysFunction(c) THEN p ELSE mm.port,
      count |-> IF number THEN mm.count + 1 ELSE mm.count,
      of |-> IF SaysFunction(c) THEN mm.of \cup {p} ELSE mm.of,
      ids |-> mm.ids \cup {c.id}]

\* feed: afresh when the port changes; "of" and "ids" keep which ports and values it has taken.
Fed(mm, c, p) ==
  LET anew   == SaysFunction(c) /\ mm.port # NoPort /\ mm.port # p
      was    == IF anew THEN Empty ELSE mm
      number == HasNumber(c)
  IN [lo |-> IF number /\ c.value < was.lo THEN c.value ELSE was.lo,
      hi |-> IF number /\ c.value > was.hi THEN c.value ELSE was.hi,
      port |-> IF SaysFunction(c) THEN p ELSE was.port,
      count |-> IF number THEN was.count + 1 ELSE was.count,
      of |-> IF SaysFunction(c) THEN was.of \cup {p} ELSE was.of,
      ids |-> was.ids \cup {c.id}]

-----------------------------------------------------------------------------
(* LimitTest::judge, and the sound of the verdict. *)

Judge(t, c) ==
  CASE Quality(c) = "Overload" -> IF c.value < 0 THEN "Low" ELSE "High"  \* the sign of "-OL"
    [] Quality(c) \in {"NoValue", "Fault"} -> NoVerdict
    [] OTHER -> IF c.value > t.high THEN "High" ELSE IF c.value < t.low THEN "Low" ELSE "Pass"

\* AlarmService::limitJudged: the old verdict's sound stops, the new one's starts.
Judged(v) ==
  /\ verdict' = v
  /\ told' = v
  /\ sounding' = IF v = told THEN sounding ELSE IF v \in test.repeat THEN v ELSE NoVerdict

\* A slip: the views are not told that the verdict has gone.
JudgedQuietly == verdict' = NoVerdict /\ UNCHANGED <<told, sounding>>

\* connectMeter() of a meter that is not open then.
Unjudged == IF verdict # NoVerdict THEN Judged(NoVerdict) ELSE UNCHANGED <<verdict, told, sounding>>

-----------------------------------------------------------------------------
(* StaleRule *)

MaxAge == LET bound(ms) == IF ms < 1000 THEN 1000 ELSE IF ms > 30000 THEN 30000 ELSE ms
          IN IF interval <= 0 THEN 3000 ELSE bound(3 * interval)

IsStale == age < 0 \/ 1000 * age > MaxAge

\* The last two gaps; readings within a second of each other leave none.
NextGaps == IF age <= 0 THEN gaps ELSE IF gaps = <<>> THEN <<age>> ELSE <<age, Head(gaps)>>

\* A slip: a gap beyond the limit never counts.
ArrivedPatient ==
  /\ age' = 0
  /\ gaps' = NextGaps
  /\ UNCHANGED gapBefore
  /\ interval' = IF age <= 0 \/ IsStale THEN interval
                 ELSE IF interval > 0 THEN (4 * interval + 1000 * age) \div 5 ELSE 1000 * age

\* arrived: a gap beyond the limit is an outage, two in a row are the rhythm.
Arrived ==
  /\ age' = 0
  /\ gaps' = NextGaps
  /\ IF age <= 0 THEN UNCHANGED <<interval, gapBefore>>
     ELSE IF ~IsStale
     THEN interval' = (IF interval > 0 THEN (4 * interval + 1000 * age) \div 5 ELSE 1000 * age) /\ gapBefore' = FALSE
     ELSE interval' = (IF gapBefore THEN 1000 * age ELSE interval) /\ gapBefore' = ~gapBefore

-----------------------------------------------------------------------------
(* ValueFeed *)

HasValueNow(id) == id \in known /\ link = "Connected"

Init ==
  /\ Link!Init /\ opened = FALSE /\ known = {}
  /\ minMaxId = 0 /\ minMax = Empty /\ valueMinMax = [i \in Ids |-> Empty] /\ mainKey = Nothing
  /\ test = [enabled |-> FALSE, id |-> 0, low |-> 0, high |-> 0, repeat |-> {}]
  /\ verdict = NoVerdict /\ told = NoVerdict /\ sounding = NoVerdict
  /\ age = -1 /\ interval = 0 /\ gapBefore = FALSE /\ staleShown = FALSE
  /\ viewId \in Ids /\ heard = FALSE /\ came = {}
  /\ gaps = <<>> /\ readings = 0 /\ requests = 0

Request == requests < MaxRequests /\ requests' = requests + 1

\* connectMeter() begins with StaleRule::reset.
RhythmForgotten == age' = -1 /\ interval' = 0 /\ gapBefore' = FALSE /\ gaps' = <<>>

\* A slip: what was heard on the connection of before stands.
StillHeard == came' = {} /\ UNCHANGED heard

\* linkStateChanged(Connecting): nothing of the value has come yet.
NothingHeard == heard' = FALSE /\ came' = {}

\* DeviceSession opens the meter: a controller of its own, connected; the view finds it.
OpenMeter ==
  /\ Request /\ ~opened /\ opened' = TRUE /\ Link!Open
  /\ known' = {} /\ minMaxId' = 0 /\ minMax' = Empty /\ valueMinMax' = [i \in Ids |-> Empty] /\ mainKey' = Nothing
  /\ test' = [test EXCEPT !.enabled = FALSE] /\ verdict' = NoVerdict /\ told' = NoVerdict /\ sounding' = NoVerdict
  /\ RhythmForgotten /\ staleShown' = FALSE
  /\ NothingHeard
  /\ UNCHANGED <<viewId, readings>>

\* It closes the meter: the view has no value.
CloseMeter ==
  /\ Request /\ opened /\ opened' = FALSE /\ Link!Close
  /\ NothingHeard
  /\ RhythmForgotten /\ Unjudged
  /\ UNCHANGED <<known, minMaxId, minMax, valueMinMax, mainKey, test, staleShown, viewId, readings>>

\* connectMeter() of a meter the session has.
ConnectMeter(on) ==
  /\ Request /\ opened
  /\ RhythmForgotten
  /\ IF on THEN Link!Open /\ NothingHeard /\ UNCHANGED <<verdict, told, sounding>>
           ELSE Link!Close /\ Unjudged /\ UNCHANGED <<heard, came>>
  /\ UNCHANGED <<opened, known, minMaxId, minMax, valueMinMax, mainKey, test, staleShown, viewId, readings>>

\* publish(), for a value of a frame.
Publish(c) ==
  LET main == IF c.id = 0 THEN c.quantity ELSE mainKey
      p    == Port(c, main)
  IN /\ Link!Frame /\ UNCHANGED opened
     /\ readings < MaxReadings /\ readings' = readings + 1
     /\ mainKey' = main
     /\ heard' = (heard \/ (c.id = viewId /\ Quality(c) # "NoValue"))
     /\ came' = IF Quality(c) # "NoValue" THEN came \cup {c.id} ELSE came
     /\ IF IsOff(c)
        THEN UNCHANGED <<known, minMax, valueMinMax, verdict, told, sounding, rhythm, gaps>>
        ELSE /\ known' = known \cup {c.id}
             /\ valueMinMax' = IF c.hold THEN valueMinMax ELSE [valueMinMax EXCEPT ![c.id] = Fed(@, c, p)]
             /\ minMax' = IF c.hold \/ c.id # minMaxId THEN minMax ELSE Fed(minMax, c, p)
             /\ IF test.enabled /\ test.id = c.id THEN Judged(Judge(test, c)) ELSE UNCHANGED <<verdict, told, sounding>>
             /\ IF c.id = 0 THEN Arrived ELSE UNCHANGED <<rhythm, gaps>>
     /\ UNCHANGED <<minMaxId, test, staleShown, viewId, requests>>

\* timerEvent: the change of age is told.
TimerEvent ==
  /\ opened /\ staleShown # IsStale /\ staleShown' = IsStale
  /\ UNCHANGED <<linkVars, known, minMaxId, minMax, valueMinMax, mainKey, limitVars, rhythm, feedVars, gaps, readings, requests>>

SetMinMaxValue(id) ==
  /\ Request /\ opened /\ id # minMaxId /\ minMaxId' = id /\ minMax' = Empty
  /\ UNCHANGED <<linkVars, known, valueMinMax, mainKey, limitVars, rhythm, staleShown, feedVars, gaps, readings>>

ResetMinMax ==
  /\ Request /\ opened /\ minMax' = Empty /\ valueMinMax' = [i \in Ids |-> Empty]
  /\ UNCHANGED <<linkVars, known, minMaxId, mainKey, limitVars, rhythm, staleShown, feedVars, gaps, readings>>

\* setLimitTest: told before the verdict is reset, so the sound of the old one stops.
SetLimitTest(t) ==
  /\ Request /\ opened /\ test' = t
  /\ verdict' = NoVerdict /\ told' = NoVerdict /\ sounding' = NoVerdict
  /\ UNCHANGED <<linkVars, known, minMaxId, minMax, valueMinMax, mainKey, rhythm, staleShown, feedVars, gaps, readings>>

\* The view is given another value of the meter.
SetValue(id) ==
  /\ Request /\ id # viewId /\ viewId' = id
  /\ heard' = (opened /\ HasValueNow(id))
  /\ UNCHANGED <<linkVars, known, minMaxId, minMax, valueMinMax, mainKey, limitVars, rhythm, staleShown, came, gaps, readings>>

\* The connection by itself: silence, loss, reopening.
LinkMoves ==
  /\ Request /\ opened
  /\ \/ Link!Silence /\ link # "Timeout" /\ UNCHANGED <<heard, came>>
     \/ Link!Lose /\ UNCHANGED <<heard, came>>
     \/ Link!Reopen /\ NothingHeard
  /\ UNCHANGED <<opened, known, minMaxId, minMax, valueMinMax, mainKey, limitVars, rhythm, staleShown, viewId, gaps, readings>>

Pass(d) ==
  /\ age = 0 /\ age' = age + d
  /\ UNCHANGED <<linkVars, known, minMaxId, minMax, valueMinMax, mainKey, limitVars, interval, gapBefore, staleShown,
                 feedVars, gaps, readings, requests>>

Next ==
  \/ OpenMeter \/ CloseMeter \/ (\E on \in BOOLEAN : ConnectMeter(on)) \/ LinkMoves
  \/ (\E c \in Channels : Publish(c)) \/ TimerEvent \/ (\E d \in Gaps : Pass(d))
  \/ (\E id \in Ids : SetMinMaxValue(id) \/ SetValue(id)) \/ ResetMinMax \/ (\E t \in Tests : SetLimitTest(t))

Spec == Init /\ [][Next]_vars

-----------------------------------------------------------------------------
Memories == {minMax} \cup {valueMinMax[i] : i \in Ids}

TypeOK ==
  /\ link \in Link!Up \cup {"Closed", "Error"} /\ wanted \in BOOLEAN /\ open \in BOOLEAN /\ opened \in BOOLEAN
  /\ known \subseteq Ids /\ came \subseteq Ids /\ minMaxId \in Ids /\ viewId \in Ids /\ heard \in BOOLEAN
  /\ \A mm \in Memories : mm.count \in Nat /\ Cardinality(mm.of) \in Nat
  /\ {verdict, told, sounding} \subseteq {"Pass", "High", "Low", NoVerdict}
  /\ interval \in Nat /\ age \in Int /\ gapBefore \in BOOLEAN /\ staleShown \in BOOLEAN

\* The extremes shown are of one function and one value: a dial turned through overload, hold and readings of unknown
\* quantity never leaves an extreme of the function before, nor does another value the memory is told to follow.
ExtremesAreOfOnePort ==
  /\ TypeOK
  /\ \A mm \in Memories : Cardinality(mm.of) <= 1
  /\ minMax.ids \subseteq {minMaxId} /\ \A i \in Ids : valueMinMax[i].ids \subseteq {i}

\* The sound that repeats belongs to the verdict that stands, and a meter that is not connected has none
\* (metercontroller.h: "or has no verdict (off, disconnected, no number)").
SoundFitsVerdict == told = verdict /\ sounding \in {NoVerdict, verdict} /\ (~wanted => verdict = NoVerdict)

\* A meter that keeps a rhythm is not stale between its readings (stalerule.h: "Two such gaps in a row are the rhythm
\* after all"), whatever outages and faster times came before; no limit is below one second or above thirty.
RhythmIsLearned ==
  /\ MaxAge \in 1000..30000
  /\ Len(gaps) = 2 /\ gaps[1] = gaps[2] /\ gaps[1] <= 30 => 1000 * gaps[1] <= MaxAge

\* A view that says that it waits while nothing of its value came since the meter was connected goes on telling the
\* truth as long as it keeps its value (valuefeed.h: "What stands instead of the value while none of it came in since the
\* meter was connected") - through silence, losses, reconnections, second values that are off and sessions closed.
NoticeStaysTrue ==
  [][opened' /\ viewId' = viewId /\ (heard <=> viewId \in came) => (heard' <=> viewId \in came')]_vars
=============================================================================
