---------------------------- MODULE RecordingStore ----------------------------
(***************************************************************************)
(* One recorder (recording/recordingstore.cpp) with the meter that feeds   *)
(* it, the clock and its user: the live window running through, recordings *)
(* started by hand, by the clock or by a threshold, recordings that end by *)
(* hand, at their length or because the meter measures something else,     *)
(* files loaded and saved.  The operations are in StoreOps.                *)
(***************************************************************************)
EXTENDS StoreOps

CONSTANTS
  Readings,    \* what the meter may show
  Setups,      \* what the Recording page may say: [length, pre, mode]
  Files,       \* recordings that can be loaded: [unit, series]
  Starts,      \* how far back the start of a recording may lie that another meter leads
  StartTime,   \* m_startTime, of StartMode Time
  MaxTime,     \* a bound on the clock
  MaxUses      \* a bound on what the user does

ASSUME RecordingAssumption ==
  /\ Readings \subseteq Told
  /\ \A u \in Setups : u.length \in Nat /\ u.pre \in Nat /\ u.mode \in Modes
  /\ \A file \in Files : file.unit \in Words /\ file.series \in Seq(Points)
  /\ Starts \subseteq Nat /\ StartTime \in Nat /\ MaxTime \in Nat /\ MaxUses \in Nat

VARIABLES
  store,   \* the recorder
  unit,    \* MeterController::m_lastUnit: the unit told last
  now,     \* the monotonic clock and the wall clock
  saved,   \* the recording as it was last written to a file, or loaded from one; <<>> in Live, no recording
  uses     \* how often the user did something

vars == <<store, unit, now, saved, uses>>

NewStore(setup) ==
  [state |-> "View", t0 |-> 0, series |-> <<>>, port |-> Nothing, stopT |-> -1, preUsed |-> 0, hold |-> FALSE,
   floor |-> 0, dirty |-> FALSE, marks |-> {}, last |-> Gap, reading |-> [t |-> -1, v |-> Gap, f |-> Nothing],
   length |-> setup.length, pre |-> setup.pre, mode |-> setup.mode,
   unit |-> Nothing, nextUnit |-> Nothing, pending |-> FALSE, fromFile |-> FALSE]

Init ==
  /\ \E setup \in Setups : store \in {NewStore(setup), GoLive(NewStore(setup), 0)}
  /\ unit = Nothing /\ now = 0 /\ saved = <<>> /\ uses = 0

-----------------------------------------------------------------------------
(* The meter, its silence, and the clock. *)

\* A meter sends at most one reading of a value per unit of time.
Reading(r) ==
  /\ store.reading.t < now
  /\ store' = Publish(store, unit, r, now) /\ unit' = r.f
  /\ UNCHANGED <<now, saved>>

\* staleChanged(true) when the last reading is older than the meter's rhythm allows.
GoesStale ==
  /\ store.reading.t >= 0 /\ now - store.reading.t > StaleAfter
  /\ store' = SetStale(store, now)
  /\ UNCHANGED <<unit, now, saved>>

\* An alarm's program takes the port: the recording goes on, no readings while the program runs.
ProgramTakesPort ==
  /\ store' = SetStale(store, now)
  /\ UNCHANGED <<unit, now, saved>>

Clock ==
  /\ store' = Poll(store, StartTime, now)
  /\ UNCHANGED <<unit, now, saved>>

Tick ==
  /\ now < MaxTime /\ now' = now + 1
  /\ UNCHANGED <<store, unit, saved>>

ByItself ==
  /\ (\E r \in Readings : Reading(r)) \/ GoesStale \/ ProgramTakesPort \/ Clock \/ Tick
  /\ UNCHANGED uses

-----------------------------------------------------------------------------
(* The user. *)

\* Whatever clears the store discards what was saved of it, too.
Discarding(s) == store' = s /\ saved' = <<>> /\ UNCHANGED <<unit, now>>

Start   == store.state # "Record" /\ Discarding(Begin(store, 0, now))
Live    == Discarding(GoLive(store, now))
ClearIt == Discarding(Clear(store, now))

\* The meter that leads started back ago: by its pre-trigger, or before this one was opened.
StartWith(back) == back <= now /\ Discarding(StartAt(store, now - back, now))

StopIt ==
  /\ store.state = "Record" /\ store' = Stop(store, now)
  /\ UNCHANGED <<unit, now, saved>>

Mark ==
  /\ store.marks = {}
  /\ LET t == IF store.state # "View" THEN Elapsed(store, now)
              ELSE IF store.series = <<>> THEN 0 ELSE Newest(store.series).t
     IN  store' = [store EXCEPT !.marks = {[t |-> t, trigger |-> FALSE]}]
  /\ UNCHANGED <<unit, now, saved>>

Write ==
  /\ store' = [store EXCEPT !.dirty = FALSE] /\ saved' = IF store.state = "Live" THEN <<>> ELSE store.series
  /\ UNCHANGED <<unit, now>>

LoadFile(file) ==
  /\ store' = Load(store, file) /\ saved' = file.series
  /\ UNCHANGED <<unit, now>>

\* forgetReading(): another meter.
Forget ==
  /\ store' = [store EXCEPT !.reading = [t |-> -1, v |-> Gap, f |-> Nothing]]
  /\ UNCHANGED <<unit, now, saved>>

Setup(setup) ==
  /\ store' = ApplySetup(store, setup, now)
  /\ UNCHANGED <<unit, now, saved>>

ByUser ==
  /\ uses < MaxUses /\ uses' = uses + 1
  /\ \/ Start \/ Live \/ ClearIt \/ StopIt \/ Mark \/ Write \/ Forget
     \/ \E back \in Starts : StartWith(back)
     \/ \E file \in Files : LoadFile(file)
     \/ \E setup \in Setups : Setup(setup)

Next == ByItself \/ ByUser

Spec == Init /\ [][Next]_vars

-----------------------------------------------------------------------------
TypeOK == store \in Stores /\ unit \in Words /\ now \in 0..MaxTime /\ saved \in Seq(Points) /\ uses \in 0..MaxUses

\* The times of a recording are true: a reading stands at the moment it came, whatever moved the start of the
\* recording (pre-trigger, another meter's start, the first reading); one that was taken along stands at the start.
TimesAreTrue ==
  ~store.fromFile => \A i \in DOMAIN store.series :
    LET p == store.series[i]
    IN  Valued(p) => store.t0 + p.t = p.at \/ (i = 1 /\ ~p.own /\ p.at < store.t0 + p.t)

\* What is not marked as unsaved (dirty()) is in the file it was written to or loaded from, to the last point:
\* the questions before a recording is replaced rest on it.
CleanIsSaved == store.state # "Live" /\ ~store.dirty => store.series = saved

\* Readings, silence and the clock take no point of a recording away, neither of one that runs nor of one that
\* stands: triggers start from Live only, and only the oldest go, when there are more than the most points.
MeterNeverDiscards ==
  (ByItself /\ store.state # "Live" =>
       LET old == store.series   new == store'.series
           kept == {k \in 0..Len(old) : k <= Len(new) /\ SubSeq(new, 1, k) = SubSeq(old, Len(old) - k + 1, Len(old))}
       IN  Len(old) \in kept \/ (store.state = "Record" /\ \E k \in kept : k >= MaxPoints - 1))

\* Another function ends the recording or starts the window anew: what came since the start is of one function
\* (recordingstore.h: "one recording never mixes two quantities or units").
OwnReadingsAreOfOneFunction ==
  \A i \in DOMAIN store.series :
    LET p == store.series[i] IN p.own /\ Valued(p) /\ p.f # Unknown /\ ~store.fromFile => p.f = store.port

\* The same for the readings that were taken along at the start.
OneFunction ==
  \A i, j \in DOMAIN store.series :
    LET p == store.series[i]   q == store.series[j]
    IN  Valued(p) /\ Valued(q) /\ Unknown \notin {p.f, q.f} => p.f = q.f

\* While Live runs through, what held at any moment of the part it keeps stays known: nothing younger goes, unless
\* there are more than the most points.
LiveKeepsItsPart ==
  (ByItself /\ store.state = "Live" /\ store'.state = "Live" /\ store'.t0 = store.t0 /\ store'.series # <<>> =>
       \A t \in Origin(store', now')..(Newest(store'.series).t - 1) :
         HoldsAt(store'.series, t) = HoldsAt(store.series, t) \/ Len(store'.series) = MaxPoints)

\* What the store calls its start is where its points start, and no mark lies before it.
StartsAtFloor ==
  store.floor > 0 /\ store.state # "Live" =>
    /\ store.series # <<>> /\ store.series[1].t = store.floor
    /\ \A m \in store.marks : m.t >= store.floor

\* A threshold starts a recording with the reading that crossed it at its mark: as far from the start as the
\* recording reaches back, no further than the pre-trigger, and nothing of that time is missing.
TriggerAtItsMark ==
  store.state = "Live" /\ store'.state = "Record" /\ store'.preUsed > 0 =>
    /\ [t |-> store'.preUsed, trigger |-> TRUE] \in store'.marks
    /\ Newest(store'.series).t = store'.preUsed /\ Newest(store'.series).at = now
    /\ store'.preUsed <= store.pre
    /\ store'.series[1].t = 0

\* Nothing is recorded after the recording length.
NothingAfterLength ==
  (store.state = "Record" /\ store'.state = "Record" /\ store.length > 0 /\ store' # store
       /\ Len(store'.series) > Len(store.series) /\ store'.t0 = store.t0
     => (Valued(Newest(store'.series)) => Newest(store'.series).t < Limit(store)))

\* What the meter and the clock do by themselves loses nothing that counts: of a recording, and of the live window.
NothingThatCountsIsLost == [][MeterNeverDiscards /\ LiveKeepsItsPart]_vars

\* A recording begins where its points begin and ends at its length.
RecordingHasItsBounds == [][StartsAtFloor' /\ TriggerAtItsMark /\ NothingAfterLength]_vars
=============================================================================
