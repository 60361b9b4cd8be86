----------------------------- MODULE DeviceSession -----------------------------
(***************************************************************************)
(* The meters of one process and the recording they share                  *)
(* (service/devicesession.cpp): the one that leads starts, stops and       *)
(* clears the others; a recording may be limited to the meters of a graph; *)
(* meters are opened and closed meanwhile; the window's Record button asks *)
(* in a dialog while all of that goes on.  Each meter's store is a record  *)
(* of StoreOps, its operations those of the store; units are left out.     *)
(***************************************************************************)
EXTENDS StoreOps, SequencesExt

CONSTANTS
  Meters,      \* the entries of "My devices"
  NoMeter, AnyMeter,
  Readings,    \* what a meter may show
  TheSetup,    \* the Recording page: [length, pre, mode]
  Triggers,    \* what may be chosen as the trigger value: a meter's, or AnyMeter (no source)
  LeadMoves,   \* whether, while a recording runs, the trigger value may become that of a meter which does not lead it
  StartTime, MaxTime,
  MaxUses      \* a bound on what the user does

ASSUME SessionAssumption ==
  /\ NoMeter \notin Meters /\ AnyMeter \notin Meters /\ NoMeter # AnyMeter
  /\ Triggers \subseteq Meters \cup {AnyMeter}
  /\ Readings \subseteq Told
  /\ TheSetup \in [length : Nat, pre : Nat, mode : Modes]
  /\ LeadMoves \in BOOLEAN /\ StartTime \in Nat /\ MaxTime \in Nat /\ MaxUses \in Nat

VARIABLES
  opened,     \* m_opened
  stores,     \* the recorder of each meter
  watch,      \* the meter its trigger value is of (m_triggerValue); NoMeter: none, AnyMeter: its own
  running,    \* m_running, the lead of the recording that runs
  scope,      \* m_scope; Meters: all
  nextScope,  \* m_nextScope
  trigger,    \* m_setup.trigger
  asking,     \* the meters the Record button's dialog stands open for; {}: no dialog
  now, uses

vars == <<opened, stores, watch, running, scope, nextScope, trigger, asking, now, uses>>

Open == Range(opened)

NewStore ==
  [state |-> "View", t0 |-> 0, series |-> <<>>, port |-> Nothing, stopT |-> -1, preUsed |-> 0, hold |-> FALSE,
   floor |-> 0, dirty |-> FALSE, marks |-> {}, last |-> Gap, reading |-> [t |-> -1, v |-> Gap, f |-> Nothing],
   length |-> 0, pre |-> 0, mode |-> "Manual",
   unit |-> Nothing, nextUnit |-> Nothing, pending |-> FALSE, fromFile |-> FALSE]

Init ==
  /\ opened = <<>> /\ stores = [m \in Meters |-> NewStore] /\ watch = [m \in Meters |-> AnyMeter]
  /\ running = NoMeter /\ scope = Meters /\ nextScope = Meters
  /\ trigger \in Triggers /\ asking = {} /\ now = 0 /\ uses = 0

-----------------------------------------------------------------------------
(* Who leads, and what the others do after it. *)

\* lead(), of a recording's lead, the meters open and the trigger value.
LeadOf(run, list, of) ==
  IF run # NoMeter THEN run
  ELSE IF of \in Range(list) THEN of ELSE IF list = <<>> THEN NoMeter ELSE list[1]

Lead == LeadOf(running, opened, trigger)

\* The recording's lead leads also when it has ended, with these meters open and this trigger value.
StaysLead(list, of) == LeadMoves \/ running = NoMeter \/ LeadOf(NoMeter, list, of) = running

\* What followLead() and its callers may change.
Now == [stores |-> stores, running |-> running, scope |-> scope, next |-> nextScope]

Become(s) == stores' = s.stores /\ running' = s.running /\ scope' = s.scope /\ nextScope' = s.next

\* followLead(Record): those in the scope start on its time base, which stays where it is.
RecordWith(s, m, list) ==
  LET with == (Range(list) \ {m}) \cap s.next
  IN  [stores  |-> [x \in Meters |->
                      IF x = m THEN [s.stores[m] EXCEPT !.hold = @ \/ with # {}]
                      ELSE IF x \in with THEN StartAt(s.stores[x], s.stores[m].t0, now) ELSE s.stores[x]],
       running |-> m, scope |-> s.next, next |-> Meters]

\* followLead(Live), followLead(View): all others with it.
LiveWith(s, m, list) ==
  [stores  |-> [x \in Meters |-> IF x \in Range(list) \ {m} THEN GoLive(s.stores[x], now) ELSE s.stores[x]],
   running |-> NoMeter, scope |-> Meters, next |-> s.next]

StopWith(s, m, list) ==
  [stores  |-> [x \in Meters |-> IF x \in Range(list) \ {m} THEN Stop(s.stores[x], now) ELSE s.stores[x]],
   running |-> NoMeter, scope |-> Meters, next |-> s.next]

\* The store of m becomes store; when m leads and its state changed, the others follow (watchRecording()).
Follow(s, m, store, list, lead) ==
  LET set == [s EXCEPT !.stores[m] = store]
  IN  IF m # lead \/ store.state = s.stores[m].state THEN set
      ELSE IF store.state = "Record" THEN RecordWith(set, m, list)
      ELSE IF store.state = "Live" THEN LiveWith(set, m, list) ELSE StopWith(set, m, list)

Changed(m, store) == Become(Follow(Now, m, store, opened, Lead))

\* setRecordingSetup() for one store: the lead has the start mode and the trigger value.
SetupOf(store, old, new, mode) ==
  [ApplySetup(store, [TheSetup EXCEPT !.mode = mode], now) EXCEPT !.last = IF old = new THEN @ ELSE Gap]

\* applySetup() on the meters of list, of is the trigger value: what it makes of the stores, and of watch.
SetUp(s, list, of) ==
  LET lead      == LeadOf(s.running, list, of)
      watches   == [m \in Meters |-> IF m \notin Range(list) THEN AnyMeter ELSE IF m = lead THEN of ELSE NoMeter]
      before(m) == IF m \in Open THEN watch[m] ELSE AnyMeter
  IN  [watch  |-> watches,
       stores |-> [m \in Meters |->
                     IF m \notin Range(list) THEN s.stores[m]
                     ELSE SetupOf(s.stores[m], before(m), watches[m], IF m = lead THEN TheSetup.mode ELSE "Manual")]]

-----------------------------------------------------------------------------
(* The meters and the clock. *)

\* Only the meter of its trigger value triggers a store.
Heard(m, r) ==
  LET s == stores[m]
  IN  IF watch[m] \in {AnyMeter, m} THEN SetReading(s, r, now)
      ELSE [SetReading([s EXCEPT !.mode = "Manual"], r, now) EXCEPT !.mode = s.mode, !.last = Gap]

Reading(m, r) == stores[m].reading.t < now /\ Changed(m, Heard(m, r))

GoesStale(m) ==
  /\ stores[m].reading.t >= 0 /\ now - stores[m].reading.t > StaleAfter
  /\ Changed(m, SetStale(stores[m], now))

Clock(m) == Changed(m, Poll(stores[m], StartTime, now))

ByMeters ==
  /\ \E m \in Open : (\E r \in Readings : Reading(m, r)) \/ GoesStale(m) \/ Clock(m)
  /\ UNCHANGED <<opened, watch, trigger, asking, now, uses>>

Tick ==
  /\ now < MaxTime /\ now' = now + 1
  /\ UNCHANGED <<opened, stores, watch, running, scope, nextScope, trigger, asking, uses>>

-----------------------------------------------------------------------------
(* The user, at the window or over SCPI. *)

\* The store of the lead becomes store, cleared while it recorded: those that record with it clear themselves, too
\* (each reads the clock anew, here within one unit of time).
ClearedWithIt(s, lead, store) ==
  [s EXCEPT !.stores = [x \in Meters |-> IF x = lead THEN store
                                         ELSE IF x \in Open /\ @[x].state = "Record" THEN Clear(@[x], now) ELSE @[x]]]

\* start() of the lead; one that records already starts afresh, which changes no state.
Started(s, lead) ==
  LET begun == Begin(s.stores[lead], 0, now)
  IN  IF s.stores[lead].state = "Record" THEN ClearedWithIt(s, lead, begun) ELSE Follow(s, lead, begun, opened, lead)

\* The Record button, and the graph's menu (with: the meters whose values it shows): the length is asked for.
PressRecord(with) ==
  /\ asking = {} /\ Lead # NoMeter /\ stores[Lead].state # "Record"
  /\ asking' = with /\ nextScope' = IF with = Meters THEN nextScope ELSE with
  /\ UNCHANGED <<opened, stores, watch, running, scope, trigger, now>>

\* The length entered: it goes to all meters, and the recording starts.
Accept ==
  /\ asking # {} /\ asking' = {}
  /\ LET set == SetUp(Now, opened, trigger)
         s   == [Now EXCEPT !.stores = set.stores]
     IN  /\ watch' = set.watch
         /\ \/ Lead = NoMeter /\ Become([s EXCEPT !.next = Meters])
            \/ Lead # NoMeter /\ Become(Started(s, Lead))
  /\ UNCHANGED <<opened, trigger, now>>

Cancel ==
  /\ asking # {} /\ asking' = {}
  /\ nextScope' = IF Lead # NoMeter /\ stores[Lead].state = "Record" THEN nextScope ELSE Meters
  /\ UNCHANGED <<opened, stores, watch, running, scope, trigger, now>>

LiveIt ==
  /\ asking = {} /\ Lead # NoMeter /\ stores[Lead].state = "View"
  /\ Changed(Lead, GoLive(stores[Lead], now))
  /\ UNCHANGED <<opened, watch, trigger, asking, now>>

ClearIt ==
  /\ asking = {} /\ Lead # NoMeter
  /\ \/ stores[Lead].state = "View" /\ Changed(Lead, GoLive(stores[Lead], now))
     \/ stores[Lead].state = "Live" /\ Changed(Lead, Clear(stores[Lead], now))
     \/ stores[Lead].state = "Record" /\ Become(ClearedWithIt(Now, Lead, Clear(stores[Lead], now)))
  /\ UNCHANGED <<opened, watch, trigger, asking, now>>

StopIt ==
  /\ Lead # NoMeter /\ stores[Lead].state = "Record"
  /\ Changed(Lead, Stop(stores[Lead], now))
  /\ UNCHANGED <<opened, watch, trigger, asking, now>>

\* onRecordingRequested: an alarm or a SCPI client starts the recording; nobody is asked.
RequestStart ==
  /\ Lead # NoMeter /\ stores[Lead].state # "Record" /\ ~(stores[Lead].state = "View" /\ stores[Lead].dirty)
  /\ Become(Started(Now, Lead))
  /\ UNCHANGED <<opened, watch, trigger, asking, now>>

\* The settings are applied, with another trigger value perhaps.
Choose(value) ==
  /\ asking = {} /\ trigger' = value /\ StaysLead(opened, value)
  /\ LET set == SetUp(Now, opened, value) IN watch' = set.watch /\ stores' = set.stores
  /\ UNCHANGED <<opened, running, scope, nextScope, asking, now>>

\* SCPI saves what a meter recorded (saveRecording()).
Save(m) ==
  /\ stores[m].state = "View" /\ stores[m].series # <<>>
  /\ stores' = [stores EXCEPT ![m].dirty = FALSE]
  /\ UNCHANGED <<opened, watch, running, scope, nextScope, trigger, asking, now>>

\* inScope() of a meter that is opened while the session records.
Joins(m) == running # NoMeter /\ m \in scope

\* open(): it joins the recording, or Live.
OpenIt(m) ==
  /\ m \notin Open /\ opened' = Append(opened, m) /\ StaysLead(opened', trigger)
  /\ LET set == SetUp(Now, opened', trigger)
         s   == [Now EXCEPT !.stores = set.stores]
     IN  /\ watch' = set.watch
         /\ IF Joins(m)
            THEN Become([s EXCEPT !.stores[running].hold = TRUE, !.stores[m] = StartAt(@, stores[running].t0, now)])
            ELSE IF Lead = NoMeter \/ stores[Lead].state = "Live"
            THEN Become(Follow(s, m, GoLive(s.stores[m], now), opened', LeadOf(running, opened', trigger)))
            ELSE Become(s)
  /\ UNCHANGED <<trigger, asking, now>>

\* A slip: the recording of the others goes on without its lead.
CloseAlone(m) ==
  /\ m \in Open /\ opened' = RemoveFirst(opened, m)
  /\ LET set == SetUp([Now EXCEPT !.stores[m] = NewStore, !.running = IF m = @ THEN NoMeter ELSE @], opened', trigger)
     IN  watch' = set.watch /\ stores' = set.stores /\ running' = IF m = running THEN NoMeter ELSE running
  /\ UNCHANGED <<scope, nextScope, trigger, asking, now>>

\* close(): the one that leads a recording ends it for all.
CloseIt(m) ==
  /\ m \in Open /\ opened' = RemoveFirst(opened, m)
  /\ LET ended == IF m = running THEN Follow(Now, m, Stop(stores[m], now), opened, m) ELSE Now
         gone  == [ended EXCEPT !.stores[m] = NewStore]
         set   == SetUp(gone, opened', trigger)
     IN  watch' = set.watch /\ Become([gone EXCEPT !.stores = set.stores])
  /\ UNCHANGED <<trigger, asking, now>>

ByUser ==
  /\ uses < MaxUses /\ uses' = uses + 1
  /\ \/ \E with \in (SUBSET Open \ {{}}) \cup {Meters} : PressRecord(with)
     \/ Accept \/ Cancel \/ LiveIt \/ ClearIt \/ StopIt \/ RequestStart
     \/ \E value \in Triggers : Choose(value)
     \/ \E m \in Meters : Save(m) \/ OpenIt(m) \/ CloseIt(m)

Next == ByMeters \/ Tick \/ ByUser

Spec == Init /\ [][Next]_vars

-----------------------------------------------------------------------------
TypeOK ==
  /\ opened \in Seq(Meters) /\ IsInjective(opened)
  /\ stores \in [Meters -> Stores] /\ watch \in [Meters -> Meters \cup {NoMeter, AnyMeter}]
  /\ running \in Open \cup {NoMeter} /\ scope \in SUBSET Meters /\ nextScope \in SUBSET Meters
  /\ trigger \in Triggers /\ asking \in SUBSET Meters /\ now \in 0..MaxTime /\ uses \in 0..MaxUses

Recording(m) == stores[m].state = "Record"

\* The session records while its lead does, and nobody records without a lead: whatever started or ended the
\* recording, whoever is opened or closed and whatever is chosen meanwhile (devicesession.h: "stop with it").
NobodyRecordsAlone ==
  /\ running # NoMeter => Recording(running)
  /\ running = NoMeter => \A m \in Meters : ~Recording(m)

\* While a graph's recording runs, only the lead and the meters of that graph record, also when others are opened.
OnlyTheChosenRecord == \A m \in Meters \ {running} : Recording(m) => m \in scope

\* Those that record together do so on one time base, which no reading moves any more.
Joined ==
  \A m \in Meters \ {running} :
    Recording(m) => stores[m].t0 = stores[running].t0 /\ stores[running].hold

\* A recording is started afresh when the dialog's answer comes after something else started it.
Restart == asking # {} /\ asking' = {} /\ running # NoMeter /\ stores' # stores

\* A follower of a recording that reaches back has what it showed during that time: what held at each moment since
\* the start is what its live window held then; only a lone reading that is stale by now is left out.
ReachesBack ==
  \A m \in Open :
    LET was == stores[m]  is == stores'[m]
        held(series, t) == {series[i].v : i \in {Holding(series, t)} \ {0}}
    IN  was.state = "Live" /\ is.state = "Record" /\ m # running' /\ Len(was.series) > Later(1, Holding(was.series, is.t0 - was.t0))
        => \A t \in is.t0..now : held(was.series, t - was.t0) # {} =>
             held(is.series, t - is.t0) = held(was.series, t - was.t0)

\* The followers keep step with their lead: no reading, timer, opening, closing, clearing or saving takes them off the
\* common time base, and one that starts late brings the time before with it (DeviceSession::followLead, startAt()).
FollowersKeepStep == [][(Joined /\ ~Restart => Joined') /\ ReachesBack]_vars

\* The meters record together, led by one of them, and no meter outside the graph with them.
RecordAsOne == TypeOK /\ NobodyRecordsAlone /\ OnlyTheChosenRecord
=============================================================================
