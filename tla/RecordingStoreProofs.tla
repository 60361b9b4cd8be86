------------------------- MODULE RecordingStoreProofs -------------------------
(***************************************************************************)
(* What holds of every recorder, whatever its readings, its setups, its    *)
(* files and its limits are, and of the readings table beside it, whatever *)
(* meters, choices, benches and sizes there are.                           *)
(***************************************************************************)
EXTENDS MCRecordingStore, StoreOpsProofs, NaturalsInduction, WellFoundedInduction

\* In Live nothing is saved; besides that the inductive invariant is what the store's operations keep: Sound says where
\* the points stand, CleanIsSaved needs nothing more than that Live has no file.
LiveIsUnsaved == store.state = "Live" => saved = <<>>

StoreInv == TypeOK /\ Sound(store, now) /\ LiveIsUnsaved /\ CleanIsSaved

-----------------------------------------------------------------------------
LEMMA NewStoreSound ==
  ASSUME NEW setup \in Setups
  PROVE  LET x == NewStore(setup)
         IN  x \in Stores /\ Sound(x, 0) /\ x.state = "View" /\ x.series = <<>> /\ x.reading.t <= 0
<1> DEFINE x == NewStore(setup)
<1>1. Nothing \in Words /\ Gap \in Int /\ -1 \in Int
  BY DEF Words, Gap
<1>2. setup.length \in Nat /\ setup.pre \in Nat /\ setup.mode \in Modes
  BY RecordingAssumption
<1>3. x \in Stores
  BY <1>1, <1>2, Empty DEF NewStore, Stores
<1>4. x.t0 = 0 /\ x.reading.t = -1 /\ x.state = "View" /\ x.series = <<>> /\ x.fromFile = FALSE
  BY DEF NewStore
<1> HIDE DEF x
<1>5. Sound(x, 0)
  BY <1>4, ProperEmpty DEF Sound
<1> QED  BY <1>3, <1>4, <1>5 DEF x

LEMMA InvInit == Init => StoreInv
<1> SUFFICES ASSUME Init PROVE StoreInv
  OBVIOUS
<1>1. PICK setup \in Setups : store \in {NewStore(setup), GoLive(NewStore(setup), 0)}
  BY DEF Init
<1>2. now = 0 /\ saved = <<>> /\ unit = Nothing /\ uses = 0
  BY DEF Init
<1>3. store \in Stores /\ Sound(store, 0) /\ (store.state = "Live" \/ store.series = <<>>)
  <2>1. CASE store = NewStore(setup)
    BY <2>1, NewStoreSound
  <2>2. CASE store = GoLive(NewStore(setup), 0)
    BY <2>2, NewStoreSound, GoLiveType, GoLiveSound
  <2> QED  BY <1>1, <2>1, <2>2
<1>4. Nothing \in Words /\ 0 \in 0..MaxTime /\ 0 \in 0..MaxUses
  BY RecordingAssumption DEF Words
<1>5. TypeOK
  BY <1>2, <1>3, <1>4, Empty DEF TypeOK
<1>6. LiveIsUnsaved /\ CleanIsSaved
  BY <1>2, <1>3 DEF LiveIsUnsaved, CleanIsSaved
<1> QED  BY <1>2, <1>3, <1>5, <1>6 DEF StoreInv

\* What the meter, its silence and the clock do to the store.
LEMMA GoesKeeps ==
  ASSUME StoreInv, store' \in Stores, Goes(store, store', now), unit' \in Words,
         UNCHANGED <<now, saved>>, uses' \in 0..MaxUses
  PROVE  StoreInv'
<1>1. TypeOK'
  BY DEF StoreInv, TypeOK
<1>2. Sound(store, now)' 
  BY DEF Goes
<1>3. LiveIsUnsaved' /\ CleanIsSaved'
  <2>1. Guarded(store, store') /\ saved' = saved
    BY DEF Goes
  <2> QED  BY <2>1 DEF StoreInv, LiveIsUnsaved, CleanIsSaved, Guarded
<1> QED  BY <1>1, <1>2, <1>3 DEF StoreInv

\* What replaces the recording leaves it dirty or empty, or live.
LEMMA DiscardingKeeps ==
  ASSUME StoreInv, NEW s \in Stores, Sound(s, now), Discarding(s), s.state = "Live" \/ s.dirty \/ s.series = <<>>,
         uses' \in 0..MaxUses
  PROVE  StoreInv'
<1>1. store' = s /\ saved' = <<>> /\ unit' = unit /\ now' = now
  BY DEF Discarding
<1>2. TypeOK'
  BY <1>1, Empty DEF StoreInv, TypeOK
<1>3. LiveIsUnsaved' /\ CleanIsSaved'
  BY <1>1 DEF LiveIsUnsaved, CleanIsSaved
<1> QED  BY <1>1, <1>2, <1>3 DEF StoreInv

LEMMA SoundLater ==
  ASSUME NEW s \in Stores, NEW t \in Int, Sound(s, t)
  PROVE  Sound(s, t + 1)
<1>1. s.t0 \in Int /\ s.reading.t \in Int /\ s.series \in Seq(Points)
  BY DEF Stores
<1>2. Proper(s.series, s.t0, t) => Proper(s.series, s.t0, t + 1)
  <2>1. \A i \in 1..Len(s.series) : s.series[i].t \in Nat
    BY <1>1, PointsOf
  <2> QED  BY <1>1, <2>1 DEF Proper
<1> QED  BY <1>1, <1>2 DEF Sound

LEMMA InvNext == StoreInv /\ [Next]_vars => StoreInv'
<1> SUFFICES ASSUME StoreInv, [Next]_vars PROVE StoreInv'
  OBVIOUS
<1>1. /\ store \in Stores /\ unit \in Words /\ now \in Int /\ now \in 0..MaxTime /\ saved \in Seq(Points) /\ uses \in 0..MaxUses
      /\ Sound(store, now)
  BY RecordingAssumption DEF StoreInv, TypeOK
<1>2. store.reading.t <= now /\ store.t0 <= now /\ store.t0 \in Int
  BY <1>1 DEF Sound, Stores
<1>3. ASSUME ByItself
      PROVE  StoreInv'
  <2>1. uses' \in 0..MaxUses
    BY <1>1, <1>3 DEF ByItself
  <2>2. ASSUME NEW r \in Readings, Reading(r)
        PROVE  StoreInv'
    <3>1. r \in Told
      BY RecordingAssumption
    <3>2. store' = Publish(store, unit, r, now) /\ unit' = r.f /\ UNCHANGED <<now, saved>>
      BY <2>2 DEF Reading
    <3>3. r.f \in Words
      BY <3>1 DEF Told, Words
    <3>4. store' \in Stores /\ Goes(store, store', now)
      BY <1>1, <3>1, <3>2, PublishType, PublishGoes
    <3> QED  BY <2>1, <3>2, <3>3, <3>4, GoesKeeps
  <2>3. CASE GoesStale \/ ProgramTakesPort
    <3>1. store' = SetStale(store, now) /\ UNCHANGED <<unit, now, saved>>
      BY <2>3 DEF GoesStale, ProgramTakesPort
    <3>2. store' \in Stores /\ Goes(store, store', now)
      BY <1>1, <3>1, SetStaleType, SetStaleGoes
    <3> QED  BY <1>1, <2>1, <3>1, <3>2, GoesKeeps
  <2>4. CASE Clock
    <3>1. store' = Poll(store, StartTime, now) /\ UNCHANGED <<unit, now, saved>>
      BY <2>4 DEF Clock
    <3>2. StartTime \in Int
      BY RecordingAssumption
    <3>3. store' \in Stores /\ Goes(store, store', now)
      BY <1>1, <3>1, <3>2, PollType, PollGoes
    <3> QED  BY <1>1, <2>1, <3>1, <3>3, GoesKeeps
  <2>5. CASE Tick
    <3>1. now' = now + 1 /\ now' \in 0..MaxTime /\ UNCHANGED <<store, unit, saved>>
      BY <1>1, <2>5, RecordingAssumption DEF Tick
    <3>2. Sound(store, now)'
      BY <1>1, <3>1, SoundLater
    <3>3. TypeOK'
      BY <1>1, <2>1, <3>1 DEF TypeOK
    <3>4. LiveIsUnsaved' /\ CleanIsSaved'
      BY <3>1 DEF StoreInv, LiveIsUnsaved, CleanIsSaved
    <3> QED  BY <3>2, <3>3, <3>4 DEF StoreInv
  <2> QED  BY <1>3, <2>2, <2>3, <2>4, <2>5 DEF ByItself
<1>4. ASSUME ByUser
      PROVE  StoreInv'
  <2>1. uses' \in 0..MaxUses
    BY <1>1, <1>4, RecordingAssumption DEF ByUser
  <2>2. CASE Start
    <3>1. Discarding(Begin(store, 0, now))
      BY <2>2 DEF Start
    <3>2. Fresh(Begin(store, 0, now), now) /\ Begin(store, 0, now) \in Stores
      BY <1>1, BeginFresh, BeginType
    <3> QED  BY <2>1, <3>1, <3>2, DiscardingKeeps DEF Fresh
  <2>3. CASE Live
    <3>1. GoLive(store, now) \in Stores /\ Sound(GoLive(store, now), now) /\ GoLive(store, now).state = "Live"
      BY <1>1, <1>2, GoLiveType, GoLiveSound
    <3> QED  BY <2>1, <2>3, <3>1, DiscardingKeeps DEF Live
  <2>4. CASE ClearIt
    <3>1. Clear(store, now) \in Stores /\ Sound(Clear(store, now), now) /\ Clear(store, now).series = <<>>
      BY <1>1, <1>2, ClearType, ClearSound
    <3> QED  BY <2>1, <2>4, <3>1, DiscardingKeeps DEF ClearIt
  <2>5. ASSUME NEW back \in Starts, StartWith(back)
        PROVE  StoreInv'
    <3> DEFINE t0 == now - back
    <3>1. Discarding(StartAt(store, t0, now))
      BY <2>5 DEF StartWith
    <3>2. t0 \in Int /\ t0 <= now
      <4>1. back \in Nat
        BY RecordingAssumption
      <4> QED  BY <1>1, <4>1
    <3> HIDE DEF t0
    <3>3. Fresh(StartAt(store, t0, now), now) /\ StartAt(store, t0, now) \in Stores
      BY <1>1, <3>2, StartAtFresh, StartAtType
    <3> QED  BY <2>1, <3>1, <3>3, DiscardingKeeps DEF Fresh
  <2>6. CASE StopIt
    <3>1. store' = Stop(store, now) /\ UNCHANGED <<unit, now, saved>>
      BY <2>6 DEF StopIt
    <3>2. store' \in Stores /\ Goes(store, store', now)
      BY <1>1, <3>1, StopType, StopGoes
    <3> QED  BY <1>1, <2>1, <3>1, <3>2, GoesKeeps
  <2>7. CASE Mark
    <3> DEFINE t == IF store.state # "View" THEN Elapsed(store, now)
                    ELSE IF store.series = <<>> THEN 0 ELSE Newest(store.series).t
               marks == {[t |-> t, trigger |-> FALSE]}
    <3>1. store' = [store EXCEPT !.marks = marks] /\ UNCHANGED <<unit, now, saved>>
      BY <2>7 DEF Mark
    <3>2. t \in Nat
      <4>1. Elapsed(store, now) \in Nat
        BY <1>1, <1>2 DEF Elapsed
      <4>2. store.series # <<>> => Newest(store.series).t \in Nat
        <5>1. store.series # <<>> => Newest(store.series) \in Points
          BY <1>1, NewestIsPoint DEF Stores
        <5> QED  BY <5>1 DEF Points
      <4> QED  BY <4>1, <4>2
    <3> HIDE DEF t
    <3>3. marks \in SUBSET Marks
      BY <3>2 DEF Marks
    <3> HIDE DEF marks
    <3>4. /\ store' \in Stores /\ store'.state = store.state /\ store'.series = store.series /\ store'.t0 = store.t0
          /\ store'.reading = store.reading /\ store'.fromFile = store.fromFile /\ store'.dirty = store.dirty
      BY <1>1, <3>1, <3>3 DEF Stores
    <3>5. Goes(store, store', now)
      BY <1>1, <3>4 DEF Goes, Guarded, Sound
    <3> QED  BY <1>1, <2>1, <3>1, <3>4, <3>5, GoesKeeps
  <2>8. CASE Write
    <3>1. /\ store' = [store EXCEPT !.dirty = FALSE] /\ saved' = (IF store.state = "Live" THEN <<>> ELSE store.series)
          /\ unit' = unit /\ now' = now
      BY <2>8 DEF Write
    <3>2. /\ store' \in Stores /\ store'.state = store.state /\ store'.series = store.series /\ store'.t0 = store.t0
          /\ store'.reading = store.reading /\ store'.fromFile = store.fromFile
      BY <1>1, <3>1 DEF Stores
    <3>3. Sound(store, now)'
      BY <1>1, <3>1, <3>2 DEF Sound
    <3>4. saved' \in Seq(Points)
      BY <1>1, <3>1, Empty DEF Stores
    <3>5. TypeOK'
      BY <1>1, <2>1, <3>1, <3>2, <3>4 DEF TypeOK
    <3>6. LiveIsUnsaved' /\ CleanIsSaved'
      BY <3>1, <3>2 DEF LiveIsUnsaved, CleanIsSaved
    <3> QED  BY <3>3, <3>5, <3>6 DEF StoreInv
  <2>9. ASSUME NEW file \in Files, LoadFile(file)
        PROVE  StoreInv'
    <3>1. store' = Load(store, file) /\ saved' = file.series /\ unit' = unit /\ now' = now
      BY <2>9 DEF LoadFile
    <3>2. file.unit \in Words /\ file.series \in Seq(Points)
      BY RecordingAssumption
    <3>3. /\ store' \in Stores /\ Sound(store', now) /\ store'.state = "View" /\ store'.series = file.series
      BY <1>1, <3>1, <3>2, LoadType, LoadSound
    <3>4. TypeOK'
      BY <1>1, <2>1, <3>1, <3>2, <3>3 DEF TypeOK
    <3>5. LiveIsUnsaved' /\ CleanIsSaved'
      BY <3>1, <3>3 DEF LiveIsUnsaved, CleanIsSaved
    <3> QED  BY <3>1, <3>3, <3>4, <3>5 DEF StoreInv
  <2>10. CASE Forget
    <3> DEFINE none == [t |-> -1, v |-> Gap, f |-> Nothing]
    <3>1. store' = [store EXCEPT !.reading = none] /\ UNCHANGED <<unit, now, saved>>
      BY <2>10 DEF Forget
    <3>2. none \in [t : Int, v : Int, f : Words] /\ none.t = -1
      <4>1. Gap \in Int /\ Nothing \in Words /\ -1 \in Int
        BY DEF Gap, Words
      <4> QED  BY <4>1
    <3>3. none.t <= now
      BY <1>1, <3>2
    <3> HIDE DEF none
    <3>4. /\ store' \in Stores /\ store'.state = store.state /\ store'.series = store.series /\ store'.t0 = store.t0
          /\ store'.reading = none /\ store'.fromFile = store.fromFile /\ store'.dirty = store.dirty
      BY <1>1, <3>1, <3>2 DEF Stores
    <3>5. Goes(store, store', now)
      <4>1. Sound(store', now)
        BY <1>1, <3>3, <3>4 DEF Sound
      <4>2. Guarded(store, store')
        BY <3>4 DEF Guarded
      <4> QED  BY <4>1, <4>2 DEF Goes
    <3> QED  BY <1>1, <2>1, <3>1, <3>4, <3>5, GoesKeeps
  <2>11. ASSUME NEW setup \in Setups, Setup(setup)
         PROVE  StoreInv'
    <3>1. store' = ApplySetup(store, setup, now) /\ UNCHANGED <<unit, now, saved>>
      BY <2>11 DEF Setup
    <3>2. setup.length \in Nat /\ setup.pre \in Nat /\ setup.mode \in Modes
      BY RecordingAssumption
    <3>3. store' \in Stores /\ Goes(store, store', now)
      BY <1>1, <3>1, <3>2, ApplySetupType, ApplySetupGoes
    <3> QED  BY <1>1, <2>1, <3>1, <3>3, GoesKeeps
  <2> QED  BY <1>4, <2>2, <2>3, <2>4, <2>5, <2>6, <2>7, <2>8, <2>9, <2>10, <2>11 DEF ByUser
<1>5. CASE UNCHANGED vars
  BY <1>5 DEF vars, StoreInv, TypeOK, LiveIsUnsaved, CleanIsSaved
<1> QED  BY <1>3, <1>4, <1>5 DEF Next

-----------------------------------------------------------------------------
\* Beside it: what the recorder has taken since the start is of the function it says, see Pure.
LEMMA PureInit == Init => Pure(store)
<1> SUFFICES ASSUME Init PROVE Pure(store)
  OBVIOUS
<1>1. PICK setup \in Setups : store \in {NewStore(setup), GoLive(NewStore(setup), 0)}
  BY DEF Init
<1>2. NewStore(setup) \in Stores /\ NewStore(setup).series = <<>>
  BY NewStoreSound
<1>3. Pure(NewStore(setup)) /\ Pure(GoLive(NewStore(setup), 0))
  BY <1>2, PureEmpty, GoLivePure
<1> QED  BY <1>1, <1>3

LEMMA PureNext == StoreInv /\ Pure(store) /\ [Next]_vars => Pure(store')
<1> SUFFICES ASSUME StoreInv, Pure(store), [Next]_vars PROVE Pure(store')
  OBVIOUS
<1>1. store \in Stores /\ unit \in Words /\ now \in Int
  BY RecordingAssumption DEF StoreInv, TypeOK
<1>2. ASSUME ByItself
      PROVE  Pure(store')
  <2>1. ASSUME NEW r \in Readings, Reading(r)
        PROVE  Pure(store')
    <3>1. r \in Told /\ store' = Publish(store, unit, r, now)
      BY <2>1, RecordingAssumption DEF Reading
    <3> QED  BY <1>1, <3>1, PublishPure
  <2>2. CASE GoesStale \/ ProgramTakesPort
    <3>1. store' = SetStale(store, now)
      BY <2>2 DEF GoesStale, ProgramTakesPort
    <3> QED  BY <1>1, <3>1, SetStalePure
  <2>3. CASE Clock
    <3>1. store' = Poll(store, StartTime, now) /\ StartTime \in Int
      BY <2>3, RecordingAssumption DEF Clock
    <3> QED  BY <1>1, <3>1, PollPure
  <2>4. CASE Tick
    BY <2>4 DEF Tick
  <2> QED  BY <1>2, <2>1, <2>2, <2>3, <2>4 DEF ByItself
<1>3. ASSUME ByUser
      PROVE  Pure(store')
  <2>1. CASE Start
    <3>1. store' = Begin(store, 0, now)
      BY <2>1 DEF Start, Discarding
    <3> QED  BY <1>1, <3>1, BeginPure
  <2>2. CASE Live
    <3>1. store' = GoLive(store, now)
      BY <2>2 DEF Live, Discarding
    <3> QED  BY <1>1, <3>1, GoLivePure
  <2>3. CASE ClearIt
    <3>1. store' = Clear(store, now)
      BY <2>3 DEF ClearIt, Discarding
    <3>2. Clear(store, now).series = <<>>
      BY <1>1, ClearFrame
    <3> QED  BY <3>1, <3>2, PureEmpty
  <2>4. ASSUME NEW back \in Starts, StartWith(back)
        PROVE  Pure(store')
    <3> DEFINE t0 == now - back
    <3>1. store' = StartAt(store, t0, now)
      BY <2>4 DEF StartWith, Discarding
    <3>2. t0 \in Int
      BY <1>1, RecordingAssumption
    <3> HIDE DEF t0
    <3> QED  BY <1>1, <3>1, <3>2, StartAtPure
  <2>5. CASE StopIt
    <3>1. store' = Stop(store, now)
      BY <2>5 DEF StopIt
    <3> QED  BY <1>1, <3>1, StopPure
  <2>6. CASE Mark
    <3>1. \E marks : store' = [store EXCEPT !.marks = marks]
      BY <2>6 DEF Mark
    <3>2. store'.series = store.series /\ store'.fromFile = store.fromFile /\ store'.port = store.port
      BY <1>1, <3>1 DEF Stores
    <3> QED  BY <1>1, <3>2, PureSame
  <2>7. CASE Write
    <3>1. store'.series = store.series /\ store'.fromFile = store.fromFile /\ store'.port = store.port
      BY <1>1, <2>7 DEF Write, Stores
    <3> QED  BY <1>1, <3>1, PureSame
  <2>8. ASSUME NEW file \in Files, LoadFile(file)
        PROVE  Pure(store')
    <3>1. store'.fromFile = TRUE
      BY <1>1, <2>8 DEF LoadFile, Load, Stores
    <3> QED  BY <3>1 DEF Pure
  <2>9. CASE Forget
    <3>1. store'.series = store.series /\ store'.fromFile = store.fromFile /\ store'.port = store.port
      BY <1>1, <2>9 DEF Forget, Stores
    <3> QED  BY <1>1, <3>1, PureSame
  <2>10. ASSUME NEW setup \in Setups, Setup(setup)
         PROVE  Pure(store')
    <3>1. store' = ApplySetup(store, setup, now)
      BY <2>10 DEF Setup
    <3>2. setup.length \in Nat /\ setup.pre \in Nat /\ setup.mode \in Modes
      BY RecordingAssumption
    <3> QED  BY <1>1, <3>1, <3>2, ApplySetupPure
  <2> QED  BY <1>3, <2>1, <2>2, <2>3, <2>4, <2>5, <2>6, <2>7, <2>8, <2>9, <2>10 DEF ByUser
<1>4. CASE UNCHANGED vars
  BY <1>4 DEF vars
<1> QED  BY <1>2, <1>3, <1>4 DEF Next

-----------------------------------------------------------------------------
LEMMA InvAlways == Spec => []StoreInv
BY InvInit, InvNext, PTL DEF Spec

\* Every operation of RecordingStore (recordingstore.cpp) leaves members of the range the others expect, in every order.
THEOREM TypeCorrect == Spec => []TypeOK
<1>1. StoreInv => TypeOK
  BY DEF StoreInv
<1> QED  BY <1>1, InvAlways, PTL

\* A reading stands in a recording at the moment it came, whatever moved the recording's start (setReading(), begin(),
\* startAt(), appendLivePart()) and however much was trimmed since.
THEOREM TimesCorrect == Spec => []TimesAreTrue
<1>1. StoreInv => TimesAreTrue
  <2> SUFFICES ASSUME StoreInv, ~store.fromFile, NEW i \in DOMAIN store.series, Valued(store.series[i])
               PROVE  \/ store.t0 + store.series[i].t = store.series[i].at
                      \/ i = 1 /\ ~store.series[i].own /\ store.series[i].at < store.t0 + store.series[i].t
    BY DEF TimesAreTrue
  <2>1. Proper(store.series, store.t0, now)
    BY DEF StoreInv, Sound
  <2>2. DOMAIN store.series = 1..Len(store.series)
    BY LenProperties DEF StoreInv, TypeOK, Stores
  <2> QED  BY <2>1, <2>2 DEF Proper
<1> QED  BY <1>1, InvAlways, PTL

\* dirty() (write(), load(), append(), clear()): a recording that is not marked as unsaved is in its file as it is.
THEOREM CleanCorrect == Spec => []CleanIsSaved
<1>1. StoreInv => CleanIsSaved
  BY DEF StoreInv
<1> QED  BY <1>1, InvAlways, PTL

\* setReading() (recordingstore.cpp): another function ends a recording or starts the live window anew, so what was taken
\* since the start is of one function, however the recording was started and whatever the meter shows.
THEOREM FunctionIsOne == Spec => []OwnReadingsAreOfOneFunction
<1>1. StoreInv /\ Pure(store) /\ [Next]_vars => Pure(store)'
  BY PureNext DEF Pure, OfPort, Valued
<1>2. StoreInv /\ Pure(store) => OwnReadingsAreOfOneFunction
  <2>1. StoreInv => DOMAIN store.series = 1..Len(store.series)
    BY LenProperties DEF StoreInv, TypeOK, Stores
  <2> QED  BY <2>1 DEF Pure, OfPort, OwnReadingsAreOfOneFunction
<1> QED  BY <1>1, <1>2, PureInit, InvAlways, PTL DEF Spec

-----------------------------------------------------------------------------
\* What the meter, its silence and the clock do (setReading(), setStale(), poll()) takes nothing of a recording away,
\* but the oldest points when there are more than the most (trimMain()), and Live keeps what its window says it keeps.
THEOREM NothingLost == Spec => NothingThatCountsIsLost
<1>1. StoreInv /\ [Next]_vars => [MeterNeverDiscards /\ LiveKeepsItsPart]_vars
  <2> SUFFICES ASSUME StoreInv, ByItself PROVE MeterNeverDiscards /\ LiveKeepsItsPart
    BY DEF MeterNeverDiscards, LiveKeepsItsPart
  <2>1. store \in Stores /\ unit \in Words /\ now \in Int /\ Sound(store, now) /\ StartTime \in Int
    BY RecordingAssumption DEF StoreInv, TypeOK
  <2>2. /\ store.state # "Live" => Undiscarded(store, store')
        /\ store.state = "Live" => (PartKept(store, store', now) /\ now' = now) \/ store' = store
    <3>1. ASSUME NEW r \in Readings, Reading(r)
          PROVE  /\ store.state # "Live" => Undiscarded(store, store')
                 /\ store.state = "Live" => PartKept(store, store', now) /\ now' = now
      <4>1. r \in Told /\ store' = Publish(store, unit, r, now) /\ now' = now
        BY <3>1, RecordingAssumption DEF Reading
      <4> QED  BY <2>1, <4>1, PublishUndiscarded, PublishPart
    <3>2. CASE GoesStale \/ ProgramTakesPort
      <4>1. store' = SetStale(store, now) /\ now' = now
        BY <3>2 DEF GoesStale, ProgramTakesPort
      <4> QED  BY <2>1, <4>1, SetStaleUndiscarded, SetStalePart
    <3>3. CASE Clock
      <4>1. store' = Poll(store, StartTime, now) /\ now' = now
        BY <3>3 DEF Clock
      <4> QED  BY <2>1, <4>1, PollUndiscarded, PollPart
    <3>4. CASE Tick
      BY <2>1, <3>4, UndiscardedSame DEF Tick
    <3> QED  BY <3>1, <3>2, <3>3, <3>4 DEF ByItself
  <2>3. MeterNeverDiscards
    <3> SUFFICES ASSUME store.state # "Live"
                 PROVE  LET old  == store.series
                            new  == store'.series
                            kept == {k \in 0..Len(old) : k <= Len(new) /\ SubSeq(new, 1, k) = SubSeq(old, Len(old) - k + 1, Len(old))}
                        IN  Len(old) \in kept \/ (store.state = "Record" /\ \E k \in kept : k >= MaxPoints - 1)
      BY DEF MeterNeverDiscards
    <3>1. Undiscarded(store, store')
      BY <2>2
    <3> QED  BY <3>1 DEF Undiscarded, Grown
  <2>4. LiveKeepsItsPart
    <3> SUFFICES ASSUME store.state = "Live", store'.state = "Live", store'.t0 = store.t0, store'.series # <<>>
                 PROVE  \A t \in Origin(store', now')..(Newest(store'.series).t - 1) :
                          HoldsAt(store'.series, t) = HoldsAt(store.series, t) \/ Len(store'.series) = MaxPoints
      BY DEF LiveKeepsItsPart
    <3>1. CASE PartKept(store, store', now) /\ now' = now
      BY <3>1 DEF PartKept
    <3>2. CASE store' = store
      BY <3>2
    <3> QED  BY <2>2, <3>1, <3>2
  <2> QED  BY <2>3, <2>4
<1> QED  BY <1>1, InvAlways, PTL DEF Spec, NothingThatCountsIsLost

-----------------------------------------------------------------------------
(* Where a recording begins and where it ends. *)

LEMMA GroundedInit == Init => Grounded(store)
<1> SUFFICES ASSUME Init PROVE Grounded(store)
  OBVIOUS
<1>1. PICK setup \in Setups : store \in {NewStore(setup), GoLive(NewStore(setup), 0)}
  BY DEF Init
<1>2. NewStore(setup) \in Stores
  BY NewStoreSound
<1>3. NewStore(setup).floor = 0
  BY DEF NewStore
<1> QED  BY <1>1, <1>2, <1>3, GroundedAtZero, GoLiveGrounded

LEMMA GroundedNext == StoreInv /\ Grounded(store) /\ [Next]_vars => Grounded(store')
<1> SUFFICES ASSUME StoreInv, Grounded(store), [Next]_vars PROVE Grounded(store')
  OBVIOUS
<1>1. store \in Stores /\ unit \in Words /\ now \in Int /\ Sound(store, now)
  BY RecordingAssumption DEF StoreInv, TypeOK
<1>2. ASSUME ByItself
      PROVE  Grounded(store')
  <2>1. ASSUME NEW r \in Readings, Reading(r)
        PROVE  Grounded(store')
    <3>1. r \in Told /\ store' = Publish(store, unit, r, now)
      BY <2>1, RecordingAssumption DEF Reading
    <3> QED  BY <1>1, <3>1, PublishGrounded
  <2>2. CASE GoesStale \/ ProgramTakesPort
    <3>1. store' = SetStale(store, now)
      BY <2>2 DEF GoesStale, ProgramTakesPort
    <3>2. store.fromFile => store.state = "View"
      BY <1>1 DEF Sound
    <3> QED  BY <1>1, <3>1, <3>2, SetStaleGrounded
  <2>3. CASE Clock
    <3>1. store' = Poll(store, StartTime, now) /\ StartTime \in Int
      BY <2>3, RecordingAssumption DEF Clock
    <3> QED  BY <1>1, <3>1, PollGrounded
  <2>4. CASE Tick
    BY <2>4 DEF Tick
  <2> QED  BY <1>2, <2>1, <2>2, <2>3, <2>4 DEF ByItself
<1>3. ASSUME ByUser
      PROVE  Grounded(store')
  <2>1. CASE Start
    <3>1. store' = Begin(store, 0, now)
      BY <2>1 DEF Start, Discarding
    <3> QED  BY <1>1, <3>1, BeginGrounded
  <2>2. CASE Live
    <3>1. store' = GoLive(store, now)
      BY <2>2 DEF Live, Discarding
    <3> QED  BY <1>1, <3>1, GoLiveGrounded
  <2>3. CASE ClearIt
    <3>1. store' = Clear(store, now)
      BY <2>3 DEF ClearIt, Discarding
    <3> QED  BY <1>1, <3>1, ClearFloor, GroundedAtZero
  <2>4. ASSUME NEW back \in Starts, StartWith(back)
        PROVE  Grounded(store')
    <3> DEFINE t0 == now - back
    <3>1. store' = StartAt(store, t0, now)
      BY <2>4 DEF StartWith, Discarding
    <3>2. t0 \in Int
      BY <1>1, RecordingAssumption
    <3> HIDE DEF t0
    <3> QED  BY <1>1, <3>1, <3>2, StartAtGrounded
  <2>5. CASE StopIt
    <3>1. store' = Stop(store, now)
      BY <2>5 DEF StopIt
    <3> QED  BY <1>1, <3>1, EndGrounded
  <2>6. CASE Mark
    <3> DEFINE t == IF store.state # "View" THEN Elapsed(store, now)
                    ELSE IF store.series = <<>> THEN 0 ELSE Newest(store.series).t
    <3>1. store' = [store EXCEPT !.marks = {[t |-> t, trigger |-> FALSE]}] /\ store.marks = {}
      BY <2>6 DEF Mark
    <3> QED  BY <1>1, <3>1, MarkGrounded
  <2>7. CASE Write
    <3>1. /\ store'.series = store.series /\ store'.fromFile = store.fromFile /\ store'.floor = store.floor
          /\ store'.marks = store.marks /\ store'.state = store.state
      BY <1>1, <2>7 DEF Write, Stores
    <3> QED  BY <3>1, GroundedSame
  <2>8. ASSUME NEW file \in Files, LoadFile(file)
        PROVE  Grounded(store')
    <3>1. store'.floor = 0
      BY <1>1, <2>8 DEF LoadFile, Load, Stores
    <3> QED  BY <3>1, GroundedAtZero
  <2>9. CASE Forget
    <3>1. /\ store'.series = store.series /\ store'.fromFile = store.fromFile /\ store'.floor = store.floor
          /\ store'.marks = store.marks /\ store'.state = store.state
      BY <1>1, <2>9 DEF Forget, Stores
    <3> QED  BY <3>1, GroundedSame
  <2>10. ASSUME NEW setup \in Setups, Setup(setup)
         PROVE  Grounded(store')
    <3>1. store' = ApplySetup(store, setup, now)
      BY <2>10 DEF Setup
    <3>2. setup.length \in Nat /\ setup.pre \in Nat /\ setup.mode \in Modes
      BY RecordingAssumption
    <3>3. store.state = "Live" => ~store.fromFile
      BY <1>1 DEF Sound
    <3> QED  BY <1>1, <3>1, <3>2, <3>3, ApplySetupGrounded
  <2> QED  BY <1>3, <2>1, <2>2, <2>3, <2>4, <2>5, <2>6, <2>7, <2>8, <2>9, <2>10 DEF ByUser
<1>4. CASE UNCHANGED vars
  BY <1>4 DEF vars
<1> QED  BY <1>2, <1>3, <1>4 DEF Next

LEMMA WaitingInit == Init => Waiting(store, now)
<1> SUFFICES ASSUME Init PROVE Waiting(store, now)
  OBVIOUS
<1>1. PICK setup \in Setups : store \in {NewStore(setup), GoLive(NewStore(setup), 0)}
  BY DEF Init
<1>2. NewStore(setup) \in Stores /\ NewStore(setup).state = "View"
  BY NewStoreSound
<1>3. GoLive(NewStore(setup), 0).state = "Live"
  BY <1>2, GoLiveMode
<1>4. store.state # "Record"
  BY <1>1, <1>2, <1>3
<1> QED  BY <1>4 DEF Waiting

LEMMA BoundedNext ==
  StoreInv /\ Waiting(store, now) /\ [Next]_vars => Bounded(store, store', now) /\ Waiting(store', now')
<1> SUFFICES ASSUME StoreInv, Waiting(store, now), [Next]_vars
             PROVE  Bounded(store, store', now) /\ Waiting(store', now')
  OBVIOUS
<1>1. store \in Stores /\ unit \in Words /\ now \in Int /\ Sound(store, now) /\ StartTime \in Int
  BY RecordingAssumption DEF StoreInv, TypeOK
<1> DEFINE Good == Bounded(store, store', now) /\ now' = now
<1>2. Good => Bounded(store, store', now) /\ Waiting(store', now')
  BY DEF Bounded, InTime
<1>3. store.state \in {"View", "Live", "Record"}
  BY <1>1 DEF Stores
<1>4. ASSUME store'.state = store.state, store'.series = store.series, store'.t0 = store.t0, store'.reading = store.reading
      PROVE  Bounded(store, store', now)
  <2>1. InTime(store, store', now)
    BY <1>1, <1>4, InTimeSame
  <2> QED  BY <1>4, <2>1, BoundedElse
<1>5. ASSUME ByItself
      PROVE  Bounded(store, store', now) /\ Waiting(store', now')
  <2>1. ASSUME NEW r \in Readings, Reading(r)
        PROVE  Good
    <3>1. r \in Told /\ store' = Publish(store, unit, r, now) /\ now' = now
      BY <2>1, RecordingAssumption DEF Reading
    <3>2. InTime(store, store', now)
      BY <1>1, <3>1, PublishInTime
    <3>3. store.state = "Live" => Marked(store, store', now)
      BY <1>1, <3>1, PublishMarked
    <3> QED  BY <3>1, <3>2, <3>3 DEF Bounded
  <2>2. CASE GoesStale \/ ProgramTakesPort
    <3>1. store' = SetStale(store, now) /\ now' = now
      BY <2>2 DEF GoesStale, ProgramTakesPort
    <3>2. InTime(store, store', now)
      BY <1>1, <3>1, SetStaleInTime
    <3>3. store'.state = store.state
      BY <1>1, <3>1, SetStaleSame DEF Same
    <3>4. Bounded(store, store', now)
      BY <3>2, <3>3, BoundedElse
    <3> QED  BY <1>2, <3>1, <3>4
  <2>3. CASE Clock
    <3>1. store' = Poll(store, StartTime, now) /\ now' = now
      BY <2>3 DEF Clock
    <3>2. InTime(store, store', now)
      BY <1>1, <3>1, PollInTime
    <3>3. store.state = "Live" /\ store'.state = "Record" => store'.preUsed = 0
      BY <1>1, <3>1, PollNow
    <3>4. Bounded(store, store', now)
      BY <3>2, <3>3, BoundedElse
    <3> QED  BY <1>2, <3>1, <3>4
  <2>4. ASSUME Tick
        PROVE  Bounded(store, store', now) /\ Waiting(store', now')
    <3>1. store' = store /\ now' = now + 1
      BY <2>4 DEF Tick
    <3>2. store.reading.t \in Int /\ StaleAfter \in Int
      BY <1>1, StoreAssumption DEF Stores
    <3>3. Waiting(store', now')
      BY <1>1, <3>1, <3>2 DEF Waiting
    <3> QED  BY <1>4, <3>1, <3>3
  <2> QED  BY <1>2, <1>5, <2>1, <2>2, <2>3, <2>4 DEF ByItself
<1>6. ASSUME ByUser
      PROVE  Good
  <2>1. CASE Start
    <3>1. store' = Begin(store, 0, now) /\ now' = now /\ store.state # "Record"
      BY <2>1 DEF Start, Discarding
    <3>2. Waiting(store', now) /\ store'.preUsed = 0
      BY <1>1, <3>1, BeginWaits, BeginNow
    <3> QED  BY <3>1, <3>2, InTimeNew, BoundedElse
  <2>2. CASE Live
    <3>1. store' = GoLive(store, now) /\ now' = now
      BY <2>2 DEF Live, Discarding
    <3>2. store'.state # "Record"
      BY <1>1, <3>1, GoLiveMode
    <3> QED  BY <3>1, <3>2, InTimeOver, BoundedElse
  <2>3. CASE ClearIt
    <3>1. store' = Clear(store, now) /\ now' = now
      BY <2>3 DEF ClearIt, Discarding
    <3>2. InTime(store, store', now) /\ store'.state = store.state
      BY <1>1, <3>1, ClearInTime, ClearMode
    <3> QED  BY <3>1, <3>2, BoundedElse
  <2>4. ASSUME NEW back \in Starts, StartWith(back)
        PROVE  Good
    <3> DEFINE t0 == now - back
    <3>1. store' = StartAt(store, t0, now) /\ now' = now
      BY <2>4 DEF StartWith, Discarding
    <3>2. t0 \in Int
      BY <1>1, RecordingAssumption
    <3> HIDE DEF t0
    <3>3. InTime(store, store', now) /\ store'.preUsed = 0
      BY <1>1, <3>1, <3>2, StartAtEnds, StartAtNow DEF InTime
    <3> QED  BY <3>1, <3>3, BoundedElse
  <2>5. CASE StopIt
    <3>1. store' = Stop(store, now) /\ now' = now
      BY <2>5 DEF StopIt
    <3>2. store'.state # "Record"
      BY <1>1, <3>1, StopMode
    <3> QED  BY <3>1, <3>2, InTimeOver, BoundedElse
  <2>6. CASE Mark \/ Write
    <3>1. /\ store'.state = store.state /\ store'.series = store.series /\ store'.t0 = store.t0
          /\ store'.reading = store.reading /\ now' = now
      BY <1>1, <2>6 DEF Mark, Write, Stores
    <3> QED  BY <1>4, <3>1
  <2>7. ASSUME NEW file \in Files, LoadFile(file)
        PROVE  Good
    <3>1. store'.state # "Record" /\ now' = now
      BY <1>1, <2>7 DEF LoadFile, Load, Stores
    <3> QED  BY <3>1, InTimeOver, BoundedElse
  <2>8. CASE Forget
    <3>1. /\ store'.state = store.state /\ store'.series = store.series /\ store'.t0 = store.t0
          /\ store'.reading.t = -1 /\ now' = now
      BY <1>1, <2>8 DEF Forget, Stores
    <3>2. Waiting(store', now)
      BY <3>1 DEF Waiting
    <3>3. Ends(store, store')
      BY <1>1, <3>1, EndsSame
    <3> QED  BY <3>1, <3>2, <3>3, BoundedElse DEF InTime
  <2>9. ASSUME NEW setup \in Setups, Setup(setup)
        PROVE  Good
    <3>1. store' = ApplySetup(store, setup, now) /\ now' = now
      BY <2>9 DEF Setup
    <3>2. setup.length \in Nat /\ setup.pre \in Nat /\ setup.mode \in Modes
      BY RecordingAssumption
    <3>3. InTime(store, store', now) /\ store'.state = store.state
      BY <1>1, <3>1, <3>2, ApplySetupInTime, ApplySetupMode
    <3> QED  BY <3>1, <3>3, BoundedElse
  <2> QED  BY <1>6, <2>1, <2>2, <2>3, <2>4, <2>5, <2>6, <2>7, <2>8, <2>9 DEF ByUser
<1>7. CASE UNCHANGED vars
  BY <1>2, <1>4, <1>7 DEF vars
<1> QED  BY <1>2, <1>5, <1>6, <1>7 DEF Next

\* What is wanted of a recording's bounds at any time.
BoundsInv == StoreInv /\ Grounded(store) /\ Waiting(store, now)

LEMMA BoundsAlways == Spec => []BoundsInv
<1>1. Init => BoundsInv
  BY InvInit, GroundedInit, WaitingInit DEF BoundsInv
<1>2. BoundsInv /\ [Next]_vars => BoundsInv'
  BY InvNext, GroundedNext, BoundedNext DEF BoundsInv
<1> QED  BY <1>1, <1>2, PTL DEF Spec

\* A recording begins where its points begin (trimMain(), begin()), a threshold's start stands at its mark with all of
\* its pre-trigger time (begin()), and nothing is recorded after the length (lengthReached() in setReading(), poll()).
THEOREM BoundsHold == Spec => RecordingHasItsBounds
<1>1. BoundsInv /\ BoundsInv' /\ [Next]_vars => [StartsAtFloor' /\ TriggerAtItsMark /\ NothingAfterLength]_vars
  <2> SUFFICES ASSUME BoundsInv, BoundsInv', [Next]_vars
               PROVE  StartsAtFloor' /\ TriggerAtItsMark /\ NothingAfterLength
    OBVIOUS
  <2>1. StartsAtFloor'
    BY DEF BoundsInv, Grounded, StartsAtFloor
  <2>2. Bounded(store, store', now)
    BY BoundedNext DEF BoundsInv
  <2>3. TriggerAtItsMark
    BY <2>2 DEF Bounded, Marked, AtMark, TriggerAtItsMark
  <2>4. NothingAfterLength
    BY <2>2 DEF Bounded, InTime, Ends, NothingAfterLength
  <2> QED  BY <2>1, <2>3, <2>4
<1> QED  BY <1>1, BoundsAlways, PTL DEF Spec, RecordingHasItsBounds

-----------------------------------------------------------------------------
(* The readings table. *)

TableFields == {"rows", "keep", "paused", "hidden", "view", "singleDay", "otherValues", "devices", "later", "stats"}

ByTime(rows) == \A i, j \in 1..Len(rows) : i < j => rows[i].n < rows[j].n

RowsOf(rows) == {rows[i] : i \in 1..Len(rows)}

OfOneDay(rows) == \A q, r \in Table!Range(rows) : q.n < Midnight <=> r.n < Midnight

\* A table and its view, model and statistics, each of the same rows in the order of time.
TableTrue(t) ==
  /\ DOMAIN t = TableFields /\ t.keep \in Nat \ {0} /\ t.paused \in BOOLEAN
  /\ t.rows \in Seq(Table!Row) /\ ByTime(t.rows)
  /\ t.view = t.rows /\ t.singleDay = OfOneDay(t.rows)
  /\ (\E r \in Table!Range(t.rows) : r.id > 0) => t.otherValues
  /\ t.later \/ t.stats = Table!Stats(t.rows, t.hidden)

\* What a call leaves alone.
SameBut(t, u) == u.keep = t.keep /\ u.paused = t.paused /\ u.hidden = t.hidden /\ u.devices = t.devices

LEMMA RowFields ==
  ASSUME NEW r \in Table!Row
  PROVE  r.n \in Nat /\ 1 <= r.n /\ r.n <= MaxReadings /\ r.source \in Meters /\ r.id \in Nat
<1>1. r.n \in 1..MaxReadings /\ r.source \in Meters /\ r.id \in Ids
  BY DEF Table!Row
<1>2. MaxReadings \in Nat
  BY TableAssumption
<1>3. Ids \subseteq Nat
  BY TableAssumption, Zenon
<1>4. r.n \in Nat /\ 1 <= r.n /\ r.n <= MaxReadings
  BY <1>1, <1>2
<1>5. r.id \in Nat
  BY <1>1, <1>3
<1> QED  BY <1>1, <1>4, <1>5

LEMMA RangeIs ==
  ASSUME NEW A, NEW s \in Seq(A)
  PROVE  Len(s) \in Nat /\ Table!Range(s) = RowsOf(s) /\ \A i \in 1..Len(s) : s[i] \in A /\ s[i] \in Table!Range(s)
<1>1. DOMAIN s = 1..Len(s) /\ Len(s) \in Nat /\ \A i \in 1..Len(s) : s[i] \in A
  OBVIOUS
<1> QED  BY <1>1 DEF Table!Range, RowsOf

LEMMA DroppedIs ==
  ASSUME NEW A, NEW s \in Seq(A), NEW k \in 0..Len(s)
  PROVE  /\ Table!Dropped(s, k) \in Seq(A) /\ Len(Table!Dropped(s, k)) = Len(s) - k
         /\ \A i \in 1..(Len(s) - k) : Table!Dropped(s, k)[i] = s[k + i]
BY DEF Table!Dropped

LEMMA JoinedIs ==
  ASSUME NEW A, NEW s \in Seq(A), NEW u \in Seq(A)
  PROVE  /\ s \o u \in Seq(A) /\ Len(s \o u) = Len(s) + Len(u)
         /\ \A i \in 1..Len(s) : (s \o u)[i] = s[i]
         /\ \A i \in 1..Len(u) : (s \o u)[Len(s) + i] = u[i]
OBVIOUS

LEMMA SameSequence ==
  ASSUME NEW A, NEW s \in Seq(A), NEW u \in Seq(A), Len(s) = Len(u), \A i \in 1..Len(s) : s[i] = u[i]
  PROVE  s = u
OBVIOUS

\* The view fetches the rows it was told of and has all.
LEMMA ViewHasAll ==
  ASSUME NEW A, NEW s \in Seq(A), NEW u \in Seq(A)
  PROVE  SubSeq(s, 1, Len(s)) \o SubSeq(s \o u, Len(s) + 1, Len(s) + Len(u)) \o SubSeq(s, Len(s) + 1, Len(s)) = s \o u
<1> DEFINE a == SubSeq(s, 1, Len(s))
           b == SubSeq(s \o u, Len(s) + 1, Len(s) + Len(u))
           c == SubSeq(s, Len(s) + 1, Len(s))
           su == s \o u
<1>1. Len(s) \in Nat /\ Len(u) \in Nat
  OBVIOUS
<1>2. su \in Seq(A) /\ Len(su) = Len(s) + Len(u) /\ \A i \in 1..Len(u) : su[Len(s) + i] = u[i]
  BY JoinedIs
<1>3. a = s
  OBVIOUS
<1>4. c = <<>>
  OBVIOUS
<1>5. b = u
  <2> HIDE DEF su
  <2>1. SubSeq(su, Len(s) + 1, Len(s) + Len(u)) = u
    BY <1>1, <1>2
  <2> QED  BY <2>1 DEF su
<1>6. su \o <<>> = su
  <2> HIDE DEF su
  <2> QED  BY <1>2
<1> QED  BY <1>3, <1>4, <1>5, <1>6

LEMMA LaterInTime ==
  ASSUME NEW s \in Seq(Table!Row), ByTime(s), NEW k \in 0..Len(s)
  PROVE  /\ ByTime(Table!Dropped(s, k)) /\ Table!Range(Table!Dropped(s, k)) \subseteq Table!Range(s)
         /\ \A r \in Table!Range(s) : r \in Table!Range(Table!Dropped(s, k)) \/ k = Len(s) \/ r.n < Table!Dropped(s, k)[1].n
<1> DEFINE d == Table!Dropped(s, k)
<1>0. Len(s) \in Nat /\ k \in Nat /\ k <= Len(s)
  OBVIOUS
<1>1. d \in Seq(Table!Row) /\ Len(d) = Len(s) - k /\ \A i \in 1..(Len(s) - k) : d[i] = s[k + i]
  <2>1. \A A : \A x \in Seq(A) : \A j \in 0..Len(x) :
          /\ Table!Dropped(x, j) \in Seq(A) /\ Len(Table!Dropped(x, j)) = Len(x) - j
          /\ \A i \in 1..(Len(x) - j) : Table!Dropped(x, j)[i] = x[j + i]
    BY DroppedIs
  <2> QED  BY <2>1
<1> HIDE DEF d
<1>2. Table!Range(d) = RowsOf(d) /\ Table!Range(s) = RowsOf(s)
  BY <1>1, RangeIs
<1>3. \A i \in 1..Len(d) : k + i \in 1..Len(s) /\ d[i] = s[k + i]
  BY <1>0, <1>1
<1>4. ByTime(d)
  <2> SUFFICES ASSUME NEW i \in 1..Len(d), NEW j \in 1..Len(d), i < j PROVE d[i].n < d[j].n
    BY DEF ByTime
  <2>1. k + i \in 1..Len(s) /\ k + j \in 1..Len(s) /\ k + i < k + j
    BY <1>0, <1>1
  <2> QED  BY <1>3, <2>1 DEF ByTime
<1>5. Table!Range(d) \subseteq Table!Range(s)
  BY <1>2, <1>3 DEF RowsOf
<1>6. ASSUME NEW r \in Table!Range(s), k # Len(s) PROVE r \in Table!Range(d) \/ r.n < d[1].n
  <2>1. PICK i \in 1..Len(s) : r = s[i]
    BY <1>2 DEF RowsOf
  <2>2. CASE i > k
    <3>1. i - k \in 1..Len(d) /\ k + (i - k) = i
      BY <1>0, <1>1, <2>2
    <3>2. d[i - k] = r
      BY <1>3, <2>1, <3>1
    <3> QED  BY <1>2, <3>1, <3>2 DEF RowsOf
  <2>3. CASE i <= k
    <3>1. k + 1 \in 1..Len(s) /\ i < k + 1 /\ 1 \in 1..Len(d)
      <4>1. k # Len(s)
        BY <1>6
      <4>2. Len(d) = Len(s) - k
        BY <1>1
      <4> QED  BY <1>0, <2>3, <4>1, <4>2
    <3>2. d[1] = s[k + 1]
      BY <1>3, <3>1
    <3> QED  BY <2>1, <3>1, <3>2 DEF ByTime
  <2> QED  BY <2>2, <2>3
<1> QED  BY <1>4, <1>5, <1>6 DEF d

\* The first and the last row tell whether all are of one day.
LEMMA DayOfRows ==
  ASSUME NEW s \in Seq(Table!Row), ByTime(s)
  PROVE  Table!OneDay(s) = OfOneDay(s)
<1>1. Table!Range(s) = RowsOf(s) /\ Len(s) \in Nat /\ \A i \in 1..Len(s) : s[i] \in Table!Row /\ s[i] \in Table!Range(s)
  BY RangeIs
<1>2. \A i \in 1..Len(s) : s[i].n \in Nat
  BY <1>1, RowFields
<1>3. Midnight \in Nat
  BY TableAssumption
<1>4. CASE s = <<>>
  <2>1. RowsOf(s) = {}
    BY <1>4 DEF RowsOf
  <2> QED  BY <1>1, <1>4, <2>1 DEF Table!OneDay, OfOneDay
<1>5. CASE s # <<>>
  <2>1. 1 \in 1..Len(s) /\ Len(s) \in 1..Len(s)
    BY <1>5
  <2>2. \A i \in 1..Len(s) : s[1].n <= s[i].n /\ s[i].n <= s[Len(s)].n
    <3> SUFFICES ASSUME NEW i \in 1..Len(s) PROVE s[1].n <= s[i].n /\ s[i].n <= s[Len(s)].n
      OBVIOUS
    <3>1. s[1].n \in Nat /\ s[i].n \in Nat /\ s[Len(s)].n \in Nat
      BY <1>2, <2>1
    <3>2. i = 1 \/ s[1].n < s[i].n
      BY <1>1, <2>1 DEF ByTime
    <3>3. i = Len(s) \/ s[i].n < s[Len(s)].n
      BY <1>1, <2>1 DEF ByTime
    <3> QED  BY <3>1, <3>2, <3>3
  <2> DEFINE a == s[1].n
             b == s[Len(s)].n
  <2>3. Table!OneDay(s) = (a < Midnight <=> b < Midnight)
    BY <1>5 DEF Table!OneDay, Table!Last
  <2>4. (a < Midnight <=> b < Midnight) => OfOneDay(s)
    <3> SUFFICES ASSUME a < Midnight <=> b < Midnight, NEW q \in RowsOf(s), NEW r \in RowsOf(s)
                 PROVE  q.n < Midnight <=> r.n < Midnight
      BY <1>1 DEF OfOneDay
    <3>1. PICK i \in 1..Len(s), j \in 1..Len(s) : q = s[i] /\ r = s[j]
      BY DEF RowsOf
    <3>2. a \in Nat /\ b \in Nat /\ q.n \in Nat /\ r.n \in Nat
      BY <1>2, <2>1, <3>1
    <3>3. a <= q.n /\ q.n <= b /\ a <= r.n /\ r.n <= b
      BY <2>2, <3>1
    <3> HIDE DEF a, b
    <3> QED  BY <1>3, <3>2, <3>3
  <2>5. OfOneDay(s) => (a < Midnight <=> b < Midnight)
    BY <1>1, <2>1 DEF OfOneDay
  <2>6. OfOneDay(s) \in BOOLEAN
    BY DEF OfOneDay
  <2> HIDE DEF a, b
  <2> QED  BY <2>3, <2>4, <2>5, <2>6
<1> QED  BY <1>4, <1>5

\* The store drops its oldest rows.
LEMMA RemovedTrue ==
  ASSUME NEW t, TableTrue(t), NEW k \in 0..Len(t.rows)
  PROVE  LET u == Table!Removed(t, k)
         IN  TableTrue(u) /\ SameBut(t, u) /\ u.rows = Table!Dropped(t.rows, k)
<1> DEFINE d == Table!Dropped(t.rows, k)
           u == Table!Removed(t, k)
<1>1. t.rows \in Seq(Table!Row) /\ ByTime(t.rows) /\ t.view = t.rows /\ DOMAIN t = TableFields
  BY DEF TableTrue
<1>2. d \in Seq(Table!Row)
  BY <1>1, DroppedIs
<1>3. ByTime(d) /\ Table!Range(d) \subseteq Table!Range(t.rows)
  BY <1>1, LaterInTime
<1>4. /\ DOMAIN u = TableFields /\ u.rows = d /\ u.view = d /\ u.singleDay = Table!OneDay(d) /\ u.later = TRUE
      /\ u.keep = t.keep /\ u.paused = t.paused /\ u.hidden = t.hidden /\ u.devices = t.devices
      /\ u.otherValues = t.otherValues
  BY <1>1 DEF Table!Removed, TableFields
<1> HIDE DEF d, u
<1>5. u.singleDay = OfOneDay(u.rows)
  BY <1>2, <1>3, <1>4, DayOfRows
<1>6. (\E r \in Table!Range(u.rows) : r.id > 0) => u.otherValues
  BY <1>3, <1>4 DEF TableTrue
<1>7. TableTrue(u)
  BY <1>2, <1>3, <1>4, <1>5, <1>6 DEF TableTrue
<1> QED  BY <1>4, <1>7 DEF SameBut, d, u

\* New rows at the end, told to the view as such.
LEMMA InsertedTrue ==
  ASSUME NEW t, TableTrue(t), NEW rows \in Seq(Table!Row), ByTime(t.rows \o rows)
  PROVE  LET u == Table!Inserted(t, Len(t.rows), rows)
         IN  TableTrue(u) /\ SameBut(t, u) /\ u.rows = t.rows \o rows
<1> DEFINE d == t.rows \o rows
           u == Table!Inserted(t, Len(t.rows), rows)
<1>1. t.rows \in Seq(Table!Row) /\ t.view = t.rows /\ DOMAIN t = TableFields
  BY DEF TableTrue
<1>2. d \in Seq(Table!Row) /\ ByTime(d)
  BY <1>1
<1>3. Table!Range(d) \subseteq Table!Range(t.rows) \cup Table!Range(rows)
  <2>1. Table!Range(d) = RowsOf(d) /\ Table!Range(t.rows) = RowsOf(t.rows) /\ Table!Range(rows) = RowsOf(rows)
    BY <1>1, <1>2, RangeIs
  <2>2. /\ Len(t.rows) \in Nat /\ Len(rows) \in Nat /\ Len(d) = Len(t.rows) + Len(rows)
        /\ \A i \in 1..Len(t.rows) : d[i] = t.rows[i]
        /\ \A i \in 1..Len(rows) : d[Len(t.rows) + i] = rows[i]
    BY <1>1, JoinedIs
  <2> HIDE DEF d
  <2>3. ASSUME NEW i \in 1..Len(d) PROVE d[i] \in RowsOf(t.rows) \cup RowsOf(rows)
    <3>1. CASE i <= Len(t.rows)
      <4>1. i \in 1..Len(t.rows)
        BY <2>2, <3>1
      <4> QED  BY <2>2, <4>1 DEF RowsOf
    <3>2. CASE i > Len(t.rows)
      <4>1. i - Len(t.rows) \in 1..Len(rows) /\ Len(t.rows) + (i - Len(t.rows)) = i
        BY <2>2, <3>2
      <4>2. d[i] = rows[i - Len(t.rows)]
        BY <2>2, <4>1
      <4> QED  BY <4>1, <4>2 DEF RowsOf
    <3> QED  BY <2>2, <3>1, <3>2
  <2> QED  BY <2>1, <2>3 DEF RowsOf
<1>4. /\ DOMAIN u = TableFields /\ u.rows = d /\ u.singleDay = Table!OneDay(d) /\ u.later = TRUE
      /\ u.keep = t.keep /\ u.paused = t.paused /\ u.hidden = t.hidden /\ u.devices = t.devices
      /\ u.otherValues = (t.otherValues \/ \E r \in Table!Range(rows) : r.id > 0)
      /\ u.view = SubSeq(t.rows, 1, Len(t.rows)) \o SubSeq(d, Len(t.rows) + 1, Len(t.rows) + Len(rows))
                    \o SubSeq(t.rows, Len(t.rows) + 1, Len(t.rows))
  BY <1>1 DEF Table!Inserted, TableFields
<1>5. u.view = d
  BY <1>1, <1>4, ViewHasAll
<1> HIDE DEF d, u
<1>6. u.singleDay = OfOneDay(u.rows)
  BY <1>2, <1>4, DayOfRows
<1>7. (\E r \in Table!Range(u.rows) : r.id > 0) => u.otherValues
  <2>1. (\E r \in Table!Range(t.rows) : r.id > 0) => t.otherValues
    BY DEF TableTrue
  <2> QED  BY <1>3, <1>4, <2>1
<1>8. TableTrue(u)
  <2>1. u.keep \in Nat \ {0} /\ u.paused \in BOOLEAN
    BY <1>4 DEF TableTrue
  <2> QED  BY <1>2, <1>4, <1>5, <1>6, <1>7, <2>1 DEF TableTrue
<1> QED  BY <1>4, <1>8 DEF SameBut, d, u

LEMMA JoinedRange ==
  ASSUME NEW A, NEW s \in Seq(A), NEW u \in Seq(A)
  PROVE  Table!Range(s \o u) = Table!Range(s) \cup Table!Range(u)
<1> DEFINE d == s \o u
<1>1. /\ Len(s) \in Nat /\ Len(u) \in Nat /\ Len(d) = Len(s) + Len(u) /\ d \in Seq(A)
      /\ \A i \in 1..Len(s) : d[i] = s[i]
      /\ \A i \in 1..Len(u) : d[Len(s) + i] = u[i]
  BY JoinedIs
<1>2. Table!Range(d) = RowsOf(d) /\ Table!Range(s) = RowsOf(s) /\ Table!Range(u) = RowsOf(u)
  BY <1>1, RangeIs
<1> HIDE DEF d
<1>3. ASSUME NEW i \in 1..Len(d) PROVE d[i] \in RowsOf(s) \cup RowsOf(u)
  <2>1. CASE i <= Len(s)
    <3>1. i \in 1..Len(s)
      BY <1>1, <2>1
    <3> QED  BY <1>1, <3>1 DEF RowsOf
  <2>2. CASE i > Len(s)
    <3>1. i - Len(s) \in 1..Len(u) /\ Len(s) + (i - Len(s)) = i
      BY <1>1, <2>2
    <3>2. d[i] = u[i - Len(s)]
      BY <1>1, <3>1
    <3> QED  BY <3>1, <3>2 DEF RowsOf
  <2> QED  BY <1>1, <2>1, <2>2
<1>4. \A i \in 1..Len(s) : i \in 1..Len(d)
  BY <1>1
<1>5. \A i \in 1..Len(u) : Len(s) + i \in 1..Len(d)
  BY <1>1
<1>6. RowsOf(s) \subseteq RowsOf(d)
  BY <1>1, <1>4 DEF RowsOf
<1>7. RowsOf(u) \subseteq RowsOf(d)
  BY <1>1, <1>5 DEF RowsOf
<1>8. RowsOf(d) \subseteq RowsOf(s) \cup RowsOf(u)
  BY <1>3 DEF RowsOf
<1> QED  BY <1>2, <1>6, <1>7, <1>8 DEF d

LEMMA DroppedNone ==
  ASSUME NEW A, NEW s \in Seq(A)
  PROVE  Table!Dropped(s, 0) = s
<1>0. Len(s) \in Nat /\ 0 \in 0..Len(s)
  OBVIOUS
<1>1. Table!Dropped(s, 0) \in Seq(A) /\ Len(Table!Dropped(s, 0)) = Len(s) - 0
      /\ \A i \in 1..(Len(s) - 0) : Table!Dropped(s, 0)[i] = s[0 + i]
  BY <1>0, DroppedIs
<1>2. Len(Table!Dropped(s, 0)) = Len(s) /\ \A i \in 1..Len(s) : Table!Dropped(s, 0)[i] = s[i]
  BY <1>0, <1>1
<1> QED  BY <1>1, <1>2, SameSequence

\* The oldest of the new ones and the oldest of the old ones go, which are the oldest of all.
LEMMA DroppedOfBoth ==
  ASSUME NEW s \in Seq(Table!Row), NEW u \in Seq(Table!Row), NEW k \in 0..Len(s), NEW d \in 0..Len(u), d = 0 \/ k = Len(s)
  PROVE  Table!Dropped(s, k) \o Table!Dropped(u, d) = Table!Dropped(s \o u, k + d)
<1> DEFINE a == Table!Dropped(s, k)
           b == Table!Dropped(u, d)
           su == s \o u
           c == Table!Dropped(su, k + d)
           ab == a \o b
<1>0. Len(s) \in Nat /\ Len(u) \in Nat /\ k \in Nat /\ k <= Len(s) /\ d \in Nat /\ d <= Len(u)
  OBVIOUS
<1>1. a \in Seq(Table!Row) /\ Len(a) = Len(s) - k /\ \A i \in 1..(Len(s) - k) : a[i] = s[k + i]
  BY DroppedIs
<1>2. b \in Seq(Table!Row) /\ Len(b) = Len(u) - d /\ \A i \in 1..(Len(u) - d) : b[i] = u[d + i]
  BY DroppedIs
<1>3. /\ su \in Seq(Table!Row) /\ Len(su) = Len(s) + Len(u)
      /\ \A i \in 1..Len(s) : su[i] = s[i]
      /\ \A i \in 1..Len(u) : su[Len(s) + i] = u[i]
  BY JoinedIs
<1> HIDE DEF su
<1>4. c \in Seq(Table!Row) /\ Len(c) = Len(su) - (k + d) /\ \A i \in 1..(Len(su) - (k + d)) : c[i] = su[k + d + i]
  <2>1. k + d \in 0..Len(su)
    BY <1>0, <1>3
  <2> QED  BY <1>3, <2>1, DroppedIs
<1> HIDE DEF a, b, c
<1>5. /\ ab \in Seq(Table!Row) /\ Len(ab) = Len(a) + Len(b)
      /\ \A i \in 1..Len(a) : ab[i] = a[i]
      /\ \A i \in 1..Len(b) : ab[Len(a) + i] = b[i]
  <2>1. a \in Seq(Table!Row) /\ b \in Seq(Table!Row)
    BY <1>1, <1>2
  <2> QED  BY <2>1, JoinedIs
<1> HIDE DEF ab
<1>6. Len(ab) = Len(c) /\ Len(ab) \in Nat
  BY <1>0, <1>1, <1>2, <1>3, <1>4, <1>5
<1>7. ASSUME NEW i \in 1..Len(ab) PROVE ab[i] = c[i]
  <2>1. c[i] = su[k + d + i]
    BY <1>4, <1>6, <1>7
  <2>2. CASE i <= Len(a)
    <3>1. i \in 1..Len(a) /\ i \in 1..(Len(s) - k) /\ k + i \in 1..Len(s)
      BY <1>0, <1>1, <2>2
    <3>2. d = 0
      BY <1>0, <3>1
    <3>3. k + d + i = k + i
      BY <1>0, <3>2
    <3> QED  BY <1>1, <1>3, <1>5, <2>1, <3>1, <3>3
  <2>3. CASE i > Len(a)
    <3> DEFINE j == i - Len(a)
    <3>1. /\ j \in 1..Len(b) /\ Len(a) + j = i /\ j \in 1..(Len(u) - d) /\ d + j \in 1..Len(u)
          /\ Len(s) + (d + j) = k + d + i
      <4>1. Len(a) = Len(s) - k /\ Len(b) = Len(u) - d /\ Len(ab) = Len(a) + Len(b)
        BY <1>1, <1>2, <1>5
      <4> QED  BY <1>0, <2>3, <4>1
    <3> HIDE DEF j
    <3>2. ab[Len(a) + j] = b[j] /\ b[j] = u[d + j] /\ su[Len(s) + (d + j)] = u[d + j]
      BY <1>2, <1>3, <1>5, <3>1
    <3> QED  BY <2>1, <3>1, <3>2
  <2>4. i <= Len(a) \/ i > Len(a)
    BY <1>0, <1>1
  <2> QED  BY <2>2, <2>3, <2>4
<1>8. ab = c
  BY <1>4, <1>5, <1>6, <1>7, SameSequence
<1> QED  BY <1>8 DEF ab, a, b, c, su

\* logRows(): of the rows there were and the new ones only the oldest are missing, where the table is full.
LEMMA LogRowsTrue ==
  ASSUME NEW t, TableTrue(t), Len(t.rows) <= t.keep, NEW rows \in Seq(Table!Row), ByTime(t.rows \o rows)
  PROVE  LET u == Table!LogRows(t, rows)
         IN  /\ TableTrue(u) /\ SameBut(t, u) /\ Len(u.rows) <= u.keep
             /\ Len(t.rows) = t.keep => Len(u.rows) = u.keep
             /\ Table!Range(u.rows) \subseteq Table!Range(t.rows) \cup Table!Range(rows)
             /\ ~t.paused => \A r \in Table!Range(t.rows) \cup Table!Range(rows) :
                                r \in Table!Range(u.rows) \/ (Len(u.rows) = u.keep /\ r.n < u.rows[1].n)
<1> DEFINE u == Table!LogRows(t, rows)
           all == t.rows \o rows
           d == IF Len(rows) > t.keep THEN Len(rows) - t.keep ELSE 0
           kept == Table!Dropped(rows, d)
           over == IF Len(t.rows) + Len(kept) > t.keep THEN Len(t.rows) + Len(kept) - t.keep ELSE 0
           room == IF over > 0 THEN Table!Removed(t, over) ELSE t
<1>0. /\ t.rows \in Seq(Table!Row) /\ ByTime(t.rows) /\ t.keep \in Nat /\ t.keep > 0
      /\ Len(t.rows) \in Nat /\ Len(rows) \in Nat
  BY DEF TableTrue
<1>1. CASE t.paused \/ rows = <<>>
  <2>1. u = t
    BY <1>1 DEF Table!LogRows
  <2>2. ~t.paused => Table!Range(rows) = {}
    <3>1. rows = <<>> => RowsOf(rows) = {}
      BY DEF RowsOf
    <3> QED  BY <1>1, <3>1, RangeIs
  <2> HIDE DEF u
  <2> QED  BY <2>1, <2>2 DEF SameBut, u
<1>2. CASE ~t.paused /\ rows # <<>>
  <2>1. u = Table!Inserted(room, Len(room.rows), kept)
    BY <1>2 DEF Table!LogRows
  <2>2. d \in 0..Len(rows)
    BY <1>0
  <2>3. kept \in Seq(Table!Row) /\ Len(kept) = Len(rows) - d
    <3> HIDE DEF d
    <3> QED  BY <2>2, DroppedIs
  <2>4. Len(kept) <= t.keep /\ Len(kept) \in Nat /\ (d > 0 => Len(kept) = t.keep)
    <3> HIDE DEF kept
    <3> QED  BY <1>0, <2>3
  <2>5. /\ over \in 0..Len(t.rows) /\ (d = 0 \/ over = Len(t.rows))
        /\ Len(t.rows) - over + Len(kept) <= t.keep
        /\ over + d > 0 => Len(t.rows) - over + Len(kept) = t.keep
    <3>1. d \in Nat
      BY <2>2
    <3> HIDE DEF kept, d
    <3> QED  BY <1>0, <2>4, <3>1
  <2> HIDE DEF kept, d, over
  <2>6. TableTrue(room) /\ SameBut(t, room) /\ room.rows = Table!Dropped(t.rows, over)
    <3>1. CASE over > 0
      <4>1. room = Table!Removed(t, over)
        BY <3>1
      <4> HIDE DEF room
      <4> QED  BY <2>5, <4>1, RemovedTrue
    <3>2. CASE ~(over > 0)
      <4>1. over = 0 /\ room = t
        BY <2>5, <3>2
      <4>2. Table!Dropped(t.rows, 0) = t.rows
        BY <1>0, DroppedNone
      <4> QED  BY <4>1, <4>2 DEF SameBut
    <3> QED  BY <3>1, <3>2
  <2> HIDE DEF room
  <2>7. room.rows \o kept = Table!Dropped(all, over + d)
    <3>1. Table!Dropped(t.rows, over) \o Table!Dropped(rows, d) = Table!Dropped(t.rows \o rows, over + d)
      <4>1. t.rows \in Seq(Table!Row) /\ rows \in Seq(Table!Row) /\ over \in 0..Len(t.rows) /\ d \in 0..Len(rows)
        BY <1>0, <2>2, <2>5
      <4>2. d = 0 \/ over = Len(t.rows)
        BY <2>5
      <4> QED  BY <4>1, <4>2, DroppedOfBoth, Zenon
    <3> QED  BY <2>6, <3>1 DEF kept
  <2>8. all \in Seq(Table!Row) /\ Len(all) = Len(t.rows) + Len(rows) /\ ByTime(all)
    BY <1>0, JoinedIs
  <2>9. Table!Range(all) = Table!Range(t.rows) \cup Table!Range(rows)
    BY <1>0, JoinedRange
  <2> HIDE DEF all
  <2>10. over + d \in 0..Len(all)
    BY <1>0, <2>2, <2>5, <2>8
  <2> DEFINE k == over + d
             rest == Table!Dropped(all, k)
  <2> HIDE DEF k
  <2>11. /\ rest \in Seq(Table!Row) /\ Len(rest) = Len(all) - k /\ ByTime(rest)
         /\ Table!Range(rest) \subseteq Table!Range(all)
         /\ \A r \in Table!Range(all) : r \in Table!Range(rest) \/ k = Len(all) \/ r.n < rest[1].n
         /\ k = 0 => rest = all
    <3>1. k \in 0..Len(all)
      BY <2>10 DEF k
    <3>2. k = 0 => rest = all
      BY <2>8, DroppedNone
    <3> QED  BY <2>8, <3>1, <3>2, DroppedIs, LaterInTime
  <2>12. TableTrue(u) /\ SameBut(room, u) /\ u.rows = rest
    <3>1. room.rows \o kept = rest
      BY <2>7 DEF k
    <3> HIDE DEF rest, u
    <3> QED  BY <2>1, <2>3, <2>6, <2>11, <3>1, InsertedTrue
  <2> HIDE DEF rest, u
  <2>13. u.keep = t.keep /\ SameBut(t, u)
    BY <2>6, <2>12 DEF SameBut
  <2>14. Len(rest) <= t.keep /\ (k > 0 => Len(rest) = t.keep) /\ k \in Nat
    BY <1>0, <2>2, <2>3, <2>5, <2>8, <2>11 DEF k
  <2>15. ASSUME NEW r \in Table!Range(all) PROVE r \in Table!Range(u.rows) \/ (Len(u.rows) = u.keep /\ r.n < u.rows[1].n)
    <3>1. CASE k = 0
      BY <2>11, <2>12, <3>1
    <3>2. CASE k # 0
      <4>1. Len(rest) = t.keep
        BY <2>14, <3>2
      <4>2. k # Len(all)
        BY <1>0, <2>8, <2>11, <2>14, <4>1
      <4> QED  BY <2>11, <2>12, <2>13, <4>1, <4>2
    <3> QED  BY <3>1, <3>2
  <2>16. Len(t.rows) = t.keep => Len(rest) = t.keep
    <3>1. k = 0 => Len(rest) = Len(all)
      BY <2>11
    <3> QED  BY <1>0, <2>8, <2>14, <3>1
  <2> QED  BY <2>9, <2>11, <2>12, <2>13, <2>14, <2>15, <2>16 DEF u
<1> QED  BY <1>0, <1>1, <1>2 DEF TableTrue

LEMMA ClearedTrue ==
  ASSUME NEW t, TableTrue(t)
  PROVE  LET u == Table!Cleared(t) IN TableTrue(u) /\ SameBut(t, u) /\ u.rows = <<>>
<1> DEFINE u == Table!Cleared(t)
<1>1. CASE t.rows = <<>>
  <2>1. u = t
    BY <1>1 DEF Table!Cleared
  <2> HIDE DEF u
  <2> QED  BY <1>1, <2>1 DEF SameBut, u
<1>2. CASE t.rows # <<>>
  <2>1. DOMAIN t = TableFields
    BY DEF TableTrue
  <2>2. /\ DOMAIN u = TableFields /\ u.rows = <<>> /\ u.view = <<>> /\ u.singleDay = TRUE
        /\ u.stats = Table!Stats(<<>>, t.hidden) /\ u.keep = t.keep /\ u.paused = t.paused /\ u.hidden = t.hidden
        /\ u.devices = t.devices
    BY <1>2, <2>1 DEF Table!Cleared, TableFields
  <2> HIDE DEF u
  <2>3. Table!Range(<<>>) = {}
    <3>1. RowsOf(<<>>) = {}
      BY DEF RowsOf
    <3>2. <<>> \in Seq(Table!Row)
      OBVIOUS
    <3> QED  BY <3>1, <3>2, RangeIs
  <2>4. OfOneDay(<<>>) = TRUE
    BY <2>3 DEF OfOneDay
  <2>5. <<>> \in Seq(Table!Row) /\ ByTime(<<>>)
    BY DEF ByTime
  <2>6. u.keep \in Nat \ {0} /\ u.paused \in BOOLEAN
    BY <2>2 DEF TableTrue
  <2>7. u.singleDay = OfOneDay(u.rows) /\ (u.later \/ u.stats = Table!Stats(u.rows, u.hidden))
    BY <2>2, <2>4
  <2>8. TableTrue(u)
    BY <2>2, <2>3, <2>5, <2>6, <2>7 DEF TableTrue
  <2> QED  BY <2>2, <2>8 DEF SameBut, u
<1> QED  BY <1>1, <1>2

\* What else changes of a table leaves the rows.
LEMMA HiddenTrue ==
  ASSUME NEW t, TableTrue(t), NEW hidden
  PROVE  LET u == Table!WithHidden(t, hidden)
         IN  TableTrue(u) /\ u.rows = t.rows /\ u.keep = t.keep /\ u.devices = t.devices /\ u.paused = t.paused
<1> DEFINE u == Table!WithHidden(t, hidden)
<1>1. CASE hidden = t.hidden
  <2>1. u = t
    BY <1>1 DEF Table!WithHidden
  <2> HIDE DEF u
  <2> QED  BY <2>1 DEF u
<1>2. CASE hidden # t.hidden
  <2>1. DOMAIN t = TableFields
    BY DEF TableTrue
  <2>2. /\ DOMAIN u = TableFields /\ u.rows = t.rows /\ u.view = t.view /\ u.singleDay = t.singleDay
        /\ u.otherValues = t.otherValues /\ u.stats = Table!Stats(t.rows, hidden) /\ u.keep = t.keep
        /\ u.paused = t.paused /\ u.hidden = hidden /\ u.devices = t.devices
    BY <1>2, <2>1 DEF Table!WithHidden, TableFields
  <2> HIDE DEF u
  <2>3. TableTrue(u)
    BY <2>2 DEF TableTrue
  <2> QED  BY <2>2, <2>3 DEF u
<1> QED  BY <1>1, <1>2

LEMMA FieldsTrue ==
  ASSUME NEW t, TableTrue(t)
  PROVE  /\ \A b \in BOOLEAN : LET u == [t EXCEPT !.paused = b]
                               IN  TableTrue(u) /\ u.rows = t.rows /\ u.keep = t.keep /\ u.devices = t.devices
         /\ \A b : LET u == [t EXCEPT !.devices = b]
                   IN  TableTrue(u) /\ u.rows = t.rows /\ u.keep = t.keep /\ u.devices = b /\ u.paused = t.paused
         /\ \A k \in Nat \ {0} : LET u == [t EXCEPT !.keep = k]
                   IN  TableTrue(u) /\ u.rows = t.rows /\ u.keep = k /\ u.devices = t.devices
         /\ LET u == [t EXCEPT !.later = FALSE, !.stats = Table!Stats(t.rows, t.hidden)]
            IN  TableTrue(u) /\ u.rows = t.rows /\ u.keep = t.keep /\ u.devices = t.devices
<1>1. DOMAIN t = TableFields
  BY DEF TableTrue
<1>2. ASSUME NEW b \in BOOLEAN
      PROVE  LET u == [t EXCEPT !.paused = b]
             IN  TableTrue(u) /\ u.rows = t.rows /\ u.keep = t.keep /\ u.devices = t.devices
  BY <1>1 DEF TableTrue, TableFields
<1>3. ASSUME NEW b
      PROVE  LET u == [t EXCEPT !.devices = b]
             IN  TableTrue(u) /\ u.rows = t.rows /\ u.keep = t.keep /\ u.devices = b /\ u.paused = t.paused
  BY <1>1 DEF TableTrue, TableFields
<1>4. ASSUME NEW k \in Nat \ {0}
      PROVE  LET u == [t EXCEPT !.keep = k]
             IN  TableTrue(u) /\ u.rows = t.rows /\ u.keep = k /\ u.devices = t.devices
  BY <1>1 DEF TableTrue, TableFields
<1>5. LET u == [t EXCEPT !.later = FALSE, !.stats = Table!Stats(t.rows, t.hidden)]
      IN  TableTrue(u) /\ u.rows = t.rows /\ u.keep = t.keep /\ u.devices = t.devices
  BY <1>1 DEF TableTrue, TableFields
<1> QED  BY <1>2, <1>3, <1>4, <1>5, Zenon

LEMMA KeptTrue ==
  ASSUME NEW t, TableTrue(t), Len(t.rows) <= t.keep, NEW k \in Nat \ {0}
  PROVE  LET u == Table!Capped(t, k)
         IN  TableTrue(u) /\ Len(u.rows) <= u.keep /\ Table!Range(u.rows) \subseteq Table!Range(t.rows)
             /\ u.devices = t.devices
<1> DEFINE u == Table!Capped(t, k)
           less == [t EXCEPT !.keep = k]
<1>1. TableTrue(less) /\ less.rows = t.rows /\ less.keep = k /\ less.devices = t.devices
  BY FieldsTrue
<1>2. t.rows \in Seq(Table!Row) /\ ByTime(t.rows) /\ Len(t.rows) \in Nat
  BY DEF TableTrue
<1>3. u = IF Len(t.rows) > k THEN Table!Removed(less, Len(t.rows) - k) ELSE less
  BY DEF Table!Capped
<1> HIDE DEF less, u
<1>4. CASE ~(Len(t.rows) > k)
  BY <1>1, <1>2, <1>3, <1>4 DEF u
<1>5. CASE Len(t.rows) > k
  <2> DEFINE n == Len(t.rows) - k
  <2>1. n \in 0..Len(t.rows) /\ Len(t.rows) - n = k
    BY <1>2, <1>5
  <2>2. u = Table!Removed(less, n)
    BY <1>3, <1>5
  <2> HIDE DEF n
  <2>3. TableTrue(u) /\ SameBut(less, u) /\ u.rows = Table!Dropped(t.rows, n)
    BY <1>1, <2>1, <2>2, RemovedTrue
  <2>4. Len(u.rows) = k /\ Table!Range(u.rows) \subseteq Table!Range(t.rows)
    BY <1>2, <2>1, <2>3, DroppedIs, LaterInTime
  <2> QED  BY <1>1, <2>3, <2>4 DEF SameBut, u
<1> QED  BY <1>4, <1>5

\* Counting up, for a set: what holds at none and goes on from each to the next holds up to the end.
LEMMA HoldsUpTo ==
  ASSUME NEW n \in Nat, NEW Z, 0 \in Z, \A k \in 0..n : k < n /\ k \in Z => k + 1 \in Z
  PROVE  \A k \in 0..n : k \in Z
<1> DEFINE T == {k \in 0..n : k \notin Z}
<1>1. SUFFICES ASSUME T # {} PROVE FALSE
  OBVIOUS
<1>2. T \subseteq Nat
  OBVIOUS
<1>3. PICK m \in T : \A y \in T : ~(y < m)
  <2> HIDE DEF T
  <2>1. PICK m \in T : \A y \in T : <<y, m>> \notin OpToRel(<, Nat)
    BY <1>1, <1>2, NatLessThanWellFounded, WFMin, Zenon
  <2>2. \A y \in T : ~(y < m)
    BY <2>1, <1>2, Zenon DEF OpToRel
  <2> QED  BY <2>2
<1>4. m \in 0..n /\ m \notin Z
  OBVIOUS
<1>5. m # 0
  BY <1>4
<1>6. m - 1 \in 0..n /\ m - 1 < n /\ m - 1 < m /\ m - 1 + 1 = m
  BY <1>4, <1>5
<1>7. m - 1 \in Z
  BY <1>3, <1>6
<1> QED  BY <1>4, <1>6, <1>7

\* The meters of a list that are in a set.
Picked(g, list, set) ==
  g = [i \in 0..Len(list) |->
         IF i = 0 THEN <<>> ELSE IF list[i] \in set THEN Append(g[i - 1], list[i]) ELSE g[i - 1]]

LEMMA PickedExists ==
  ASSUME NEW list, NEW set, Len(list) \in Nat
  PROVE  \E g : Picked(g, list, set)
<1> DEFINE N == Len(list)
           Next1(x, k) == IF list[k] \in set THEN Append(x, list[k]) ELSE x
           Upto(g, m) == g = [k \in 0..m |-> IF k = 0 THEN <<>> ELSE Next1(g[k - 1], k)]
           T == {m \in 0..N : \E g : Upto(g, m)}
<1> HIDE DEF Next1
<1>1. 0 \in T
  <2> DEFINE g == [k \in 0..0 |-> <<>>]
  <2>1. [k \in 0..0 |-> IF k = 0 THEN <<>> ELSE Next1(g[k - 1], k)] = g
    <3>1. \A k \in 0..0 : k = 0
      OBVIOUS
    <3> QED  BY <3>1
  <2>2. \E h : Upto(h, 0)
    BY <2>1
  <2> QED  BY <2>2
<1>2. ASSUME NEW m \in 0..N, m < N, m \in T PROVE m + 1 \in T
  <2>1. PICK g : Upto(g, m)
    BY <1>2
  <2> DEFINE h == [k \in 0..(m + 1) |-> IF k = m + 1 THEN Next1(g[m], m + 1) ELSE g[k]]
  <2>2. \A k \in 0..(m + 1) : h[k] = IF k = 0 THEN <<>> ELSE Next1(h[k - 1], k)
    <3> SUFFICES ASSUME NEW k \in 0..(m + 1) PROVE h[k] = IF k = 0 THEN <<>> ELSE Next1(h[k - 1], k)
      OBVIOUS
    <3>1. CASE k = m + 1
      <4>1. h[k - 1] = g[m] /\ k # 0
        BY <3>1
      <4> QED  BY <3>1, <4>1
    <3>2. CASE k # m + 1
      <4>1. k \in 0..m /\ (k # 0 => h[k - 1] = g[k - 1]) /\ h[k] = g[k]
        BY <3>2
      <4>2. g[k] = IF k = 0 THEN <<>> ELSE Next1(g[k - 1], k)
        BY <2>1, <4>1
      <4> QED  BY <4>1, <4>2
    <3> QED  BY <3>1, <3>2
  <2>3. Upto(h, m + 1)
    BY <2>2
  <2>4. m + 1 \in 0..N
    BY <1>2
  <2> HIDE DEF h
  <2>5. \E e : Upto(e, m + 1)
    <3> HIDE DEF Upto
    <3> QED  BY <2>3
  <2> HIDE DEF Upto
  <2> QED  BY <2>4, <2>5
<1>3. \A k \in 0..N : k \in T
  <2> HIDE DEF T
  <2> QED  BY <1>1, <1>2, HoldsUpTo
<1>4. \E g : Upto(g, N)
  BY <1>3
<1> QED  BY <1>4 DEF Picked, Next1

LEMMA ThoseAre ==
  ASSUME NEW list \in Seq(Meters), NEW set
  PROVE  Table!Those(list, set) \in Seq(Meters) /\ Table!Range(Table!Those(list, set)) \subseteq Table!Range(list)
<1> DEFINE N == Len(list)
           A == Table!Range(list)
           F == CHOOSE g : Picked(g, list, set)
<1>0. N \in Nat /\ \A k \in 1..N : list[k] \in Meters /\ list[k] \in A
  BY RangeIs
<1>1. Picked(F, list, set)
  BY <1>0, PickedExists
<1>2. Table!Those(list, set) = F[N]
  BY DEF Table!Those, Picked
<1> HIDE DEF F, A
<1>3. F[0] = <<>> /\ \A k \in 1..N : F[k] = IF list[k] \in set THEN Append(F[k - 1], list[k]) ELSE F[k - 1]
  <2> HIDE DEF N
  <2>1. F = [k \in 0..N |-> IF k = 0 THEN <<>> ELSE IF list[k] \in set THEN Append(F[k - 1], list[k]) ELSE F[k - 1]]
    BY <1>1 DEF Picked, N
  <2>2. 0 \in 0..N /\ \A k \in 1..N : k \in 0..N /\ k # 0
    BY <1>0
  <2>3. F[0] = <<>>
    BY <2>1, <2>2
  <2>4. ASSUME NEW k \in 1..N PROVE F[k] = IF list[k] \in set THEN Append(F[k - 1], list[k]) ELSE F[k - 1]
    BY <2>1, <2>2
  <2> QED  BY <2>3, <2>4
<1> DEFINE T == {k \in 0..N : F[k] \in Seq(Meters \cap A)}
<1> HIDE DEF N
<1>4. 0 \in T
  <2>1. F[0] \in Seq(Meters \cap A) /\ 0 \in 0..N
    BY <1>0, <1>3
  <2> QED  BY <2>1
<1>5. ASSUME NEW k \in 0..N, k < N, k \in T PROVE k + 1 \in T
  <2>1. k + 1 \in 1..N /\ k + 1 \in 0..N /\ k + 1 - 1 = k
    BY <1>0, <1>5
  <2>2. F[k + 1] = IF list[k + 1] \in set THEN Append(F[k], list[k + 1]) ELSE F[k]
    BY <1>3, <2>1
  <2>3. F[k] \in Seq(Meters \cap A) /\ list[k + 1] \in Meters \cap A
    BY <1>0, <1>5, <2>1
  <2>4. F[k + 1] \in Seq(Meters \cap A)
    BY <2>2, <2>3
  <2> QED  BY <2>1, <2>4
<1>6. N \in T
  <2> HIDE DEF T
  <2>1. \A k \in 0..N : k \in T
    BY <1>0, <1>4, <1>5, HoldsUpTo
  <2> QED  BY <1>0, <2>1
<1>7. F[N] \in Seq(Meters \cap A)
  BY <1>6
<1> HIDE DEF T
<1>8. F[N] \in Seq(Meters)
  BY <1>7
<1>9. Table!Range(F[N]) \subseteq A
  BY <1>7 DEF Table!Range
<1> QED  BY <1>2, <1>8, <1>9 DEF A

\* A row of a later reading.
LEMMA LaterJoined ==
  ASSUME NEW s \in Seq(Table!Row), ByTime(s), NEW c \in Table!Row, \A r \in Table!Range(s) : r.n < c.n
  PROVE  LET u == s \o <<c>>
         IN  u \in Seq(Table!Row) /\ ByTime(u) /\ Table!Range(u) = Table!Range(s) \cup {c}
<1> DEFINE u == s \o <<c>>
           one == <<c>>
<1>0. Len(s) \in Nat /\ Table!Range(s) = RowsOf(s)
  BY RangeIs
<1>1. one \in Seq(Table!Row) /\ Len(one) = 1 /\ one[1] = c
  OBVIOUS
<1>2. Table!Range(one) = {c}
  <2>1. Table!Range(one) = RowsOf(one)
    BY <1>1, RangeIs
  <2>2. RowsOf(one) = {c}
    <3> HIDE DEF one
    <3>1. \A i \in 1..Len(one) : i = 1
      BY <1>1
    <3>2. 1 \in 1..Len(one)
      BY <1>1
    <3> QED  BY <1>1, <3>1, <3>2 DEF RowsOf
  <2> QED  BY <2>1, <2>2
<1>3. /\ u \in Seq(Table!Row) /\ Len(u) = Len(s) + 1 /\ u[Len(s) + 1] = c
      /\ \A i \in 1..Len(s) : u[i] = s[i]
  <2> HIDE DEF one
  <2>1. /\ s \o one \in Seq(Table!Row) /\ Len(s \o one) = Len(s) + Len(one)
        /\ \A i \in 1..Len(s) : (s \o one)[i] = s[i]
        /\ \A i \in 1..Len(one) : (s \o one)[Len(s) + i] = one[i]
    BY <1>1, JoinedIs
  <2>2. 1 \in 1..Len(one)
    BY <1>1
  <2> QED  BY <1>1, <2>1, <2>2 DEF one
<1>4. Table!Range(s \o one) = Table!Range(s) \cup {c}
  <2> HIDE DEF one
  <2> QED  BY <1>1, <1>2, JoinedRange
<1> HIDE DEF u
<1>5. ByTime(u)
  <2> SUFFICES ASSUME NEW i \in 1..Len(u), NEW j \in 1..Len(u), i < j PROVE u[i].n < u[j].n
    BY DEF ByTime
  <2>1. i \in 1..Len(s)
    BY <1>0, <1>3
  <2>2. CASE j \in 1..Len(s)
    BY <1>3, <2>1, <2>2 DEF ByTime
  <2>3. CASE j \notin 1..Len(s)
    <3>1. j = Len(s) + 1
      BY <1>0, <1>3, <2>3
    <3>2. s[i] \in Table!Range(s)
      BY <2>1, RangeIs
    <3> QED  BY <1>3, <2>1, <3>1, <3>2
  <2> QED  BY <2>2, <2>3
<1> QED  BY <1>3, <1>4, <1>5 DEF u

\* The merge, reading by reading.
LogsRows(m, list) == UNION {Table!Range(m[x]) : x \in list}

NextRow(rows, n) == IF \E r \in rows : r.n = n THEN <<CHOOSE r \in rows : r.n = n>> ELSE <<>>

Merging(g, rows) == g = [n \in 0..MaxReadings |-> IF n = 0 THEN <<>> ELSE g[n - 1] \o NextRow(rows, n)]

LEMMA MergingExists ==
  ASSUME NEW rows
  PROVE  \E g : Merging(g, rows)
<1> DEFINE N == MaxReadings
           Next1(x, k) == x \o NextRow(rows, k)
           Upto(g, m) == g = [k \in 0..m |-> IF k = 0 THEN <<>> ELSE Next1(g[k - 1], k)]
           T == {m \in 0..N : \E g : Upto(g, m)}
<1>0. N \in Nat
  BY TableAssumption
<1> HIDE DEF Next1, N
<1>1. 0 \in T
  <2> DEFINE g == [k \in 0..0 |-> <<>>]
  <2>1. [k \in 0..0 |-> IF k = 0 THEN <<>> ELSE Next1(g[k - 1], k)] = g
    <3>1. \A k \in 0..0 : k = 0
      OBVIOUS
    <3> QED  BY <3>1
  <2>2. \E h : Upto(h, 0)
    BY <2>1
  <2> QED  BY <1>0, <2>2
<1>2. ASSUME NEW m \in 0..N, m < N, m \in T PROVE m + 1 \in T
  <2>1. PICK g : Upto(g, m)
    BY <1>2
  <2> DEFINE h == [k \in 0..(m + 1) |-> IF k = m + 1 THEN Next1(g[m], m + 1) ELSE g[k]]
  <2>2. \A k \in 0..(m + 1) : h[k] = IF k = 0 THEN <<>> ELSE Next1(h[k - 1], k)
    <3> SUFFICES ASSUME NEW k \in 0..(m + 1) PROVE h[k] = IF k = 0 THEN <<>> ELSE Next1(h[k - 1], k)
      OBVIOUS
    <3>1. CASE k = m + 1
      <4>1. h[k - 1] = g[m] /\ k # 0
        BY <1>0, <3>1
      <4> QED  BY <3>1, <4>1
    <3>2. CASE k # m + 1
      <4>1. k \in 0..m /\ (k # 0 => h[k - 1] = g[k - 1]) /\ h[k] = g[k]
        BY <1>0, <3>2
      <4>2. g[k] = IF k = 0 THEN <<>> ELSE Next1(g[k - 1], k)
        BY <2>1, <4>1
      <4> QED  BY <4>1, <4>2
    <3> QED  BY <3>1, <3>2
  <2>3. Upto(h, m + 1)
    BY <2>2
  <2>4. m + 1 \in 0..N
    BY <1>0, <1>2
  <2> HIDE DEF h
  <2>5. \E e : Upto(e, m + 1)
    <3> HIDE DEF Upto
    <3> QED  BY <2>3
  <2> HIDE DEF Upto
  <2> QED  BY <2>4, <2>5
<1>3. \A k \in 0..N : k \in T
  <2> HIDE DEF T
  <2> QED  BY <1>0, <1>1, <1>2, HoldsUpTo
<1>4. \E g : Upto(g, N)
  BY <1>0, <1>3
<1> QED  BY <1>4 DEF Merging, Next1, N

\* Rows of as many times, in the order of time.
LEMMA MergedHas ==
  ASSUME NEW m, NEW list, LogsRows(m, list) \subseteq Table!Row,
         \A q, r \in LogsRows(m, list) : q.n = r.n => q = r
  PROVE  LET s == Table!Merged(m, list)
         IN  s \in Seq(Table!Row) /\ ByTime(s) /\ Table!Range(s) = LogsRows(m, list)
<1> DEFINE rows == LogsRows(m, list)
           N == MaxReadings
           F == CHOOSE g : Merging(g, rows)
<1>0. N \in Nat /\ \A r \in rows : r \in Table!Row /\ r.n \in 1..N
  <2>1. N \in Nat
    BY TableAssumption
  <2>2. ASSUME NEW r \in rows PROVE r \in Table!Row /\ r.n \in 1..N
    <3>1. r \in Table!Row
      OBVIOUS
    <3> QED  BY <2>1, <3>1, RowFields
  <2> QED  BY <2>1, <2>2
<1>1. Merging(F, rows)
  BY MergingExists
<1>2. Table!Merged(m, list) = F[N]
  BY DEF Table!Merged, Merging, NextRow, LogsRows
<1> HIDE DEF F, rows
<1>3. F[0] = <<>> /\ \A k \in 1..N : F[k] = F[k - 1] \o NextRow(rows, k)
  <2> HIDE DEF N
  <2>1. F = [k \in 0..N |-> IF k = 0 THEN <<>> ELSE F[k - 1] \o NextRow(rows, k)]
    BY <1>1 DEF Merging, N
  <2>2. 0 \in 0..N /\ \A k \in 1..N : k \in 0..N /\ k # 0
    BY <1>0
  <2>3. F[0] = <<>>
    BY <2>1, <2>2
  <2>4. ASSUME NEW k \in 1..N PROVE F[k] = F[k - 1] \o NextRow(rows, k)
    BY <2>1, <2>2
  <2> QED  BY <2>3, <2>4
<1> DEFINE Good(k) == /\ F[k] \in Seq(Table!Row) /\ ByTime(F[k])
                      /\ Table!Range(F[k]) = {r \in rows : r.n <= k}
           T == {k \in 0..N : Good(k)}
<1> HIDE DEF N
<1>4. 0 \in T
  <2>1. <<>> \in Seq(Table!Row) /\ ByTime(<<>>)
    BY DEF ByTime
  <2>2. Table!Range(<<>>) = {}
    <3>1. RowsOf(<<>>) = {}
      BY DEF RowsOf
    <3> QED  BY <2>1, <3>1, RangeIs
  <2>3. {r \in rows : r.n <= 0} = {}
    BY <1>0
  <2>4. 0 \in 0..N
    BY <1>0
  <2> QED  BY <1>3, <2>1, <2>2, <2>3, <2>4
<1>5. ASSUME NEW k \in 0..N, k < N, k \in T PROVE k + 1 \in T
  <2>1. k + 1 \in 1..N /\ k + 1 \in 0..N /\ k + 1 - 1 = k /\ k \in Nat
    BY <1>0, <1>5
  <2>2. Good(k)
    BY <1>5
  <2>3. F[k + 1] = F[k] \o NextRow(rows, k + 1)
    <3>1. \A j \in 1..N : F[j] = F[j - 1] \o NextRow(rows, j)
      BY <1>3
    <3>2. F[k + 1] = F[(k + 1) - 1] \o NextRow(rows, k + 1)
      BY <2>1, <3>1, Zenon
    <3>3. (k + 1) - 1 = k
      BY <2>1
    <3> QED  BY <3>2, <3>3, Zenon
  <2>4. CASE \E r \in rows : r.n = k + 1
    <3> DEFINE c == CHOOSE r \in rows : r.n = k + 1
    <3>1. c \in rows /\ c.n = k + 1
      BY <2>4
    <3>2. NextRow(rows, k + 1) = <<c>>
      BY <2>4 DEF NextRow
    <3> HIDE DEF c
    <3>3. c \in Table!Row
      BY <1>0, <3>1
    <3>4. \A r \in Table!Range(F[k]) : r.n < c.n
      <4> SUFFICES ASSUME NEW r \in Table!Range(F[k]) PROVE r.n < c.n
        OBVIOUS
      <4>1. r \in rows /\ r.n <= k
        BY <2>2
      <4>2. r.n \in Nat
        BY <1>0, <4>1
      <4> QED  BY <2>1, <3>1, <4>1, <4>2
    <3>5. /\ F[k + 1] \in Seq(Table!Row) /\ ByTime(F[k + 1])
          /\ Table!Range(F[k + 1]) = Table!Range(F[k]) \cup {c}
      BY <2>2, <2>3, <3>2, <3>3, <3>4, LaterJoined
    <3>6. {r \in rows : r.n <= k + 1} = {r \in rows : r.n <= k} \cup {c}
      <4>1. ASSUME NEW r \in rows PROVE r.n <= k + 1 <=> r.n <= k \/ r = c
        <5>1. r.n \in Nat
          BY <1>0
        <5>2. r.n = k + 1 => r = c
          BY <3>1 DEF rows
        <5> QED  BY <2>1, <3>1, <5>1, <5>2
      <4> QED  BY <3>1, <4>1
    <3>7. Good(k + 1)
      BY <2>2, <3>5, <3>6
    <3> QED  BY <2>1, <3>7
  <2>5. CASE ~\E r \in rows : r.n = k + 1
    <3>1. NextRow(rows, k + 1) = <<>>
      BY <2>5 DEF NextRow
    <3>2. F[k + 1] = F[k]
      <4>1. \A x \in Seq(Table!Row) : x \o <<>> = x
        OBVIOUS
      <4> QED  BY <2>2, <2>3, <3>1, <4>1
    <3>3. {r \in rows : r.n <= k + 1} = {r \in rows : r.n <= k}
      <4>1. ASSUME NEW r \in rows PROVE r.n <= k + 1 <=> r.n <= k
        BY <1>0, <2>1, <2>5
      <4> QED  BY <4>1
    <3>4. Good(k + 1)
      BY <2>2, <3>2, <3>3
    <3> QED  BY <2>1, <3>4
  <2> QED  BY <2>4, <2>5
<1>6. N \in T
  <2> HIDE DEF T
  <2>1. \A k \in 0..N : k \in T
    BY <1>0, <1>4, <1>5, HoldsUpTo
  <2> QED  BY <1>0, <2>1
<1>7. Good(N)
  BY <1>6
<1>8. {r \in rows : r.n <= N} = rows
  BY <1>0
<1> QED  BY <1>2, <1>7, <1>8 DEF rows

\* The readings that the recorders keep, of all meters: each is told once.
LogsOf(m, newest) ==
  /\ DOMAIN m = Meters
  /\ \A x \in Meters : m[x] \in Seq(Table!Row) /\ \A r \in Table!Range(m[x]) : r.source = x /\ r.n <= newest
  /\ \A x, y \in Meters : \A q \in Table!Range(m[x]), r \in Table!Range(m[y]) : q.n = r.n => q = r

\* A table for the meters chosen and those open.
TableOf(t, c, list, newest) ==
  /\ TableTrue(t) /\ Len(t.rows) <= t.keep
  /\ \A r \in Table!Range(t.rows) : r.n <= newest /\ r.source \in Table!Range(Table!TableSources(c, list))
  /\ t.devices <=> Len(Table!TableSources(c, list)) > 1

Complete(t, meters, m, missing) ==
  ~missing => \A x \in meters : \A r \in Table!Range(m[x]) :
    r \in Table!Range(t.rows) \/ (Len(t.rows) = t.keep /\ r.n < t.rows[1].n)

TableInv ==
  /\ open \in Seq(Meters) /\ chosen \in Seq(Meters) /\ sources \in Seq(Meters) \cup {Table!NoDialog}
  /\ last \in Nat /\ last <= MaxReadings /\ gap \in BOOLEAN
  /\ LogsOf(logs, last) /\ TableOf(table, chosen, open, last)
  /\ links = Table!Linked(chosen, open) /\ Complete(table, links, logs, gap)

LEMMA SourcesAre ==
  ASSUME NEW c \in Seq(Meters), NEW list \in Seq(Meters)
  PROVE  /\ Table!TableSources(c, list) \in Seq(Meters)
         /\ Table!Linked(c, list) \subseteq Table!Range(Table!TableSources(c, list))
         /\ Table!Linked(c, list) \subseteq Meters /\ Table!Linked(c, list) \subseteq Table!Range(list)
<1>1. Table!TableSources(c, list) \in Seq(Meters)
  BY DEF Table!TableSources
<1>2. Table!Range(list) \subseteq Meters
  BY DEF Table!Range
<1> QED  BY <1>1, <1>2 DEF Table!Linked

\* applyTableSources(): the table is filled anew from the logs.
LEMMA ApplyTrue ==
  ASSUME NEW t, TableTrue(t), Len(t.rows) <= t.keep, NEW m, NEW c \in Seq(Meters), NEW list \in Seq(Meters),
         NEW newest, LogsOf(m, newest), Table!Apply(t, m, c, list)
  PROVE  /\ TableOf(table', c, list, newest) /\ chosen' = c /\ links' = Table!Linked(c, list) /\ gap' \in BOOLEAN
         /\ Complete(table', links', m, gap')
<1> DEFINE ks == Table!Linked(c, list)
           rows == Table!Merged(m, ks)
           d == Len(Table!TableSources(c, list)) > 1
           t1 == [t EXCEPT !.devices = d]
           t2 == Table!Cleared(t1)
           t3 == Table!LogRows(t2, rows)
<1>1. table' = t3 /\ chosen' = c /\ links' = ks /\ gap' = t.paused
  BY DEF Table!Apply
<1>2. ks \subseteq Meters /\ ks \subseteq Table!Range(Table!TableSources(c, list))
  BY SourcesAre
<1> HIDE DEF ks, d
<1>3. \A x \in ks : \A r \in Table!Range(m[x]) : r \in Table!Row /\ r.source = x /\ r.n <= newest
  <2>1. ASSUME NEW x \in ks, NEW r \in Table!Range(m[x]) PROVE r \in Table!Row
    <3>1. m[x] \in Seq(Table!Row)
      BY <1>2 DEF LogsOf
    <3> QED  BY <3>1 DEF Table!Range
  <2>2. ASSUME NEW x \in ks, NEW r \in Table!Range(m[x]) PROVE r.source = x /\ r.n <= newest
    BY <1>2 DEF LogsOf
  <2> QED  BY <2>1, <2>2
<1>4. LogsRows(m, ks) \subseteq Table!Row
  BY <1>3 DEF LogsRows
<1>5. \A q, r \in LogsRows(m, ks) : q.n = r.n => q = r
  BY <1>2 DEF LogsRows, LogsOf
<1>6. rows \in Seq(Table!Row) /\ ByTime(rows) /\ Table!Range(rows) = LogsRows(m, ks)
  BY <1>4, <1>5, MergedHas
<1> HIDE DEF rows
<1>7. TableTrue(t1) /\ t1.devices = d /\ t1.paused = t.paused
  <2>1. \A b : LET u == [t EXCEPT !.devices = b]
               IN  TableTrue(u) /\ u.rows = t.rows /\ u.keep = t.keep /\ u.devices = b /\ u.paused = t.paused
    BY FieldsTrue, Zenon
  <2> QED  BY <2>1, Zenon
<1> HIDE DEF t1
<1>8. TableTrue(t2) /\ SameBut(t1, t2) /\ t2.rows = <<>>
  BY <1>7, ClearedTrue
<1> HIDE DEF t2
<1>9. t2.rows \o rows = rows /\ Len(t2.rows) <= t2.keep /\ Table!Range(t2.rows) = {}
  <2>1. \A x \in Seq(Table!Row) : <<>> \o x = x
    OBVIOUS
  <2>2. t2.keep \in Nat /\ Len(<<>>) = 0
    BY <1>8 DEF TableTrue
  <2>3. Table!Range(<<>>) = {}
    <3>1. RowsOf(<<>>) = {} /\ <<>> \in Seq(Table!Row)
      BY DEF RowsOf
    <3> QED  BY <3>1, RangeIs
  <2>4. <<>> \o rows = rows
    BY <1>6, <2>1
  <2>5. Len(t2.rows) <= t2.keep
    BY <1>8, <2>2
  <2> QED  BY <1>8, <2>3, <2>4, <2>5
<1>10. /\ TableTrue(t3) /\ SameBut(t2, t3) /\ Len(t3.rows) <= t3.keep
       /\ Table!Range(t3.rows) \subseteq Table!Range(rows)
       /\ ~t2.paused => \A r \in Table!Range(rows) :
                           r \in Table!Range(t3.rows) \/ (Len(t3.rows) = t3.keep /\ r.n < t3.rows[1].n)
  <2>1. ByTime(t2.rows \o rows)
    BY <1>6, <1>9
  <2>2. TableTrue(t2) /\ Len(t2.rows) <= t2.keep /\ rows \in Seq(Table!Row)
    BY <1>6, <1>8, <1>9
  <2>3. /\ TableTrue(t3) /\ SameBut(t2, t3) /\ Len(t3.rows) <= t3.keep
        /\ Table!Range(t3.rows) \subseteq Table!Range(t2.rows) \cup Table!Range(rows)
        /\ ~t2.paused => \A r \in Table!Range(t2.rows) \cup Table!Range(rows) :
                            r \in Table!Range(t3.rows) \/ (Len(t3.rows) = t3.keep /\ r.n < t3.rows[1].n)
    BY <2>1, <2>2, LogRowsTrue, Zenon
  <2> HIDE DEF t3
  <2> QED  BY <1>9, <2>3
<1> HIDE DEF t3
<1>11. TableOf(table', c, list, newest)
  <2>1. \A r \in Table!Range(t3.rows) : r.n <= newest /\ r.source \in Table!Range(Table!TableSources(c, list))
    BY <1>2, <1>3, <1>6, <1>10 DEF LogsRows
  <2>2. t3.devices = d
    BY <1>7, <1>8, <1>10 DEF SameBut
  <2> QED  BY <1>1, <1>10, <2>1, <2>2 DEF TableOf, d
<1>12. Complete(table', links', m, gap')
  <2> SUFFICES ASSUME ~t.paused, NEW x \in ks, NEW r \in Table!Range(m[x])
               PROVE  r \in Table!Range(t3.rows) \/ (Len(t3.rows) = t3.keep /\ r.n < t3.rows[1].n)
    BY <1>1 DEF Complete
  <2>1. ~t2.paused
    BY <1>7, <1>8 DEF SameBut
  <2>2. r \in Table!Range(rows)
    BY <1>6 DEF LogsRows
  <2> QED  BY <1>10, <2>1, <2>2
<1>13. t.paused \in BOOLEAN
  BY DEF TableTrue
<1> QED  BY <1>1, <1>11, <1>12, <1>13 DEF ks

\* What leaves the meters alone and takes nothing but rows away.
LEMMA RestTrue ==
  ASSUME TableInv, UNCHANGED <<open, logs, chosen, links, last>>, sources' \in Seq(Meters) \cup {Table!NoDialog},
         TableTrue(table'), Len(table'.rows) <= table'.keep, table'.devices = table.devices,
         Table!Range(table'.rows) \subseteq Table!Range(table.rows),
         gap' = TRUE \/ (gap' = gap /\ table'.rows = table.rows /\ table'.keep = table.keep)
  PROVE  TableInv'
<1>1. TableOf(table', chosen, open, last)
  BY DEF TableInv, TableOf
<1>2. Complete(table', links, logs, gap')
  BY DEF TableInv, Complete
<1>3. gap' \in BOOLEAN
  BY DEF TableInv
<1> QED  BY <1>1, <1>2, <1>3 DEF TableInv

\* The same after the table was filled anew.
LEMMA AppliedTrue ==
  ASSUME TableInv, UNCHANGED <<last>>, sources' \in Seq(Meters) \cup {Table!NoDialog}, open' \in Seq(Meters),
         LogsOf(logs', last), NEW t, TableTrue(t), Len(t.rows) <= t.keep, NEW c \in Seq(Meters),
         Table!Apply(t, logs', c, open')
  PROVE  TableInv'
<1>1. /\ TableOf(table', c, open', last) /\ chosen' = c /\ links' = Table!Linked(c, open') /\ gap' \in BOOLEAN
      /\ Complete(table', links', logs', gap')
  BY ApplyTrue
<1> QED  BY <1>1 DEF TableInv

\* A meter was connected or closed: it has a recorder that is empty.
LEMMA FollowTrue ==
  ASSUME TableInv, UNCHANGED <<last, sources>>, NEW x \in Meters, open' \in Seq(Meters),
         Table!Range(open') \subseteq Table!Range(open) \cup {x},
         logs' = [logs EXCEPT ![x] = <<>>], Table!Follow(logs', open')
  PROVE  TableInv'
<1>0. Table!Range(<<>>) = {} /\ <<>> \in Seq(Table!Row)
  <2>1. RowsOf(<<>>) = {} /\ <<>> \in Seq(Table!Row)
    BY DEF RowsOf
  <2> QED  BY <2>1, RangeIs
<1>1. LogsOf(logs, last) /\ TableOf(table, chosen, open, last) /\ sources \in Seq(Meters) \cup {Table!NoDialog}
  BY DEF TableInv
<1>2. /\ DOMAIN logs' = Meters /\ logs'[x] = <<>>
      /\ \A y \in Meters : y # x => logs'[y] = logs[y]
  BY <1>1 DEF LogsOf
<1>3. LogsOf(logs', last)
  <2>1. \A y \in Meters : logs'[y] \in Seq(Table!Row) /\ Table!Range(logs'[y]) \subseteq Table!Range(logs[y])
    BY <1>0, <1>1, <1>2 DEF LogsOf
  <2> QED  BY <1>1, <1>2, <2>1 DEF LogsOf
<1>4. CASE chosen = <<>>
  <2>1. Table!Apply(table, logs', <<>>, open') /\ <<>> \in Seq(Meters)
    BY <1>4 DEF Table!Follow
  <2> QED  BY <1>1, <1>3, <2>1, AppliedTrue DEF TableOf
<1>5. CASE chosen # <<>>
  <2>1. links' = Table!Linked(chosen, open') /\ UNCHANGED <<table, chosen, gap>>
    BY <1>5 DEF Table!Follow
  <2>2. TableOf(table', chosen', open', last)
    BY <1>1, <1>5, <2>1 DEF TableOf, Table!TableSources
  <2>3. \A y \in links' : y = x \/ y \in links
    BY <1>5, <2>1 DEF TableInv, Table!Linked, Table!TableSources
  <2>4. links' \subseteq Meters
    <3>1. chosen \in Seq(Meters)
      BY DEF TableInv
    <3> QED  BY <2>1, <3>1, SourcesAre
  <2>5. Complete(table', links', logs', gap')
    <3> SUFFICES ASSUME ~gap, NEW y \in links', NEW r \in Table!Range(logs'[y])
                 PROVE  r \in Table!Range(table.rows) \/ (Len(table.rows) = table.keep /\ r.n < table.rows[1].n)
      BY <2>1 DEF Complete
    <3>1. y # x
      BY <1>0, <1>2
    <3>2. y \in links /\ logs'[y] = logs[y]
      BY <1>2, <2>3, <2>4, <3>1
    <3> QED  BY <3>2 DEF TableInv, Complete
  <2> QED  BY <1>1, <1>3, <2>1, <2>2, <2>5 DEF TableInv
<1> QED  BY <1>4, <1>5

\* A reading is later than all the others.
LEMMA ReadingTrue ==
  ASSUME TableInv, NEW x \in Meters, NEW id \in Ids, NEW f \in {"V", "Ohm"}, Table!Reading(x, id, f)
  PROVE  TableInv'
<1> DEFINE row == [n |-> last + 1, source |-> x, id |-> id, function |-> f]
           log == Append(logs[x], row)
           one == <<row>>
<1>0. /\ LogsOf(logs, last) /\ TableOf(table, chosen, open, last) /\ last \in Nat /\ last < MaxReadings
      /\ chosen \in Seq(Meters) /\ open \in Seq(Meters)
      /\ links \subseteq Table!Range(Table!TableSources(chosen, open)) /\ links \subseteq Meters
      /\ Complete(table, links, logs, gap) /\ gap \in BOOLEAN
  <2>1. chosen \in Seq(Meters) /\ open \in Seq(Meters) /\ links = Table!Linked(chosen, open)
    BY DEF TableInv
  <2>2. last < MaxReadings
    BY DEF Table!Reading
  <2>3. links \subseteq Table!Range(Table!TableSources(chosen, open)) /\ links \subseteq Meters
    BY <2>1, SourcesAre
  <2> QED  BY <2>1, <2>2, <2>3 DEF TableInv
<1>1. /\ last' = last + 1 /\ UNCHANGED <<open, chosen, links, sources>>
      /\ logs' = [logs EXCEPT ![x] = IF Len(log) > LogCapacity THEN Tail(log) ELSE log]
      /\ table' = IF x \in links THEN Table!LogRows(table, one) ELSE table
      /\ gap' = (gap \/ (x \in links /\ table.paused))
  BY DEF Table!Reading
<1>2. row \in Table!Row /\ row.n = last + 1 /\ row.source = x
  <2>1. last + 1 \in 1..MaxReadings
    <3>1. MaxReadings \in Nat
      BY TableAssumption
    <3> QED  BY <1>0, <3>1
  <2> QED  BY <2>1 DEF Table!Row
<1> HIDE DEF row
<1>3. logs[x] \in Seq(Table!Row) /\ DOMAIN logs = Meters
  BY <1>0 DEF LogsOf
<1>4. log \in Seq(Table!Row) /\ Table!Range(log) = Table!Range(logs[x]) \cup {row} /\ log # <<>>
  <2>1. log \in Seq(Table!Row) /\ log = logs[x] \o one /\ one \in Seq(Table!Row) /\ log # <<>>
    BY <1>2, <1>3
  <2>2. Table!Range(one) = {row}
    <3>1. Table!Range(one) = RowsOf(one)
      BY <2>1, RangeIs
    <3>2. Len(one) = 1 /\ one[1] = row
      OBVIOUS
    <3> HIDE DEF one
    <3>3. 1 \in 1..Len(one) /\ \A i \in 1..Len(one) : i = 1
      BY <3>2
    <3> QED  BY <3>1, <3>2, <3>3 DEF RowsOf
  <2> HIDE DEF log, one
  <2>3. Table!Range(logs[x] \o one) = Table!Range(logs[x]) \cup Table!Range(one)
    BY <1>3, <2>1, JoinedRange
  <2> QED  BY <2>1, <2>2, <2>3
<1> HIDE DEF log
<1>5. logs'[x] \in Seq(Table!Row) /\ Table!Range(logs'[x]) \subseteq Table!Range(logs[x]) \cup {row}
  <2>1. logs'[x] = Tail(log) \/ logs'[x] = log
    BY <1>1, <1>3
  <2>2. Tail(log) \in Seq(Table!Row) /\ Table!Range(Tail(log)) \subseteq Table!Range(log)
    <3>1. Tail(log) \in Seq(Table!Row) /\ Len(log) \in Nat /\ Len(Tail(log)) = Len(log) - 1
          /\ \A i \in 1..Len(Tail(log)) : Tail(log)[i] = log[i + 1]
      BY <1>4
    <3>2. Table!Range(Tail(log)) = RowsOf(Tail(log)) /\ Table!Range(log) = RowsOf(log)
      BY <1>4, <3>1, RangeIs
    <3>3. \A i \in 1..Len(Tail(log)) : i + 1 \in 1..Len(log)
      BY <3>1
    <3> QED  BY <3>1, <3>2, <3>3 DEF RowsOf
  <2> QED  BY <1>4, <2>1, <2>2
<1>6. \A y \in Meters : y # x => logs'[y] = logs[y]
  BY <1>1, <1>3
<1>7. \A y \in Meters : \A r \in Table!Range(logs[y]) : r.n <= last /\ r.n \in Nat
  <2> SUFFICES ASSUME NEW y \in Meters, NEW r \in Table!Range(logs[y]) PROVE r.n <= last /\ r.n \in Nat
    OBVIOUS
  <2>1. r.n <= last /\ logs[y] \in Seq(Table!Row)
    BY <1>0 DEF LogsOf
  <2>2. r \in Table!Row
    BY <2>1 DEF Table!Range
  <2> QED  BY <2>1, <2>2, RowFields
<1>8. LogsOf(logs', last')
  <2>1. DOMAIN logs' = Meters
    BY <1>1, <1>3
  <2>2. ASSUME NEW y \in Meters
        PROVE  /\ logs'[y] \in Seq(Table!Row)
               /\ \A r \in Table!Range(logs'[y]) : (r \in Table!Range(logs[y]) \/ (y = x /\ r = row))
                                                   /\ r.source = y /\ r.n <= last'
    <3>1. CASE y = x
      <4>1. ASSUME NEW r \in Table!Range(logs'[x]) PROVE r.source = x /\ r.n <= last'
        <5>1. CASE r = row
          BY <1>0, <1>1, <1>2, <5>1
        <5>2. CASE r \in Table!Range(logs[x])
          <6>1. r.source = x
            BY <1>0, <5>2 DEF LogsOf
          <6>2. r.n <= last /\ r.n \in Nat
            BY <1>7, <5>2
          <6> QED  BY <1>0, <1>1, <6>1, <6>2
        <5> QED  BY <1>5, <5>1, <5>2
      <4> QED  BY <1>5, <3>1, <4>1
    <3>2. CASE y # x
      <4>1. logs'[y] = logs[y] /\ logs[y] \in Seq(Table!Row)
        BY <1>0, <1>6, <3>2 DEF LogsOf
      <4>2. ASSUME NEW r \in Table!Range(logs[y]) PROVE r.source = y /\ r.n <= last'
        <5>1. r.source = y
          BY <1>0 DEF LogsOf
        <5>2. r.n <= last /\ r.n \in Nat
          BY <1>7
        <5> QED  BY <1>0, <1>1, <5>1, <5>2
      <4> QED  BY <4>1, <4>2
    <3> QED  BY <3>1, <3>2
  <2>3. ASSUME NEW y \in Meters, NEW z \in Meters, NEW q \in Table!Range(logs'[y]), NEW r \in Table!Range(logs'[z]), q.n = r.n
        PROVE  q = r
    <3>1. q \in Table!Range(logs[y]) \/ q = row
      BY <2>2
    <3>2. r \in Table!Range(logs[z]) \/ r = row
      BY <2>2
    <3>3. CASE q \in Table!Range(logs[y]) /\ r \in Table!Range(logs[z])
      BY <1>0, <2>3, <3>3 DEF LogsOf
    <3>4. CASE q \in Table!Range(logs[y]) /\ r = row
      <4>1. q.n <= last /\ q.n \in Nat
        BY <1>7, <3>4
      <4> QED  BY <1>0, <1>2, <2>3, <3>4, <4>1
    <3>5. CASE q = row /\ r \in Table!Range(logs[z])
      <4>1. r.n <= last /\ r.n \in Nat
        BY <1>7, <3>5
      <4> QED  BY <1>0, <1>2, <2>3, <3>5, <4>1
    <3> QED  BY <3>1, <3>2, <3>3, <3>4, <3>5
  <2> QED  BY <2>1, <2>2, <2>3 DEF LogsOf
<1>9. last' \in Nat /\ last' <= MaxReadings /\ last <= last'
  <2>1. MaxReadings \in Nat
    BY TableAssumption
  <2> QED  BY <1>0, <1>1, <2>1
<1>10. \A r \in Table!Range(table.rows) : r.n \in Nat /\ r.n <= last /\ r.n <= last'
  <2> SUFFICES ASSUME NEW r \in Table!Range(table.rows) PROVE r.n \in Nat /\ r.n <= last /\ r.n <= last'
    OBVIOUS
  <2>1. r \in Table!Row
    BY <1>0 DEF TableOf, TableTrue, Table!Range
  <2>2. r.n <= last
    BY <1>0 DEF TableOf
  <2> QED  BY <1>0, <1>9, <2>1, <2>2, RowFields
<1>11. CASE x \notin links
  <2>1. table' = table /\ gap' = gap
    BY <1>0, <1>1, <1>11
  <2>2. TableOf(table', chosen', open', last')
    BY <1>0, <1>1, <1>10, <2>1 DEF TableOf
  <2>3. Complete(table', links', logs', gap')
    <3>1. \A y \in links : logs'[y] = logs[y]
      BY <1>0, <1>6, <1>11
    <3> QED  BY <1>0, <1>1, <2>1, <3>1 DEF Complete
  <2> QED  BY <1>0, <1>1, <1>8, <1>9, <2>1, <2>2, <2>3 DEF TableInv
<1>12. CASE x \in links
  <2> DEFINE u == Table!LogRows(table, one)
  <2>1. one \in Seq(Table!Row) /\ Table!Range(one) = {row}
    <3>1. one \in Seq(Table!Row) /\ Len(one) = 1 /\ one[1] = row
      BY <1>2
    <3>2. Table!Range(one) = RowsOf(one)
      BY <3>1, RangeIs
    <3> HIDE DEF one
    <3>3. 1 \in 1..Len(one) /\ \A i \in 1..Len(one) : i = 1
      BY <3>1
    <3> QED  BY <3>1, <3>2, <3>3 DEF RowsOf
  <2>2. ByTime(table.rows \o one)
    <3>1. table.rows \in Seq(Table!Row) /\ ByTime(table.rows)
      BY <1>0 DEF TableOf, TableTrue
    <3>2. \A r \in Table!Range(table.rows) : r.n < row.n
      BY <1>0, <1>2, <1>10
    <3> QED  BY <1>2, <3>1, <3>2, LaterJoined
  <2>3. TableTrue(table) /\ Len(table.rows) <= table.keep
    BY <1>0 DEF TableOf
  <2>4. /\ TableTrue(u) /\ SameBut(table, u) /\ Len(u.rows) <= u.keep
        /\ Len(table.rows) = table.keep => Len(u.rows) = u.keep
        /\ Table!Range(u.rows) \subseteq Table!Range(table.rows) \cup Table!Range(one)
        /\ ~table.paused => \A r \in Table!Range(table.rows) \cup Table!Range(one) :
                               r \in Table!Range(u.rows) \/ (Len(u.rows) = u.keep /\ r.n < u.rows[1].n)
    <3> HIDE DEF one
    <3> QED  BY <2>1, <2>2, <2>3, LogRowsTrue, Zenon
  <2>5. table' = u
    BY <1>1, <1>12
  <2> HIDE DEF u, one
  <2>6. TableOf(u, chosen, open, last')
    <3>1. ASSUME NEW r \in Table!Range(u.rows)
          PROVE  r.n <= last' /\ r.source \in Table!Range(Table!TableSources(chosen, open))
      <4>1. CASE r = row
        BY <1>0, <1>1, <1>2, <1>12, <4>1
      <4>2. CASE r \in Table!Range(table.rows)
        BY <1>0, <1>10, <4>2 DEF TableOf
      <4> QED  BY <2>1, <2>4, <4>1, <4>2
    <3> QED  BY <1>0, <2>4, <3>1 DEF TableOf, SameBut
  <2>7. Complete(u, links, logs', gap')
    <3> SUFFICES ASSUME ~gap', NEW y \in links, NEW r \in Table!Range(logs'[y])
                 PROVE  r \in Table!Range(u.rows) \/ (Len(u.rows) = u.keep /\ r.n < u.rows[1].n)
      BY DEF Complete
    <3>1. ~gap /\ ~table.paused
      BY <1>1, <1>12
    <3>2. r = row \/ r \in Table!Range(logs[y])
      BY <1>0, <1>5, <1>6
    <3>3. CASE r = row
      BY <2>1, <2>4, <3>1, <3>3
    <3>4. CASE r \in Table!Range(table.rows)
      BY <2>4, <3>1, <3>4
    <3>5. CASE r \in Table!Range(logs[y]) /\ Len(table.rows) = table.keep /\ r.n < table.rows[1].n
      <4>1. table.rows \in Seq(Table!Row) /\ table.keep \in Nat /\ table.keep > 0
        BY <2>3 DEF TableTrue
      <4>2. 1 \in 1..Len(table.rows)
        BY <3>5, <4>1
      <4> DEFINE q == table.rows[1]
      <4>3. q \in Table!Range(table.rows)
        BY <4>1, <4>2, RangeIs
      <4>4. q.n \in Nat /\ r.n \in Nat /\ r.n < q.n
        BY <1>0, <1>7, <1>10, <3>5, <4>3
      <4>5. q.n <= row.n
        BY <1>0, <1>2, <1>10, <4>3
      <4>6. \A p \in Table!Range(table.rows) : q.n <= p.n
        <5> SUFFICES ASSUME NEW i \in 1..Len(table.rows) PROVE q.n <= table.rows[i].n
          BY <4>1, RangeIs DEF RowsOf
        <5>1. ByTime(table.rows)
          BY <2>3 DEF TableTrue
        <5>2. i = 1 \/ 1 < i
          BY <4>1
        <5>3. table.rows[i] \in Table!Range(table.rows)
          BY <4>1, RangeIs
        <5>4. table.rows[i].n \in Nat
          BY <1>10, <5>3
        <5>5. CASE i = 1
          BY <4>4, <5>5
        <5>6. CASE 1 < i
          <6>1. table.rows[1].n < table.rows[i].n
            BY <4>2, <5>1, <5>6 DEF ByTime
          <6> QED  BY <4>4, <5>4, <6>1
        <5> QED  BY <5>2, <5>5, <5>6
      <4> HIDE DEF q
      <4>7. u.rows \in Seq(Table!Row) /\ u.keep = table.keep /\ Len(u.rows) = u.keep
        <5>1. u.rows \in Seq(Table!Row)
          BY <2>4 DEF TableTrue
        <5>2. u.keep = table.keep
          BY <2>4 DEF SameBut
        <5>3. Len(table.rows) = table.keep
          BY <3>5
        <5>4. Len(u.rows) = u.keep
          BY <2>4, <5>3
        <5> QED  BY <5>1, <5>2, <5>4
      <4>8. u.rows[1] \in Table!Range(u.rows)
        <5>1. 1 \in 1..Len(u.rows)
          BY <4>1, <4>7
        <5> QED  BY <4>7, <5>1, RangeIs
      <4>9. u.rows[1] = row \/ u.rows[1] \in Table!Range(table.rows)
        BY <2>1, <2>4, <4>8
      <4>10. q.n <= u.rows[1].n /\ u.rows[1].n \in Nat
        <5>1. row.n \in Nat
          BY <1>0, <1>2
        <5> QED  BY <1>10, <4>5, <4>6, <4>9, <5>1
      <4>11. r.n < u.rows[1].n
        BY <4>4, <4>10
      <4> QED  BY <4>7, <4>11
    <3> QED  BY <1>0, <3>1, <3>2, <3>3, <3>4, <3>5 DEF Complete
  <2> QED  BY <1>0, <1>1, <1>8, <1>9, <2>5, <2>6, <2>7 DEF TableInv
<1> QED  BY <1>11, <1>12

\* Each call, reading and timer leaves the table one of its readings.
LEMMA TableStays ==
  ASSUME TableInv, [Table!Next]_(Table!vars)
  PROVE  TableInv'
<1>0. /\ LogsOf(logs, last) /\ TableOf(table, chosen, open, last) /\ TableTrue(table) /\ Len(table.rows) <= table.keep
      /\ chosen \in Seq(Meters) /\ open \in Seq(Meters) /\ sources \in Seq(Meters) \cup {Table!NoDialog}
      /\ Table!TableSources(chosen, open) \in Seq(Meters)
  <2>1. chosen \in Seq(Meters) /\ open \in Seq(Meters)
    BY DEF TableInv
  <2> QED  BY <2>1, SourcesAre DEF TableInv, TableOf
<1>1. ASSUME NEW x \in Meters, Table!OpenMeter(x) PROVE TableInv'
  <2>1. open' = Append(open, x) /\ logs' = [logs EXCEPT ![x] = <<>>] /\ Table!Follow(logs', open') /\ UNCHANGED <<sources, last>>
    BY <1>1 DEF Table!OpenMeter
  <2>2. open' \in Seq(Meters) /\ Table!Range(open') = Table!Range(open) \cup {x}
    <3> DEFINE one == <<x>>
    <3>1. one \in Seq(Meters) /\ Len(one) = 1 /\ one[1] = x /\ open' = open \o one
      BY <1>0, <2>1
    <3>2. Table!Range(one) = {x}
      <4>1. Table!Range(one) = RowsOf(one)
        BY <3>1, RangeIs
      <4> HIDE DEF one
      <4>2. 1 \in 1..Len(one) /\ \A i \in 1..Len(one) : i = 1
        BY <3>1
      <4> QED  BY <3>1, <4>1, <4>2 DEF RowsOf
    <3> HIDE DEF one
    <3>3. Table!Range(open \o one) = Table!Range(open) \cup Table!Range(one)
      BY <1>0, <3>1, JoinedRange
    <3>4. open \o one \in Seq(Meters)
      BY <1>0, <3>1
    <3> QED  BY <3>1, <3>2, <3>3, <3>4
  <2> QED  BY <2>1, <2>2, FollowTrue
<1>2. ASSUME NEW x \in Meters, Table!CloseMeter(x) PROVE TableInv'
  <2>1. /\ open' = Table!Those(open, Meters \ {x}) /\ logs' = [logs EXCEPT ![x] = <<>>] /\ Table!Follow(logs', open')
        /\ UNCHANGED <<sources, last>>
    BY <1>2 DEF Table!CloseMeter
  <2>2. open' \in Seq(Meters) /\ Table!Range(open') \subseteq Table!Range(open)
    BY <1>0, <2>1, ThoseAre
  <2> QED  BY <2>1, <2>2, FollowTrue
<1>3. ASSUME NEW x \in Meters, NEW id \in Ids, NEW f \in {"V", "Ohm"}, Table!Reading(x, id, f) PROVE TableInv'
  BY <1>3, ReadingTrue
<1>4. CASE Table!UpdateStats
  <2> DEFINE u == [table EXCEPT !.later = FALSE, !.stats = Table!Stats(table.rows, table.hidden)]
  <2>1. TableTrue(u) /\ u.rows = table.rows /\ u.keep = table.keep /\ u.devices = table.devices
    BY <1>0, FieldsTrue, Zenon
  <2>2. table' = u /\ UNCHANGED <<open, logs, chosen, links, sources, gap, last>>
    BY <1>4 DEF Table!UpdateStats
  <2> HIDE DEF u
  <2> QED  BY <1>0, <2>1, <2>2, RestTrue
<1>5. CASE Table!Pause
  <2> DEFINE b == ~table.paused
             u == [table EXCEPT !.paused = b]
  <2>1. b \in BOOLEAN
    OBVIOUS
  <2>2. table' = u /\ gap' = (gap \/ FALSE) /\ UNCHANGED <<open, logs, chosen, links, sources, last>>
    BY <1>5 DEF Table!Pause, Table!ToTable
  <2> HIDE DEF b
  <2>3. TableTrue(u) /\ u.rows = table.rows /\ u.keep = table.keep /\ u.devices = table.devices
    BY <1>0, <2>1, FieldsTrue, Zenon
  <2>4. gap' = gap
    BY <2>2 DEF TableInv
  <2> HIDE DEF u
  <2> QED  BY <1>0, <2>2, <2>3, <2>4, RestTrue
<1>6. CASE Table!Clear
  <2> DEFINE u == Table!Cleared(table)
  <2>1. table' = u /\ gap' = (gap \/ TRUE) /\ UNCHANGED <<open, logs, chosen, links, sources, last>>
    BY <1>6 DEF Table!Clear, Table!ToTable
  <2>2. TableTrue(u) /\ SameBut(table, u) /\ u.rows = <<>>
    BY <1>0, ClearedTrue
  <2> HIDE DEF u
  <2>3. Table!Range(u.rows) = {} /\ Len(u.rows) <= u.keep
    <3>1. RowsOf(<<>>) = {} /\ <<>> \in Seq(Table!Row) /\ Len(<<>>) = 0
      BY DEF RowsOf
    <3>2. u.keep \in Nat
      BY <2>2 DEF TableTrue
    <3>3. Table!Range(<<>>) = {}
      BY <3>1, RangeIs
    <3> QED  BY <2>2, <3>1, <3>2, <3>3
  <2>4. u.devices = table.devices
    BY <2>2 DEF SameBut
  <2>5. gap' = TRUE
    BY <2>1
  <2> QED  BY <1>0, <2>1, <2>2, <2>3, <2>4, <2>5, RestTrue
<1>7. ASSUME NEW k \in Keeps, Table!Keep(k) PROVE TableInv'
  <2> DEFINE u == Table!Capped(table, k)
  <2>1. table' = u /\ gap' = (gap \/ TRUE) /\ UNCHANGED <<open, logs, chosen, links, sources, last>>
    BY <1>7 DEF Table!Keep, Table!ToTable
  <2>2. k \in Nat \ {0}
    BY TableAssumption
  <2>3. TableTrue(u) /\ Len(u.rows) <= u.keep /\ Table!Range(u.rows) \subseteq Table!Range(table.rows) /\ u.devices = table.devices
    BY <1>0, <2>2, KeptTrue
  <2> HIDE DEF u
  <2>4. gap' = TRUE
    BY <2>1
  <2> QED  BY <1>0, <2>1, <2>3, <2>4, RestTrue
<1>8. CASE Table!AskSources
  <2>1. sources' = open /\ UNCHANGED <<open, logs, chosen, links, table, gap, last>>
    BY <1>8 DEF Table!AskSources
  <2>2. TableTrue(table') /\ Len(table'.rows) <= table'.keep
    BY <1>0, <2>1
  <2> QED  BY <1>0, <2>1, <2>2, RestTrue
<1>9. ASSUME NEW v \in Meters \X Ids, Table!Show(v) PROVE TableInv'
  <2> DEFINE old == Table!TableSources(chosen, open)
             only == (table.hidden \cup ({v[1]} \X Ids)) \ {v}
             t1 == Table!WithHidden(table, table.hidden \ {v})
             t2 == Table!WithHidden(table, only)
  <2>1. /\ UNCHANGED <<open, logs, sources, last>>
        /\ \/ table' = t1 /\ UNCHANGED <<chosen, links, gap>>
           \/ Table!Apply(t2, logs, Append(old, v[1]), open)
    BY <1>9 DEF Table!Show
  <2>2. /\ TableTrue(t1) /\ t1.rows = table.rows /\ t1.keep = table.keep /\ t1.devices = table.devices
        /\ TableTrue(t2) /\ t2.rows = table.rows /\ t2.keep = table.keep
    BY <1>0, HiddenTrue, Zenon
  <2>3. v[1] \in Meters
    OBVIOUS
  <2>4. Append(old, v[1]) \in Seq(Meters)
    BY <1>0, <2>3
  <2> HIDE DEF old, t1, t2
  <2>5. CASE table' = t1 /\ UNCHANGED <<chosen, links, gap>>
    BY <1>0, <2>1, <2>2, <2>5, RestTrue
  <2>6. CASE Table!Apply(t2, logs, Append(old, v[1]), open)
    BY <1>0, <2>1, <2>2, <2>4, <2>6, AppliedTrue
  <2> QED  BY <2>1, <2>5, <2>6
<1>10. ASSUME NEW v \in Meters \X Ids, Table!Hide(v) PROVE TableInv'
  <2> DEFINE hidden == table.hidden \cup {v}
             own == {v[1]} \X Ids
             left == Table!Those(Table!TableSources(chosen, open), Meters \ {v[1]})
             t1 == Table!WithHidden(table, hidden)
             t2 == Table!WithHidden(table, hidden \ own)
  <2>1. /\ UNCHANGED <<open, logs, sources, last>>
        /\ \/ table' = t1 /\ UNCHANGED <<chosen, links, gap>>
           \/ Table!Apply(t2, logs, left, open)
    BY <1>10 DEF Table!Hide
  <2>2. /\ TableTrue(t1) /\ t1.rows = table.rows /\ t1.keep = table.keep /\ t1.devices = table.devices
        /\ TableTrue(t2) /\ t2.rows = table.rows /\ t2.keep = table.keep
    BY <1>0, HiddenTrue, Zenon
  <2>3. left \in Seq(Meters)
    BY <1>0, ThoseAre
  <2> HIDE DEF left, t1, t2
  <2>4. CASE table' = t1 /\ UNCHANGED <<chosen, links, gap>>
    BY <1>0, <2>1, <2>2, <2>4, RestTrue
  <2>5. CASE Table!Apply(t2, logs, left, open)
    BY <1>0, <2>1, <2>2, <2>3, <2>5, AppliedTrue
  <2> QED  BY <2>1, <2>4, <2>5
<1>11. ASSUME NEW picked, Table!PickSources(picked) PROVE TableInv'
  <2> DEFINE hidden == (table.hidden \cup (Table!Range(sources) \X Ids)) \ picked
             of == Table!Those(sources, {v[1] : v \in picked})
             t == Table!WithHidden(table, hidden)
  <2>1. /\ sources # Table!NoDialog /\ sources' = Table!NoDialog /\ UNCHANGED <<open, logs, last>>
        /\ \/ table' = t /\ UNCHANGED <<chosen, links, gap>>
           \/ Table!Apply(t, logs, of, open)
    BY <1>11 DEF Table!PickSources
  <2>2. TableTrue(t) /\ t.rows = table.rows /\ t.keep = table.keep /\ t.devices = table.devices
    BY <1>0, HiddenTrue, Zenon
  <2>3. of \in Seq(Meters)
    <3>1. sources \in Seq(Meters)
      BY <1>0, <2>1
    <3> QED  BY <3>1, ThoseAre
  <2> HIDE DEF of, t
  <2>4. CASE table' = t /\ UNCHANGED <<chosen, links, gap>>
    BY <1>0, <2>1, <2>2, <2>4, RestTrue
  <2>5. CASE Table!Apply(t, logs, of, open)
    BY <1>0, <2>1, <2>2, <2>3, <2>5, AppliedTrue
  <2> QED  BY <2>1, <2>4, <2>5
<1>12. ASSUME NEW bench \in Benches, Table!Load(bench) PROVE TableInv'
  <2> DEFINE t == Table!WithHidden(table, bench.hidden)
  <2>1. UNCHANGED <<open, logs, sources, last>> /\ Table!Apply(t, logs, bench.chosen, open)
    BY <1>12 DEF Table!Load
  <2>2. TableTrue(t) /\ t.rows = table.rows /\ t.keep = table.keep
    BY <1>0, HiddenTrue, Zenon
  <2>3. bench.chosen \in Seq(Meters)
    BY TableAssumption
  <2> HIDE DEF t
  <2> QED  BY <1>0, <2>1, <2>2, <2>3, AppliedTrue
<1>13. CASE UNCHANGED Table!vars
  BY <1>13 DEF Table!vars, TableInv
<1>14. CASE Table!Next
  BY <1>1, <1>2, <1>3, <1>4, <1>5, <1>6, <1>7, <1>8, <1>9, <1>10, <1>11, <1>12, <1>14 DEF Table!Next
<1> QED  BY <1>13, <1>14

\* The table starts empty, with the least that may be kept.
LEMMA TableStarts ==
  ASSUME Table!Init
  PROVE  TableInv
<1> DEFINE least == CHOOSE k \in Keeps : \A j \in Keeps : k <= j
<1>1. least \in Nat \ {0}
  <2>1. Keeps \subseteq Nat /\ Keeps # {} /\ Keeps \subseteq Nat \ {0}
    BY TableAssumption
  <2>2. PICK k \in Keeps : \A y \in Keeps : <<y, k>> \notin OpToRel(<, Nat)
    BY <2>1, NatLessThanWellFounded, WFMin, Zenon
  <2>3. \A y \in Keeps : ~(y < k)
    BY <2>1, <2>2, Zenon DEF OpToRel
  <2>4. \A y \in Keeps : k <= y
    BY <2>1, <2>3
  <2>5. least \in Keeps
    BY <2>4
  <2> QED  BY <2>1, <2>5
<1>2. /\ DOMAIN table = TableFields /\ table.rows = <<>> /\ table.keep = least /\ table.paused = FALSE
      /\ table.view = <<>> /\ table.singleDay = TRUE /\ table.devices = FALSE /\ table.hidden = {}
      /\ table.stats = Table!Stats(<<>>, {})
  BY DEF Table!Init, Table!EmptyTable, TableFields
<1> HIDE DEF least
<1>3. Table!Range(<<>>) = {} /\ <<>> \in Seq(Table!Row) /\ Len(<<>>) = 0 /\ ByTime(<<>>)
  <2>1. RowsOf(<<>>) = {} /\ <<>> \in Seq(Table!Row)
    BY DEF RowsOf
  <2>2. Len(<<>>) = 0 /\ ByTime(<<>>)
    BY DEF ByTime
  <2> QED  BY <2>1, <2>2, RangeIs
<1>4. TableTrue(table) /\ Len(table.rows) <= table.keep
  <2>1. OfOneDay(<<>>) = TRUE
    BY <1>3 DEF OfOneDay
  <2>2. table.singleDay = OfOneDay(table.rows) /\ table.stats = Table!Stats(table.rows, table.hidden)
    BY <1>2, <2>1
  <2>3. table.keep \in Nat \ {0} /\ Len(table.rows) <= table.keep
    BY <1>1, <1>2, <1>3
  <2>4. table.paused \in BOOLEAN /\ table.view = table.rows /\ DOMAIN table = TableFields
    BY <1>2
  <2>5. table.rows \in Seq(Table!Row) /\ ByTime(table.rows) /\ Table!Range(table.rows) = {}
    BY <1>2, <1>3
  <2>6. (\E r \in Table!Range(table.rows) : r.id > 0) => table.otherValues
    BY <2>5
  <2> QED  BY <2>2, <2>3, <2>4, <2>5, <2>6 DEF TableTrue
<1>5. /\ open = <<>> /\ logs = [m \in Meters |-> <<>>] /\ chosen = <<>> /\ links = {} /\ sources = Table!NoDialog
      /\ gap = FALSE /\ last = 0
  BY DEF Table!Init
<1>6. LogsOf(logs, last)
  BY <1>3, <1>5 DEF LogsOf
<1>7. Table!TableSources(chosen, open) = <<>> /\ <<>> \in Seq(Meters)
  BY <1>5 DEF Table!TableSources
<1>8. TableOf(table, chosen, open, last)
  BY <1>2, <1>3, <1>4, <1>7 DEF TableOf
<1>9. links = Table!Linked(chosen, open)
  BY <1>3, <1>5, <1>7 DEF Table!Linked
<1>10. Complete(table, links, logs, gap)
  BY <1>5 DEF Complete
<1>11. last \in Nat /\ last <= MaxReadings
  BY <1>5, TableAssumption
<1> QED  BY <1>5, <1>6, <1>7, <1>8, <1>9, <1>10, <1>11 DEF TableInv

\* What the invariant says of the table is what the window promises.
LEMMA TableTold ==
  ASSUME TableInv
  PROVE  Table!TableIsTrue
<1>0. /\ TableTrue(table) /\ Len(table.rows) <= table.keep /\ table.rows \in Seq(Table!Row) /\ ByTime(table.rows)
      /\ \A r \in Table!Range(table.rows) : r.source \in Table!Range(Table!TableSources(chosen, open))
      /\ table.devices <=> Len(Table!TableSources(chosen, open)) > 1
  BY DEF TableInv, TableOf, TableTrue
<1>1. Table!RowsAreInOrder
  <2>1. \A r \in Table!Range(table.rows) : r \in Table!Row
    BY <1>0 DEF Table!Range
  <2>2. DOMAIN table.rows = 1..Len(table.rows)
    BY <1>0
  <2> QED  BY <1>0, <2>1, <2>2 DEF Table!RowsAreInOrder, ByTime
<1>2. Table!ViewIsOfTheRows
  <2>1. table.view = table.rows /\ table.singleDay = OfOneDay(table.rows)
    BY <1>0 DEF TableTrue
  <2>2. (\E r \in Table!Range(table.rows) : r.id > 0) => table.otherValues
    BY <1>0 DEF TableTrue
  <2>3. table.later \/ table.stats = Table!Stats(table.rows, table.hidden)
    BY <1>0 DEF TableTrue
  <2> QED  BY <1>0, <2>1, <2>2, <2>3, Zenon DEF Table!ViewIsOfTheRows, OfOneDay
<1>3. Table!NothingIsMissing
  BY DEF TableInv, Complete, Table!NothingIsMissing
<1> QED  BY <1>1, <1>2, <1>3 DEF Table!TableIsTrue

\* Whatever was chosen, hidden, paused, cleared, connected and loaded before, the readings table holds what its meters'
\* recorders hold, merged by time, and the window shows it (MainWindow::applyTableSources(), RecordingStore::logRows()).
THEOREM TableHolds == MCSpec => []TableIsTrue
<1> DEFINE Inv == part = "table" => TableInv
<1>1. MCInit => Inv
  <2> SUFFICES ASSUME MCInit, part = "table" PROVE TableInv
    OBVIOUS
  <2>1. Table!Init
    BY DEF MCInit, StoreInit
  <2> QED  BY <2>1, TableStarts
<1>2. Inv /\ [MCNext]_<<part, vars, tableOnly>> => Inv'
  <2> SUFFICES ASSUME Inv, [MCNext]_<<part, vars, tableOnly>>, part' = "table" PROVE TableInv'
    OBVIOUS
  <2>1. part = "table" /\ [Table!Next]_(Table!vars)
    <3>1. CASE part = "store" /\ StoreNext
      BY <3>1 DEF StoreNext
    <3>2. CASE part = "table" /\ Table!Next /\ UNCHANGED <<part, storeOnly>>
      BY <3>2
    <3>3. CASE UNCHANGED <<part, vars, tableOnly>>
      BY <3>3 DEF tableOnly, vars, Table!vars
    <3> QED  BY <3>1, <3>2, <3>3 DEF MCNext
  <2> QED  BY <2>1, TableStays
<1>3. Inv => TableIsTrue
  BY TableTold DEF TableIsTrue
<1> QED  BY <1>1, <1>2, <1>3, PTL DEF MCSpec
===============================================================================
