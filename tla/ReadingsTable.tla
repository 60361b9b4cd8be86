---------------------------- MODULE ReadingsTable ----------------------------
(***************************************************************************)
(* The readings table: the readings of the meters chosen for it, merged    *)
(* out of their recorders' logs and then followed (MainWindow), in a ring  *)
(* of its own (RecordingStore's readings), shown by a model that holds no  *)
(* rows but tells its view which came and went (ReadingsModel), with a     *)
(* line of statistics that is computed anew a moment later                 *)
(* (ReadingsWidget).                                                       *)
(*                                                                         *)
(* Readings are numbered in the order they come in, which is their time.   *)
(* Colours of rows, widths and texts are left out, and the column of the   *)
(* verdicts, which comes as the one of the values does.                    *)
(***************************************************************************)
EXTENDS Naturals, Sequences, SequencesExt

CONSTANTS
  Meters, Ids,   \* of "My devices", and the numbers of their values
  Functions,     \* what a meter measures
  LogCapacity,   \* rows a meter's recorder keeps
  Keeps,         \* what may be chosen for "Keep"
  Benches,       \* what a bench file may say of the table: [hidden, chosen]
  Midnight,      \* the readings from this one on are of the next day
  MaxReadings, MaxUses  \* bounds

VARIABLES
  open,      \* the meters connected, in the order they were
  logs,      \* the readings each one's recorder keeps
  chosen,    \* m_tableMeters; none: all connected
  links,     \* the meters whose readings come into the table (m_tableLinks)
  table,     \* the table's own store, its model and the widget around it
  sources,   \* the meters the open dialog Sources... lists; NoDialog
  gap,       \* auxiliary: since the table was filled last, readings came while it was paused, it was cleared, or Keep was changed
  last, uses \* bounds: the last reading, what the user did

vars == <<open, logs, chosen, links, table, sources, gap, last, uses>>

NoDialog == <<"none">>

Row == [n : 1..MaxReadings, source : Meters, id : Ids, function : Functions]

\* What the rows tell of value v: their number, and how many are of the function of the newest.
Summary(v, rows) ==
  LET own == SelectSeq(rows, LAMBDA r : <<r.source, r.id>> = v)
  IN [of |-> v, count |-> Len(own), same |-> Len(SelectSeq(own, LAMBDA r : r.function = Last(own).function))]

\* stats(): of the first row's value that is not hidden.
Stats(rows, hidden) ==
  LET shown == SelectSeq(rows, LAMBDA r : <<r.source, r.id>> \notin hidden)
  IN IF shown = <<>> THEN [of |-> <<>>, count |-> 0, same |-> 0]
     ELSE Summary(<<shown[1].source, shown[1].id>>, rows)

OneDay(rows) == rows = <<>> \/ (rows[1].n < Midnight <=> Last(rows).n < Midnight)

EmptyTable ==
  [rows |-> <<>>, keep |-> CHOOSE k \in Keeps : \A j \in Keeps : k <= j, paused |-> FALSE, hidden |-> {},
   view |-> <<>>, singleDay |-> TRUE, otherValues |-> FALSE, devices |-> FALSE, later |-> FALSE,
   stats |-> Stats(<<>>, {})]

Init ==
  /\ open = <<>> /\ logs = [m \in Meters |-> <<>>] /\ chosen = <<>> /\ links = {} /\ table = EmptyTable
  /\ sources = NoDialog /\ gap = FALSE /\ last = 0 /\ uses = 0

Use == uses < MaxUses /\ uses' = uses + 1

-----------------------------------------------------------------------------
(* The store's rows, and what its signals make model and widget do. *)

Dropped(rows, k) == SubSeq(rows, k + 1, Len(rows))

Removed(t, k) ==
  LET rows == Dropped(t.rows, k)
  IN [t EXCEPT !.rows = rows, !.view = Dropped(@, k), !.singleDay = OneDay(rows), !.later = TRUE]

\* The view fetches the rows it was told of, first..last, where it was told they are.
Inserted(t, at, rows) ==
  LET all == t.rows \o rows
  IN [t EXCEPT !.rows = all,
               !.view = SubSeq(@, 1, at) \o SubSeq(all, at + 1, at + Len(rows)) \o SubSeq(@, at + 1, Len(@)),
               !.singleDay = OneDay(all), !.later = TRUE,
               !.otherValues = @ \/ \E r \in Range(rows) : r.id > 0]

\* logRows(), and logRow() of one.
LogRows(t, rows) ==
  LET kept == Dropped(rows, IF Len(rows) > t.keep THEN Len(rows) - t.keep ELSE 0)
      over == IF Len(t.rows) + Len(kept) > t.keep THEN Len(t.rows) + Len(kept) - t.keep ELSE 0
      room == IF over > 0 THEN Removed(t, over) ELSE t
  IN IF t.paused \/ rows = <<>> THEN t ELSE Inserted(room, Len(room.rows), kept)

Capped(t, keep) ==
  LET less == [t EXCEPT !.keep = keep]
  IN IF Len(t.rows) > keep THEN Removed(less, Len(t.rows) - keep) ELSE less

Cleared(t) ==
  LET none == [t EXCEPT !.rows = <<>>, !.view = <<>>, !.singleDay = TRUE]
  IN IF t.rows = <<>> THEN t ELSE [none EXCEPT !.stats = Stats(<<>>, t.hidden)]

\* setValueHidden(), of some values.
WithHidden(t, hidden) ==
  IF hidden = t.hidden THEN t ELSE [t EXCEPT !.hidden = hidden, !.stats = Stats(t.rows, hidden)]

-----------------------------------------------------------------------------
(* The meters of the table. *)

TableSources(c, list) == IF c = <<>> THEN list ELSE c

\* Those of list that are in set, in their order.
Those(list, set) ==
  LET upto[i \in 0..Len(list)] ==
        IF i = 0 THEN <<>> ELSE IF list[i] \in set THEN Append(upto[i - 1], list[i]) ELSE upto[i - 1]
  IN upto[Len(list)]

Shows(v) == v[1] \in Range(TableSources(chosen, open)) /\ v \notin table.hidden

Linked(c, list) == Range(TableSources(c, list)) \cap Range(list)

\* A slip: one meter's readings after the other's.
MergedApart(m, list) == FlattenSeq(SetToSeq({m[x] : x \in list}))

Merged(m, list) ==
  LET rows == UNION {Range(m[x]) : x \in list}
      upto[n \in 0..MaxReadings] ==
        IF n = 0 THEN <<>> ELSE upto[n - 1] \o (IF \E r \in rows : r.n = n THEN <<CHOOSE r \in rows : r.n = n>> ELSE <<>>)
  IN upto[MaxReadings]

\* applyTableSources(), of the logs, the meters chosen and those open.
Apply(t, m, c, list) ==
  LET filled == LogRows(Cleared([t EXCEPT !.devices = Len(TableSources(c, list)) > 1]), Merged(m, Linked(c, list)))
  IN table' = filled /\ chosen' = c /\ links' = Linked(c, list) /\ gap' = t.paused

\* A meter was connected or closed.
Follow(m, list) ==
  IF chosen = <<>> THEN Apply(table, m, <<>>, list)
  ELSE links' = Linked(chosen, list) /\ UNCHANGED <<table, chosen, gap>>

OpenMeter(x) ==
  /\ x \notin Range(open) /\ Use
  /\ open' = Append(open, x) /\ logs' = [logs EXCEPT ![x] = <<>>] /\ Follow(logs', open')
  /\ UNCHANGED <<sources, last>>

CloseMeter(x) ==
  /\ x \in Range(open) /\ Use
  /\ open' = Those(open, Meters \ {x}) /\ logs' = [logs EXCEPT ![x] = <<>>] /\ Follow(logs', open')
  /\ UNCHANGED <<sources, last>>

\* A reading: into the recorder of its meter, and into the table.
Reading(x, id, f) ==
  LET row == [n |-> last + 1, source |-> x, id |-> id, function |-> f]
      log == Append(logs[x], row)
  IN /\ x \in Range(open) /\ last < MaxReadings /\ last' = row.n
     /\ logs' = [logs EXCEPT ![x] = IF Len(log) > LogCapacity THEN Tail(log) ELSE log]
     /\ table' = IF x \in links THEN LogRows(table, <<row>>) ELSE table
     /\ gap' = (gap \/ (x \in links /\ table.paused))
     /\ UNCHANGED <<open, chosen, links, sources, uses>>

\* The timer of the statistics.
UpdateStats ==
  /\ table.later
  /\ table' = [table EXCEPT !.later = FALSE, !.stats = Stats(table.rows, table.hidden)]
  /\ UNCHANGED <<open, logs, chosen, links, sources, gap, last, uses>>

-----------------------------------------------------------------------------
(* What the user does. *)

ToTable(t, missing) ==
  table' = t /\ gap' = (gap \/ missing) /\ UNCHANGED <<open, logs, chosen, links, sources, last>>

Pause == Use /\ ToTable([table EXCEPT !.paused = ~@], FALSE)
Clear == Use /\ ToTable(Cleared(table), TRUE)
Keep(k) == k # table.keep /\ Use /\ ToTable(Capped(table, k), TRUE)

\* The menu of a value, which lists those of the meters connected (setTableShown()).
Show(v) ==
  LET now == TableSources(chosen, open)
      only == (table.hidden \cup ({v[1]} \X Ids)) \ {v}
  IN /\ v[1] \in Range(open) /\ ~Shows(v) /\ Use /\ UNCHANGED <<open, logs, sources, last>>
     /\ IF v[1] \in Range(now)
        THEN table' = WithHidden(table, table.hidden \ {v}) /\ UNCHANGED <<chosen, links, gap>>
        ELSE Apply(WithHidden(table, only), logs, Append(now, v[1]), open)

Hide(v) ==
  LET hidden == table.hidden \cup {v}
      own    == {v[1]} \X Ids
  IN /\ v[1] \in Range(open) /\ Shows(v) /\ Use /\ UNCHANGED <<open, logs, sources, last>>
     /\ IF own \ hidden # {} THEN table' = WithHidden(table, hidden) /\ UNCHANGED <<chosen, links, gap>>
        ELSE Apply(WithHidden(table, hidden \ own), logs,
                   Those(TableSources(chosen, open), Meters \ {v[1]}), open)

\* Sources... lists the values of the meters connected when it opens; readings, meters and benches come meanwhile.
AskSources ==
  /\ Len(open) > 1 /\ sources = NoDialog /\ Use /\ sources' = open
  /\ UNCHANGED <<open, logs, chosen, links, table, gap, last>>

PickSources(picked) ==
  LET hidden == (table.hidden \cup (Range(sources) \X Ids)) \ picked
      of     == Those(sources, {v[1] : v \in picked})
      t      == WithHidden(table, hidden)
  IN /\ sources # NoDialog /\ picked \subseteq Range(sources) \X Ids /\ sources' = NoDialog
     /\ IF of = TableSources(chosen, open) THEN table' = t /\ UNCHANGED <<chosen, links, gap>>
        ELSE Apply(t, logs, of, open)
     /\ UNCHANGED <<open, logs, last, uses>>

\* A bench is loaded (restoreWindows()).
Load(bench) ==
  /\ Use /\ Apply(WithHidden(table, bench.hidden), logs, bench.chosen, open)
  /\ UNCHANGED <<open, logs, sources, last>>

Next ==
  \/ \E x \in Meters : OpenMeter(x) \/ CloseMeter(x) \/ \E id \in Ids, f \in Functions : Reading(x, id, f)
  \/ UpdateStats \/ Pause \/ Clear \/ AskSources
  \/ \E k \in Keeps : Keep(k)
  \/ \E v \in Meters \X Ids : Show(v) \/ Hide(v)
  \/ \E picked \in SUBSET (Meters \X Ids) : PickSources(picked)
  \/ \E bench \in Benches : Load(bench)

Spec == Init /\ [][Next]_vars

-----------------------------------------------------------------------------
(* Properties *)

\* The table holds each reading at most once, in the order of time, of its meters only, and no more than it is to keep.
RowsAreInOrder ==
  /\ \A i, j \in DOMAIN table.rows : i < j => table.rows[i].n < table.rows[j].n
  /\ \A r \in Range(table.rows) : r \in Row /\ r.source \in Range(TableSources(chosen, open))
  /\ Len(table.rows) <= table.keep

\* What the view was told piece by piece, the columns and, after a moment, the statistics are those of the rows there
\* are, however rows, meters, choices and benches came and went.
ViewIsOfTheRows ==
  /\ table.view = table.rows
  /\ table.singleDay = (\A q, r \in Range(table.rows) : q.n < Midnight <=> r.n < Midnight)
  /\ (\E r \in Range(table.rows) : r.id > 0) => table.otherValues
  /\ table.devices <=> Len(TableSources(chosen, open)) > 1
  /\ table.later \/ table.stats = Stats(table.rows, table.hidden)

\* Unless it was paused, cleared or shortened, no reading its meters' recorders have is missing but for newer ones.
NothingIsMissing ==
  ~gap => \A x \in links : \A r \in Range(logs[x]) :
    \/ r \in Range(table.rows)
    \/ Len(table.rows) = table.keep /\ r.n < table.rows[1].n

\* The table is that of its meters' readings, and the window shows it.
TableIsTrue == RowsAreInOrder /\ ViewIsOfTheRows /\ NothingIsMissing
=============================================================================
