------------------------------ MODULE GraphMinimap ------------------------------
(***************************************************************************)
(* The overview below the graph (ui/views/graphminimap.cpp): all that the  *)
(* recorder keeps in columns of time, of which a new reading changes the   *)
(* last one.                                                               *)
(*                                                                         *)
(* An overview is a record of the members of the same names: the window    *)
(* shown, the columns' width and first number. A column is what came in    *)
(* it: its values (the code keeps the least and the greatest), the last    *)
(* and what kinds of gap. What the recorder keeps is a record too: its     *)
(* series, the times from and to.                                          *)
(***************************************************************************)
EXTENDS Integers, Sequences, SequencesExt

CONSTANTS
  MapColumns,     \* width(): columns there is room for
  Overload, Stale \* the values of points that were an overload, or fell silent

NaN == -1   \* no value

LOCAL Later(a, b) == IF a >= b THEN a ELSE b
LOCAL Round(a, b) == (a + b - 1) \div b

\* The least power of two that is need or more, as the loop of neededColumnMs() and bucketSize() finds it.
PowerFrom(need) == CHOOSE ms \in {2^k : k \in 0..need} : ms >= need /\ (ms \div 2 < need \/ ms = 1)

\* from() and to(): the strip shows the window too, where it reaches beyond the newest reading.
To(map, kept) == Later(Later(kept.to, map.start + map.width), kept.from + 1)

NeededColumn(map, kept) == PowerFrom(Round(To(map, kept) - kept.from, MapColumns))

NoReadings == [vals |-> {}, last |-> NaN, overload |-> FALSE, gap |-> FALSE]

\* addReading()
Take(column, p) ==
  IF p.v >= 0 THEN [column EXCEPT !.vals = @ \cup {p.v}, !.last = p.v]
  ELSE [column EXCEPT !.last = NaN, !.overload = @ \/ p.v = Overload, !.gap = @ \/ p.v # Overload]

\* The readings drawn: the one that holds at the start and those after it.
Drawn(kept) ==
  LET old == Len(SelectSeq(kept.series, LAMBDA p : p.t <= kept.from))
  IN  SubSeq(kept.series, Later(1, old), Len(kept.series))

\* Column k of columns of ms that begin with first: what holds at the start is in the first one.
Column(kept, ms, first, k) ==
  FoldLeft(Take, NoReadings, SelectSeq(Drawn(kept), LAMBDA p : Later(first, p.t \div ms) = k))

\* rebuild()
Rebuilt(map, kept) ==
  LET ms    == NeededColumn(map, kept)
      first == kept.from \div ms
      last  == Later(first, Last(kept.series).t \div ms)
  IN  [map EXCEPT !.ms = ms, !.first = first,
                  !.columns = IF kept.series = <<>> THEN <<>>
                              ELSE [i \in 1..(last - first + 1) |-> Column(kept, ms, first, first + i - 1)]]

\* setView(), ensureColumns()
SetView(map, start, width, kept) ==
  LET moved == [map EXCEPT !.start = start, !.width = width]
  IN  IF moved # map /\ NeededColumn(moved, kept) # map.ms THEN Rebuilt(moved, kept) ELSE moved

\* dropFront(): the columns of what the recorder has dropped.
DropFront(map, kept) ==
  LET first == Later(map.first, kept.from \div map.ms)
  IN  [map EXCEPT !.first = first, !.columns = SubSeq(@, first - map.first + 1, Len(@))]

\* addLast(): the newest reading joins its column.
AddLast(map, kept) ==
  LET rest == DropFront(map, kept)
      k    == Last(kept.series).t \div map.ms
      more == [i \in 1..Later(Len(rest.columns), k - rest.first + 1) |->
                 IF i <= Len(rest.columns) THEN rest.columns[i] ELSE NoReadings]
  IN  IF NeededColumn(map, kept) # map.ms \/ map.columns = <<>> \/ k < rest.first THEN Rebuilt(map, kept)
      ELSE [rest EXCEPT !.columns = [more EXCEPT ![k - rest.first + 1] = Take(@, Last(kept.series))]]

\* Every column after the one of the start has the readings of its time, as a strip built anew has.
StripIsTrue(map, kept) ==
  \A i \in DOMAIN map.columns :
    map.first + i - 1 > Later(kept.from, IF kept.series = <<>> THEN 0 ELSE kept.series[1].t) \div map.ms =>
      map.columns[i] = Column(kept, map.ms, kept.from \div map.ms, map.first + i - 1)
=============================================================================
