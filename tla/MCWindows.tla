------------------------------- MODULE MCWindows -------------------------------
(***************************************************************************)
(* A process as its main window sees it: the meters' common recording      *)
(* (DeviceSession), the bench, which comes and goes with settings and      *)
(* files (Bench), the windows' places on it (MdiArranger) and one of these *)
(* windows, the graph (GraphWidget). The bench knows of a layout only that *)
(* it is one, the arranger nothing of what a window shows, the graph one   *)
(* recorder, the session none of the windows, so each is looked at by      *)
(* itself: a behaviour is one of the part it chose. At most one window is  *)
(* hidden at first.                                                        *)
(***************************************************************************)
EXTENDS MCDeviceSession, SessionWindow

CONSTANTS
  Names, FirstWindows, RoleOf, Texts, Mixed, Hasty, ArrangerUses,   \* MdiArranger
  GraphLive, GraphFall, Values, OtherValues, Overload, Silent, Columns, MapColumns, Undo, Shortest, Minute, Sizes, Lengths,
  GraphTime, MaxReadings, GraphUses                          \* GraphWidget

ASSUME PartsAssumption == BenchUses \in Nat

VARIABLES
  part,
  mode, order, hidden, root, hasTree, treeFor, saved, savedNames, savedValid, custom, pending, posted, previews, applied, users,
  moves,
  store, graph, clock, readings, looks

arrangerVars == <<mode, order, hidden, root, hasTree, treeFor, saved, savedNames, savedValid, custom, pending, posted, previews,
                  applied, users, moves>>
graphVars    == <<store, graph, clock, readings, looks>>

Arranger == INSTANCE MdiArranger WITH MaxUses <- ArrangerUses, uses <- moves
Graph    == INSTANCE GraphWidget WITH LiveMax <- GraphLive, Fall <- GraphFall, MaxTime <- GraphTime, now <- clock,
                                      MaxUses <- GraphUses, uses <- looks

MCInit ==
  /\ Init /\ TheBench!Init /\ Arranger!Init /\ Graph!Init
  /\ part \in {"session", "bench", "arranger", "graph"}
  /\ part # "session" => trigger = AnyMeter
  /\ Cardinality(hidden) <= (IF part = "arranger" THEN 1 ELSE 0)

MCNext ==
  /\ UNCHANGED part
  /\ \/ part = "session" /\ Next /\ UNCHANGED <<benchVars, arrangerVars, graphVars>>
     \/ part = "bench" /\ TheBench!Next /\ UNCHANGED <<vars, arrangerVars, graphVars>>
     \/ part = "arranger" /\ Arranger!Next /\ UNCHANGED <<vars, benchVars, graphVars>>
     \/ part = "graph" /\ Graph!Next /\ UNCHANGED <<vars, benchVars, arrangerVars>>

MCSpec == MCInit /\ [][MCNext]_<<part, vars, benchVars, arrangerVars, graphVars>>

-----------------------------------------------------------------------------
(* The properties of Bench, MdiArranger and GraphWidget *)

\* With nothing left to arrange every window shown has its own cell, and fixed and changed layouts are the ones the
\* user left (MdiArranger::doArrange, restoreSaved, addNew).
WindowsKeepTheirPlaces == Arranger!AllHaveCells /\ Arranger!LayoutIsKept

\* The curves, the chart and the overview, which follow by one reading each, are what the recorder's readings make
\* (GraphWidget::onAppended, GapLine, GraphMinimap).
CurvesAreTheReadings == Graph!CurvesAreTheReadings

\* "All" shows all, whatever the user did before (GraphWidget::requestAll).
AllShowsAll == [][Graph!ShowsAll]_graphVars

-----------------------------------------------------------------------------
MCDevices == {"a", "b"}

MCNames  == {"meter", "graph", "panel-a", "panel-b"}
MCBegin  == <<"meter", "graph", "panel-a">>
MCRoleOf == [n \in MCNames |-> IF n = "graph" THEN "Graph" ELSE "Instrument"]
MCTexts  == {<<>>, [orient |-> "V", kids |-> <<[leaf |-> "panel-a"], [leaf |-> "graph"]>>]}

MCOverload    == -2
MCSilent      == -1
MCOtherValues == {0, -1}
=============================================================================
