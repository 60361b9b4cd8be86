----------------------------- MODULE MdiArranger -----------------------------
(***************************************************************************)
(* The windows of the bench and the tree that places them                  *)
(* (ui/mdiarranger.cpp).                                                   *)
(*                                                                         *)
(* Windows are known by their object names; the tree's leaves are their    *)
(* numbers in the order they were added, which a window that closes moves. *)
(* Sizes are left out: where they choose the direction of a split or the   *)
(* number of lines, any is chosen. A drag of a divider or of a window is   *)
(* one step.                                                               *)
(***************************************************************************)
EXTENDS Integers, Sequences, FiniteSets, SequencesExt

CONSTANTS
  Names,     \* object names
  FirstWindows, \* those of the start, in their order
  RoleOf,    \* of each: "Instrument", "Graph", "Table"
  Texts,     \* layouts a workspace may bring: trees of names
  Mixed,     \* whether windows new to a fixed tree show while others of it are away
  Hasty,     \* whether the mode changes while a preview shows
  MaxUses    \* bound: what the user and the meters do in all

Auto == {"DisplaysOnTop", "DisplaysOnLeft"}

VARIABLES
  mode,                          \* m_mode
  order,                         \* m_order, by name
  hidden,                        \* windows not shown
  root, hasTree, treeFor,        \* m_root, m_hasTree, m_treeFor
  saved, savedNames, savedValid, \* m_saved, m_savedNames, m_savedValid
  custom,                        \* m_custom
  pending,                       \* m_pending
  posted, previews,              \* timers that run: arrange(), setMode()
  applied,                       \* the tree of names the windows stand by, <<>> without one
  users,                         \* auxiliary: the tree of names the user made or left as it is
  uses                           \* bound

windows == <<order, hidden>>
tree    == <<root, hasTree, treeFor, saved, savedNames, savedValid, custom>>
timers  == <<pending, posted, previews>>
vars    == <<mode, windows, tree, timers, applied, users, uses>>

-----------------------------------------------------------------------------
(* Trees *)

Leaf(x)   == [leaf |-> x]
IsLeaf(t) == "leaf" \in DOMAIN t
Split(o, kids) == IF Len(kids) = 1 THEN kids[1] ELSE [orient |-> o, kids |-> kids]
Line(o, ids)   == Split(o, [i \in DOMAIN ids |-> Leaf(ids[i])])

RECURSIVE Leaves(_)
Leaves(t) == IF IsLeaf(t) THEN <<t.leaf>> ELSE FlattenSeq([i \in DOMAIN t.kids |-> Leaves(t.kids[i])])

InTree(t) == ToSet(Leaves(t))

\* Every leaf x as f[x].
RECURSIVE Relabel(_, _)
Relabel(t, f) == IF IsLeaf(t) THEN Leaf(f[t.leaf]) ELSE [t EXCEPT !.kids = [i \in DOMAIN @ |-> Relabel(@[i], f)]]

\* keepLeaves(), removeLeaf(): the leaves in keep; some are. The others' neighbours share their room.
RECURSIVE Kept(_, _)
Kept(t, keep) ==
  IF IsLeaf(t) THEN t
  ELSE LET stays == SelectSeq(t.kids, LAMBDA k : InTree(k) \cap keep # {})
       IN Split(t.orient, [i \in DOMAIN stays |-> Kept(stays[i], keep)])

\* insertBeside() and addNew(): x beside the leaf y, in its split if that has the direction.
RECURSIVE Beside(_, _, _, _)
Beside(t, y, x, o) ==
  IF IsLeaf(t) THEN IF t.leaf = y THEN Line(o, <<y, x>>) ELSE t
  ELSE LET at == {i \in DOMAIN t.kids : t.kids[i] = Leaf(y)}
       IN IF t.orient = o /\ at # {}
          THEN [t EXCEPT !.kids = InsertAt(@, (CHOOSE i \in at : TRUE) + 1, Leaf(x))]
          ELSE [t EXCEPT !.kids = [i \in DOMAIN @ |-> Beside(@[i], y, x, o)]]

\* addAtEdge()
AtEdge(t, x, o, first) ==
  LET kids == IF IsLeaf(t) \/ t.orient # o THEN <<t>> ELSE t.kids
  IN Split(o, IF first THEN <<Leaf(x)>> \o kids ELSE Append(kids, Leaf(x)))

Shown(list, away) == SelectSeq([i \in DOMAIN list |-> i], LAMBDA i : list[i] \notin away)
Visible           == Shown(order, hidden)          \* visibleWindows()
Named(t)          == Relabel(t, [i \in InTree(t) |-> IF i \in DOMAIN order THEN order[i] ELSE ""])  \* toText()
Number(name)      == CHOOSE i \in DOMAIN order : order[i] = name

\* ruleTree(): the instruments in lines of any length, the graphs and the tables in the rest.
RuleTrees(ids, left) ==
  LET of(role) == SelectSeq(ids, LAMBDA i : RoleOf[order[i]] = role)
      inst     == of("Instrument")
      outer    == IF left THEN "H" ELSE "V"
      inner    == IF left THEN "V" ELSE "H"
      rest     == SelectSeq(<<of("Graph"), of("Table")>>, LAMBDA s : s # <<>>)
      restTree == Split("H", [i \in DOMAIN rest |-> Line("V", rest[i])])
      lines(per) == [l \in 1..((Len(inst) + per - 1) \div per) |->
                       Line(inner, SubSeq(inst, (l - 1) * per + 1, IF l * per < Len(inst) THEN l * per ELSE Len(inst)))]
      strip(per) == Split(outer, lines(per))
  IN IF inst = <<>> THEN {restTree}
     ELSE {IF rest = <<>> THEN strip(per) ELSE Split(outer, <<strip(per), restTree>>) : per \in 1..Len(inst)}

\* deriveTree(): from positions, which may be any; those of a row, a column, or a window beside one.
DerivedTrees(ids) ==
  {Line(o, ids) : o \in {"H", "V"}}
  \cup {Split("V", <<Leaf(Head(ids)), Line("H", Tail(ids))>>) : s \in {t \in {ids} : Len(t) > 1}}

-----------------------------------------------------------------------------
(* Fixed: windows leave, come back and join. A state of the layout is a    *)
(* record of the tree's variables.                                         *)

Layout == [root |-> root, has |-> hasTree, saved |-> saved, names |-> savedNames, valid |-> savedValid]

\* leaveTree(): the first to go saves the tree.
Leave(l, i) ==
  LET s == IF l.valid THEN l ELSE [l EXCEPT !.saved = l.root, !.names = order, !.valid = TRUE]
  IN IF IsLeaf(l.root) THEN [s EXCEPT !.has = FALSE] ELSE [s EXCEPT !.root = Kept(@, InTree(@) \ {i})]

AllLeave(l, gone) == FoldLeft(Leave, l, gone)

\* A slip: those who come back stand where they stood by number.
RestoreByNumber(l, present) ==
  LET keep == InTree(l.saved) \cap present
  IN IF keep = {} THEN l ELSE [l EXCEPT !.root = Kept(l.saved, keep), !.has = TRUE]

\* restoreSaved(): the saved tree with the windows present, by name.
RestoreSaved(l, present) ==
  LET names == {order[i] : i \in present}
      keep  == {k \in InTree(l.saved) : l.names[k] \in names}
      now   == [k \in DOMAIN l.names |-> IF l.names[k] \in names THEN Number(l.names[k]) ELSE 0]
  IN IF keep = {} THEN l ELSE [l EXCEPT !.root = Relabel(Kept(l.saved, keep), now), !.has = TRUE]

\* addNew(): beside the last of its kind, else at the edge.
Joined(l, i) ==
  LET kind == SelectSeq(Leaves(l.root), LAMBDA j : RoleOf[order[j]] = RoleOf[order[i]])
  IN {[l EXCEPT !.valid = FALSE,
                !.root = IF kind = <<>> THEN AtEdge(@, i, o, RoleOf[order[i]] = "Instrument")
                         ELSE Beside(@, Last(kind), i, o)] : o \in {"H", "V"}}

RECURSIVE AllJoined(_, _)
AllJoined(l, coming) ==
  IF coming = <<>> THEN {l} ELSE UNION {AllJoined(m, Tail(coming)) : m \in Joined(l, Head(coming))}

\* The part of doArrange() for Fixed.
FixedLayouts ==
  LET left    == IF hasTree THEN AllLeave(Layout, SelectSeq(Leaves(root), LAMBDA i : i \notin ToSet(Visible))) ELSE Layout
      inTree  == IF left.has THEN InTree(left.root) ELSE {}
      isKnown(i) == left.valid /\ order[i] \in ToSet(left.names)
      outside == SelectSeq(Visible, LAMBDA i : i \notin inTree)
      known   == SelectSeq(outside, isKnown)
      coming  == SelectSeq(outside, LAMBDA i : ~isKnown(i))
      back    == IF known = <<>> THEN left ELSE RestoreSaved(left, inTree \cup ToSet(known))
      begun   == ~back.has /\ coming # <<>>
      after   == AllJoined(IF begun THEN [back EXCEPT !.root = Leaf(Head(coming)), !.has = TRUE] ELSE back,
                           IF begun THEN Tail(coming) ELSE coming)
  IN {[l EXCEPT !.valid = @ /\ ~(l.has /\ Cardinality(InTree(l.root)) = Cardinality(InTree(l.saved)))] : l \in after}

ByRule(left) == {[Layout EXCEPT !.root = t, !.has = TRUE] : t \in RuleTrees(Visible, left)}

Sets(l) ==
  root' = l.root /\ hasTree' = l.has /\ saved' = l.saved /\ savedNames' = l.names /\ savedValid' = l.valid

\* Whether the user's tree is another one: windows join it, or the rule makes it.
UsersAfter == IF mode = "Fixed" /\ {order[i] : i \in ToSet(Visible)} \subseteq InTree(users) THEN users
              ELSE IF mode \in Auto /\ custom' THEN users
              ELSE Named(root')

\* doArrange(), the windows and the mode being as they are.
DoArrange ==
  IF mode = "Free" \/ Visible = <<>> THEN UNCHANGED <<tree, applied, users>>
  ELSE /\ \/ /\ mode = "Fixed"
             /\ \E l \in (IF ~hasTree /\ ~savedValid THEN ByRule(FALSE) ELSE FixedLayouts) : Sets(l)
             /\ UNCHANGED custom
          \/ /\ mode \in Auto /\ (~hasTree \/ ~custom \/ Visible # treeFor)
             /\ \E l \in ByRule(mode = "DisplaysOnLeft") : Sets(l)
             /\ custom' = FALSE
          \/ /\ mode \in Auto /\ hasTree /\ custom /\ Visible = treeFor
             /\ UNCHANGED <<root, hasTree, saved, savedNames, savedValid, custom>>
       /\ treeFor' = Visible
       /\ applied' = Named(root')
       /\ users' = UsersAfter

-----------------------------------------------------------------------------
(* Windows *)

Use == uses < MaxUses /\ uses' = uses + 1

\* arrange(): once per pass of the event loop, not while the preview shows. on: in an arranged mode.
Arrange(on) ==
  IF on /\ ~pending THEN pending' = TRUE /\ posted' = posted + 1 ELSE UNCHANGED <<pending, posted>>

\* The window is made: its views are added, some shown.
Init ==
  /\ mode = "DisplaysOnTop" /\ order = FirstWindows /\ hidden \in SUBSET ToSet(FirstWindows)
  /\ root = Leaf(0) /\ hasTree = FALSE /\ treeFor = <<>>
  /\ saved = Leaf(0) /\ savedNames = <<>> /\ savedValid = FALSE /\ custom = FALSE
  /\ pending = TRUE /\ posted = 1 /\ previews = 0
  /\ applied = <<>> /\ users = Leaf("") /\ uses = 0

\* Windows new to a fixed tree are shown: they were there when another left it, or meet none of it.
NewBesideAway ==
  LET ofTree == InTree(users) \ {""}
      shown  == ToSet(order) \ hidden
      new    == shown \ ofTree
  IN /\ mode = "Fixed" /\ new # {}
     /\ \/ savedValid /\ new \cap ToSet(savedNames) # {}
        \/ ofTree \ shown # {} /\ (~savedValid \/ ofTree \cap shown = {})

\* addWindow(), and the window is shown or stays hidden.
AddWindow(n, shown) ==
  /\ Use /\ n \notin ToSet(order)
  /\ order' = Append(order, n) /\ hidden' = IF shown THEN hidden ELSE hidden \cup {n}
  /\ Arrange(mode # "Free")
  /\ UNCHANGED <<mode, tree, previews, applied, users>>

\* The leaves as numbers once the window i is gone (shiftLeaves()).
MovedUp(t, i) == Relabel(t, [k \in InTree(t) |-> IF k > i THEN k - 1 ELSE k])

\* A window is deleted (destroyed()), and the window arranges anew.
RemoveWindow(n) ==
  LET i    == Number(n)
      keep == mode = "Fixed" /\ hasTree
      l    == IF keep /\ i \in InTree(root) THEN Leave(Layout, i) ELSE Layout
  IN /\ Use /\ n \in ToSet(order)
     /\ order' = RemoveAt(order, i) /\ hidden' = hidden \ {n}
     /\ Sets([l EXCEPT !.has = keep /\ @, !.root = IF keep /\ l.has THEN MovedUp(@, i) ELSE @])
     /\ treeFor' = <<>>
     /\ Arrange(mode # "Free")
     /\ UNCHANGED <<mode, custom, previews, applied, users>>

\* Show and Hide events.
SetShown(n, shown) ==
  /\ Use /\ n \in ToSet(order) /\ shown = (n \in hidden)
  /\ hidden' = IF shown THEN hidden \ {n} ELSE hidden \cup {n}
  /\ Arrange(mode # "Free")
  /\ UNCHANGED <<mode, order, tree, previews, applied, users>>

\* The area is resized.
Resize ==
  /\ Use /\ mode # "Free" /\ ~pending
  /\ Arrange(TRUE)
  /\ UNCHANGED <<mode, windows, tree, previews, applied, users>>

-----------------------------------------------------------------------------
(* The user *)

\* setMode(); the title bars change as well, which arranges.
SetMode(m) ==
  LET derives == m = "Fixed" /\ mode = "Free" /\ Visible # <<>>
  IN /\ Use /\ m # mode /\ (previews = 0 \/ Hasty)
     /\ mode' = m
     /\ custom' = (custom /\ m \notin Auto)
     /\ savedValid' = FALSE
     /\ IF derives
        THEN /\ \E t \in DerivedTrees(Visible) : root' = t
             /\ hasTree' = TRUE /\ treeFor' = Visible
             /\ pending' = TRUE /\ previews' = previews + 1 /\ posted' = posted
        ELSE /\ Arrange(m # "Free")
             /\ UNCHANGED <<root, hasTree, treeFor, previews>>
     /\ users' = IF hasTree' THEN Named(root') ELSE Leaf("")
     /\ UNCHANGED <<windows, saved, savedNames, applied>>

\* setLayoutText(): "" is back to the rule; one that names another window changes nothing.
SetLayoutText(text) ==
  /\ Use
  /\ IF text = <<>>
     THEN hasTree' = FALSE /\ users' = Leaf("") /\ UNCHANGED <<root, treeFor>> /\ custom' = FALSE
     ELSE /\ InTree(text) \subseteq ToSet(order)
          /\ root' = Relabel(text, [n \in InTree(text) |-> Number(n)]) /\ hasTree' = TRUE
          /\ treeFor' = SetToSortSeq({Number(n) : n \in InTree(text)}, <)
          /\ users' = text /\ custom' = TRUE
  /\ savedValid' = FALSE
  /\ Arrange(mode # "Free")
  /\ UNCHANGED <<mode, windows, saved, savedNames, previews, applied>>

\* dragDropped(): two windows change places. With what else there is to arrange, that is a case of Timer.
Swap(n, m) ==
  /\ Use /\ mode # "Free" /\ hasTree /\ n # m /\ {n, m} \subseteq ToSet(order) \ hidden
  /\ {Number(n), Number(m)} \subseteq InTree(root) /\ ~pending
  /\ LET other == [k \in InTree(root) |-> IF k = Number(n) THEN Number(m) ELSE IF k = Number(m) THEN Number(n) ELSE k]
         t     == Relabel(root, other)
     IN root' = t /\ users' = Named(t) /\ applied' = Named(t)
  /\ custom' = TRUE /\ savedValid' = FALSE
  /\ UNCHANGED <<mode, windows, hasTree, treeFor, saved, savedNames, timers>>

\* A divider is dragged: other ratios.
DragDivider ==
  /\ Use /\ mode # "Free" /\ hasTree /\ ~IsLeaf(root) /\ ~pending
  /\ custom' = TRUE /\ savedValid' = FALSE /\ users' = Named(root)
  /\ UNCHANGED <<mode, windows, root, hasTree, treeFor, saved, savedNames, timers, applied>>

-----------------------------------------------------------------------------
(* Timers *)

Timer ==
  /\ posted > 0 /\ posted' = posted - 1 /\ pending' = FALSE
  /\ DoArrange
  /\ UNCHANGED <<mode, windows, previews, uses>>

\* The preview ends: still Fixed, the windows snap; their title bars go, which arranges again.
PreviewEnds ==
  /\ previews > 0 /\ previews' = previews - 1
  /\ IF mode = "Fixed" THEN DoArrange /\ pending' = TRUE /\ posted' = posted + 1
     ELSE UNCHANGED <<tree, applied, users, posted>> /\ pending' = FALSE
  /\ UNCHANGED <<mode, windows, uses>>

-----------------------------------------------------------------------------
Next ==
  \/ /\ \/ \E n \in Names : RemoveWindow(n) \/ \E shown \in BOOLEAN : AddWindow(n, shown) \/ SetShown(n, shown)
        \/ \E m \in Auto \cup {"Fixed", "Free"} : SetMode(m)
        \/ \E text \in Texts : SetLayoutText(text)
     /\ Mixed \/ ~NewBesideAway'
  \/ \E n, m \in Names : Swap(n, m)
  \/ Resize
  \/ DragDivider
  \/ Timer
  \/ PreviewEnds

Spec == Init /\ [][Next]_vars

-----------------------------------------------------------------------------
(* Properties *)

Settled == mode # "Free" /\ posted = 0 /\ previews = 0 /\ Visible # <<>>

\* With nothing left to arrange every window shown has its one cell, and stands in it, whatever came, went and changed
\* numbers before ("vanished windows leave, returning ones find their place, new ones stand beside their kind").
AllHaveCells ==
  Settled => /\ hasTree /\ Len(Leaves(root)) = Len(Visible) /\ InTree(root) = ToSet(Visible)
             /\ applied = Named(root)

\* Fixed keeps the user's tree for good: who is away leaves its room to its neighbours and finds its place by its name;
\* an automatic mode keeps a changed one while its windows stay (m_saved, m_savedNames, m_treeFor, m_custom).
LayoutIsKept ==
  Settled => /\ mode = "Fixed" => Named(root) = Kept(users, {order[i] : i \in ToSet(Visible)})
             /\ mode \in Auto /\ custom => Named(root) = users
=============================================================================
