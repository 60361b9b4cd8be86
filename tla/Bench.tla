-------------------------------- MODULE Bench --------------------------------
(***************************************************************************)
(* The bench of the main window: which meters are connected, which windows *)
(* show and how they are laid out; how it is saved at the end, to a file,  *)
(* and made again at the start or from a file (ui/mainwindow.cpp).         *)
(*                                                                         *)
(* A window goes by its object name, a front panel by its entry of My      *)
(* devices. A layout is the windows its tree has and a tag for the tree:   *)
(* what MdiArranger does to trees is in MdiArranger, whose next pass is    *)
(* part of each step here. The mode Free, the values and the looks of the  *)
(* windows are left out, and --connect, which opens more meters.           *)
(***************************************************************************)
EXTENDS Integers, FiniteSets

CONSTANTS
  Devices,   \* entries of My devices at first
  Views,     \* further needle meters that may be added
  Files,     \* bench files
  MaxUses    \* bound: what the user does, and crashes

VARIABLES
  phase,         \* "Off", "Starting" (before openPending()), "Running"
  bench,         \* what is seen, see Fresh
  auto,          \* m_autoSaveLayout
  startDisplay,  \* m_startDisplay
  panelStates,   \* m_panelStates: whether the panel is shown
  pendingOpen,   \* m_pendingOpen
  pendingLayout, \* m_pendingLayout
  library,       \* My devices
  settings,      \* the settings file
  files,         \* bench files saved
  left,          \* auxiliary: what the next start is to show, and why
  want,          \* auxiliary: what is to be seen until the user does something
  uses           \* bound

window == <<bench, auto, startDisplay, panelStates, pendingOpen, pendingLayout>>
disk   == <<library, settings, files>>
vars   == <<phase, window, disk, left, want, uses>>

-----------------------------------------------------------------------------
(* Layouts *)

NoTree == [tag |-> "none", names |-> {}, knows |-> {}]
NoText == [tag |-> "none", names |-> {}]

Tree(tag, names) == [tag |-> tag, names |-> names, knows |-> names]

\* layoutText()
Text(l) == IF l.names = {} THEN NoText ELSE [tag |-> l.tag, names |-> l.names]

\* fromText() takes a text whose windows are all there.
Takes(text, windows) == text.names \subseteq windows

\* MdiArranger::doArrange() with the windows v shown.
Arranged(l, mode, v) ==
  IF v = {} THEN l
  ELSE IF mode = "auto" THEN (IF l.names = v THEN l ELSE NoTree)
  ELSE IF l = NoTree THEN Tree("rule", v)
  ELSE IF v \subseteq l.knows THEN [l EXCEPT !.names = v] ELSE Tree("joined", v)

\* The window w is deleted: MdiArranger::addWindow(), destroyed().
Without(l, mode, w) == IF mode = "auto" THEN NoTree ELSE [l EXCEPT !.names = @ \ {w}]

Fresh == [mode |-> "auto", display |-> TRUE, shown |-> {"meter"}, open |-> {}, added |-> {}, layout |-> NoTree]

Windows(b) == {"meter"} \cup b.open \cup b.added

Settle(b) == [b EXCEPT !.layout = Arranged(@, b.mode, b.shown)]

\* storeWorkspace(); the added windows that show are kept here only to tell whether they do.
Stored(b) == [b EXCEPT !.layout = Text(@)]

-----------------------------------------------------------------------------
(* Parts of the steps *)

\* Entries of My devices open, with their panels as set aside: DeviceSession::open(), addPanel().
WithPanels(b, ids, states) ==
  LET isShown(d) == b.display /\ (d \in DOMAIN states => states[d])
  IN [b EXCEPT !.open = @ \cup ids, !.shown = @ \cup {d \in ids : isShown(d)}]

\* A meter is closed: removePanel().
WithoutPanel(b, d) ==
  [b EXCEPT !.open = @ \ {d}, !.shown = @ \ {d}, !.layout = IF d \in b.open THEN Without(@, b.mode, d) ELSE @]

Forget(states, ids) == [d \in DOMAIN states \ ids |-> states[d]]

\* The windows of a workspace: applyWorkspace() but for its layout.
WindowsOf(b, ws) ==
  LET panels == (b.open \cap ws.open \cap ws.shown) \cup ((b.open \ ws.open) \cap b.shown)
  IN [b EXCEPT !.mode = ws.mode, !.display = ws.display, !.added = ws.added,
               !.shown = ({"meter"} \cap ws.shown) \cup ws.added \cup (IF ws.display THEN panels ELSE {})]

\* A slip: a layout that names panels not there yet does not wait for them.
ApplyWorkspaceAtOnce(b, ws) ==
  LET w == WindowsOf(b, ws)
  IN [bench |-> [w EXCEPT !.layout = IF Takes(ws.layout, Windows(w)) THEN Tree(ws.layout.tag, ws.layout.names) ELSE NoTree],
      states |-> [d \in ws.open \ b.open |-> d \in ws.shown],
      layout |-> NoText]

\* applyWorkspace(): the layout, or the rule until its panels are there.
ApplyWorkspace(b, ws) ==
  LET w     == WindowsOf(b, ws)
      takes == Takes(ws.layout, Windows(w))
  IN [bench  |-> [w EXCEPT !.layout = IF takes /\ ws.layout # NoText THEN Tree(ws.layout.tag, ws.layout.names) ELSE NoTree],
      states |-> [d \in ws.open \ b.open |-> d \in ws.shown],
      layout |-> IF ~takes /\ ws.open # {} THEN ws.layout ELSE NoText]

States(new) == [d \in DOMAIN new \cup DOMAIN panelStates |-> IF d \in DOMAIN new THEN new[d] ELSE panelStates[d]]

\* openPending(): of the meters to come these open; the layout that waited.
OpenPending(b, opened, states, layout) ==
  LET w == WithPanels(b, opened, states)
  IN Settle(IF layout # NoText /\ Takes(layout, Windows(w))
            THEN [w EXCEPT !.layout = Tree(layout.tag, layout.names)] ELSE w)

\* Those that connect, any of the entries there are.
MayOpen(ids, b, lib) == SUBSET ((ids \cap lib) \ b.open)

\* What a workspace can bring back: it does not say which added windows show, nor of a panel that shows without LCD.
Restorable(ws) == ws.added \subseteq ws.shown /\ (ws.display \/ ws.shown \cap ws.open = {})

Claim(why, ws) == [why |-> why, ws |-> ws]
NoClaim        == Claim("none", Stored(Fresh))

Use == uses < MaxUses /\ uses' = uses + 1

-----------------------------------------------------------------------------
(* Start and end *)

Init ==
  /\ phase = "Off" /\ bench = Fresh /\ auto = TRUE /\ startDisplay = TRUE
  /\ panelStates = <<>> /\ pendingOpen = {} /\ pendingLayout = NoText
  /\ library = Devices /\ settings = [auto |-> TRUE, ws |-> Stored(Fresh)] /\ files = <<>>
  /\ left = NoClaim /\ want = NoClaim /\ uses = 0

\* restoreWindows()
Start ==
  LET made == ApplyWorkspace(Fresh, settings.ws)
  IN /\ phase = "Off" /\ phase' = "Starting"
     /\ bench' = Settle(made.bench) /\ panelStates' = made.states
     /\ pendingOpen' = settings.ws.open /\ pendingLayout' = made.layout
     /\ auto' = settings.auto /\ startDisplay' = made.bench.display
     /\ want' = left
     /\ UNCHANGED <<disk, left, uses>>

\* openPending() a second after the start.
FirstSecond ==
  /\ phase = "Starting" /\ phase' = "Running"
  /\ \E opened \in MayOpen(pendingOpen, bench, library) :
       /\ bench' = OpenPending(bench, opened, panelStates, pendingLayout)
       /\ panelStates' = Forget(panelStates, opened)
       /\ want' = IF opened = pendingOpen \ bench.open /\ Restorable(want.ws) THEN want ELSE NoClaim
  /\ pendingOpen' = {} /\ pendingLayout' = NoText
  /\ UNCHANGED <<auto, startDisplay, disk, left, uses>>

\* closeEvent(): saveWindows(), and the settings are applied, which tells the LCD action what is stored. The user may stay.
Close(stays) ==
  LET display == IF auto THEN bench.display ELSE startDisplay
      panels  == IF display THEN bench.open ELSE {}
      ws      == IF auto THEN Stored(bench) ELSE [settings.ws EXCEPT !.display = display]
  IN /\ phase # "Off" /\ Use
     /\ settings' = [auto |-> auto, ws |-> ws]
     /\ left' = IF auto THEN Claim("closed", ws) ELSE [left EXCEPT !.ws.display = display]
     /\ bench' = IF display = bench.display THEN bench
                 ELSE Settle([bench EXCEPT !.display = display, !.shown = (@ \ bench.open) \cup panels])
     /\ phase' = IF stays THEN phase ELSE "Off"
     /\ want' = NoClaim
     /\ UNCHANGED <<auto, startDisplay, panelStates, pendingOpen, pendingLayout, library, files>>

\* The program is killed, or crashes.
Crash ==
  /\ phase # "Off" /\ Use /\ phase' = "Off" /\ want' = NoClaim
  /\ UNCHANGED <<window, disk, left>>

-----------------------------------------------------------------------------
(* Bench files *)

\* saveWorkspace(), with copies of the entries of the meters connected.
SaveWorkspace(f) ==
  /\ phase # "Off" /\ Use
  /\ files' = [g \in DOMAIN files \cup {f} |->
                 IF g = f THEN [ws |-> Stored(bench), copies |-> bench.open \cap library] ELSE files[g]]
  /\ want' = NoClaim
  /\ UNCHANGED <<phase, window, library, settings, left>>

\* loadWorkspaceFile(): the meters it does not have close, its windows come, without auto-save they are stored, the
\* meters open.
LoadWorkspaceFile(f) ==
  LET file    == files[f]
      closing == bench.open \ file.ws.open
      closed  == [Fresh EXCEPT !.open = bench.open \ closing, !.shown = bench.shown \ closing]
      made    == ApplyWorkspace(closed, file.ws)
      states  == States(made.states)
      waiting == IF made.layout = NoText THEN pendingLayout ELSE made.layout
      lib     == library \cup file.copies
  IN /\ phase # "Off" /\ Use
     /\ library' = lib
     /\ settings' = IF auto THEN settings ELSE [auto |-> TRUE, ws |-> Stored(made.bench)]
     /\ startDisplay' = IF auto THEN startDisplay ELSE made.bench.display
     /\ \E opened \in MayOpen(file.ws.open, made.bench, lib) :
          LET whole == opened = file.ws.open \ made.bench.open /\ Restorable(file.ws) /\ phase = "Running"
          IN /\ bench' = OpenPending(made.bench, opened, states, waiting)
             /\ panelStates' = Forget(states, opened)
             /\ want' = IF whole THEN Claim("bench", file.ws) ELSE NoClaim
             /\ left' = IF auto THEN left ELSE IF whole THEN Claim("loaded", file.ws) ELSE NoClaim
     /\ pendingOpen' = {} /\ pendingLayout' = NoText
     /\ UNCHANGED <<phase, auto, files>>

-----------------------------------------------------------------------------
(* The user, and SCPI clients *)

\* What changes the bench only: b, once its windows are arranged.
Changes(b) ==
  /\ phase # "Off" /\ Use /\ bench' = Settle(b) /\ want' = NoClaim
  /\ UNCHANGED <<phase, auto, startDisplay, pendingOpen, pendingLayout, disk, left>>

\* openBeside(), QTDMM:DEVice:OPEN
Open(d) ==
  /\ d \in library \ bench.open
  /\ panelStates' = Forget(panelStates, {d})
  /\ Changes(WithPanels(bench, {d}, panelStates))

\* QTDMM:DEVice:CLOSe, the sidebar
CloseDevice(d) == d \in bench.open /\ Changes(WithoutPanel(bench, d)) /\ UNCHANGED panelStates

\* deviceSettings(): connected anew, its panel as it was; or it does not connect.
DeviceSettings(d, connects) ==
  LET states == States([e \in {d} |-> d \in bench.shown])
      gone   == WithoutPanel(bench, d)
  IN /\ d \in bench.open \cap library
     /\ panelStates' = IF connects THEN Forget(states, {d}) ELSE states
     /\ Changes(IF connects THEN WithPanels(gone, {d}, states) ELSE gone)

\* A window's entry in a menu, or its X.
SetShown(w, on) ==
  /\ w \in Windows(bench) /\ on = (w \notin bench.shown)
  /\ Changes([bench EXCEPT !.shown = IF on THEN @ \cup {w} ELSE @ \ {w}]) /\ UNCHANGED panelStates

\* The LCD action: all panels.
ToggleDisplay ==
  /\ Changes([bench EXCEPT !.display = ~@, !.shown = IF bench.display THEN @ \ bench.open ELSE @ \cup bench.open])
  /\ UNCHANGED panelStates

\* The action of the needle meter: all of them.
ToggleMeters ==
  LET all == {"meter"} \cup bench.added
  IN Changes([bench EXCEPT !.shown = IF "meter" \in @ THEN @ \ all ELSE @ \cup all]) /\ UNCHANGED panelStates

\* newView(), removeAddedWindow()
AddView(v) ==
  /\ v \in Views \ bench.added
  /\ Changes([bench EXCEPT !.added = @ \cup {v}, !.shown = @ \cup {v}]) /\ UNCHANGED panelStates
RemoveView(v) ==
  /\ v \in bench.added
  /\ Changes([bench EXCEPT !.added = @ \ {v}, !.shown = @ \ {v}, !.layout = Without(@, bench.mode, v)])
  /\ UNCHANGED panelStates

\* Windows swap, a divider moves.
LayOut ==
  /\ bench.shown # {}
  /\ Changes([bench EXCEPT !.layout = Tree("user", bench.shown)]) /\ UNCHANGED panelStates

\* The arrange menu; from an automatic mode Fixed takes the tree over.
SetMode(mode) ==
  /\ mode # bench.mode
  /\ Changes([bench EXCEPT !.mode = mode, !.layout = IF mode = "auto" THEN NoTree ELSE @]) /\ UNCHANGED panelStates

ToggleAuto ==
  /\ phase # "Off" /\ Use /\ auto' = ~auto
  /\ UNCHANGED <<phase, bench, startDisplay, panelStates, pendingOpen, pendingLayout, disk, left, want>>

\* An entry of My devices is removed; a meter connected by it stays.
RemoveEntry(d) ==
  /\ phase # "Off" /\ Use /\ d \in library /\ library' = library \ {d}
  /\ UNCHANGED <<phase, window, settings, files, left, want>>

Next ==
  \/ Start
  \/ FirstSecond
  \/ \E stays \in BOOLEAN : Close(stays)
  \/ Crash
  \/ \E f \in Files : SaveWorkspace(f)
  \/ \E f \in DOMAIN files : LoadWorkspaceFile(f)
  \/ \E d \in Devices : Open(d) \/ CloseDevice(d) \/ RemoveEntry(d)
  \/ \E d \in Devices, connects \in BOOLEAN : DeviceSettings(d, connects)
  \/ \E w \in {"meter"} \cup Views \cup Devices, on \in BOOLEAN : SetShown(w, on)
  \/ ToggleDisplay
  \/ ToggleMeters
  \/ \E v \in Views : AddView(v) \/ RemoveView(v)
  \/ LayOut
  \/ \E mode \in {"auto", "fixed"} : SetMode(mode)
  \/ ToggleAuto

Spec == Init /\ [][Next]_vars

-----------------------------------------------------------------------------
(* Properties *)

Shows(ws) == phase = "Running" => Stored(bench) = ws

\* Once its meters have connected, the window shows the bench it was closed with, in an earlier run perhaps of several
\* that crashed or did not save, or the one of the file, whatever it showed before (storeWorkspace(), applyWorkspace(),
\* openPending()).
BenchIsRestored == want.why \in {"closed", "bench"} => Shows(want.ws)

\* The claim of loadWorkspaceFile(): "without auto-save the loaded workspace is the one to start with next time".
StartsWithLoaded == want.why = "loaded" => Shows(want.ws)
=============================================================================
