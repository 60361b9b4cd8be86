---------------------------- MODULE SessionWindow ----------------------------
(***************************************************************************)
(* The main window of a session: the bench, which comes and goes with      *)
(* settings and files (Bench), beside the meters' common recording         *)
(* (DeviceSession). Neither looks at the other.                            *)
(***************************************************************************)
EXTENDS DeviceSession

CONSTANTS Devices, Views, Files, BenchUses  \* Bench

VARIABLES
  phase, bench, auto, startDisplay, panelStates, pendingOpen, pendingLayout, library, settings, files, left, want, steps

benchVars == <<phase, bench, auto, startDisplay, panelStates, pendingOpen, pendingLayout, library, settings, files, left, want,
               steps>>

TheBench == INSTANCE Bench WITH MaxUses <- BenchUses, uses <- steps

\* Once its meters have connected, the window shows the bench it was closed with, or the one of the file, whatever it
\* showed before (MainWindow::storeWorkspace, applyWorkspace, openPending).
BenchIsRestored == TheBench!BenchIsRestored
=============================================================================
