------------------------------ MODULE MCReadings ------------------------------
(***************************************************************************)
(* The two ends of a reading's way: FrameReader, which makes telegrams of  *)
(* a meter's bytes, and MeterValues, which makes of the decoded values     *)
(* what is seen and heard. The decoders between them keep no state, so     *)
(* each end is looked at by itself: a behaviour is one of the end it       *)
(* chose.                                                                  *)
(*                                                                         *)
(* Telegrams of three bytes, or lines of two to four, in a buffer of       *)
(* seven; two values of one meter, three functions and one limit test.     *)
(***************************************************************************)
EXTENDS MeterValues

CONSTANTS Protocols, LineLengths, FifoLength, MaxTelegrams, MaxFaults, MaxBuffer  \* FrameReader

ASSUME FramesAssumption ==
  /\ FifoLength \in Nat \ {0} /\ {MaxTelegrams, MaxFaults, MaxBuffer} \subseteq Nat /\ LineLengths \subseteq Nat \ {0, 1}
  /\ \A p \in Protocols : /\ 2 * p.length < FifoLength /\ {p.length, p.from} \subseteq Nat
                          /\ p.copies \in {1, 2} /\ p.lines \in Nat \ {0} /\ {p.header, p.polled} \subseteq BOOLEAN

VARIABLES end, protocol, fifo, length, line, unread, next, cut, faults, frames, damaged, shifted, newest

frameVars == <<protocol, fifo, length, line, unread, next, cut, faults, frames, damaged, shifted, newest>>

Frames == INSTANCE FrameReader WITH id <- line, told <- newest

MCInit ==
  /\ Init /\ Frames!Init
  /\ \/ end = "frames" /\ viewId = 0
     \/ end = "values" /\ protocol = (CHOOSE p \in Protocols : TRUE) /\ fifo[0].at = 1 /\ next.at = 1 /\ next.copy = 1

MCNext ==
  /\ UNCHANGED end
  /\ \/ end = "frames" /\ Frames!Next /\ UNCHANGED vars
     \/ end = "values" /\ Next /\ UNCHANGED frameVars

MCSpec == MCInit /\ [][MCNext]_<<end, vars, frameVars>>

-----------------------------------------------------------------------------
(* The properties of FrameReader *)

\* A frame is one whole telegram of one line, whatever portions the bytes came in, and a measurement is told once, in
\* order, with its last byte (FrameReader::socketNotifierSLOT, checkFormat).
TelegramsArrive == Frames!TelegramsArrive

-----------------------------------------------------------------------------
Plain == [length |-> 3, copies |-> 1, from |-> 0, header |-> FALSE, lines |-> 1, polled |-> FALSE]

MCProtocols == {
  Plain,                                                  \* QM1537, VC870, Voltcraft15Continuous
  [Plain EXCEPT !.lines = 2, !.polled = TRUE],            \* Metex14
  [Plain EXCEPT !.from = 2],                              \* M9803R
  [Plain EXCEPT !.header = TRUE],                         \* GDM703, Brymen BM25x, UT32x
  [Plain EXCEPT !.header = TRUE, !.from = 2],             \* PeakTech10, DO3122, Owon, UT8803
  [Plain EXCEPT !.copies = 2, !.from = 4],                \* ES51962, ES51986, VC940
  [Plain EXCEPT !.length = 0, !.polled = TRUE] }          \* Fluke 45, Fluke QM

Number(i, v, q) == [id |-> i, value |-> v, text |-> "number", shown |-> "Valid", quantity |-> q, hold |-> FALSE]

MCChannels == {
  Number(0, 1, "V"), Number(0, 3, "A"), [Number(0, 2, "V") EXCEPT !.hold = TRUE],
  [Number(0, -1, "V") EXCEPT !.text = "letters"], Number(0, 2, Nothing),
  [Number(0, 0, Nothing) EXCEPT !.shown = "NoValue"],
  Number(1, 2, "V"), [Number(1, 0, "V") EXCEPT !.text = "empty"] }

MCTests == { [enabled |-> TRUE, id |-> 0, low |-> 2, high |-> 2, repeat |-> {"High", "Low"}] }
=============================================================================
