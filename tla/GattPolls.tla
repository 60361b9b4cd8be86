------------------------------- MODULE GattPolls -------------------------------
(***************************************************************************)
(* The polls of a Bluetooth meter that is ready (BleGattDevice::sendPoll   *)
(* and sendCommand): the reader of frames asks once a second, an answer    *)
(* repeats the last request soon, a key silences the requests for a while, *)
(* one request is out at a time.  One unit of time is 50 ms; a timer may   *)
(* fire one unit early or late.                                            *)
(***************************************************************************)
EXTENDS Naturals

CONSTANTS
  Period,    \* of the reader's requests
  Repoll,    \* kRepollMs
  KeyQuiet,  \* kKeyQuietMs; the guard leaves it one unit less
  LostAfter,      \* an unanswered poll counts as lost
  KeysApart  \* bound: time between two keys

VARIABLES
  hasPoll,   \* m_lastPoll is known
  out,       \* m_pollSent is valid: a poll waits for its answer
  sincePoll, \* since the last poll went out: m_pollSent.elapsed() while valid
  sinceKey,  \* m_keySent.elapsed()
  repoll,    \* time m_repoll has run, or Off
  shots,     \* times the single shots of sendCommand() have run
  reader     \* since the reader's last request

vars == <<hasPoll, out, sincePoll, sinceKey, repoll, shots, reader>>

Off   == Repoll + 2
Never == KeyQuiet + 2          \* no key, or one long ago
Long  == 2 * Period + 2

Init ==
  /\ hasPoll \in BOOLEAN /\ out = FALSE /\ sincePoll = 0 /\ sinceKey = Never /\ repoll = Off /\ shots = {}
  /\ reader \in 0..Period

\* A slip: an unanswered poll is waited for.
SendPollOnce ==
  IF hasPoll' /\ sinceKey' >= KeyQuiet - 1 /\ ~out THEN out' = TRUE /\ sincePoll' = 0 ELSE UNCHANGED <<out, sincePoll>>

\* sendPoll()
SendPoll ==
  IF hasPoll' /\ sinceKey' >= KeyQuiet - 1 /\ (out => sincePoll >= LostAfter)
  THEN out' = TRUE /\ sincePoll' = 0
  ELSE UNCHANGED <<out, sincePoll>>

\* writeData(): the reader's request
WriteData ==
  /\ reader \in (Period - 1)..(Period + 1) /\ reader' = 0 /\ hasPoll' = TRUE /\ UNCHANGED sinceKey /\ SendPoll
  /\ UNCHANGED <<repoll, shots>>

\* characteristicChanged(): an answer, late perhaps, or a reading of a meter that streams
Answer ==
  /\ out' = FALSE /\ repoll' = IF hasPoll /\ repoll = Off THEN 0 ELSE repoll
  /\ UNCHANGED <<hasPoll, sincePoll, sinceKey, shots, reader>>

RepollTimer ==
  /\ repoll \in (Repoll - 1)..(Repoll + 1) /\ repoll' = Off /\ UNCHANGED <<hasPoll, sinceKey>> /\ SendPoll
  /\ UNCHANGED <<shots, reader>>

\* sendCommand()
SendCommand ==
  /\ sinceKey >= KeysApart /\ sinceKey' = 0 /\ shots' = shots \cup {0}
  /\ UNCHANGED <<hasPoll, out, sincePoll, repoll, reader>>

Shot(s) ==
  /\ s >= KeyQuiet - 1 /\ shots' = shots \ {s} /\ UNCHANGED <<hasPoll, sinceKey>> /\ SendPoll
  /\ UNCHANGED <<repoll, reader>>

\* Timers fire before they are more than a unit late.
Wait ==
  /\ reader <= Period /\ repoll # Repoll + 1 /\ \A s \in shots : s <= KeyQuiet
  /\ reader' = reader + 1 /\ shots' = {s + 1 : s \in shots}
  /\ sincePoll' = IF sincePoll < Long THEN sincePoll + 1 ELSE Long
  /\ sinceKey' = IF sinceKey < Never THEN sinceKey + 1 ELSE Never
  /\ repoll' = IF repoll = Off THEN Off ELSE repoll + 1
  /\ UNCHANGED <<hasPoll, out>>

Next == WriteData \/ Answer \/ RepollTimer \/ SendCommand \/ (\E s \in shots : Shot(s)) \/ Wait

\* Whatever answers are lost or late and whatever keys are pressed, the meter is asked again within two periods of
\* the reader, or as soon as the keys pause for their quiet time.
PollsGoOn == sincePoll <= 2 * Period + 1 \/ sinceKey <= KeyQuiet + 1
=============================================================================
