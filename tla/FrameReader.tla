----------------------------- MODULE FrameReader -----------------------------
(***************************************************************************)
(* The bytes of a meter cut into frames (device/framereader.cpp) by what   *)
(* its decoder knows of them (checkFormat(), getPacketLength() of          *)
(* device/decoders/).                                                      *)
(*                                                                         *)
(* A byte is known by the telegram it belongs to, its place there and the  *)
(* connection it came over; no data byte looks like a header or an end.    *)
(* The poll request and the port's life are part of MeterConnection.       *)
(***************************************************************************)
EXTENDS Integers, Sequences

CONSTANTS
  Protocols,    \* [length, copies, from, header, lines, polled]: see Protocol below
  LineLengths,  \* lengths of the lines of a protocol of variable length
  FifoLength,   \* FIFO_LENGTH
  MaxTelegrams, MaxFaults, MaxBuffer  \* bounds: telegrams sent, bytes lost and connections lost, bytes unread

\* length: getPacketLength(), 0 for lines of any length;  copies: how often the meter sends a telegram;
\* from: the first index checkFormat() looks at;  header: whether it confirms the alignment by the first byte;
\* lines: framesPerReading;  polled: whether the meter speaks when asked only, from the first line on.

VARIABLES
  protocol,
  fifo, length, id,  \* m_fifo, m_length, m_id
  unread,            \* the port's buffer
  next,              \* the byte the meter sends next
  cut,               \* auxiliary: bytes were lost, or never heard, before it
  faults,            \* bound: losses so far
  frames,            \* what the last readyRead() made of its bytes
  damaged,           \* auxiliary: something was lost since the last frame
  shifted,           \* auxiliary: the meter's lines and the ids were put out of step on this connection
  told               \* auxiliary: the newest telegram whose end ended a frame

vars == <<protocol, fifo, length, id, unread, next, cut, faults, frames, damaged, shifted, told>>

Fixed == protocol.length > 0

\* A byte of telegram n (or of a prompt before it): its copy, its place and the length, its connection, "cut" of it.
Byte(n, copy, at, len, conn) ==
  [n |-> n, prompt |-> FALSE, copy |-> copy, at |-> at, len |-> len, conn |-> conn, cut |-> FALSE]

IsStart(b) == b.at = 1
IsEnd(b)   == b.at = b.len

Ring(bytes, index, back) == bytes[(index - back) % FifoLength]

-----------------------------------------------------------------------------
(* DmmDecoder::checkFormat *)

\* Where the line that ends at index starts.
LineStart(bytes, index) ==
  LET ends == {j \in 0..(index - 1) : IsEnd(bytes[j])}
  IN IF ends = {} THEN 0 ELSE 1 + CHOOSE j \in ends : \A k \in ends : k <= j

\* A slip: the first of two equal telegrams is a frame already.
CheckFormatFromLength(bytes, index) ==
  /\ IsEnd(bytes[index])
  /\ IF Fixed
     THEN /\ index >= protocol.length - 1
          /\ protocol.header => IsStart(Ring(bytes, index, protocol.length - 1))
     ELSE /\ LineStart(bytes, index) < index
          /\ ~bytes[LineStart(bytes, index)].prompt

\* An answer of a variable length is a line that is no prompt and not empty.
CheckFormat(bytes, index) ==
  /\ IsEnd(bytes[index])
  /\ IF Fixed
     THEN /\ index >= protocol.from
          /\ protocol.header => IsStart(Ring(bytes, index, protocol.length - 1))
     ELSE /\ LineStart(bytes, index) < index
          /\ ~bytes[LineStart(bytes, index)].prompt

-----------------------------------------------------------------------------
(* FrameReader::socketNotifierSLOT: r is the reader, left what is unread after b. *)

TakeByte(r, b, left) ==
  LET bytes == [r.fifo EXCEPT ![r.length] = b]
      count == IF Fixed THEN protocol.length ELSE r.length + 1
      frame == [i \in 1..count |-> Ring(bytes, r.length, count - i)]
      lost  == r.damaged \/ b.cut
      taken == [r EXCEPT !.fifo = bytes, !.read = @ + 1, !.damaged = lost]
  IN IF CheckFormat(bytes, r.length)
     THEN [taken EXCEPT !.length = 0, !.id = (@ + 1) % protocol.lines, !.damaged = FALSE, !.going = left >= count,
                        !.frames = Append(@, [bytes |-> frame, id |-> r.id, damaged |-> lost])]
     ELSE IF ~Fixed /\ r.length + 1 >= FifoLength THEN [taken EXCEPT !.length = 0, !.damaged = TRUE]
     ELSE [taken EXCEPT !.length = (@ + 1) % FifoLength]

ReadAll(reader) ==
  LET after[i \in 0..Len(unread)] ==
        IF i = 0 THEN reader
        ELSE IF after[i - 1].going THEN TakeByte(after[i - 1], unread[i], Len(unread) - i) ELSE after[i - 1]
  IN after[Len(unread)]

\* The telegram whose end ended the frame, or after which a prompt did.
Ends(frame) == LET last == frame.bytes[Len(frame.bytes)] IN IF last.prompt THEN last.n - 1 ELSE last.n

\* Which telegram a frame is, whole: 0 for none.
Telegram(frame) ==
  LET b     == frame.bytes
      last  == b[Len(b)]
      first == Len(b) - last.len
  IN IF /\ first >= 0 /\ IsEnd(last)
        /\ \A i \in 1..last.len : b[first + i] = [last EXCEPT !.at = i, !.cut = b[first + i].cut]
        /\ ~last.prompt /\ \A i \in 1..first : b[i].prompt
     THEN last.n ELSE 0

Init ==
  /\ protocol \in Protocols
  /\ \E junk \in 1..2 : fifo = [i \in 0..(FifoLength - 1) |-> Byte(0, 1, junk, 3, 0)]  \* never initialised
  /\ length = 0 /\ id = 0 /\ unread = <<>> /\ frames = <<>>
  /\ \E len \in (IF Fixed THEN {protocol.length} ELSE LineLengths) :
     \E at \in (IF protocol.polled THEN {1} ELSE 1..len), copy \in 1..protocol.copies : next = Byte(1, copy, at, len, 1)
  /\ cut = TRUE /\ faults = 0 /\ damaged = FALSE /\ shifted = FALSE /\ told = 0

\* What the meter sends after this byte: the rest, the copy, the next telegram - with a prompt of two bytes before it.
Following ==
  IF ~IsEnd(next) THEN {[next EXCEPT !.at = @ + 1]}
  ELSE IF next.copy < protocol.copies THEN {[next EXCEPT !.at = 1, !.copy = @ + 1]}
  ELSE LET n == IF next.prompt THEN next.n ELSE next.n + 1
       IN IF Fixed THEN {Byte(n, 1, 1, protocol.length, next.conn)}
          ELSE {Byte(n, 1, 1, len, next.conn) : len \in LineLengths}
               \cup {[Byte(n, 1, 1, 2, next.conn) EXCEPT !.prompt = TRUE]}

Send ==
  /\ next.n <= MaxTelegrams /\ Len(unread) < MaxBuffer
  /\ unread' = Append(unread, [next EXCEPT !.cut = cut]) /\ cut' = FALSE
  /\ next' \in Following
  /\ UNCHANGED <<protocol, fifo, length, id, faults, frames, damaged, shifted, told>>

\* A byte is lost on the line.
LoseByte ==
  /\ next.n <= MaxTelegrams /\ faults < MaxFaults /\ faults' = faults + 1
  /\ cut' = TRUE /\ next' \in Following
  /\ shifted' = (shifted \/ IsEnd(next))
  /\ UNCHANGED <<protocol, fifo, length, id, unread, frames, damaged, told>>

ReadyRead ==
  /\ unread # <<>>
  /\ LET r == ReadAll([fifo |-> fifo, length |-> length, id |-> id, read |-> 0, going |-> TRUE, frames |-> <<>>,
                       damaged |-> damaged])
         ended == {Ends(r.frames[k]) : k \in DOMAIN r.frames}
     IN /\ fifo' = r.fifo /\ length' = r.length /\ id' = r.id /\ frames' = r.frames /\ damaged' = r.damaged
        /\ unread' = SubSeq(unread, r.read + 1, Len(unread))
        /\ told' = CHOOSE n \in ended \cup {told} : \A k \in ended \cup {told} : k <= n
  /\ UNCHANGED <<protocol, next, cut, faults, shifted>>

\* aboutToClose(), setHandle() and a new port: what has been taken stays, the ids start anew.
Reconnect ==
  /\ faults < MaxFaults /\ faults' = faults + 1
  /\ id' = 0 /\ unread' = <<>> /\ frames' = <<>>
  /\ \E n \in 1..protocol.lines, at \in 1..next.len :
       /\ protocol.polled => at = 1 /\ (next.n + n - 1) % protocol.lines = 0
       /\ next' = [next EXCEPT !.n = @ + n, !.at = at, !.conn = @ + 1]
  /\ cut' = TRUE /\ shifted' = FALSE
  /\ UNCHANGED <<protocol, fifo, length, damaged, told>>

Next == Send \/ LoseByte \/ ReadyRead \/ Reconnect

Spec == Init /\ [][Next]_vars

-----------------------------------------------------------------------------
OneConnection(frame) == \A i, j \in DOMAIN frame.bytes : frame.bytes[i].conn = frame.bytes[j].conn

TypeOK ==
  /\ length \in 0..(FifoLength - 1) /\ id \in 0..(protocol.lines - 1)
  /\ \A k \in DOMAIN frames : frames[k].bytes # <<>>

\* A frame is one whole telegram if nothing was lost since the frame before, however the bytes came in portions; if the
\* decoder confirms the alignment by a header, also after losses, but for telegrams of two connections that meet in the
\* buffer. The id is the line of the reading until an end of a telegram is lost.
FramesAreTelegrams ==
  /\ TypeOK
  /\ \A k \in DOMAIN frames : LET f == frames[k]  n == Telegram(f) IN
       /\ ~f.damaged \/ (protocol.header /\ OneConnection(f)) => n # 0
       /\ n # 0 /\ ~shifted => f.id = (n - 1) % protocol.lines

\* A measurement is told once, in order, although some meters send each telegram twice; and when all came over the line,
\* it is told with the readyRead() of its last byte. Lines of any length may wait for a next one.
EveryTelegramIsToldOnce ==
  ReadyRead =>
    /\ \A k \in DOMAIN frames' : LET n == Telegram(frames'[k]) IN
         n # 0 => n > told /\ \A j \in 1..(k - 1) : n > Ends(frames'[j])
    /\ Fixed /\ ~damaged' /\ ~cut /\ (\A i \in DOMAIN unread' : ~unread'[i].cut) => told' >= next.n - 1

\* A frame is a telegram, and each telegram one frame.
TelegramsArrive == [][FramesAreTelegrams' /\ EveryTelegramIsToldOnce]_vars
=============================================================================
