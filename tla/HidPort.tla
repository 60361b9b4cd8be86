-------------------------------- MODULE HidPort --------------------------------
(***************************************************************************)
(* A HID cable (device/transports/hidserial.cpp, hidholtek.cpp) and the    *)
(* thread that reads it (hidreader.cpp, hidreader.h).  The thread owns     *)
(* hidapi's handle; what it reads reaches the window's thread as posted    *)
(* events.  The window's thread opens, polls and closes, and stands still  *)
(* while it waits for a reader to end.                                     *)
(***************************************************************************)
EXTENDS Naturals, Sequences

CONSTANTS
  Objects,   \* the device objects, 1..n in the order they are created
  MaxPosted, \* bound: reports posted and not taken yet
  Hangs      \* whether hid_read_timeout() may fail to return

VARIABLES
  plugged,  \* the cable is there
  broken,   \* objects whose cable was pulled: their handle reads and writes no more
  current,  \* the port of the connection, 0 for none
  created,  \* objects created so far
  isOpen,   \* objects with m_isOpen
  waits,    \* the object whose reader the window's thread waits for, 0 for none
  why,      \* ... and the operation that does: "close", "error"
  reader,   \* what each reader does: "none", "loop", "read", "hangs", "close", "ended"
  stop,     \* objects with m_stop
  handle,   \* hidapi's handle of each object: "none", "open", "closed"
  left,     \* objects that did not wait for their thread to the end
  posted,   \* events of the window's thread, in their order
  said,     \* how often each object emitted finished()
  wrote     \* auxiliary: hid_write() was called with a handle closed before

vars == <<plugged, broken, current, created, isOpen, waits, why, reader, stop, handle, left, posted, said, wrote>>

window == <<current, created, isOpen, waits, why, left, said>>
world  == <<plugged, broken>>

Init ==
  /\ plugged = TRUE /\ broken = {} /\ current = 0 /\ created = 0 /\ isOpen = {} /\ waits = 0 /\ why = "close"
  /\ reader = [o \in Objects |-> "none"] /\ stop = {} /\ handle = [o \in Objects |-> "none"]
  /\ left = {} /\ posted = <<>> /\ said = [o \in Objects |-> 0] /\ wrote = FALSE

Event(o, what)   == [of |-> o, what |-> what]
Reports(o)       == SelectSeq(posted, LAMBDA e : e.what = "report")
ReaderDoes(o, s) == reader' = [reader EXCEPT ![o] = s]

-----------------------------------------------------------------------------
(* The thread of a reader: HidReader::run *)

\* while (!m_stop.load())
Loop(o) ==
  /\ reader[o] = "loop" /\ ReaderDoes(o, IF o \in stop THEN "close" ELSE "read")
  /\ UNCHANGED <<world, window, stop, handle, posted, wrote>>

\* hid_read_timeout() returns a report, nothing after its 100 ms, or an error when the cable has gone.
Read(o) ==
  /\ reader[o] \in {"read", "hangs"}
  /\ IF o \in broken
     THEN ReaderDoes(o, "close") /\ posted' = Append(posted, Event(o, "error"))
     ELSE /\ ReaderDoes(o, "loop")
          /\ \/ UNCHANGED posted
             \/ Len(Reports(o)) < MaxPosted /\ posted' = Append(posted, Event(o, "report"))
  /\ UNCHANGED <<world, window, stop, handle, wrote>>

\* It does not return for longer than stop() waits.
Hang(o) ==
  /\ Hangs /\ reader[o] = "read" /\ ReaderDoes(o, "hangs")
  /\ UNCHANGED <<world, window, stop, handle, posted, wrote>>

\* hid_close(), and finished(), which ends the thread directly.
EndRead(o) ==
  /\ reader[o] = "close" /\ ReaderDoes(o, "ended") /\ handle' = [handle EXCEPT ![o] = "closed"]
  /\ UNCHANGED <<world, window, stop, posted, wrote>>

-----------------------------------------------------------------------------
(* The window's thread *)

Free == waits = 0

\* The constructor opens and sets up the cable and starts the reader; Transport::create and open().
Open ==
  /\ Free /\ current = 0 /\ plugged /\ created + 1 \in Objects
  /\ created' = created + 1 /\ current' = created' /\ isOpen' = isOpen \cup {created'}
  /\ ReaderDoes(created', "loop") /\ handle' = [handle EXCEPT ![created'] = "open"]
  /\ UNCHANGED <<world, waits, why, left, said, stop, posted, wrote>>

\* HidReaderThread::stop() begins.
StopReader(o, for) == isOpen' = isOpen \ {o} /\ stop' = stop \cup {o} /\ waits' = o /\ why' = for

\* Transport::close by the connection, and close().
Close ==
  /\ Free /\ current # 0 /\ StopReader(current, "close") /\ current' = 0
  /\ UNCHANGED <<world, created, left, said, reader, handle, posted, wrote>>

\* stop() has ended.  After a read error finished() makes the connection close the port; the object is deleted
\* when the events posted before have been handled.
Waited ==
  /\ ~Free /\ waits' = 0
  /\ \/ reader[waits] = "ended" /\ UNCHANGED left
     \/ reader[waits] = "hangs" /\ left' = left \cup {waits}
  /\ posted' = Append(posted, Event(waits, "delete"))
  /\ IF why = "error"
     THEN said' = [said EXCEPT ![waits] = @ + 1] /\ current' = IF current = waits THEN 0 ELSE current
     ELSE UNCHANGED <<said, current>>
  /\ UNCHANGED <<world, created, isOpen, why, reader, stop, handle, wrote>>

Next1(what) == Free /\ posted # <<>> /\ Head(posted).what = what

\* onReport(): its bytes wait for the reader of frames.
OnReport ==
  /\ Next1("report") /\ posted' = Tail(posted)
  /\ UNCHANGED <<world, window, reader, stop, handle, wrote>>

\* A slip: an object that was closed meanwhile says that it is finished, too.
OnReadErrorOfAny ==
  /\ Next1("error") /\ posted' = Tail(posted)
  /\ LET o == Head(posted).of
     IN IF o \in isOpen THEN StopReader(o, "error") /\ UNCHANGED said
        ELSE said' = [said EXCEPT ![o] = @ + 1] /\ UNCHANGED <<isOpen, stop, waits, why>>
  /\ UNCHANGED <<world, current, created, left, reader, handle, wrote>>

\* onReadError(): a closed object has nothing to say any more.
OnReadError ==
  /\ Next1("error") /\ posted' = Tail(posted)
  /\ IF Head(posted).of \in isOpen THEN StopReader(Head(posted).of, "error") ELSE UNCHANGED <<isOpen, stop, waits, why>>
  /\ UNCHANGED <<world, current, created, left, said, reader, handle, wrote>>

\* The object is deleted, and what is posted to it with it.
Delete ==
  /\ Next1("delete") /\ posted' = SelectSeq(posted, LAMBDA e : e.of # Head(posted).of)
  /\ UNCHANGED <<world, window, reader, stop, handle, wrote>>

\* writeData() of an open device: a poll request, or a key, in reports of seven or 63 bytes; m_handle stands until
\* the device has handled the end of its reader.
WriteData ==
  /\ Free /\ current \in isOpen
  /\ wrote' = (wrote \/ handle[current] = "closed")
  /\ UNCHANGED <<world, window, reader, stop, handle, posted>>

-----------------------------------------------------------------------------
(* The cable *)

Pull ==
  /\ plugged /\ plugged' = FALSE /\ broken' = 1..created
  /\ UNCHANGED <<window, reader, stop, handle, posted, wrote>>

Plug ==
  /\ ~plugged /\ plugged' = TRUE
  /\ UNCHANGED <<broken, window, reader, stop, handle, posted, wrote>>

-----------------------------------------------------------------------------
Reading(o) == Loop(o) \/ Read(o) \/ Hang(o) \/ EndRead(o)
Handling   == Waited \/ OnReport \/ OnReadError \/ Delete
Next       == (\E o \in Objects : Reading(o)) \/ Handling \/ Open \/ Close \/ WriteData \/ Pull \/ Plug

\* A cable that is closed or lost has its handle closed by the thread that reads it, and the window's thread goes
\* on (HidReaderThread::stop).
HandlesAreClosed ==
  /\ \A o \in Objects : handle[o] = "open" /\ o # current ~> handle[o] = "closed"
  /\ waits # 0 ~> waits = 0

\* What the window's thread writes to has not been closed by the reader (hidreader.h: "It owns the handle from the
\* moment run() starts until the loop ends ... nothing is shared").
HandleIsOpenWhenWritten == ~wrote
=============================================================================
