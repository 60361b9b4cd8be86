---------------------------- MODULE ServersProofs ----------------------------
(***************************************************************************)
(* What the servers keep, whatever clients send and whenever they come and *)
(* go, also while commands run event loops of their own; and that the      *)
(* network finds the servers of several processes.                         *)
(***************************************************************************)
EXTENDS MCServers, FiniteSetTheorems, SequenceTheorems, TLAPS

\* The modules of the servers count as this one does.
LEMMA CountsAgree ==
  ASSUME NEW S
  PROVE  Scpi!Cardinality(S) = Cardinality(S) /\ Vxi!Cardinality(S) = Cardinality(S)
BY DEF Scpi!Cardinality, Vxi!Cardinality, Cardinality

LEMMA Assumptions ==
  /\ Sockets \subseteq Nat \ {0} /\ Conns \subseteq Nat \ {0} /\ Meters \subseteq Nat \ {0}
  /\ MaxErrors \in Nat \ {0} /\ MaxLinks \in Nat
BY ServersAssumption

\* What is left of a stack without its top.
LEMMA FrontElements ==
  ASSUME NEW S, NEW q \in Seq(S), q # <<>>
  PROVE  /\ SubSeq(q, 1, Len(q) - 1) \in Seq(S) /\ DOMAIN q = 1..Len(q) /\ Len(q) \in Nat \ {0}
         /\ DOMAIN SubSeq(q, 1, Len(q) - 1) = 1..(Len(q) - 1) /\ Len(SubSeq(q, 1, Len(q) - 1)) = Len(q) - 1
         /\ \A k \in 1..(Len(q) - 1) : SubSeq(q, 1, Len(q) - 1)[k] = q[k]
<1>1. /\ DOMAIN q = 1..Len(q) /\ Len(q) \in Nat \ {0}
      /\ \A k \in 1..(Len(q) - 1) : SubSeq(q, 1, Len(q) - 1)[k] = q[k]
  OBVIOUS
<1>2. SubSeq(q, 1, Len(q) - 1) \in Seq(S) /\ DOMAIN SubSeq(q, 1, Len(q) - 1) = 1..(Len(q) - 1)
  OBVIOUS
<1>3. Len(SubSeq(q, 1, Len(q) - 1)) = Len(q) - 1
  <2>1. Len(q) - 1 \in Int /\ \A i \in 1..(Len(q) - 1) : q[i] \in S
    BY <1>1
  <2>2. Len(SubSeq(q, 1, Len(q) - 1)) = IF 1 <= Len(q) - 1 THEN (Len(q) - 1) - 1 + 1 ELSE 0
    BY <2>1, SubSeqProperties
  <2> QED
    BY <1>1, <2>2
<1> QED
  BY <1>1, <1>2, <1>3

-----------------------------------------------------------------------------
(* ScpiServer: the error queue. *)

ErrorsTyped == errors \in Seq(Nat) /\ pushed \in Nat /\ expected \in Nat

\* One error follows another.
Follows(e, f) == 0 \in {e, f} \/ f = e + 1

ErrorsTold ==
  /\ errors # <<>> => Head(errors) = 0 \/ expected \in {0, Head(errors)}
  /\ \A i \in 1..(Len(errors) - 1) : Follows(errors[i], errors[i + 1])
  /\ errors # <<>> => errors[Len(errors)] \in {0, pushed}
  /\ errors = <<>> => expected \in {0, pushed + 1}

ErrorsInv == ErrorsTyped /\ ErrorsTold

LEMMA StepsOfErrors ==
  ASSUME Scpi!Next
  PROVE  \/ Scpi!PushError /\ UNCHANGED expected
         \/ Scpi!NextError
         \/ Scpi!ClearStatus
         \/ UNCHANGED <<errors, pushed, expected>>
BY DEF Scpi!Next, Scpi!NewConnection, Scpi!Disconnected, Scpi!Delete, Scpi!ReadyRead, Scpi!Overrun, Scpi!Send,
       Scpi!UserOpens, Scpi!UserCloses, Scpi!Instrument, Scpi!Command, Scpi!CloseDevice, Scpi!OpenDevice,
       Scpi!DeviceOpened, Scpi!LoopEnds, Scpi!Stop, Scpi!Takes

LEMMA PushErrorTells ==
  ASSUME ErrorsInv, Scpi!PushError, UNCHANGED expected
  PROVE  ErrorsInv'
<1>0. Len(errors) \in Nat
  BY DEF ErrorsInv, ErrorsTyped
<1>1. /\ errors \in Seq(Nat) /\ pushed \in Nat /\ expected \in Nat /\ pushed' = pushed + 1
      /\ Len(errors) \in Nat /\ DOMAIN errors = 1..Len(errors) /\ \A i \in DOMAIN errors : errors[i] \in Nat
      /\ MaxErrors \in Nat \ {0}
  BY Assumptions DEF ErrorsInv, ErrorsTyped, Scpi!PushError
<1>2. /\ errors # <<>> => Head(errors) = 0 \/ expected \in {0, Head(errors)}
      /\ \A i \in 1..(Len(errors) - 1) : Follows(errors[i], errors[i + 1])
      /\ errors # <<>> => errors[Len(errors)] \in {0, pushed}
      /\ errors = <<>> => expected \in {0, pushed + 1}
  BY DEF ErrorsInv, ErrorsTold
<1>3. CASE Len(errors) >= MaxErrors /\ errors' = [errors EXCEPT ![Len(errors)] = 0]
  <2>1. errors # <<>> /\ Len(errors) \in 1..Len(errors) /\ 1 \in 1..Len(errors)
    BY <1>1, <1>3
  <2>2. errors' \in Seq(Nat) /\ Len(errors') = Len(errors) /\ errors' # <<>>
    BY <1>1, <1>3, <2>1
  <2>3. \A i \in 1..Len(errors) : errors'[i] = IF i = Len(errors) THEN 0 ELSE errors[i]
    BY <1>1, <1>3
  <2>4. Head(errors) = errors[1] /\ Head(errors') = errors'[1]
    BY <1>1, <2>1, <2>2
  <2>5. Head(errors') = 0 \/ Head(errors') = Head(errors)
    BY <1>1, <2>1, <2>3, <2>4
  <2>6. ASSUME NEW i \in 1..(Len(errors) - 1) PROVE Follows(errors'[i], errors'[i + 1])
    <3>1. i \in 1..Len(errors) /\ i # Len(errors) /\ i + 1 \in 1..Len(errors)
      BY <1>0
    <3>2. errors'[i] = errors[i] /\ errors'[i + 1] \in {0, errors[i + 1]}
      BY <2>3, <3>1
    <3>3. Follows(errors[i], errors[i + 1])
      BY <1>2, <2>6
    <3> QED
      BY <3>2, <3>3 DEF Follows
  <2>7. errors'[Len(errors')] = 0
    BY <2>1, <2>2, <2>3
  <2>8. ErrorsTold'
    BY <1>2, <2>1, <2>2, <2>5, <2>6, <2>7 DEF ErrorsTold
  <2> QED
    BY <1>1, <2>2, <2>8 DEF ErrorsInv, ErrorsTyped
<1>4. CASE errors' = Append(errors, pushed + 1)
  <2>1. errors' \in Seq(Nat) /\ Len(errors') = Len(errors) + 1 /\ errors' # <<>>
    BY <1>1, <1>4
  <2>2. /\ \A i \in 1..Len(errors) : errors'[i] = errors[i]
        /\ errors'[Len(errors) + 1] = pushed + 1
    BY <1>1, <1>4
  <2>3. Head(errors') = errors'[1]
    BY <2>1
  <2>4. Head(errors') = 0 \/ expected \in {0, Head(errors')}
    <3>1. CASE errors = <<>>
      BY <1>1, <1>2, <2>2, <2>3, <3>1
    <3>2. CASE errors # <<>>
      <4>1. Head(errors) = errors[1] /\ 1 \in 1..Len(errors)
        BY <1>1, <3>2
      <4> QED
        BY <1>2, <2>2, <2>3, <3>2, <4>1
    <3> QED
      BY <3>1, <3>2
  <2>5. ASSUME NEW i \in 1..Len(errors) PROVE Follows(errors'[i], errors'[i + 1])
    <3>1. CASE i = Len(errors)
      <4>1. errors # <<>> /\ errors'[i] \in {0, pushed} /\ errors'[i + 1] = pushed + 1
        BY <1>1, <1>2, <2>2, <3>1
      <4> QED
        BY <1>1, <4>1 DEF Follows
    <3>2. CASE i \in 1..(Len(errors) - 1)
      <4>1. errors'[i] = errors[i] /\ errors'[i + 1] = errors[i + 1]
        BY <1>1, <2>2, <3>2
      <4> QED
        BY <1>2, <3>2, <4>1
    <3>3. i = Len(errors) \/ i \in 1..(Len(errors) - 1)
      BY <1>0
    <3> QED
      BY <3>1, <3>2, <3>3
  <2>6. ErrorsTold'
    BY <1>1, <2>1, <2>2, <2>4, <2>5 DEF ErrorsTold
  <2> QED
    BY <1>1, <2>1, <2>6 DEF ErrorsInv, ErrorsTyped
<1> QED
  BY <1>3, <1>4 DEF Scpi!PushError

LEMMA NextErrorTells ==
  ASSUME ErrorsInv, Scpi!NextError
  PROVE  ErrorsInv'
<1>1. /\ errors \in Seq(Nat) /\ pushed \in Nat /\ expected \in Nat /\ pushed' = pushed
      /\ Len(errors) \in Nat /\ DOMAIN errors = 1..Len(errors) /\ \A i \in DOMAIN errors : errors[i] \in Nat
  BY DEF ErrorsInv, ErrorsTyped, Scpi!NextError
<1>2. /\ errors # <<>> => Head(errors) = 0 \/ expected \in {0, Head(errors)}
      /\ \A i \in 1..(Len(errors) - 1) : Follows(errors[i], errors[i + 1])
      /\ errors # <<>> => errors[Len(errors)] \in {0, pushed}
      /\ errors = <<>> => expected \in {0, pushed + 1}
  BY DEF ErrorsInv, ErrorsTold
<1>3. CASE errors = <<>>
  <2>1. errors' = errors /\ expected' = expected
    BY <1>3 DEF Scpi!NextError
  <2>2. ErrorsTold'
    BY <1>1, <1>2, <1>3, <2>1 DEF ErrorsTold
  <2> QED
    BY <1>1, <2>1, <2>2 DEF ErrorsInv, ErrorsTyped
<1>4. CASE errors # <<>>
  <2>1. errors' = Tail(errors) /\ expected' = IF Head(errors) = 0 THEN 0 ELSE Head(errors) + 1
    BY <1>4 DEF Scpi!NextError
  <2>2. /\ errors' \in Seq(Nat) /\ Len(errors') = Len(errors) - 1 /\ Len(errors) \in Nat \ {0}
        /\ \A i \in 1..(Len(errors) - 1) : errors'[i] = errors[i + 1]
        /\ Head(errors) = errors[1] /\ errors[1] \in Nat
    BY <1>1, <1>4, <2>1
  <2>3. expected' \in Nat
    BY <2>1, <2>2
  <2>4. CASE errors' = <<>>
    <3>1. Len(errors) = 1
      BY <2>2, <2>4
    <3>2. expected' \in {0, pushed + 1}
      BY <1>1, <1>2, <1>4, <2>1, <2>2, <3>1
    <3>3. ErrorsTold'
      BY <1>1, <2>2, <2>4, <3>1, <3>2 DEF ErrorsTold
    <3> QED
      BY <1>1, <2>2, <2>3, <3>3 DEF ErrorsInv, ErrorsTyped
  <2>5. CASE errors' # <<>>
    <3>1. Len(errors') \in Nat \ {0} /\ Head(errors') = errors[2] /\ Len(errors) > 1
      BY <2>2, <2>5
    <3>2. Follows(errors[1], errors[2])
      BY <1>1, <1>2, <2>2, <3>1
    <3>3. Head(errors') = 0 \/ expected' \in {0, Head(errors')}
      BY <2>1, <2>2, <3>1, <3>2 DEF Follows
    <3>4. \A i \in 1..(Len(errors') - 1) : Follows(errors'[i], errors'[i + 1])
      BY <1>1, <1>2, <2>2
    <3>5. errors'[Len(errors')] \in {0, pushed'}
      BY <1>1, <1>2, <1>4, <2>2, <3>1
    <3>6. ErrorsTold'
      BY <2>5, <3>3, <3>4, <3>5 DEF ErrorsTold
    <3> QED
      BY <1>1, <2>2, <2>3, <3>6 DEF ErrorsInv, ErrorsTyped
  <2> QED
    BY <2>4, <2>5
<1> QED
  BY <1>3, <1>4

LEMMA ErrorsInvNext ==
  ASSUME ErrorsInv, [Scpi!Next]_(Scpi!vars)
  PROVE  ErrorsInv'
<1>1. CASE UNCHANGED <<errors, pushed, expected>>
  BY <1>1 DEF ErrorsInv, ErrorsTyped, ErrorsTold
<1>2. CASE Scpi!ClearStatus
  <2>1. errors' = <<>> /\ expected' = pushed' + 1 /\ pushed' = pushed
    BY <1>2 DEF Scpi!ClearStatus
  <2>2. pushed' \in Nat /\ expected' \in Nat /\ errors' \in Seq(Nat) /\ Len(errors') = 0
    BY <2>1 DEF ErrorsInv, ErrorsTyped
  <2>3. ErrorsTold'
    BY <2>1, <2>2 DEF ErrorsTold
  <2> QED
    BY <2>2, <2>3 DEF ErrorsInv, ErrorsTyped
<1> QED
  BY <1>1, <1>2, StepsOfErrors, PushErrorTells, NextErrorTells DEF Scpi!vars

-----------------------------------------------------------------------------
(* ScpiServer: the meter chosen. *)

\* A meter is open once; the index is the place of the meter chosen, or there is none.
ChoiceInv ==
  /\ devices \in Seq(Meters)
  /\ \A i, j \in DOMAIN devices : devices[i] = devices[j] => i = j
  /\ selected \in Nat \cup {-1}
  /\ selected >= 0 /\ devices # <<>> => selected + 1 \in DOMAIN devices /\ devices[selected + 1] = chosen

\* What clients have sent.
CommandsTyped == unread \in [Sockets -> Seq(Scpi!Commands)]

LEMMA IndexInPlace ==
  ASSUME NEW list \in Seq(Meters), NEW m, \E i \in DOMAIN list : list[i] = m
  PROVE  /\ Scpi!IndexIn(list, m) \in Nat
         /\ Scpi!IndexIn(list, m) + 1 \in DOMAIN list /\ list[Scpi!IndexIn(list, m) + 1] = m
<1> DEFINE k == CHOOSE i \in DOMAIN list : list[i] = m
<1>1. k \in DOMAIN list /\ list[k] = m
  OBVIOUS
<1>2. DOMAIN list = 1..Len(list) /\ Len(list) \in Nat
  OBVIOUS
<1>3. Scpi!IndexIn(list, m) = k - 1
  BY DEF Scpi!IndexIn
<1> HIDE DEF k
<1>4. k - 1 \in Nat /\ (k - 1) + 1 = k
  BY <1>1, <1>2
<1> QED
  BY <1>1, <1>3, <1>4

\* Any of the meters is one, and none is 0, which stands for no meter.
LEMMA SelectedIsChosen == ChoiceInv => Scpi!Selected \in {chosen, Scpi!None}
<1> SUFFICES ASSUME ChoiceInv PROVE Scpi!Selected \in {chosen, Scpi!None}
  OBVIOUS
<1>1. CASE selected >= 0 /\ selected < Len(devices)
  <2>1. devices # <<>>
    BY <1>1 DEF ChoiceInv
  <2> QED
    BY <1>1, <2>1 DEF ChoiceInv, Scpi!Selected
<1>2. CASE ~(selected >= 0 /\ selected < Len(devices))
  BY <1>2 DEF Scpi!Selected
<1> QED
  BY <1>1, <1>2

LEMMA AddDeviceStands ==
  ASSUME ChoiceInv, NEW m \in Meters, Scpi!AddDevice(m)
  PROVE  ChoiceInv'
<1>1. CASE UNCHANGED <<devices, selected, chosen>>
  BY <1>1 DEF ChoiceInv
<1>2. CASE \A i \in DOMAIN devices : devices[i] # m
  <2>1. devices' = Append(devices, m)
    BY <1>2 DEF Scpi!AddDevice
  <2>2. /\ devices \in Seq(Meters) /\ Len(devices) \in Nat /\ DOMAIN devices = 1..Len(devices)
        /\ devices' \in Seq(Meters) /\ DOMAIN devices' = 1..(Len(devices) + 1) /\ devices' # <<>>
        /\ \A i \in 1..Len(devices) : devices'[i] = devices[i]
        /\ devices'[Len(devices) + 1] = m
    BY <2>1 DEF ChoiceInv
  <2>3. \A i, j \in DOMAIN devices' : devices'[i] = devices'[j] => i = j
    <3>1. \A i \in DOMAIN devices' : i \in DOMAIN devices \/ i = Len(devices) + 1
      BY <2>2
    <3> QED
      BY <1>2, <2>2, <3>1 DEF ChoiceInv
  <2>4. CASE devices = <<>>
    <3>1. selected' = 0 /\ chosen' = m
      BY <1>2, <2>4 DEF Scpi!AddDevice
    <3>2. Len(devices) = 0
      BY <2>4
    <3> QED
      BY <2>2, <2>3, <3>1, <3>2 DEF ChoiceInv
  <2>5. CASE devices # <<>>
    <3>1. selected' = selected /\ chosen' = chosen
      BY <1>2, <2>5 DEF Scpi!AddDevice
    <3>2. selected >= 0 => selected + 1 \in DOMAIN devices /\ devices[selected + 1] = chosen
      BY <2>5 DEF ChoiceInv
    <3>3. selected >= 0 => selected + 1 \in DOMAIN devices' /\ devices'[selected + 1] = chosen
      BY <2>2, <3>2
    <3> QED
      BY <2>2, <2>3, <3>1, <3>3 DEF ChoiceInv
  <2> QED
    BY <2>4, <2>5
<1> QED
  BY <1>1, <1>2 DEF Scpi!AddDevice

LEMMA RemoveDeviceStands ==
  ASSUME ChoiceInv, NEW m, Scpi!IsOpen(m), Scpi!RemoveDevice(m)
  PROVE  ChoiceInv'
<1> DEFINE place == Scpi!IndexIn(devices, m)
           n     == Len(devices)
<1>1. place \in Nat /\ place + 1 \in DOMAIN devices /\ devices[place + 1] = m
  BY IndexInPlace DEF ChoiceInv, Scpi!IsOpen
<1>2. devices' = [i \in 1..(n - 1) |-> devices[IF i <= place THEN i ELSE i + 1]] /\ chosen' = chosen
  BY DEF Scpi!RemoveDevice, Scpi!Others
<1>3. n \in Nat /\ DOMAIN devices = 1..n /\ \A i \in 1..n : devices[i] \in Meters
  BY DEF ChoiceInv
<1>4. place + 1 \in 1..n /\ n - 1 \in Nat /\ devices # <<>>
  BY <1>1, <1>3
<1> HIDE DEF place, n
<1>5. \A i \in 1..(n - 1) : (IF i <= place THEN i ELSE i + 1) \in 1..n
  BY <1>1, <1>3
<1>6. devices' \in [1..(n - 1) -> Meters]
  BY <1>2, <1>3, <1>5
<1>7. devices' \in Seq(Meters) /\ DOMAIN devices' = 1..(n - 1) /\ Len(devices') = n - 1
  BY <1>4, <1>6
<1>8. \A i, j \in DOMAIN devices' : devices'[i] = devices'[j] => i = j
  <2>1. SUFFICES ASSUME NEW i \in 1..(n - 1), NEW j \in 1..(n - 1), devices'[i] = devices'[j] PROVE i = j
    BY <1>7
  <2>2. devices[IF i <= place THEN i ELSE i + 1] = devices[IF j <= place THEN j ELSE j + 1]
    BY <1>2, <2>1
  <2>3. (IF i <= place THEN i ELSE i + 1) = (IF j <= place THEN j ELSE j + 1)
    BY <1>3, <1>5, <2>2 DEF ChoiceInv
  <2> QED
    BY <1>1, <1>3, <2>3
<1>9. CASE selected < 0 \/ Scpi!Selected = m
  <2>1. selected' = -1
    BY <1>9 DEF Scpi!RemoveDevice
  <2> QED
    BY <1>7, <1>8, <2>1 DEF ChoiceInv
<1>10. CASE ~(selected < 0 \/ Scpi!Selected = m)
  <2>1. selected \in Nat /\ selected + 1 \in 1..n /\ devices[selected + 1] = chosen
    BY <1>3, <1>4, <1>10 DEF ChoiceInv
  <2>2. Scpi!Selected = chosen
    <3>1. selected >= 0 /\ selected < n
      BY <1>3, <2>1
    <3> QED
      BY <2>1, <3>1 DEF Scpi!Selected, n
  <2>3. chosen # m /\ chosen # 0
    BY <1>3, <1>10, <2>1, <2>2, Assumptions
  <2>4. \E i \in DOMAIN devices' : devices'[i] = chosen
    <3>1. selected + 1 # place + 1
      BY <1>1, <2>1, <2>3
    <3>2. CASE selected + 1 <= place
      <4>1. selected + 1 \in 1..(n - 1)
        BY <1>1, <1>3, <1>4, <2>1, <3>2
      <4>2. devices'[selected + 1] = devices[selected + 1]
        BY <1>2, <3>2, <4>1
      <4> QED
        BY <1>7, <2>1, <4>1, <4>2
    <3>3. CASE selected > place
      <4>1. selected \in 1..(n - 1) /\ ~(selected <= place)
        BY <1>1, <1>3, <2>1, <3>3
      <4>2. devices'[selected] = devices[selected + 1]
        BY <1>2, <4>1
      <4> QED
        BY <1>7, <2>1, <4>1, <4>2
    <3> QED
      BY <1>1, <2>1, <3>1, <3>2, <3>3
  <2>5. selected' = Scpi!IndexIn(devices', chosen)
    BY <1>10, <2>2, <2>3 DEF Scpi!RemoveDevice, Scpi!None
  <2>6. selected' \in Nat /\ selected' + 1 \in DOMAIN devices' /\ devices'[selected' + 1] = chosen'
    BY <1>2, <1>7, <2>4, <2>5, IndexInPlace
  <2> QED
    BY <1>7, <1>8, <2>6 DEF ChoiceInv
<1> QED
  BY <1>9, <1>10

-----------------------------------------------------------------------------
(* ScpiServer: the handlers on the stack. *)

Calls == [s : Sockets, at : {"loop", "command"}, m : Meters \cup {0}]

CallsTyped ==
  /\ lines \in Seq(Calls) /\ clients \subseteq Sockets
  /\ socket \in [Sockets -> {"free", "open", "released", "doomed"}]

\* All but the innermost run a command, and the socket of one that does waits for it; each is of a socket of its own.
StackInv ==
  /\ \A i \in DOMAIN lines : i < Len(lines) => lines[i].at = "command"
  /\ \A i \in DOMAIN lines : /\ socket[lines[i].s] # "free"
                             /\ lines[i].at = "command" => /\ lines[i].m \in Meters
                                                           /\ socket[lines[i].s] \in {"open", "released"}
  /\ \A i, j \in DOMAIN lines : lines[i].s = lines[j].s => i = j
  /\ \A s \in clients : socket[s] = "open"

RunsInv == CallsTyped /\ CommandsTyped /\ StackInv

LEMMA LinesTyped ==
  ASSUME CallsTyped
  PROVE  /\ Len(lines) \in Nat /\ DOMAIN lines = 1..Len(lines)
         /\ \A i \in DOMAIN lines : /\ lines[i].s \in Sockets /\ lines[i].at \in {"loop", "command"}
                                    /\ lines[i] \in Calls
         /\ lines # <<>> => Len(lines) \in DOMAIN lines
<1>1. lines \in Seq(Calls)
  BY DEF CallsTyped
<1>2. /\ Len(lines) \in Nat /\ DOMAIN lines = 1..Len(lines) /\ \A i \in DOMAIN lines : lines[i] \in Calls
      /\ lines # <<>> => Len(lines) # 0
  BY <1>1
<1>3. lines # <<>> => Len(lines) \in DOMAIN lines
  BY <1>2
<1>4. \A i \in DOMAIN lines : lines[i].s \in Sockets /\ lines[i].at \in {"loop", "command"}
  BY <1>2 DEF Calls
<1> QED
  BY <1>2, <1>3, <1>4

\* While the event loop runs, every handler on the stack runs a command.
LEMMA AllRun ==
  ASSUME RunsInv, Scpi!EventLoop, NEW i \in DOMAIN lines
  PROVE  lines[i].at = "command" /\ Scpi!Running
<1>1. CASE i < Len(lines)
  BY <1>1 DEF RunsInv, StackInv, Scpi!Running
<1>2. CASE i = Len(lines)
  <2>1. lines # <<>> /\ lines[Len(lines)].at # "loop"
    BY <1>2, LinesTyped DEF RunsInv, Scpi!EventLoop, Scpi!InLoop, Scpi!Top
  <2> QED
    BY <1>2, <2>1, LinesTyped DEF RunsInv, Scpi!Running
<1> QED
  BY <1>1, <1>2, LinesTyped DEF RunsInv

LEMMA StepsOfRuns ==
  ASSUME Scpi!Next
  PROVE  \/ \E s \in Sockets : \/ Scpi!NewConnection(s) \/ Scpi!Disconnected(s) \/ Scpi!Delete(s) \/ Scpi!ReadyRead(s)
                               \/ \E command \in Scpi!Commands : Scpi!Send(s, command)
         \/ Scpi!OpenDevice \/ Scpi!DeviceOpened \/ Scpi!LoopEnds \/ Scpi!Stop
         \/ (\E type \in {"INST", "MARK", "SYST:ERR?", "*CLS", "DEV:CLOS"} : Scpi!Takes(type)) /\ UNCHANGED lines
         \/ UNCHANGED <<lines, socket, clients, unread>>
BY DEF Scpi!Next, Scpi!Overrun, Scpi!UserOpens, Scpi!UserCloses, Scpi!Instrument, Scpi!Command, Scpi!NextError,
       Scpi!ClearStatus, Scpi!CloseDevice

LEMMA TakesTyped ==
  ASSUME RunsInv, NEW type, Scpi!Takes(type)
  PROVE  /\ CommandsTyped' /\ UNCHANGED <<clients, socket>>
         /\ lines # <<>> /\ Scpi!Top.s \in clients /\ Scpi!Top.at = "loop"
         /\ Head(unread[Scpi!Top.s]) \in Scpi!Commands /\ Head(unread[Scpi!Top.s]).type = type
<1>1. /\ lines # <<>> /\ Scpi!Top.s \in clients /\ Scpi!Top.at = "loop" /\ unread[Scpi!Top.s] # <<>>
      /\ Head(unread[Scpi!Top.s]).type = type /\ UNCHANGED <<clients, socket>>
      /\ unread' = [unread EXCEPT ![Scpi!Top.s] = Tail(@)]
  BY DEF Scpi!Takes, Scpi!InLoop, Scpi!Ended
<1> DEFINE s == Scpi!Top.s
<1>2. s \in Sockets
  BY <1>1 DEF RunsInv, CallsTyped
<1> HIDE DEF s
<1>3. unread \in [Sockets -> Seq(Scpi!Commands)] /\ unread[s] \in Seq(Scpi!Commands)
  BY <1>2 DEF RunsInv, CommandsTyped
<1>4. Head(unread[s]) \in Scpi!Commands /\ Tail(unread[s]) \in Seq(Scpi!Commands)
  BY <1>1, <1>3 DEF s
<1>5. unread' \in [Sockets -> Seq(Scpi!Commands)]
  BY <1>1, <1>3, <1>4 DEF s
<1> QED
  BY <1>1, <1>4, <1>5 DEF s, CommandsTyped

\* A socket that goes while a command runs waits for it.
LEMMA ReleasedWaits ==
  ASSUME RunsInv, Scpi!EventLoop, UNCHANGED lines, clients' \subseteq clients,
         socket' \in [Sockets -> {"free", "open", "released", "doomed"}],
         \A s \in Sockets : socket'[s] = socket[s] \/ (socket'[s] = Scpi!Release /\ s \notin clients')
  PROVE  CallsTyped' /\ StackInv'
<1>1. CallsTyped'
  BY DEF RunsInv, CallsTyped
<1>2. ASSUME NEW i \in DOMAIN lines PROVE lines[i].s \in Sockets /\ socket'[lines[i].s] \in {socket[lines[i].s], "released"}
  BY <1>2, AllRun, LinesTyped DEF RunsInv, Scpi!Release
<1>3. \A s \in clients' : socket'[s] = "open"
  BY DEF RunsInv, StackInv, CallsTyped
<1> QED
  BY <1>1, <1>2, <1>3, AllRun DEF RunsInv, StackInv

LEMMA RunsInvNext ==
  ASSUME RunsInv, [Scpi!Next]_(Scpi!vars)
  PROVE  RunsInv'
<1> USE DEF RunsInv
<1>1. CASE UNCHANGED <<lines, socket, clients, unread>>
  BY <1>1 DEF CallsTyped, CommandsTyped, StackInv
<1>2. ASSUME NEW s \in Sockets, Scpi!NewConnection(s) PROVE RunsInv'
  <2>1. /\ UNCHANGED lines /\ socket' = [socket EXCEPT ![s] = "open"] /\ clients' = clients \cup {s}
        /\ unread' = [unread EXCEPT ![s] = <<>>] /\ socket[s] = "free"
    BY <1>2 DEF Scpi!NewConnection
  <2>2. CallsTyped' /\ CommandsTyped'
    BY <2>1 DEF CallsTyped, CommandsTyped
  <2>3. \A i \in DOMAIN lines : lines[i].s # s
    BY <2>1 DEF StackInv
  <2>4. \A r \in Sockets \ {s} : socket'[r] = socket[r]
    BY <2>1 DEF CallsTyped
  <2>5. \A i \in DOMAIN lines : socket'[lines[i].s] = socket[lines[i].s]
    BY <2>3, <2>4, LinesTyped
  <2>6. \A r \in clients' : socket'[r] = "open"
    BY <2>1, <2>4 DEF CallsTyped, StackInv
  <2> QED
    BY <2>1, <2>2, <2>5, <2>6 DEF StackInv
<1>3. ASSUME NEW s \in Sockets, Scpi!Disconnected(s) PROVE RunsInv'
  <2>1. /\ Scpi!EventLoop /\ UNCHANGED <<lines, unread>> /\ clients' = clients \ {s}
        /\ socket' = [socket EXCEPT ![s] = Scpi!Release]
    BY <1>3 DEF Scpi!Disconnected
  <2>2. Scpi!Release \in {"released", "doomed"}
    BY DEF Scpi!Release
  <2>3. socket' \in [Sockets -> {"free", "open", "released", "doomed"}]
    BY <2>1, <2>2 DEF CallsTyped
  <2>4. \A r \in Sockets : socket'[r] = socket[r] \/ (socket'[r] = Scpi!Release /\ r \notin clients')
    BY <2>1 DEF CallsTyped
  <2> QED
    BY <2>1, <2>3, <2>4, ReleasedWaits DEF CommandsTyped
<1>4. CASE Scpi!Stop
  <2>1. /\ Scpi!EventLoop /\ UNCHANGED <<lines, unread>> /\ clients' = {}
        /\ socket' = [s \in Sockets |-> IF s \in clients THEN Scpi!Release ELSE socket[s]]
    BY <1>4 DEF Scpi!Stop
  <2>2. Scpi!Release \in {"released", "doomed"}
    BY DEF Scpi!Release
  <2>3. socket' \in [Sockets -> {"free", "open", "released", "doomed"}]
    BY <2>1, <2>2 DEF CallsTyped
  <2>4. \A r \in Sockets : socket'[r] = socket[r] \/ (socket'[r] = Scpi!Release /\ r \notin clients')
    BY <2>1
  <2> QED
    BY <2>1, <2>3, <2>4, ReleasedWaits DEF CommandsTyped
<1>5. ASSUME NEW s \in Sockets, Scpi!Delete(s) PROVE RunsInv'
  <2>1. /\ Scpi!EventLoop /\ UNCHANGED <<lines, unread, clients>> /\ socket[s] = "doomed"
        /\ socket' = [socket EXCEPT ![s] = "free"]
    BY <1>5 DEF Scpi!Delete
  <2>2. CallsTyped' /\ CommandsTyped'
    BY <2>1 DEF CallsTyped, CommandsTyped
  <2>3. \A i \in DOMAIN lines : lines[i].s # s /\ lines[i].s \in Sockets
    BY <2>1, AllRun, LinesTyped DEF StackInv
  <2>4. \A r \in Sockets \ {s} : socket'[r] = socket[r]
    BY <2>1 DEF CallsTyped
  <2>5. \A r \in clients : r # s /\ r \in Sockets
    BY <2>1 DEF CallsTyped, StackInv
  <2> QED
    BY <2>1, <2>2, <2>3, <2>4, <2>5 DEF StackInv
<1>6. ASSUME NEW s \in Sockets, Scpi!ReadyRead(s) PROVE RunsInv'
  <2> DEFINE call == [s |-> s, at |-> "loop", m |-> 0]
  <2>1. /\ Scpi!EventLoop /\ UNCHANGED <<unread, clients, socket>> /\ socket[s] = "open" /\ lines' = Append(lines, call)
        /\ \A i \in DOMAIN lines : lines[i].s # s
    BY <1>6 DEF Scpi!ReadyRead, Scpi!Callers, Scpi!None
  <2>2. call \in Calls
    BY DEF Calls
  <2>3. call.s = s /\ call.at = "loop"
    OBVIOUS
  <2> HIDE DEF call
  <2>4. /\ lines' \in Seq(Calls) /\ Len(lines) \in Nat /\ DOMAIN lines = 1..Len(lines)
        /\ DOMAIN lines' = 1..(Len(lines) + 1) /\ Len(lines') = Len(lines) + 1
        /\ \A i \in DOMAIN lines : lines'[i] = lines[i]
        /\ lines'[Len(lines) + 1] = call
    BY <2>1, <2>2 DEF CallsTyped
  <2>5. CallsTyped' /\ CommandsTyped'
    BY <2>1, <2>4 DEF CallsTyped, CommandsTyped
  <2>6. \A i \in DOMAIN lines' : i \in DOMAIN lines \/ i = Len(lines) + 1
    BY <2>4
  <2>7. \A i \in DOMAIN lines' : i < Len(lines') => lines'[i].at = "command"
    BY <2>1, <2>4, AllRun
  <2>8. \A i \in DOMAIN lines' : /\ socket'[lines'[i].s] # "free"
                                 /\ lines'[i].at = "command" => /\ lines'[i].m \in Meters
                                                                /\ socket'[lines'[i].s] \in {"open", "released"}
    BY <2>1, <2>3, <2>4, <2>6 DEF StackInv
  <2>9. \A i, j \in DOMAIN lines' : lines'[i].s = lines'[j].s => i = j
    BY <2>1, <2>3, <2>4, <2>6 DEF StackInv
  <2> QED
    BY <2>1, <2>5, <2>7, <2>8, <2>9 DEF StackInv
<1>7. CASE Scpi!LoopEnds
  <2>1. UNCHANGED <<unread, clients, socket>> /\ lines # <<>> /\ lines' = SubSeq(lines, 1, Len(lines) - 1)
    BY <1>7 DEF Scpi!LoopEnds, Scpi!InLoop
  <2>2. /\ lines' \in Seq(Calls) /\ Len(lines) \in Nat \ {0} /\ DOMAIN lines = 1..Len(lines)
        /\ DOMAIN lines' = 1..(Len(lines) - 1) /\ Len(lines') = Len(lines) - 1
        /\ \A i \in DOMAIN lines' : lines'[i] = lines[i]
    <3>1. lines \in Seq(Calls)
      BY DEF CallsTyped
    <3> QED
      BY <2>1, <3>1, FrontElements
  <2>3. \A i \in DOMAIN lines' : i \in DOMAIN lines /\ i < Len(lines)
    BY <2>2
  <2>4. CallsTyped' /\ CommandsTyped'
    BY <2>1, <2>2 DEF CallsTyped, CommandsTyped
  <2> QED
    BY <2>1, <2>2, <2>3, <2>4 DEF StackInv
<1>8. ASSUME NEW s \in Sockets, NEW command \in Scpi!Commands, Scpi!Send(s, command) PROVE RunsInv'
  <2>1. UNCHANGED <<lines, clients, socket>> /\ unread' = [unread EXCEPT ![s] = Append(@, command)]
    BY <1>8 DEF Scpi!Send
  <2>2. CommandsTyped'
    BY <2>1 DEF CommandsTyped
  <2> QED
    BY <2>1, <2>2 DEF CallsTyped, StackInv
<1>9. ASSUME NEW type, Scpi!Takes(type), UNCHANGED lines PROVE RunsInv'
  BY <1>9, TakesTyped DEF CallsTyped, StackInv
<1>10. ASSUME NEW k \in DOMAIN lines, NEW call \in Calls, lines' = [lines EXCEPT ![k] = call], call.s = lines[k].s
       PROVE  /\ lines' \in Seq(Calls) /\ Len(lines') = Len(lines) /\ DOMAIN lines' = DOMAIN lines
              /\ lines'[k] = call /\ \A i \in DOMAIN lines : i # k => lines'[i] = lines[i]
              /\ \A i \in DOMAIN lines : lines'[i].s = lines[i].s
  BY <1>10 DEF CallsTyped
<1>11. CASE Scpi!OpenDevice
  <2>1. Scpi!Takes("DEV:OPEN")
    BY <1>11 DEF Scpi!OpenDevice
  <2>2. CASE UNCHANGED lines
    BY <1>9, <2>1, <2>2
  <2>3. CASE lines' # lines
    <3> DEFINE k    == Len(lines)
               call == [lines[k] EXCEPT !.at = "command", !.m = Scpi!Wanted]
    <3>1. lines # <<>> /\ lines[k].s \in clients /\ UNCHANGED <<clients, socket>> /\ CommandsTyped'
      BY <2>1, TakesTyped DEF Scpi!Top
    <3>2. Scpi!Wanted \in Meters
      <4>1. Scpi!Wanted = Head(unread[Scpi!Top.s]).m
        BY DEF Scpi!Wanted
      <4>2. Head(unread[Scpi!Top.s]) \in Scpi!Commands /\ Head(unread[Scpi!Top.s]).type = "DEV:OPEN"
        BY <2>1, TakesTyped
      <4> QED
        BY <4>1, <4>2 DEF Scpi!Commands
    <3>3. k \in DOMAIN lines /\ lines[k] \in Calls
      BY <3>1, LinesTyped
    <3>4. lines' = [lines EXCEPT ![k] = call]
      BY <1>11, <2>3 DEF Scpi!OpenDevice
    <3>5. call \in Calls /\ call.s = lines[k].s /\ call.at = "command" /\ call.m \in Meters
      BY <3>2, <3>3 DEF Calls
    <3> HIDE DEF call, k
    <3>6. /\ lines' \in Seq(Calls) /\ Len(lines') = Len(lines) /\ DOMAIN lines' = DOMAIN lines
          /\ lines'[k] = call /\ \A i \in DOMAIN lines : i # k => lines'[i] = lines[i]
          /\ \A i \in DOMAIN lines : lines'[i].s = lines[i].s
      BY <1>10, <3>3, <3>4, <3>5
    <3>7. socket[lines[k].s] = "open"
      BY <3>1 DEF StackInv
    <3>8. CallsTyped'
      BY <3>1, <3>6 DEF CallsTyped
    <3>9. \A i \in DOMAIN lines' : i < Len(lines') => lines'[i].at = "command"
      BY <3>5, <3>6 DEF StackInv
    <3>10. \A i \in DOMAIN lines' : /\ socket'[lines'[i].s] # "free"
                                    /\ lines'[i].at = "command" => /\ lines'[i].m \in Meters
                                                                   /\ socket'[lines'[i].s] \in {"open", "released"}
      BY <3>1, <3>5, <3>6, <3>7 DEF StackInv
    <3> QED
      BY <3>1, <3>6, <3>8, <3>9, <3>10 DEF StackInv
  <2> QED
    BY <2>2, <2>3
<1>12. CASE Scpi!DeviceOpened
  <2> DEFINE k    == Len(lines)
             call == [lines[k] EXCEPT !.at = "loop", !.m = 0]
  <2>1. /\ Scpi!EventLoop /\ UNCHANGED <<unread, clients>> /\ lines' = [lines EXCEPT ![k] = call]
        /\ socket' = Scpi!ReleasedWithLast /\ Scpi!Running
    BY <1>12 DEF Scpi!DeviceOpened, Scpi!None
  <2>2. lines # <<>>
    BY <2>1 DEF Scpi!Running
  <2>3. k \in DOMAIN lines /\ lines[k] \in Calls /\ k \in Nat /\ DOMAIN lines = 1..k
    BY <2>2, LinesTyped
  <2>4. call \in Calls /\ call.s = lines[k].s /\ call.at = "loop"
    BY <2>3 DEF Calls
  <2>5. Scpi!Cardinality({i \in DOMAIN lines : lines[i].at = "command"}) = k
    <3>1. {i \in DOMAIN lines : lines[i].at = "command"} = 1..k
      BY <2>1, <2>3, AllRun
    <3>2. Cardinality(1..k) = k
      BY <2>3, FS_Interval
    <3>3. Scpi!Cardinality(1..k) = k
      BY <3>2, CountsAgree
    <3> QED
      BY <3>1, <3>3
  <2>6. socket' = [s \in Sockets |-> IF socket[s] = "released" /\ k = 1 THEN "doomed" ELSE socket[s]]
    <3> DEFINE count == Scpi!Cardinality({i \in DOMAIN lines : lines[i].at = "command"})
    <3>1. socket' = [s \in Sockets |-> IF socket[s] = "released" /\ count = 1 THEN "doomed" ELSE socket[s]]
      BY <2>1 DEF Scpi!ReleasedWithLast
    <3>2. count = k
      BY <2>5
    <3> HIDE DEF count, k
    <3> QED
      BY <3>1, <3>2
  <2> HIDE DEF call, k
  <2>7. /\ lines' \in Seq(Calls) /\ Len(lines') = Len(lines) /\ DOMAIN lines' = DOMAIN lines
        /\ lines'[k] = call /\ \A i \in DOMAIN lines : i # k => lines'[i] = lines[i]
        /\ \A i \in DOMAIN lines : lines'[i].s = lines[i].s
    BY <1>10, <2>1, <2>3, <2>4
  <2>8. /\ socket' \in [Sockets -> {"free", "open", "released", "doomed"}]
        /\ \A s \in Sockets : /\ socket'[s] \in {socket[s], "doomed"} /\ (socket[s] # "released" => socket'[s] = socket[s])
                              /\ k # 1 => socket'[s] = socket[s]
    BY <2>6 DEF CallsTyped
  <2>9. CallsTyped' /\ CommandsTyped'
    BY <2>1, <2>7, <2>8 DEF CallsTyped, CommandsTyped
  <2>10. \A i \in DOMAIN lines' : i < Len(lines') => lines'[i].at = "command"
    BY <2>3, <2>7 DEF StackInv, k
  <2>11. \A i \in DOMAIN lines : i # k => socket'[lines[i].s] = socket[lines[i].s]
    BY <2>3, <2>8, LinesTyped
  <2>12. \A i \in DOMAIN lines' : /\ socket'[lines'[i].s] # "free"
                                  /\ lines'[i].at = "command" => /\ lines'[i].m \in Meters
                                                                 /\ socket'[lines'[i].s] \in {"open", "released"}
    BY <2>4, <2>7, <2>8, <2>11, LinesTyped DEF StackInv
  <2>13. \A s \in clients' : socket'[s] = "open"
    BY <2>1, <2>8 DEF StackInv, CallsTyped
  <2> QED
    BY <2>7, <2>9, <2>10, <2>12, <2>13 DEF StackInv
<1> QED
  BY <1>1, <1>2, <1>3, <1>4, <1>5, <1>6, <1>7, <1>8, <1>9, <1>11, <1>12, StepsOfRuns DEF Scpi!vars

LEMMA ChoiceInvNext ==
  ASSUME ChoiceInv, RunsInv, [Scpi!Next]_(Scpi!vars)
  PROVE  ChoiceInv'
<1>1. CASE UNCHANGED <<devices, selected, chosen>>
  BY <1>1 DEF ChoiceInv
<1>2. ASSUME NEW m \in Meters, Scpi!UserOpens(m) \/ Scpi!UserCloses(m) PROVE ChoiceInv'
  BY <1>2, AddDeviceStands, RemoveDeviceStands DEF Scpi!UserOpens, Scpi!UserCloses
<1>3. CASE Scpi!Instrument
  <2>1. CASE Scpi!IsOpen(Scpi!Wanted)
    <3>1. devices' = devices /\ selected' = Scpi!IndexIn(devices, Scpi!Wanted) /\ chosen' = Scpi!Wanted
      BY <1>3, <2>1 DEF Scpi!Instrument
    <3>2. selected' \in Nat /\ selected' + 1 \in DOMAIN devices /\ devices[selected' + 1] = chosen'
      BY <2>1, <3>1, IndexInPlace DEF ChoiceInv, Scpi!IsOpen
    <3> QED
      BY <3>1, <3>2 DEF ChoiceInv
  <2> QED
    BY <1>1, <1>3, <2>1 DEF Scpi!Instrument
<1>4. CASE Scpi!CloseDevice
  BY <1>1, <1>4, RemoveDeviceStands DEF Scpi!CloseDevice
<1>5. CASE Scpi!DeviceOpened
  <2>1. CASE Scpi!AddDevice(Scpi!Top.m)
    <3>1. Scpi!EventLoop /\ lines # <<>>
      BY <1>5 DEF Scpi!DeviceOpened, Scpi!Running
    <3>2. Len(lines) \in DOMAIN lines
      BY <3>1, LinesTyped DEF RunsInv
    <3>3. lines[Len(lines)].at = "command"
      BY <3>1, <3>2, AllRun
    <3>4. Scpi!Top.m \in Meters
      BY <3>2, <3>3 DEF RunsInv, StackInv, Scpi!Top
    <3> QED
      BY <2>1, <3>4, AddDeviceStands
  <2> QED
    BY <1>1, <1>5, <2>1 DEF Scpi!DeviceOpened
<1> QED
  <2>1. \/ \E m \in Meters : Scpi!UserOpens(m) \/ Scpi!UserCloses(m)
        \/ Scpi!Instrument \/ Scpi!CloseDevice \/ Scpi!DeviceOpened
        \/ UNCHANGED <<devices, selected, chosen>>
    BY DEF Scpi!Next, Scpi!NewConnection, Scpi!Disconnected, Scpi!Delete, Scpi!ReadyRead, Scpi!Overrun, Scpi!Send,
       Scpi!Command, Scpi!NextError, Scpi!ClearStatus, Scpi!OpenDevice, Scpi!LoopEnds, Scpi!Stop, Scpi!vars
  <2> QED
    BY <1>1, <1>2, <1>3, <1>4, <1>5, <2>1

-----------------------------------------------------------------------------
(* ScpiServer: its behaviours. *)

ScpiInv == server = "scpi" => ErrorsInv /\ ChoiceInv /\ RunsInv

LEMMA ScpiInvHolds == Spec => []ScpiInv
<1>1. Init => ScpiInv
  <2> SUFFICES ASSUME Init, server = "scpi" PROVE ErrorsInv /\ ChoiceInv /\ RunsInv
    BY DEF ScpiInv
  <2>1. Scpi!Init
    BY DEF Init, HostInit
  <2>2. ErrorsInv
    <3>1. errors = <<>> /\ errors \in Seq(Nat) /\ Len(errors) = 0 /\ pushed = 0 /\ expected = 1
      BY <2>1 DEF Scpi!Init
    <3> QED
      BY <3>1 DEF ErrorsInv, ErrorsTyped, ErrorsTold
  <2>3. ChoiceInv
    <3>1. devices = <<>> /\ devices \in Seq(Meters) /\ DOMAIN devices = {} /\ selected = 0
      BY <2>1 DEF Scpi!Init
    <3> QED
      BY <3>1 DEF ChoiceInv
  <2>4. RunsInv
    <3>1. /\ lines = <<>> /\ lines \in Seq(Calls) /\ DOMAIN lines = {} /\ clients = {}
          /\ socket \in [Sockets -> {"free", "open", "released", "doomed"}]
      BY <2>1 DEF Scpi!Init
    <3>2. unread \in [Sockets -> Seq(Scpi!Commands)]
      BY <2>1 DEF Scpi!Init
    <3> QED
      BY <3>1, <3>2 DEF RunsInv, CallsTyped, CommandsTyped, StackInv
  <2> QED
    BY <2>2, <2>3, <2>4
<1>2. ScpiInv /\ [Next]_mcVars => ScpiInv'
  <2> SUFFICES ASSUME ScpiInv, [Next]_mcVars, server' = "scpi" PROVE (ErrorsInv /\ ChoiceInv /\ RunsInv)'
    BY DEF ScpiInv
  <2>1. server = "scpi" /\ [Scpi!Next]_(Scpi!vars)
    BY DEF Next, HostNext, HostInit, mcVars, hislipOnly, vxiOnly, scpiOnly, hostVars, Scpi!vars
  <2> QED
    BY <2>1, ErrorsInvNext, ChoiceInvNext, RunsInvNext DEF ScpiInv
<1> QED
  BY <1>1, <1>2, PTL DEF Spec

\* ScpiServer::removeDevice() and selectedDevice(): commands reach the meter that was chosen last, or none, whatever
\* meters users and clients open and close; no socket is deleted while its readyRead() is on the stack (m_released).
THEOREM ChoiceIsKept == Spec => []ChoiceStands
<1>1. ASSUME ChoiceInv, RunsInv PROVE Scpi!ChoiceStands
  <2>1. \A s \in Scpi!Callers : socket[s] # "free"
    BY <1>1 DEF Scpi!Callers, RunsInv, StackInv
  <2> QED
    BY <1>1, <2>1, SelectedIsChosen DEF Scpi!ChoiceStands
<1>2. ScpiInv => ChoiceStands
  BY <1>1 DEF ScpiInv, ChoiceStands
<1> QED
  BY <1>2, ScpiInvHolds, PTL

\* ScpiServer::pushError() and SYSTem:ERRor?: errors are told in order and each, or "Queue overflow" in the place of
\* those that were lost.
THEOREM ErrorsAreKept == Spec => []ErrorsAreTold
<1>1. ErrorsInv => Scpi!ErrorsAreTold
  BY DEF ErrorsInv, ErrorsTold, Follows, Scpi!ErrorsAreTold
<1>2. ScpiInv => ErrorsAreTold
  BY <1>1 DEF ScpiInv, ErrorsAreTold
<1> QED
  BY <1>2, ScpiInvHolds, PTL

-----------------------------------------------------------------------------
(* Vxi11Core: links, the lock and the commands. *)

ConnsTyped == conn \in [Conns -> {"none", "open", "gone", "doomed", "deleted"}] /\ stopped \subseteq Conns

IsLink(l) == l = [conn |-> l.conn, in |-> l.in, discard |-> l.discard, out |-> l.out]

LinksTyped ==
  /\ nextLid \in Nat \ {0} /\ DOMAIN links \subseteq Nat
  /\ \A lid \in DOMAIN links : IsLink(links[lid]) /\ links[lid].conn \in Conns

\* Every link is of a client that is there, the lock of a link, and there are not too many.
LinksInv ==
  /\ \A lid \in DOMAIN links : conn[links[lid].conn] = "open"
  /\ lockOwner # -1 => lockOwner \in DOMAIN links
  /\ IsFiniteSet(DOMAIN links) /\ Cardinality(DOMAIN links) <= MaxLinks

\* A step changes what a link holds, or makes or drops links.
LinkChanges(lid, l) ==
  /\ lid \in DOMAIN links /\ DOMAIN links' = DOMAIN links
  /\ \A k \in DOMAIN links : k # lid => links'[k] = links[k]
  /\ links'[lid] = l /\ IsLink(l) /\ l.conn = links[lid].conn

Makes(lid, c) ==
  /\ DOMAIN links' = DOMAIN links \cup {lid} /\ links'[lid] = Vxi!NewLink(c)
  /\ \A k \in DOMAIN links : k # lid => links'[k] = links[k]

LEMMA ClearChanges ==
  ASSUME LinksTyped, NEW lid \in DOMAIN links, Vxi!DeviceClear(lid)
  PROVE  LinkChanges(lid, [conn |-> links[lid].conn, in |-> <<>>, discard |-> FALSE, out |-> <<>>])
BY DEF LinksTyped, IsLink, LinkChanges, Vxi!DeviceClear, Vxi!NewLink

LEMMA TooBigChanges ==
  ASSUME LinksTyped, NEW c, NEW lid \in DOMAIN links, NEW end \in BOOLEAN, Vxi!WriteTooBig(c, lid, end)
  PROVE  LinkChanges(lid, [conn |-> links[lid].conn, in |-> <<>>, discard |-> ~end, out |-> links[lid].out])
<1> DEFINE rest == ~end
           mid  == [links EXCEPT ![lid].in = <<>>]
<1>1. links' = [mid EXCEPT ![lid].discard = rest]
  BY DEF Vxi!WriteTooBig
<1>2. /\ DOMAIN mid = DOMAIN links /\ \A k \in DOMAIN links : k # lid => mid[k] = links[k]
      /\ mid[lid] = [conn |-> links[lid].conn, in |-> <<>>, discard |-> links[lid].discard, out |-> links[lid].out]
  BY DEF LinksTyped, IsLink
<1> HIDE DEF rest, mid
<1>3. LinkChanges(lid, [conn |-> links[lid].conn, in |-> <<>>, discard |-> rest, out |-> links[lid].out])
  BY <1>1, <1>2 DEF IsLink, LinkChanges
<1> QED
  BY <1>3 DEF rest

LEMMA WriteChanges ==
  ASSUME LinksTyped, NEW c, NEW lid \in DOMAIN links, NEW end \in BOOLEAN, Vxi!DeviceWrite(c, lid, end)
  PROVE  LinkChanges(lid, [conn |-> links[lid].conn,
                           in   |-> IF end THEN <<>> ELSE Append(links[lid].in, client[lid]),
                           discard |-> links[lid].discard, out |-> links[lid].out])
<1> DEFINE in == IF end THEN <<>> ELSE Append(links[lid].in, client[lid])
<1>1. links' = [links EXCEPT ![lid].in = in]
  BY DEF Vxi!DeviceWrite
<1> HIDE DEF in
<1>2. LinkChanges(lid, [conn |-> links[lid].conn, in |-> in, discard |-> links[lid].discard, out |-> links[lid].out])
  BY <1>1 DEF LinksTyped, IsLink, LinkChanges
<1> QED
  BY <1>2 DEF in

\* An answer that a client reads, or that waits at the link.
AnswersChange(lid) ==
  \E out : LinkChanges(lid, [conn |-> links[lid].conn, in |-> links[lid].in, discard |-> links[lid].discard, out |-> out])

LEMMA OutChanges ==
  ASSUME LinksTyped, NEW lid \in DOMAIN links, NEW out, links' = [links EXCEPT ![lid].out = out]
  PROVE  AnswersChange(lid)
<1>1. LinkChanges(lid, [conn |-> links[lid].conn, in |-> links[lid].in, discard |-> links[lid].discard, out |-> out])
  BY DEF LinksTyped, IsLink, LinkChanges
<1> QED
  BY <1>1 DEF AnswersChange

LEMMA ReadChanges ==
  ASSUME LinksTyped, NEW c, NEW lid \in DOMAIN links, Vxi!DeviceRead(c, lid)
  PROVE  AnswersChange(lid)
<1>1. PICK n : links' = [links EXCEPT ![lid].out = IF n = Head(links[lid].out).pieces THEN Tail(links[lid].out)
                                                   ELSE [links[lid].out EXCEPT ![1].pieces = @ - n]]
  BY DEF Vxi!DeviceRead
<1>2. /\ DOMAIN links' = DOMAIN links /\ \A k \in DOMAIN links : k # lid => links'[k] = links[k]
      /\ links'[lid] = [links[lid] EXCEPT !.out = links'[lid].out]
  BY <1>1 DEF LinksTyped, IsLink
<1> DEFINE out == links'[lid].out
<1>3. LinkChanges(lid, [conn |-> links[lid].conn, in |-> links[lid].in, discard |-> links[lid].discard, out |-> out])
  BY <1>2 DEF LinksTyped, IsLink, LinkChanges
<1> QED
  BY <1>3 DEF AnswersChange

LEMMA CommandEndsChanges ==
  ASSUME LinksTyped, Vxi!CommandEnds
  PROVE  UNCHANGED links \/ \E lid \in DOMAIN links : AnswersChange(lid)
<1> DEFINE lid == commands[Len(commands)].lid
<1>1. CASE lid \in DOMAIN links
  <2>1. PICK a : links' = [links EXCEPT ![lid].out = @ \o a]
    BY <1>1 DEF Vxi!CommandEnds
  <2> DEFINE out == links[lid].out \o a
  <2>2. links' = [links EXCEPT ![lid].out = out]
    BY <2>1
  <2> HIDE DEF out
  <2> QED
    BY <1>1, <2>2, OutChanges
<1>2. CASE lid \notin DOMAIN links
  BY <1>2 DEF Vxi!CommandEnds
<1> QED
  BY <1>1, <1>2

LEMMA CreateMakes ==
  ASSUME NEW c, NEW lock, Vxi!CreateLink(c, lock)
  PROVE  Makes(nextLid, c)
BY DEF Vxi!CreateLink, Vxi!With, Makes

\* The steps by what they do to the links.
LEMMA StepsOfLinks ==
  ASSUME LinksTyped, Vxi!Next
  PROVE  \/ \E c \in Conns : \E lock \in BOOLEAN : Vxi!CreateLink(c, lock)
         \/ \E c \in Conns : Vxi!Gone(c)
         \/ \E c \in Conns : \E lid \in DOMAIN links : Vxi!DestroyLink(c, lid)
         \/ \E lid \in DOMAIN links : \E l : LinkChanges(lid, l) /\ UNCHANGED lockOwner
         \/ Vxi!Stop
         \/ UNCHANGED links
<1>1. ASSUME NEW lid \in DOMAIN links, AnswersChange(lid) PROVE \E l : LinkChanges(lid, l)
  BY <1>1 DEF AnswersChange
<1>2. CASE Vxi!CommandEnds
  BY <1>1, <1>2, CommandEndsChanges DEF Vxi!CommandEnds
<1>3. ASSUME NEW c \in Conns, NEW lid \in DOMAIN links, NEW end \in BOOLEAN,
             Vxi!DeviceWrite(c, lid, end) \/ Vxi!WriteTooBig(c, lid, end)
      PROVE  (\E l : LinkChanges(lid, l)) /\ UNCHANGED lockOwner
  BY <1>3, WriteChanges, TooBigChanges DEF Vxi!DeviceWrite, Vxi!WriteTooBig
<1>4. ASSUME NEW c \in Conns, NEW lid \in DOMAIN links, Vxi!DeviceRead(c, lid)
      PROVE  (\E l : LinkChanges(lid, l)) /\ UNCHANGED lockOwner
  BY <1>1, <1>4, ReadChanges DEF Vxi!DeviceRead
<1>5. ASSUME NEW lid \in DOMAIN links, Vxi!DeviceClear(lid)
      PROVE  (\E l : LinkChanges(lid, l)) /\ UNCHANGED lockOwner
  BY <1>5, ClearChanges DEF Vxi!DeviceClear
<1>6. \/ \E c \in Conns : \E lock \in BOOLEAN : Vxi!CreateLink(c, lock)
      \/ \E c \in Conns : Vxi!Gone(c)
      \/ \E c \in Conns : \E lid \in DOMAIN links : Vxi!DestroyLink(c, lid)
      \/ \E c \in Conns : \E lid \in DOMAIN links : \E end \in BOOLEAN :
           Vxi!DeviceWrite(c, lid, end) \/ Vxi!WriteTooBig(c, lid, end)
      \/ \E c \in Conns : \E lid \in DOMAIN links : Vxi!DeviceRead(c, lid)
      \/ \E lid \in DOMAIN links : Vxi!DeviceClear(lid)
      \/ Vxi!Stop \/ Vxi!CommandEnds
      \/ UNCHANGED links
  BY DEF Vxi!Next, Vxi!Connect, Vxi!Delete, Vxi!DeviceLock, Vxi!DeviceUnlock
<1> QED
  BY <1>2, <1>3, <1>4, <1>5, <1>6 DEF Vxi!CommandEnds

LEMMA LinksTypedNext ==
  ASSUME LinksTyped, [Vxi!Next]_(Vxi!vars)
  PROVE  LinksTyped'
<1>1. nextLid' \in Nat \ {0}
  <2>1. UNCHANGED nextLid \/ \E c \in Conns : \E lock \in BOOLEAN : Vxi!CreateLink(c, lock)
    BY DEF Vxi!Next, Vxi!Connect, Vxi!Gone, Vxi!Delete, Vxi!DestroyLink, Vxi!DeviceLock, Vxi!DeviceUnlock,
           Vxi!DeviceRead, Vxi!DeviceWrite, Vxi!WriteTooBig, Vxi!DeviceClear, Vxi!Stop, Vxi!CommandEnds, Vxi!vars
  <2>2. nextLid' \in {nextLid, nextLid + 1}
    BY <2>1 DEF Vxi!CreateLink
  <2> QED
    BY <2>2 DEF LinksTyped
<1>2. CASE UNCHANGED links
  BY <1>1, <1>2 DEF LinksTyped
<1>3. ASSUME NEW lids, Vxi!Drop(lids) PROVE LinksTyped'
  BY <1>1, <1>3 DEF LinksTyped, Vxi!Drop
<1>4. CASE Vxi!Stop
  BY <1>1, <1>4 DEF LinksTyped, Vxi!Stop
<1>5. ASSUME NEW c \in Conns, NEW lock \in BOOLEAN, Vxi!CreateLink(c, lock) PROVE LinksTyped'
  <2>1. Makes(nextLid, c)
    BY <1>5, CreateMakes
  <2>2. IsLink(Vxi!NewLink(c)) /\ Vxi!NewLink(c).conn = c
    BY DEF IsLink, Vxi!NewLink
  <2> QED
    BY <1>1, <2>1, <2>2 DEF LinksTyped, Makes
<1>6. ASSUME NEW lid \in DOMAIN links, NEW l, LinkChanges(lid, l) PROVE LinksTyped'
  BY <1>1, <1>6 DEF LinksTyped, LinkChanges
<1> QED
  BY <1>2, <1>3, <1>4, <1>5, <1>6, StepsOfLinks DEF Vxi!vars, Vxi!Gone, Vxi!DestroyLink

LEMMA ConnsTypedNext ==
  ASSUME ConnsTyped, [Vxi!Next]_(Vxi!vars)
  PROVE  ConnsTyped'
<1> DEFINE States == {"none", "open", "gone", "doomed", "deleted"}
<1>1. ASSUME NEW c \in Conns, NEW state \in States, conn' = [conn EXCEPT ![c] = state], UNCHANGED stopped
      PROVE  ConnsTyped'
  BY <1>1 DEF ConnsTyped
<1>2. ASSUME NEW c \in Conns, Vxi!Connect(c) PROVE ConnsTyped'
  BY <1>1, <1>2 DEF Vxi!Connect
<1>3. ASSUME NEW c \in Conns, Vxi!Gone(c) PROVE ConnsTyped'
  <2>1. UNCHANGED stopped /\ conn' = [conn EXCEPT ![c] = IF Vxi!Busy(c) THEN "gone" ELSE "doomed"]
    BY <1>3 DEF Vxi!Gone
  <2> QED
    BY <1>1, <2>1
<1>4. ASSUME NEW c \in Conns, Vxi!Delete(c) PROVE ConnsTyped'
  BY <1>1, <1>4 DEF Vxi!Delete
<1>5. CASE Vxi!Stop
  BY <1>5 DEF Vxi!Stop, ConnsTyped
<1>6. CASE Vxi!CommandEnds
  <2>1. PICK c : UNCHANGED stopped /\ conn' = IF conn[c] = "gone" THEN [conn EXCEPT ![c] = "doomed"] ELSE conn
    BY <1>6 DEF Vxi!CommandEnds, Vxi!AfterCall
  <2> QED
    BY <2>1 DEF ConnsTyped
<1>7. CASE UNCHANGED <<conn, stopped>>
  BY <1>7 DEF ConnsTyped
<1>8. ASSUME NEW c \in Conns, NEW lock \in BOOLEAN, Vxi!CreateLink(c, lock) PROVE ConnsTyped'
  BY <1>7, <1>8 DEF Vxi!CreateLink
<1>9. ASSUME NEW c \in Conns, NEW lid \in DOMAIN links,
             Vxi!DestroyLink(c, lid) \/ Vxi!DeviceLock(c, lid) \/ Vxi!DeviceUnlock(c, lid) \/ Vxi!DeviceRead(c, lid)
      PROVE  ConnsTyped'
  BY <1>7, <1>9 DEF Vxi!DestroyLink, Vxi!DeviceLock, Vxi!DeviceUnlock, Vxi!DeviceRead
<1>10. ASSUME NEW c \in Conns, NEW lid \in DOMAIN links, NEW end \in BOOLEAN,
              Vxi!DeviceWrite(c, lid, end) \/ Vxi!WriteTooBig(c, lid, end)
       PROVE  ConnsTyped'
  BY <1>7, <1>10 DEF Vxi!DeviceWrite, Vxi!WriteTooBig
<1>11. ASSUME NEW lid \in DOMAIN links, Vxi!DeviceClear(lid) PROVE ConnsTyped'
  BY <1>7, <1>11 DEF Vxi!DeviceClear
<1>12. CASE UNCHANGED Vxi!vars
  BY <1>7, <1>12 DEF Vxi!vars
<1> QED
  BY <1>2, <1>3, <1>4, <1>5, <1>6, <1>8, <1>9, <1>10, <1>11, <1>12 DEF Vxi!Next

\* A connection that links use goes only with its links.
LEMMA OpenStays ==
  ASSUME ConnsTyped, [Vxi!Next]_(Vxi!vars), NEW c \in Conns, conn[c] = "open"
  PROVE  conn'[c] = "open" \/ Vxi!Gone(c) \/ Vxi!Stop
<1>1. ASSUME NEW d \in Conns, NEW state, conn' = [conn EXCEPT ![d] = state], conn[d] # "open" PROVE conn'[c] = "open"
  BY <1>1 DEF ConnsTyped
<1>2. ASSUME NEW d \in Conns, Vxi!Connect(d) PROVE conn'[c] = "open"
  BY <1>1, <1>2 DEF Vxi!Connect
<1>3. ASSUME NEW d \in Conns, Vxi!Delete(d) PROVE conn'[c] = "open"
  BY <1>1, <1>3 DEF Vxi!Delete
<1>4. ASSUME NEW d \in Conns, Vxi!Gone(d), d # c PROVE conn'[c] = "open"
  BY <1>4 DEF Vxi!Gone, ConnsTyped
<1>5. CASE Vxi!CommandEnds
  <2>1. PICK d : conn' = IF conn[d] = "gone" THEN [conn EXCEPT ![d] = "doomed"] ELSE conn
    BY <1>5 DEF Vxi!CommandEnds, Vxi!AfterCall
  <2> QED
    BY <2>1 DEF ConnsTyped
<1>6. \/ \E d \in Conns : Vxi!Connect(d) \/ Vxi!Gone(d) \/ Vxi!Delete(d)
      \/ Vxi!Stop \/ Vxi!CommandEnds \/ UNCHANGED conn
  BY DEF Vxi!Next, Vxi!CreateLink, Vxi!DestroyLink, Vxi!DeviceLock, Vxi!DeviceUnlock, Vxi!DeviceRead, Vxi!DeviceWrite,
         Vxi!WriteTooBig, Vxi!DeviceClear, Vxi!vars
<1> QED
  BY <1>2, <1>3, <1>4, <1>5, <1>6

LEMMA LinksInvNext ==
  ASSUME LinksInv, LinksTyped, ConnsTyped, [Vxi!Next]_(Vxi!vars)
  PROVE  LinksInv'
<1>1. ASSUME NEW lids, Vxi!Drop(lids) PROVE /\ DOMAIN links' = DOMAIN links \ lids
                                            /\ \A k \in DOMAIN links' : links'[k] = links[k]
                                            /\ lockOwner' # -1 => lockOwner' \in DOMAIN links'
                                            /\ IsFiniteSet(DOMAIN links') /\ Cardinality(DOMAIN links') <= MaxLinks
  <2>1. DOMAIN links' = DOMAIN links \ lids /\ \A k \in DOMAIN links' : links'[k] = links[k]
    BY <1>1 DEF Vxi!Drop
  <2>2. lockOwner' # -1 => lockOwner' \in DOMAIN links'
    BY <1>1, <2>1 DEF Vxi!Drop, LinksInv
  <2>3. IsFiniteSet(DOMAIN links') /\ Cardinality(DOMAIN links') <= Cardinality(DOMAIN links)
    BY <2>1, FS_Subset DEF LinksInv
  <2>4. Cardinality(DOMAIN links) \in Nat /\ Cardinality(DOMAIN links') \in Nat
    BY <2>3, FS_CardinalityType DEF LinksInv
  <2> QED
    BY <2>1, <2>2, <2>3, <2>4, Assumptions DEF LinksInv
<1>2. ASSUME NEW c \in Conns, Vxi!Gone(c) PROVE LinksInv'
  <2>1. Vxi!Drop({lid \in DOMAIN links : links[lid].conn = c})
    BY <1>2 DEF Vxi!Gone
  <2>2. \A d \in Conns : d # c => conn'[d] = conn[d]
    BY <1>2 DEF Vxi!Gone, ConnsTyped
  <2>3. \A lid \in DOMAIN links' : links'[lid].conn # c /\ lid \in DOMAIN links
    <3> DEFINE lids == {lid \in DOMAIN links : links[lid].conn = c}
    <3>1. DOMAIN links' = DOMAIN links \ lids /\ \A k \in DOMAIN links' : links'[k] = links[k]
      BY <1>1, <2>1
    <3> QED
      BY <3>1
  <2> QED
    BY <1>1, <2>1, <2>2, <2>3 DEF LinksInv, LinksTyped
<1>3. ASSUME NEW c \in Conns, NEW lid \in DOMAIN links, Vxi!DestroyLink(c, lid) PROVE LinksInv'
  <2>1. Vxi!Drop({lid}) /\ UNCHANGED conn
    BY <1>3 DEF Vxi!DestroyLink
  <2> QED
    BY <1>1, <2>1 DEF LinksInv
<1>4. CASE Vxi!Stop
  <2>1. links' = <<>> /\ lockOwner' = -1 /\ DOMAIN links' = {}
    BY <1>4 DEF Vxi!Stop
  <2>2. IsFiniteSet(DOMAIN links') /\ Cardinality(DOMAIN links') = 0
    BY <2>1, FS_EmptySet
  <2> QED
    BY <2>1, <2>2, Assumptions DEF LinksInv
<1>5. ASSUME NEW c \in Conns, NEW lock \in BOOLEAN, Vxi!CreateLink(c, lock) PROVE LinksInv'
  <2>1. Makes(nextLid, c)
    BY <1>5, CreateMakes
  <2>2. UNCHANGED conn /\ conn[c] = "open" /\ lockOwner' = IF lock THEN nextLid ELSE lockOwner
    BY <1>5 DEF Vxi!CreateLink, Vxi!Serves
  <2>3. Cardinality(DOMAIN links) < MaxLinks
    BY <1>5, CountsAgree DEF Vxi!CreateLink
  <2>4. IsFiniteSet(DOMAIN links') /\ Cardinality(DOMAIN links') <= MaxLinks
    <3>1. IsFiniteSet(DOMAIN links')
      BY <2>1, FS_AddElement DEF LinksInv, Makes
    <3>2. Cardinality(DOMAIN links') \in {Cardinality(DOMAIN links), Cardinality(DOMAIN links) + 1}
      BY <2>1, FS_AddElement DEF LinksInv, Makes
    <3>3. Cardinality(DOMAIN links) \in Nat
      BY FS_CardinalityType DEF LinksInv
    <3> QED
      BY <2>3, <3>1, <3>2, <3>3, Assumptions
  <2>5. \A lid \in DOMAIN links' : conn'[links'[lid].conn] = "open"
    BY <2>1, <2>2 DEF LinksInv, Makes, Vxi!NewLink
  <2>6. lockOwner' # -1 => lockOwner' \in DOMAIN links'
    BY <2>1, <2>2 DEF LinksInv, Makes
  <2> QED
    BY <2>4, <2>5, <2>6 DEF LinksInv
<1>6. ASSUME DOMAIN links' = DOMAIN links, \A lid \in DOMAIN links : links'[lid].conn = links[lid].conn,
             lockOwner' = lockOwner \/ lockOwner' = -1 \/ lockOwner' \in DOMAIN links, \A c \in Conns : ~Vxi!Gone(c), ~Vxi!Stop
      PROVE  LinksInv'
  <2>1. \A lid \in DOMAIN links : conn'[links[lid].conn] = "open"
    BY <1>6, OpenStays DEF LinksInv, LinksTyped
  <2> QED
    BY <1>6, <2>1 DEF LinksInv
<1>7. CASE UNCHANGED links
  <2>1. lockOwner' = lockOwner \/ lockOwner' = -1 \/ lockOwner' \in DOMAIN links \/ (\E c \in Conns : Vxi!Gone(c))
        \/ Vxi!Stop \/ (\E c \in Conns : \E lid \in DOMAIN links : Vxi!DestroyLink(c, lid))
        \/ (\E c \in Conns : \E lock \in BOOLEAN : Vxi!CreateLink(c, lock))
    <3>1. ASSUME NEW c \in Conns, NEW lid \in DOMAIN links, Vxi!DeviceLock(c, lid)
          PROVE  lockOwner' \in DOMAIN links
      BY <3>1 DEF Vxi!DeviceLock
    <3>2. ASSUME NEW c \in Conns, NEW lid \in DOMAIN links, Vxi!DeviceUnlock(c, lid)
          PROVE  lockOwner' = -1
      BY <3>2 DEF Vxi!DeviceUnlock
    <3>3. \/ \E c \in Conns : \E lid \in DOMAIN links : Vxi!DeviceLock(c, lid) \/ Vxi!DeviceUnlock(c, lid)
          \/ lockOwner' = lockOwner \/ (\E c \in Conns : Vxi!Gone(c))
          \/ Vxi!Stop \/ (\E c \in Conns : \E lid \in DOMAIN links : Vxi!DestroyLink(c, lid))
          \/ (\E c \in Conns : \E lock \in BOOLEAN : Vxi!CreateLink(c, lock))
      BY DEF Vxi!Next, Vxi!Connect, Vxi!Delete, Vxi!DeviceRead, Vxi!DeviceWrite, Vxi!WriteTooBig, Vxi!DeviceClear,
         Vxi!CommandEnds, Vxi!vars
    <3> QED
      BY <3>1, <3>2, <3>3
  <2> QED
    BY <1>2, <1>3, <1>4, <1>5, <1>6, <1>7, <2>1
<1>8. ASSUME NEW lid \in DOMAIN links, NEW l, LinkChanges(lid, l), UNCHANGED lockOwner PROVE LinksInv'
  <2>1. DOMAIN links' = DOMAIN links /\ \A k \in DOMAIN links : links'[k].conn = links[k].conn
    BY <1>8 DEF LinkChanges
  <2> QED
    BY <1>2, <1>4, <1>6, <1>8, <2>1
<1> QED
  BY <1>2, <1>3, <1>4, <1>5, <1>7, <1>8, StepsOfLinks DEF Vxi!vars
-----------------------------------------------------------------------------
(* Vxi11Core: the commands on the stack. *)

Blocks      == [n : Nat, i : Nat]
VxiCommands == [conn : Conns, lid : Nat, message : Seq(Blocks)]

\* A connection waits for one command, and is there for it unless the server stopped.
CommandsInv ==
  /\ commands \in Seq(VxiCommands)
  /\ \A i, j \in DOMAIN commands : commands[i].conn = commands[j].conn => i = j
  /\ \A i \in DOMAIN commands : commands[i].conn \notin stopped => conn[commands[i].conn] \in {"open", "gone"}

LEMMA BusyAgrees ==
  ASSUME NEW c
  PROVE  Vxi!Busy(c) <=> \E i \in DOMAIN commands : commands[i].conn = c
BY DEF Vxi!Busy

LEMMA AppendPlaces ==
  ASSUME NEW S, NEW s \in Seq(S), NEW e
  PROVE  \A k \in DOMAIN Append(s, e) :
           (k \in DOMAIN s /\ Append(s, e)[k] = s[k]) \/ Append(s, e)[k] = e
OBVIOUS

\* The client of a link and what the link holds of its message.
Holds(l, c) ==
  /\ c \in [n : Nat, i : Nat \ {0}] /\ l.in \in Seq(Blocks)
  /\ IF l.discard THEN l.in = <<>>
     ELSE Len(l.in) = c.i - 1 /\ \A k \in 1..Len(l.in) : l.in[k] = [n |-> c.n, i |-> k]

MessagesInv == \A lid \in DOMAIN links : lid \in DOMAIN client /\ Holds(links[lid], client[lid])

LEMMA CommandsInvNext ==
  ASSUME CommandsInv, LinksTyped, ConnsTyped, MessagesInv, [Vxi!Next]_(Vxi!vars)
  PROVE  CommandsInv'
<1>1. CASE UNCHANGED <<commands, stopped, conn>>
  BY <1>1 DEF CommandsInv
<1>2. ASSUME NEW c \in Conns, Vxi!Connect(c) PROVE CommandsInv'
  <2>1. UNCHANGED <<commands, stopped>> /\ conn'[c] = "open" /\ \A d \in Conns : d # c => conn'[d] = conn[d]
    BY <1>2 DEF Vxi!Connect, ConnsTyped
  <2>2. \A i \in DOMAIN commands : commands[i] \in VxiCommands
    BY ElementOfSeq DEF CommandsInv
  <2> QED
    BY <2>1, <2>2 DEF CommandsInv, VxiCommands
<1>3. ASSUME NEW c \in Conns, Vxi!Gone(c) PROVE CommandsInv'
  <2>1. /\ UNCHANGED <<commands, stopped>> /\ \A d \in Conns : d # c => conn'[d] = conn[d]
        /\ conn'[c] = IF Vxi!Busy(c) THEN "gone" ELSE "doomed"
    BY <1>3 DEF Vxi!Gone, ConnsTyped
  <2>2. \A i \in DOMAIN commands : commands[i] \in VxiCommands
    BY ElementOfSeq DEF CommandsInv
  <2> QED
    BY <2>1, <2>2, BusyAgrees DEF CommandsInv, VxiCommands
<1>4. ASSUME NEW c \in Conns, Vxi!Delete(c) PROVE CommandsInv'
  <2>1. /\ UNCHANGED <<commands, stopped>> /\ \A d \in Conns : d # c => conn'[d] = conn[d]
        /\ conn[c] = "doomed"
    BY <1>4 DEF Vxi!Delete, ConnsTyped
  <2>2. \A i \in DOMAIN commands : commands[i] \in VxiCommands
    BY ElementOfSeq DEF CommandsInv
  <2> QED
    BY <2>1, <2>2 DEF CommandsInv, VxiCommands
<1>5. CASE Vxi!Stop
  <2>1. \A c \in Conns : c \notin stopped' => c \notin stopped /\ conn[c] \notin {"open", "gone"}
    BY <1>5 DEF Vxi!Stop
  <2>2. \A i \in DOMAIN commands : commands[i] \in VxiCommands
    BY ElementOfSeq DEF CommandsInv
  <2>3. UNCHANGED commands
    BY <1>5 DEF Vxi!Stop
  <2> QED
    BY <2>1, <2>2, <2>3 DEF CommandsInv, VxiCommands
<1>6. ASSUME NEW c \in Conns, NEW lid \in DOMAIN links, NEW end \in BOOLEAN, Vxi!DeviceWrite(c, lid, end)
      PROVE  CommandsInv'
  <2> DEFINE in   == Append(links[lid].in, client[lid])
             call == [conn |-> c, lid |-> lid, message |-> in]
  <2>1. UNCHANGED <<stopped, conn>> /\ conn[c] = "open" /\ ~Vxi!Busy(c)
        /\ commands' = IF end THEN Append(commands, call) ELSE commands
    BY <1>6 DEF Vxi!DeviceWrite, Vxi!Serves
  <2>2. in \in Seq(Blocks)
    <3>1. links[lid].in \in Seq(Blocks) /\ client[lid] \in Blocks
      BY DEF MessagesInv, Holds, Blocks
    <3> QED
      BY <3>1
  <2>3. call \in VxiCommands /\ call.conn = c
    BY <2>2 DEF VxiCommands, LinksTyped
  <2> HIDE DEF call
  <2>4. CASE end
    <3>1. commands \in Seq(VxiCommands)
      BY DEF CommandsInv
    <3>2. /\ commands' \in Seq(VxiCommands) /\ DOMAIN commands' = DOMAIN commands \cup {Len(commands) + 1}
          /\ Len(commands) + 1 \notin DOMAIN commands
          /\ commands'[Len(commands) + 1] = call /\ \A i \in DOMAIN commands : commands'[i] = commands[i]
      BY <2>1, <2>3, <2>4, <3>1
    <3>3. \A i \in DOMAIN commands : commands[i].conn # c
      BY <2>1, BusyAgrees
    <3>4. \A i, j \in DOMAIN commands' : commands'[i].conn = commands'[j].conn => i = j
      BY <2>3, <3>2, <3>3 DEF CommandsInv
    <3>5. \A i \in DOMAIN commands' :
            commands'[i].conn \notin stopped => conn[commands'[i].conn] \in {"open", "gone"}
      BY <2>1, <2>3, <3>2 DEF CommandsInv
    <3> QED
      BY <2>1, <3>2, <3>4, <3>5 DEF CommandsInv
  <2> QED
    BY <1>1, <2>1, <2>4
<1>7. CASE Vxi!CommandEnds
  <2> DEFINE c == commands[Len(commands)].conn
  <2>1. /\ commands # <<>> /\ commands' = SubSeq(commands, 1, Len(commands) - 1) /\ UNCHANGED stopped
        /\ conn' = IF conn[c] = "gone" THEN [conn EXCEPT ![c] = "doomed"] ELSE conn
    BY <1>7 DEF Vxi!CommandEnds, Vxi!AfterCall
  <2>2. commands \in Seq(VxiCommands)
    BY DEF CommandsInv
  <2>3. /\ commands' \in Seq(VxiCommands) /\ DOMAIN commands' = 1..(Len(commands) - 1)
        /\ \A i \in DOMAIN commands' : commands'[i] = commands[i]
    BY <2>1, <2>2
  <2>4. Len(commands) \in Nat /\ DOMAIN commands = 1..Len(commands)
    BY <2>2
  <2>5. Len(commands) \in DOMAIN commands
    BY <2>1, <2>2
  <2>6. \A i \in DOMAIN commands' : i \in DOMAIN commands /\ i # Len(commands)
    BY <2>3, <2>4
  <2>7. \A i \in DOMAIN commands' : commands[i].conn # c
    BY <2>5, <2>6 DEF CommandsInv
  <2>8. \A d : d # c => conn'[d] = conn[d]
    BY <2>1 DEF ConnsTyped
  <2> HIDE DEF c
  <2> QED
    BY <2>1, <2>3, <2>6, <2>7, <2>8 DEF CommandsInv
<1>8. \/ \E c \in Conns : Vxi!Connect(c) \/ Vxi!Gone(c) \/ Vxi!Delete(c)
      \/ \E c \in Conns : \E lid \in DOMAIN links : \E end \in BOOLEAN : Vxi!DeviceWrite(c, lid, end)
      \/ Vxi!Stop \/ Vxi!CommandEnds \/ UNCHANGED <<commands, stopped, conn>>
  BY DEF Vxi!Next, Vxi!CreateLink, Vxi!DestroyLink, Vxi!DeviceLock, Vxi!DeviceUnlock, Vxi!DeviceRead,
         Vxi!WriteTooBig, Vxi!DeviceClear, Vxi!vars
<1> QED
  BY <1>1, <1>2, <1>3, <1>4, <1>5, <1>6, <1>7, <1>8

\* A step changes what one link holds and its client, if any.
LEMMA MessagesChange ==
  ASSUME MessagesInv, NEW lid \in DOMAIN links, NEW l, LinkChanges(lid, l),
         NEW c, client' = [client EXCEPT ![lid] = c], Holds(l, c)
  PROVE  MessagesInv'
<1>1. lid \in DOMAIN client
  BY DEF MessagesInv
<1>2. DOMAIN client' = DOMAIN client /\ client'[lid] = c /\ \A k \in DOMAIN client : k # lid => client'[k] = client[k]
  BY <1>1
<1>3. DOMAIN links' = DOMAIN links /\ links'[lid] = l /\ \A k \in DOMAIN links : k # lid => links'[k] = links[k]
  BY DEF LinkChanges
<1>4. \A k \in DOMAIN links' : k \in DOMAIN client' /\ Holds(links'[k], client'[k])
  BY <1>2, <1>3 DEF MessagesInv
<1> QED
  BY <1>4 DEF MessagesInv

LEMMA MessagesInvNext ==
  ASSUME MessagesInv, LinksTyped, [Vxi!Next]_(Vxi!vars)
  PROVE  MessagesInv'
<1>1. CASE UNCHANGED <<links, client>>
  BY <1>1 DEF MessagesInv
<1>2. ASSUME NEW lids, Vxi!Drop(lids), UNCHANGED client PROVE MessagesInv'
  <2>1. \A k \in DOMAIN links' : k \in DOMAIN links /\ links'[k] = links[k]
    BY <1>2 DEF Vxi!Drop
  <2> QED
    BY <1>2, <2>1 DEF MessagesInv
<1>3. CASE Vxi!Stop
  <2>1. DOMAIN links' = {}
    BY <1>3 DEF Vxi!Stop
  <2> QED
    BY <2>1 DEF MessagesInv
<1>4. ASSUME NEW c \in Conns, NEW lock \in BOOLEAN, Vxi!CreateLink(c, lock) PROVE MessagesInv'
  <2> DEFINE l == Vxi!NewLink(c)
             k0 == [n |-> 1, i |-> 1]
  <2>1. Makes(nextLid, c)
    BY <1>4, CreateMakes
  <2>2. /\ DOMAIN client' = DOMAIN client \cup {nextLid} /\ client'[nextLid] = k0
        /\ \A k \in DOMAIN client : k # nextLid => client'[k] = client[k]
    BY <1>4 DEF Vxi!CreateLink, Vxi!With
  <2>3. Holds(l, k0)
    <3>1. l.in = <<>> /\ l.discard = FALSE /\ l.in \in Seq(Blocks) /\ Len(l.in) = 0
      BY DEF Vxi!NewLink
    <3> QED
      BY <3>1 DEF Holds
  <2> HIDE DEF l, k0
  <2>4. DOMAIN links' = DOMAIN links \cup {nextLid} /\ links'[nextLid] = l
        /\ \A k \in DOMAIN links : k # nextLid => links'[k] = links[k]
    BY <2>1 DEF Makes, l
  <2>5. \A k \in DOMAIN links' : k \in DOMAIN client' /\ Holds(links'[k], client'[k])
    BY <2>2, <2>3, <2>4 DEF MessagesInv
  <2> QED
    BY <2>5 DEF MessagesInv
<1>5. ASSUME NEW lid \in DOMAIN links, AnswersChange(lid), UNCHANGED client PROVE MessagesInv'
  <2>1. PICK out : LinkChanges(lid, [conn |-> links[lid].conn, in |-> links[lid].in, discard |-> links[lid].discard,
                                     out |-> out])
    BY <1>5 DEF AnswersChange
  <2> DEFINE l == [conn |-> links[lid].conn, in |-> links[lid].in, discard |-> links[lid].discard, out |-> out]
  <2>2. l.in = links[lid].in /\ l.discard = links[lid].discard
    OBVIOUS
  <2> HIDE DEF l
  <2>3. Holds(l, client[lid])
    BY <2>2 DEF MessagesInv, Holds
  <2>4. DOMAIN links' = DOMAIN links /\ links'[lid] = l /\ \A k \in DOMAIN links : k # lid => links'[k] = links[k]
    BY <2>1 DEF LinkChanges, l
  <2>5. \A k \in DOMAIN links' : k \in DOMAIN client' /\ Holds(links'[k], client'[k])
    BY <1>5, <2>3, <2>4 DEF MessagesInv
  <2> QED
    BY <2>5 DEF MessagesInv
<1>6. ASSUME NEW lid \in DOMAIN links, Vxi!DeviceClear(lid) PROVE MessagesInv'
  <2> DEFINE l == [conn |-> links[lid].conn, in |-> <<>>, discard |-> FALSE, out |-> <<>>]
             c == [n |-> client[lid].n + 1, i |-> 1]
  <2>1. LinkChanges(lid, l)
    BY <1>6, ClearChanges
  <2>2. client' = [client EXCEPT ![lid] = c]
    BY <1>6 DEF Vxi!DeviceClear
  <2>3. Holds(l, c)
    <3>1. client[lid].n \in Nat
      BY DEF MessagesInv, Holds
    <3>2. l.in = <<>> /\ l.discard = FALSE /\ l.in \in Seq(Blocks) /\ Len(l.in) = 0
      OBVIOUS
    <3>3. c \in [n : Nat, i : Nat \ {0}] /\ c.i = 1
      BY <3>1
    <3> QED
      BY <3>2, <3>3 DEF Holds
  <2> HIDE DEF l, c
  <2> QED
    BY <2>1, <2>2, <2>3, MessagesChange
<1>7. ASSUME NEW c \in Conns, NEW lid \in DOMAIN links, NEW end \in BOOLEAN, Vxi!WriteTooBig(c, lid, end)
      PROVE  MessagesInv'
  <2> DEFINE l == [conn |-> links[lid].conn, in |-> <<>>, discard |-> ~end, out |-> links[lid].out]
             goOn == [client[lid] EXCEPT !.i = @ + 1]
             anew == [n |-> client[lid].n + 1, i |-> 1]
  <2>1. LinkChanges(lid, l)
    BY <1>7, TooBigChanges
  <2>2. client[lid] \in [n : Nat, i : Nat \ {0}]
    BY DEF MessagesInv, Holds
  <2>3. goOn \in [n : Nat, i : Nat \ {0}] /\ anew \in [n : Nat, i : Nat \ {0}] /\ anew.i = 1
    BY <2>2
  <2>4. PICK d \in {goOn, anew} : client' = [client EXCEPT ![lid] = d] /\ (end => d = anew)
    BY <1>7 DEF Vxi!WriteTooBig, Vxi!Sent
  <2>5. l.in = <<>> /\ l.in \in Seq(Blocks) /\ Len(l.in) = 0
    OBVIOUS
  <2>6. l.discard = ~end
    BY Zenon
  <2> HIDE DEF l, goOn, anew
  <2>7. Holds(l, d)
    <3>1. CASE end
      BY <2>3, <2>4, <2>5, <2>6, <3>1 DEF Holds
    <3>2. CASE ~end
      BY <2>3, <2>4, <2>5, <2>6, <3>2 DEF Holds
    <3> QED
      BY <3>1, <3>2
  <2> QED
    BY <2>1, <2>4, <2>7, MessagesChange
<1>8. ASSUME NEW c \in Conns, NEW lid \in DOMAIN links, NEW end \in BOOLEAN, Vxi!DeviceWrite(c, lid, end)
      PROVE  MessagesInv'
  <2> DEFINE in == IF end THEN <<>> ELSE Append(links[lid].in, client[lid])
             l == [conn |-> links[lid].conn, in |-> in, discard |-> links[lid].discard, out |-> links[lid].out]
             goOn == [client[lid] EXCEPT !.i = @ + 1]
             anew == [n |-> client[lid].n + 1, i |-> 1]
             d == IF end THEN anew ELSE goOn
  <2>1. LinkChanges(lid, l)
    BY <1>8, WriteChanges
  <2>2. client[lid] \in [n : Nat, i : Nat \ {0}] /\ links[lid].in \in Seq(Blocks)
    BY DEF MessagesInv, Holds
  <2>3. client' = [client EXCEPT ![lid] = d]
    BY <1>8 DEF Vxi!DeviceWrite, Vxi!Sent
  <2>4. ~links[lid].discard
    BY <1>8 DEF Vxi!DeviceWrite
  <2>5. CASE end
    <3>1. in = <<>> /\ in \in Seq(Blocks) /\ Len(in) = 0 /\ l.in = in /\ l.discard = links[lid].discard
      BY <2>5
    <3>2. d \in [n : Nat, i : Nat \ {0}] /\ d.i = 1
      BY <2>2, <2>5
    <3>3. Holds(l, d)
      BY <2>4, <3>1, <3>2 DEF Holds
    <3> HIDE DEF l, d
    <3> QED
      BY <2>1, <2>3, <3>3, MessagesChange
  <2>6. CASE ~end
    <3> DEFINE old == links[lid].in
    <3>1. in = Append(old, client[lid]) /\ l.in = in /\ l.discard = links[lid].discard /\ d = goOn
      BY <2>6
    <3>2. /\ d \in [n : Nat, i : Nat \ {0}] /\ d.n = client[lid].n /\ d.i = client[lid].i + 1
          /\ client[lid] = [n |-> client[lid].n, i |-> client[lid].i] /\ client[lid] \in Blocks
      BY <2>2, <3>1 DEF Blocks
    <3>3. Len(old) = client[lid].i - 1 /\ \A k \in 1..Len(old) : old[k] = [n |-> client[lid].n, i |-> k]
      BY <2>4 DEF MessagesInv, Holds
    <3> HIDE DEF in, old, goOn, anew
    <3>4. /\ in \in Seq(Blocks) /\ Len(in) = Len(old) + 1 /\ in[Len(old) + 1] = client[lid] /\ Len(old) \in Nat
          /\ \A k \in 1..Len(old) : in[k] = old[k]
      BY <2>2, <3>1, <3>2 DEF old
    <3>5. Len(in) = d.i - 1
      BY <2>2, <3>2, <3>3, <3>4
    <3>6. Len(old) + 1 = client[lid].i
      BY <2>2, <3>3, <3>4
    <3>7. \A k \in 1..Len(in) : in[k] = [n |-> d.n, i |-> k]
      <4> TAKE k \in 1..Len(in)
      <4>1. k \in 1..Len(old) \/ k = Len(old) + 1
        BY <3>4
      <4>2. CASE k = Len(old) + 1
        BY <3>2, <3>4, <3>6, <4>2
      <4> QED
        BY <3>2, <3>3, <3>4, <4>1, <4>2
    <3>8. Holds(l, d)
      BY <2>4, <3>1, <3>2, <3>4, <3>5, <3>7 DEF Holds
    <3> HIDE DEF l, d
    <3> QED
      BY <2>1, <2>3, <3>8, MessagesChange
  <2> QED
    BY <2>5, <2>6
<1>9. CASE Vxi!CommandEnds
  BY <1>1, <1>5, <1>9, CommandEndsChanges DEF Vxi!CommandEnds
<1>10. \/ \E c \in Conns : \E lock \in BOOLEAN : Vxi!CreateLink(c, lock)
       \/ (\E lids : Vxi!Drop(lids)) /\ UNCHANGED client
       \/ \E c \in Conns : \E lid \in DOMAIN links : \E end \in BOOLEAN :
            Vxi!DeviceWrite(c, lid, end) \/ Vxi!WriteTooBig(c, lid, end)
       \/ \E c \in Conns : \E lid \in DOMAIN links : Vxi!DeviceRead(c, lid) /\ UNCHANGED client
       \/ \E lid \in DOMAIN links : Vxi!DeviceClear(lid)
       \/ Vxi!Stop \/ Vxi!CommandEnds \/ UNCHANGED <<links, client>>
  <2>1. ASSUME NEW c \in Conns, Vxi!Gone(c) PROVE (\E lids : Vxi!Drop(lids)) /\ UNCHANGED client
    BY <2>1 DEF Vxi!Gone
  <2>2. ASSUME NEW c \in Conns, NEW lid, Vxi!DestroyLink(c, lid) PROVE (\E lids : Vxi!Drop(lids)) /\ UNCHANGED client
    BY <2>2 DEF Vxi!DestroyLink
  <2> QED
    BY <2>1, <2>2 DEF Vxi!Next, Vxi!Connect, Vxi!Delete, Vxi!DeviceLock, Vxi!DeviceUnlock, Vxi!DeviceRead, Vxi!vars
<1> QED
  BY <1>1, <1>2, <1>3, <1>4, <1>5, <1>6, <1>7, <1>8, <1>9, <1>10, ReadChanges

\* What runs was whole when its END came, and stays so.
LEMMA WholeNext ==
  ASSUME Vxi!MessagesRunWhole, MessagesInv, CommandsInv, LinksTyped, [Vxi!Next]_(Vxi!vars)
  PROVE  Vxi!MessagesRunWhole'
<1>1. CASE UNCHANGED commands
  BY <1>1 DEF Vxi!MessagesRunWhole
<1>2. CASE Vxi!CommandEnds
  <2>1. commands' = SubSeq(commands, 1, Len(commands) - 1) /\ commands # <<>> /\ commands \in Seq(VxiCommands)
    BY <1>2 DEF Vxi!CommandEnds, Vxi!AfterCall, CommandsInv
  <2>2. \A k \in DOMAIN commands' : k \in DOMAIN commands /\ commands'[k] = commands[k]
    BY <2>1
  <2> QED
    BY <2>2 DEF Vxi!MessagesRunWhole
<1>3. ASSUME NEW c \in Conns, NEW lid \in DOMAIN links, NEW end \in BOOLEAN, Vxi!DeviceWrite(c, lid, end), end
      PROVE  Vxi!MessagesRunWhole'
  <2> DEFINE old == links[lid].in
             in == Append(old, client[lid])
             call == [conn |-> c, lid |-> lid, message |-> in]
  <2>1. commands' = Append(commands, call) /\ ~links[lid].discard
    BY <1>3 DEF Vxi!DeviceWrite
  <2>2. /\ client[lid] \in [n : Nat, i : Nat \ {0}] /\ old \in Seq(Blocks)
        /\ Len(old) = client[lid].i - 1 /\ \A k \in 1..Len(old) : old[k] = [n |-> client[lid].n, i |-> k]
    BY <2>1 DEF MessagesInv, Holds
  <2>3. client[lid] = [n |-> client[lid].n, i |-> client[lid].i] /\ client[lid] \in Blocks
    BY <2>2 DEF Blocks
  <2>4. call.message = in
    OBVIOUS
  <2> HIDE DEF call, old
  <2>5. /\ in \in Seq(Blocks) /\ Len(in) = Len(old) + 1 /\ in[Len(old) + 1] = client[lid] /\ Len(old) \in Nat
        /\ \A k \in 1..Len(old) : in[k] = old[k]
    BY <2>2, <2>3
  <2>6. Len(old) + 1 = client[lid].i
    BY <2>2, <2>5
  <2> HIDE DEF in
  <2>7. \A k \in 1..Len(in) : in[k] = [n |-> client[lid].n, i |-> k]
    <3> TAKE k \in 1..Len(in)
    <3>1. k \in 1..Len(old) \/ k = Len(old) + 1
      BY <2>5
    <3>2. CASE k = Len(old) + 1
      BY <2>3, <2>5, <2>6, <3>2
    <3> QED
      BY <2>2, <2>5, <3>1, <3>2
  <2>8. DOMAIN in = 1..Len(in) /\ 1 \in 1..Len(in)
    BY <2>5
  <2>9. \A k \in DOMAIN in : in[k] = [n |-> in[1].n, i |-> k]
    BY <2>7, <2>8
  <2>10. commands \in Seq(VxiCommands)
    BY DEF CommandsInv
  <2>11. \A k \in DOMAIN commands' : (k \in DOMAIN commands /\ commands'[k] = commands[k]) \/ commands'[k] = call
    BY <2>1, <2>10, AppendPlaces
  <2> QED
    BY <2>4, <2>9, <2>11 DEF Vxi!MessagesRunWhole
<1>4. \/ \E c \in Conns : \E lid \in DOMAIN links : \E end \in BOOLEAN : Vxi!DeviceWrite(c, lid, end)
      \/ Vxi!CommandEnds \/ UNCHANGED commands
  BY DEF Vxi!Next, Vxi!Connect, Vxi!Delete, Vxi!Gone, Vxi!Stop, Vxi!CreateLink, Vxi!DestroyLink, Vxi!DeviceLock,
         Vxi!DeviceUnlock, Vxi!DeviceRead, Vxi!WriteTooBig, Vxi!DeviceClear, Vxi!vars
<1>5. ASSUME NEW c \in Conns, NEW lid \in DOMAIN links, NEW end \in BOOLEAN, Vxi!DeviceWrite(c, lid, end), ~end
      PROVE  UNCHANGED commands
  BY <1>5 DEF Vxi!DeviceWrite
<1> QED
  BY <1>1, <1>2, <1>3, <1>4, <1>5
-----------------------------------------------------------------------------
(* Vxi11Core: its behaviours. *)

VxiInv == server = "vxi11" => /\ LinksTyped /\ ConnsTyped /\ LinksInv /\ MessagesInv /\ CommandsInv
                              /\ Vxi!MessagesRunWhole

LEMMA VxiInvHolds == Spec => []VxiInv
<1>1. Init => VxiInv
  <2> SUFFICES ASSUME Init, server = "vxi11"
               PROVE  LinksTyped /\ ConnsTyped /\ LinksInv /\ MessagesInv /\ CommandsInv /\ Vxi!MessagesRunWhole
    BY DEF VxiInv
  <2>1. Vxi!Init
    BY DEF Init, HostInit
  <2>2. links = <<>> /\ DOMAIN links = {} /\ lockOwner = -1 /\ nextLid = 1
    BY <2>1 DEF Vxi!Init
  <2>3. commands = <<>> /\ DOMAIN commands = {} /\ commands \in Seq(VxiCommands)
    BY <2>1 DEF Vxi!Init
  <2>4. conn = [c \in Conns |-> "none"] /\ stopped = {}
    BY <2>1 DEF Vxi!Init
  <2>5. LinksInv
    BY <2>2, FS_EmptySet, Assumptions DEF LinksInv
  <2> QED
    BY <2>2, <2>3, <2>4, <2>5 DEF LinksTyped, ConnsTyped, MessagesInv, CommandsInv, Vxi!MessagesRunWhole
<1>2. VxiInv /\ [Next]_mcVars => VxiInv'
  <2> SUFFICES ASSUME VxiInv, [Next]_mcVars, server' = "vxi11"
               PROVE  /\ LinksTyped' /\ ConnsTyped' /\ LinksInv' /\ MessagesInv' /\ CommandsInv'
                      /\ Vxi!MessagesRunWhole'
    BY DEF VxiInv
  <2>1. server = "vxi11" /\ [Vxi!Next]_(Vxi!vars)
    BY DEF Next, HostNext, HostInit, mcVars, hislipOnly, vxiOnly, scpiOnly, hostVars, Vxi!vars
  <2> QED
    BY <2>1, LinksTypedNext, ConnsTypedNext, LinksInvNext, MessagesInvNext, CommandsInvNext, WholeNext DEF VxiInv
<1> QED
  BY <1>1, <1>2, PTL DEF Spec

\* Vxi11Core: every link is of a client that is there and the lock of a link, whatever goes while commands run; a client
\* that goes does not take the socket from under its own call (connectionClosed(), deviceWrite(), gone()).
THEOREM LinksAreOfClients == Spec => [](server = "vxi11" => Vxi!LinksHaveClients)
<1>1. ASSUME LinksTyped, LinksInv, CommandsInv PROVE Vxi!LinksHaveClients
  <2>1. \A c \in Conns : Vxi!Busy(c) /\ c \notin stopped => conn[c] \in {"open", "gone"}
    BY <1>1, BusyAgrees DEF CommandsInv
  <2>2. Cardinality(DOMAIN links) = Vxi!Cardinality(DOMAIN links)
    BY CountsAgree
  <2> QED
    BY <1>1, <2>1, <2>2 DEF LinksTyped, LinksInv, Vxi!LinksHaveClients
<1>2. VxiInv => (server = "vxi11" => Vxi!LinksHaveClients)
  BY <1>1 DEF VxiInv
<1> QED
  BY <1>2, VxiInvHolds, PTL

\* Vxi11Core: what runs is a message of the client from its first block to its END, nothing of one too big, given up or
\* cleared (discard, abortLink()).
THEOREM BlocksRunWhole == Spec => [](server = "vxi11" => Vxi!MessagesRunWhole)
<1>1. VxiInv => (server = "vxi11" => Vxi!MessagesRunWhole)
  BY DEF VxiInv
<1> QED
  BY <1>1, VxiInvHolds, PTL
-----------------------------------------------------------------------------
(* ServiceHost: processes that register with one portmapper. *)

Fields   == {"scpi", "hislip", "all", "hislipAll", "vxiAll", "vxi", "running", "mapper", "system", "mode", "announced"}
Services == {"scpi", "hislip", "vxi11"}

IsHost(h) == h = [f \in Fields |-> h[f]] /\ h.announced = [f \in Services |-> h.announced[f]]

Steps == [do : {"unset", "close", "start", "set", "ask", "again", "registered", "gone"}, reg : 0..2]
         \cup [do : {"announce"}, config : Configs]

\* y is done after x.
Leads(x, y) ==
  /\ x.do \in {"unset", "set", "ask", "again"} => x.reg \in {1, 2}
  /\ x.do = "unset" => \/ y.do = "close"
                       \/ y.do = "again" /\ y.reg = x.reg
                       \/ x.reg = 1 /\ y.do = "unset" /\ y.reg = 2
  /\ x.do = "close" => y.do \in {"start", "announce", "gone"}
  /\ x.do = "start" => y.do = "announce"
  /\ x.do \in {"set", "ask", "again"} => IF x.reg = 1 THEN y.do = "set" /\ y.reg = 2 ELSE y.do = "registered"
  /\ x.do = "registered" => y.do = "announce"
  /\ x.do \notin {"announce", "gone"}

\* What a process has still to do: apply() ends with the announcements, the process with itself; a program is set again
\* only where an entry of it is unset first.
Planned(a) ==
  /\ \A i \in 1..(Len(a) - 1) : Leads(a[i], a[i + 1])
  /\ \A i \in DOMAIN a : a[i].do = "again" => i <= 2
  /\ a # <<>> => a[Len(a)].do \in {"announce", "gone"}

Is(a, do) == a # <<>> /\ a[1].do = do

\* A stale entry is unset.
Replacing(a) == Is(a, "unset") /\ a[2].do = "again"

\* The entry of the program g is this process's.
Owns(h, a, g) ==
  \/ (a = <<>> \/ Is(a, "announce")) /\ h.system
  \/ Is(a, "unset") /\ IF a[2].do = "close" THEN g = a[1].reg ELSE IF a[2].do = "again" THEN g < a[1].reg ELSE TRUE
  \/ (Is(a, "set") \/ Is(a, "ask") \/ Is(a, "again")) /\ g < a[1].reg
  \/ Is(a, "registered")

\* The channels listen while they are registered.
Listens(h, a) == Is(a, "set") \/ Is(a, "ask") \/ Is(a, "again") \/ Is(a, "registered") \/ Replacing(a) => h.vxi # 0

Told(h, a) ==
  /\ h.announced.scpi \in {0, h.scpi} /\ h.announced.hislip \in {0, h.hislip}
  /\ h.announced.vxi11 # 0 => (a = <<>> /\ h.running) \/ (Is(a, "announce") /\ h.running)
                              \/ (a # <<>> /\ a[Len(a)].do = "gone")

\* One process.
Proper(h, a) ==
  /\ IsHost(h) /\ h.vxi \in Free \cup {0} /\ a \in Seq(Steps) /\ Planned(a)
  /\ Is(a, "start") => ~h.system
  /\ Listens(h, a) /\ Told(h, a)

HostInv ==
  /\ DOMAIN host = Processes /\ DOMAIN at = Processes /\ \A p \in Processes : Proper(host[p], at[p])
  /\ host = [p \in Processes |-> host[p]] /\ at = [p \in Processes |-> at[p]] 
  /\ entries = [g \in {"core", "abort"} |-> entries[g]]
  /\ \A p, q \in Processes : host[p].vxi = host[q].vxi /\ host[p].vxi # 0 => p = q
  /\ \A p \in Processes, g \in {1, 2} : Owns(host[p], at[p], g) => host[p].vxi # 0 /\ entries[Host!Programs[g]] = host[p].vxi
  /\ \A p, q \in Processes : Replacing(at[p]) => ~Owns(host[q], at[q], at[p][1].reg)

\* One process has h and still to do a from now on, nobody else changes.
LEMMA OneActs ==
  ASSUME HostInv, NEW p \in Processes, NEW h, NEW a, Proper(h, a),
         host' = [host EXCEPT ![p] = h], at' = [at EXCEPT ![p] = a], entries' = [g \in {"core", "abort"} |-> entries'[g]],
         h.vxi \in {0, host[p].vxi} \/ \A q \in Processes : h.vxi # host[q].vxi,
         \A g \in {1, 2} : Owns(h, a, g) => h.vxi # 0 /\ entries'[Host!Programs[g]] = h.vxi,
         \A q \in Processes, g \in {1, 2} :
           q # p /\ Owns(host[q], at[q], g) => entries'[Host!Programs[g]] = entries[Host!Programs[g]],
         Replacing(a) => \A q \in Processes : q # p => ~Owns(host[q], at[q], a[1].reg),
         \A g \in {1, 2} : \/ Owns(h, a, g) => Owns(host[p], at[p], g)
                           \/ \A q \in Processes : q # p => ~Replacing(at[q])
  PROVE  HostInv'
<1>1. /\ DOMAIN host' = Processes /\ DOMAIN at' = Processes /\ host'[p] = h /\ at'[p] = a
      /\ \A q \in Processes : q # p => host'[q] = host[q] /\ at'[q] = at[q]
      /\ host' = [q \in Processes |-> host'[q]] /\ at' = [q \in Processes |-> at'[q]]
  BY DEF HostInv
<1>2. \A q \in Processes : Proper(host'[q], at'[q])
  BY <1>1 DEF HostInv
<1>3. ASSUME NEW q \in Processes, NEW r \in Processes, host'[q].vxi = host'[r].vxi, host'[q].vxi # 0
      PROVE  q = r
  BY <1>1, <1>3 DEF HostInv
<1>4. ASSUME NEW q \in Processes, NEW g \in {1, 2}, Owns(host'[q], at'[q], g)
      PROVE  host'[q].vxi # 0 /\ entries'[Host!Programs[g]] = host'[q].vxi
  <2>1. CASE q = p
    BY <1>1, <1>4, <2>1
  <2>2. CASE q # p
    BY <1>1, <1>4, <2>2 DEF HostInv
  <2> QED
    BY <2>1, <2>2
<1>5. ASSUME NEW q \in Processes, NEW r \in Processes, Replacing(at'[q])
      PROVE  ~Owns(host'[r], at'[r], at'[q][1].reg)
  <2>1. at'[q][1].reg \in {1, 2}
    <3>1. at'[q] \in Seq(Steps) /\ Planned(at'[q]) /\ at'[q] # <<>> /\ at'[q][1].do = "unset"
      BY <1>2, <1>5 DEF Proper, Replacing, Is
    <3> DEFINE b == at'[q]
    <3>2. b \in Seq(Steps) /\ Planned(b) /\ b # <<>> /\ b[1].do = "unset"
      BY <3>1
    <3> HIDE DEF b
    <3>3. Len(b) \in Nat \ {0}
      BY <3>2
    <3>4. b[Len(b)].do \in {"announce", "gone"} /\ \A i \in 1..(Len(b) - 1) : Leads(b[i], b[i + 1])
      BY <3>2 DEF Planned
    <3>5. 1 \in 1..(Len(b) - 1)
      BY <3>2, <3>3, <3>4
    <3>6. Leads(b[1], b[1 + 1])
      BY <3>4, <3>5
    <3> QED
      BY <3>2, <3>6 DEF Leads, b
  <2>2. CASE q # p /\ r # p
    BY <1>1, <1>5, <2>2 DEF HostInv
  <2>3. CASE q # p /\ r = p
    BY <1>1, <1>5, <2>1, <2>3 DEF HostInv
  <2>4. CASE q = p /\ r # p
    BY <1>1, <1>5, <2>4
  <2>5. CASE q = p /\ r = p
    <3>1. Replacing(a) /\ a[1].reg \in {1, 2}
      BY <1>1, <1>5, <2>1, <2>5
    <3>2. ~Owns(h, a, a[1].reg)
      BY <3>1 DEF Owns, Replacing, Is
    <3> QED
      BY <1>1, <2>5, <3>2
  <2> QED
    BY <2>2, <2>3, <2>4, <2>5
<1> QED
  BY <1>1, <1>2, <1>3, <1>4, <1>5 DEF HostInv

LEMMA SeqOf ==
  ASSUME NEW S, NEW q \in Seq(S)
  PROVE  /\ DOMAIN q = 1..Len(q) /\ Len(q) \in Nat /\ (q = <<>> <=> Len(q) = 0)
         /\ \A k \in DOMAIN q : q[k] \in S
OBVIOUS

LEMMA TailOf ==
  ASSUME NEW S, NEW q \in Seq(S), q # <<>>
  PROVE  /\ Tail(q) \in Seq(S) /\ Len(Tail(q)) = Len(q) - 1 /\ DOMAIN Tail(q) = 1..(Len(q) - 1) /\ Head(q) = q[1]
         /\ Len(q) \in Nat \ {0} /\ \A k \in DOMAIN Tail(q) : Tail(q)[k] = q[k + 1]
OBVIOUS

\* The first thing is done.
LEMMA FirstDone ==
  ASSUME NEW a \in Seq(Steps), Planned(a), a # <<>>
  PROVE  /\ Head(a) = a[1] /\ a[1] \in Steps /\ Tail(a) \in Seq(Steps) /\ Planned(Tail(a))
         /\ Tail(a) = <<>> <=> a[1].do \in {"announce", "gone"}
         /\ Tail(a) # <<>> => Leads(a[1], a[2]) /\ Tail(a)[1] = a[2] /\ Tail(a)[Len(Tail(a))] = a[Len(a)] /\ a[2] \in Steps
         /\ a[1].do # "unset" => \A i \in DOMAIN Tail(a) : Tail(a)[i].do # "again"
         /\ a[1].do = "unset" /\ a[2].do # "close" => Leads(a[2], a[3]) /\ Tail(a)[2] = a[3] /\ a[2] \in Steps
                                                      /\ (a[2].do = "unset" => a[3].do # "again")
<1> DEFINE t == Tail(a)
           n == Len(a)
<1>1. /\ DOMAIN a = 1..n /\ n \in Nat \ {0} /\ \A i \in 1..n : a[i] \in Steps
      /\ t \in Seq(Steps) /\ Len(t) = n - 1 /\ DOMAIN t = 1..(n - 1) /\ Head(a) = a[1]
      /\ \A i \in 1..(n - 1) : t[i] = a[i + 1]
  BY SeqOf, TailOf
<1>2. /\ \A i \in 1..(n - 1) : Leads(a[i], a[i + 1])
      /\ \A i \in 1..n : a[i].do = "again" => i <= 2
      /\ a[n].do \in {"announce", "gone"}
  BY <1>1 DEF Planned
<1> HIDE DEF t, n
<1>3. t = <<>> <=> n = 1
  BY <1>1, SeqOf
<1>4. n # 1 => Leads(a[1], a[2]) /\ t[1] = a[2] /\ t[Len(t)] = a[n] /\ a[2] \in Steps
  <2> SUFFICES ASSUME n # 1 PROVE Leads(a[1], a[2]) /\ t[1] = a[2] /\ t[Len(t)] = a[n] /\ a[2] \in Steps
    OBVIOUS
  <2>1. 1 \in 1..(n - 1) /\ n - 1 \in 1..(n - 1) /\ n - 1 + 1 = n /\ 1 + 1 = 2 /\ 2 \in 1..n
    BY <1>1
  <2>2. Leads(a[1], a[1 + 1]) /\ t[1] = a[1 + 1] /\ t[n - 1] = a[n - 1 + 1]
    BY <1>1, <1>2, <2>1
  <2> QED
    BY <1>1, <2>1, <2>2
<1>5. a[1].do \in {"announce", "gone"} => n = 1
  BY <1>4 DEF Leads
<1>6. n = 1 => a[1].do \in {"announce", "gone"}
  BY <1>2
<1>7. Planned(t)
  <2>1. ASSUME NEW i \in 1..(Len(t) - 1) PROVE Leads(t[i], t[i + 1])
    <3>1. i \in 1..(n - 1) /\ i + 1 \in 1..(n - 1)
      BY <1>1
    <3>2. t[i] = a[i + 1] /\ t[i + 1] = a[i + 1 + 1]
      BY <1>1, <3>1
    <3> QED
      BY <1>2, <3>1, <3>2
  <2>2. ASSUME NEW i \in DOMAIN t, t[i].do = "again" PROVE i <= 2
    <3>1. i \in 1..(n - 1) /\ i + 1 \in 1..n /\ a[i + 1].do = "again"
      BY <1>1, <2>2
    <3>2. i + 1 <= 2
      BY <1>2, <3>1
    <3> QED
      BY <1>1, <3>1, <3>2
  <2>3. t # <<>> => t[Len(t)].do \in {"announce", "gone"}
    BY <1>2, <1>3, <1>4
  <2> QED
    BY <2>1, <2>2, <2>3 DEF Planned
<1>8. ASSUME a[1].do # "unset", NEW i \in DOMAIN t PROVE t[i].do # "again"
  <2> SUFFICES ASSUME t[i].do = "again" PROVE FALSE
    OBVIOUS
  <2>1. i \in 1..(n - 1) /\ i + 1 \in 1..n /\ t[i] = a[i + 1]
    BY <1>1, <1>8
  <2>2. i + 1 <= 2
    BY <1>2, <2>1
  <2>3. i = 1 /\ n # 1
    BY <1>1, <2>1, <2>2
  <2>4. a[2].do = "again" /\ Leads(a[1], a[2])
    BY <1>4, <2>1, <2>3
  <2> QED
    BY <1>1, <1>8, <2>4 DEF Leads, Steps
<1>9. ASSUME a[1].do = "unset", a[2].do # "close"
      PROVE  Leads(a[2], a[3]) /\ t[2] = a[3] /\ a[2] \in Steps /\ (a[2].do = "unset" => a[3].do # "again")
  <2>1. n # 1
    BY <1>6, <1>9
  <2>2. a[2].do \notin {"announce", "gone"} /\ a[2] \in Steps
    BY <1>4, <1>9, <2>1 DEF Leads
  <2>3. n # 2
    BY <1>2, <2>2
  <2>4. 2 \in 1..(n - 1) /\ 3 \in 1..n
    BY <1>1, <2>1, <2>3
  <2>5. Leads(a[2], a[2 + 1]) /\ t[2] = a[2 + 1]
    BY <1>1, <1>2, <2>4
  <2>6. a[3].do # "again"
    BY <1>2, <2>4
  <2> QED
    BY <2>2, <2>5, <2>6
<1>10. t = <<>> <=> a[1].do \in {"announce", "gone"}
  BY <1>3, <1>5, <1>6
<1>11. Head(a) = a[1] /\ a[1] \in Steps /\ t \in Seq(Steps)
  BY <1>1
<1>12. t # <<>> => Leads(a[1], a[2]) /\ t[1] = a[2] /\ t[Len(t)] = a[n] /\ a[2] \in Steps
  BY <1>3, <1>4
<1>13. a[1].do # "unset" => \A i \in DOMAIN t : t[i].do # "again"
  BY <1>8
<1> QED
  BY <1>7, <1>9, <1>10, <1>11, <1>12, <1>13 DEF t, n

\* More is to be done before.
LEMMA PutBefore ==
  ASSUME NEW n \in Seq(Steps), n # <<>>, NEW q \in Seq(Steps), q # <<>>, Planned(q),
         \A i \in DOMAIN q : q[i].do # "again", \A i \in 1..(Len(n) - 1) : Leads(n[i], n[i + 1]),
         \A i \in DOMAIN n : n[i].do = "again" => i <= 2, Leads(n[Len(n)], q[1])
  PROVE  /\ n \o q \in Seq(Steps) /\ Planned(n \o q) /\ n \o q # <<>> /\ (n \o q)[1] = n[1]
         /\ (n \o q)[2] = (IF Len(n) = 1 THEN q[1] ELSE n[2]) /\ (n \o q)[Len(n \o q)] = q[Len(q)]
<1> DEFINE a == n \o q
           k == Len(n)
           l == Len(q)
<1>1. k \in Nat \ {0} /\ l \in Nat \ {0} /\ DOMAIN n = 1..k /\ DOMAIN q = 1..l
  BY SeqOf
<1>2. a \in Seq(Steps) /\ Len(a) = k + l
  BY ConcatProperties
<1>3. \A i \in 1..(k + l) : a[i] = IF i <= k THEN n[i] ELSE q[i - k]
  BY ConcatProperties
<1>4. DOMAIN a = 1..(k + l) /\ a # <<>>
  BY <1>1, <1>2, SeqOf
<1>5. Leads(n[k], q[1]) /\ \A i \in 1..(k - 1) : Leads(n[i], n[i + 1])
  OBVIOUS
<1>6. \A i \in 1..(l - 1) : Leads(q[i], q[i + 1])
  BY DEF Planned
<1>7. q[l].do \in {"announce", "gone"}
  BY DEF Planned
<1> HIDE DEF a, k, l
<1>8. ASSUME NEW i \in 1..(Len(a) - 1) PROVE Leads(a[i], a[i + 1])
  <2>1. i \in 1..(k + l) /\ i + 1 \in 1..(k + l)
    BY <1>1, <1>2
  <2>2. CASE i < k
    <3>1. i \in 1..(k - 1) /\ a[i] = n[i] /\ a[i + 1] = n[i + 1]
      BY <1>1, <1>3, <2>1, <2>2
    <3> QED
      BY <1>5, <3>1
  <2>3. CASE i = k
    <3>1. ~(i + 1 <= k) /\ i + 1 - k = 1
      BY <1>1, <2>3
    <3>2. a[i] = n[k] /\ a[i + 1] = q[1]
      BY <1>1, <1>3, <2>1, <2>3, <3>1
    <3> QED
      BY <1>5, <3>2
  <2>4. CASE i > k
    <3>1. i - k \in 1..(l - 1) /\ ~(i <= k) /\ ~(i + 1 <= k) /\ i + 1 - k = (i - k) + 1
      BY <1>1, <1>2, <2>4
    <3>2. a[i] = q[i - k]
      BY <1>3, <2>1, <3>1
    <3>3. PICK j \in 1..(k + l) : j = i + 1
      BY <2>1
    <3>4. a[j] = q[j - k] /\ j - k = (i - k) + 1
      BY <1>1, <1>3, <2>1, <3>1, <3>3
    <3> QED
      BY <1>6, <3>1, <3>2, <3>3, <3>4
  <2> QED
    BY <1>1, <2>1, <2>2, <2>3, <2>4
<1>9. ASSUME NEW i \in DOMAIN a, a[i].do = "again" PROVE i <= 2
  <2>1. i \in 1..(k + l)
    BY <1>4
  <2>2. CASE i <= k
    <3>1. i \in 1..k /\ a[i] = n[i]
      BY <1>1, <1>3, <2>1, <2>2
    <3> QED
      BY <1>1, <1>9, <3>1
  <2>3. CASE ~(i <= k)
    <3>1. i - k \in 1..l /\ a[i] = q[i - k]
      BY <1>1, <1>3, <2>1, <2>3
    <3> QED
      BY <1>1, <1>9, <3>1
  <2> QED
    BY <2>2, <2>3
<1>10. a[1] = n[1]
  <2>1. 1 \in 1..(k + l) /\ 1 <= k
    BY <1>1
  <2> QED
    BY <1>3, <2>1
<1>11. a[2] = IF k = 1 THEN q[1] ELSE n[2]
  <2>1. 2 \in 1..(k + l) /\ (2 <= k <=> k # 1) /\ (k = 1 => 2 - k = 1)
    BY <1>1
  <2> QED
    BY <1>3, <2>1
<1>12. a[Len(a)] = q[l]
  <2>1. PICK j \in 1..(k + l) : j = Len(a) /\ ~(j <= k) /\ j - k = l
    BY <1>1, <1>2
  <2>2. a[j] = q[j - k]
    BY <1>3, <2>1
  <2> QED
    BY <2>1, <2>2
<1>13. Planned(a)
  BY <1>7, <1>8, <1>9, <1>12 DEF Planned
<1> QED
  BY <1>2, <1>4, <1>10, <1>11, <1>12, <1>13 DEF a, k, l

\* Members are set one by one.
LEMMA MemberSet ==
  ASSUME NEW h, IsHost(h), NEW f \in Fields \ {"announced"}, NEW v
  PROVE  /\ IsHost([h EXCEPT ![f] = v]) /\ [h EXCEPT ![f] = v][f] = v
         /\ \A g \in Fields \ {f} : [h EXCEPT ![f] = v][g] = h[g]
BY DEF IsHost, Fields

LEMMA AnnouncedSet ==
  ASSUME NEW h, IsHost(h), NEW f \in Services, NEW v
  PROVE  /\ IsHost(Host!Announced(h, f, v)) /\ Host!Announced(h, f, v).announced[f] = v
         /\ \A g \in Services \ {f} : Host!Announced(h, f, v).announced[g] = h.announced[g]
         /\ \A g \in Fields \ {"announced"} : Host!Announced(h, f, v)[g] = h[g]
BY DEF IsHost, Fields, Host!Announced

LEMMA NewHostIs ==
  /\ IsHost(Host!NewHost) /\ Host!NewHost.vxi = 0 /\ ~Host!NewHost.system /\ ~Host!NewHost.running /\ Host!NewHost.scpi = 0
  /\ Host!NewHost.hislip = 0 /\ Host!NewHost.announced.scpi = 0 /\ Host!NewHost.announced.hislip = 0
  /\ Host!NewHost.announced.vxi11 = 0
BY DEF IsHost, Fields, Services, Host!NewHost

\* What the servers that find their ports by themselves leave of a host.
Beside(d, h) ==
  /\ IsHost(d) /\ d.vxi = h.vxi /\ d.running = h.running /\ d.system = h.system
  /\ d.announced.vxi11 = h.announced.vxi11
  /\ d.announced.scpi \in {0, d.scpi} /\ d.announced.hislip \in {0, d.hislip}

LEMMA ScpiBeside ==
  ASSUME NEW h, IsHost(h), h.announced.scpi \in {0, h.scpi}, h.announced.hislip \in {0, h.hislip}, NEW c, NEW held
  PROVE  Beside(Host!ScpiApplied(h, c, held), h)
<1> DEFINE n == Host!FirstFree(c.port, held \cup (Host!PortsOf(h) \ {h.scpi}))
           e == Host!Announced(h, "scpi", 0)
<1>1. /\ IsHost(e) /\ e.announced["scpi"] = 0 /\ \A g \in Services \ {"scpi"} : e.announced[g] = h.announced[g]
      /\ \A g \in Fields \ {"announced"} : e[g] = h[g]
  BY AnnouncedSet DEF Services
<1> HIDE DEF e
<1>2. ASSUME NEW v PROVE Beside([e EXCEPT !.scpi = v], h)
  BY <1>1, MemberSet DEF Beside, Fields, Services
<1>3. ASSUME NEW v, NEW w PROVE Beside([e EXCEPT !.scpi = v, !.all = w], h)
  <2> DEFINE d == [e EXCEPT !.scpi = v]
  <2>1. [e EXCEPT !.scpi = v, !.all = w] = [d EXCEPT !.all = w]
    OBVIOUS
  <2>2. Beside(d, h)
    BY <1>2
  <2> HIDE DEF d
  <2>3. Beside([d EXCEPT !.all = w], h)
    BY <2>2, MemberSet DEF Beside, Fields, Services
  <2> QED
    BY <2>1, <2>3
<1>4. Beside(h, h)
  BY DEF Beside
<1> HIDE DEF n
<1> QED
  BY <1>2, <1>3, <1>4 DEF Host!ScpiApplied, e, n

LEMMA HislipBeside ==
  ASSUME NEW h, IsHost(h), h.announced.scpi \in {0, h.scpi}, h.announced.hislip \in {0, h.hislip}, NEW c, NEW held
  PROVE  Beside(Host!HislipApplied(h, c, held), h)
<1> DEFINE n == Host!FirstFree(c.hislipPort, held \cup (Host!PortsOf(h) \ {h.hislip}))
           e == Host!Announced(h, "hislip", 0)
<1>1. /\ IsHost(e) /\ e.announced["hislip"] = 0 /\ \A g \in Services \ {"hislip"} : e.announced[g] = h.announced[g]
      /\ \A g \in Fields \ {"announced"} : e[g] = h[g]
  BY AnnouncedSet DEF Services
<1> HIDE DEF e
<1>2. ASSUME NEW v PROVE Beside([e EXCEPT !.hislip = v], h)
  BY <1>1, MemberSet DEF Beside, Fields, Services
<1>3. ASSUME NEW v, NEW w PROVE Beside([e EXCEPT !.hislip = v, !.hislipAll = w], h)
  <2> DEFINE d == [e EXCEPT !.hislip = v]
  <2>1. [e EXCEPT !.hislip = v, !.hislipAll = w] = [d EXCEPT !.hislipAll = w]
    OBVIOUS
  <2>2. Beside(d, h)
    BY <1>2
  <2> HIDE DEF d
  <2>3. Beside([d EXCEPT !.hislipAll = w], h)
    BY <2>2, MemberSet DEF Beside, Fields, Services
  <2> QED
    BY <2>1, <2>3
<1>4. Beside(h, h)
  BY DEF Beside
<1> HIDE DEF n
<1> QED
  BY <1>2, <1>3, <1>4 DEF Host!HislipApplied, e, n

LEMMA StoppingIs ==
  ASSUME NEW h, NEW next \in Seq(Steps), next # <<>>, Planned(next), next[1].do \in {"start", "announce", "gone"},
         \A i \in DOMAIN next : next[i].do # "again"
  PROVE  LET a == Host!Stopping(h, next)
         IN /\ a \in Seq(Steps) /\ Planned(a) /\ a # <<>> /\ a[Len(a)] = next[Len(next)]
            /\ IF h.system THEN a[1] = Host!Step("unset", 1) /\ a[2] = Host!Step("unset", 2)
               ELSE a[1] = Host!Step("close", 0)
<1> DEFINE u == Host!Step("unset", 1)
           v == Host!Step("unset", 2)
           c == Host!Step("close", 0)
<1>1. /\ u \in Steps /\ v \in Steps /\ c \in Steps /\ u.do = "unset" /\ v.do = "unset" /\ c.do = "close"
      /\ u.reg = 1 /\ v.reg = 2
  BY DEF Host!Step, Steps
<1> HIDE DEF u, v, c
<1>2. Leads(u, v) /\ Leads(v, c) /\ Leads(c, next[1])
  BY <1>1 DEF Leads
<1>3. CASE h.system
  <2> DEFINE n == <<u, v, c>>
             m == <<u, v>> \o <<c>>
  <2>0. n \in Seq(Steps)
    BY <1>1
  <2>1. m = n /\ n \in Seq(Steps) /\ n # <<>> /\ Len(n) = 3 /\ DOMAIN n = 1..3 /\ n[1] = u /\ n[2] = v /\ n[3] = c
    <3>1. m = n
      <4> DEFINE d == <<u, v>>
                 e == <<c>>
      <4>1. /\ d \in Seq(Steps) /\ Len(d) = 2 /\ d[1] = u /\ d[2] = v
            /\ e \in Seq(Steps) /\ Len(e) = 1 /\ e[1] = c /\ m = d \o e
            /\ Len(n) = 3 /\ n[1] = u /\ n[2] = v /\ n[3] = c
        BY <1>1
      <4> HIDE DEF d, e, n, m
      <4>2. /\ d \o e \in Seq(Steps) /\ Len(d \o e) = Len(d) + Len(e)
            /\ \A i \in 1..(Len(d) + Len(e)) : (d \o e)[i] = IF i <= Len(d) THEN d[i] ELSE e[i - Len(d)]
        BY <4>1, ConcatProperties
      <4>3. Len(m) = 3 /\ m[1] = u /\ m[2] = v /\ m[3] = c /\ m \in Seq(Steps)
        BY <4>1, <4>2
      <4>4. \A i \in 1..Len(m) : m[i] = n[i]
        <5>1. \A i \in 1..Len(m) : i = 1 \/ i = 2 \/ i = 3
          BY <4>3
        <5> QED
          BY <4>1, <4>3, <5>1
      <4> QED
        BY <2>0, <4>1, <4>3, <4>4, SeqEqual
    <3>2. n # <<>> /\ Len(n) = 3 /\ DOMAIN n = 1..3 /\ n[1] = u /\ n[2] = v /\ n[3] = c
      OBVIOUS
    <3> QED
      BY <2>0, <3>1, <3>2
  <2>2. Host!Stopping(h, next) = m \o next
    BY <1>3 DEF Host!Stopping, u, v, c
  <2> HIDE DEF n, m
  <2>3. \A i \in 1..(Len(n) - 1) : Leads(n[i], n[i + 1])
    <3>1. \A i \in 1..(Len(n) - 1) : i = 1 \/ i = 2
      BY <2>1
    <3>2. Leads(n[1], n[1 + 1]) /\ Leads(n[2], n[2 + 1])
      BY <1>2, <2>1
    <3> QED
      BY <3>1, <3>2
  <2>4. \A i \in DOMAIN n : n[i].do # "again"
    <3>1. \A i \in DOMAIN n : i = 1 \/ i = 2 \/ i = 3
      BY <2>1
    <3> QED
      BY <1>1, <2>1, <3>1
  <2>5. /\ n \o next \in Seq(Steps) /\ Planned(n \o next) /\ n \o next # <<>> /\ (n \o next)[1] = n[1]
        /\ (n \o next)[2] = (IF Len(n) = 1 THEN next[1] ELSE n[2])
        /\ (n \o next)[Len(n \o next)] = next[Len(next)]
    <3>1. Leads(n[Len(n)], next[1])
      BY <1>2, <2>1
    <3> QED
      BY <2>1, <2>3, <2>4, <3>1, PutBefore
  <2> QED
    BY <1>3, <2>1, <2>2, <2>5 DEF u, v
<1>4. CASE ~h.system
  <2> DEFINE n == <<c>>
  <2>1. n \in Seq(Steps) /\ n # <<>> /\ Len(n) = 1 /\ DOMAIN n = 1..1 /\ n[1] = c /\ <<>> \o <<c>> = n
    BY <1>1
  <2>2. Host!Stopping(h, next) = n \o next
    BY <1>4, <2>1 DEF Host!Stopping, c
  <2> HIDE DEF n
  <2>3. \A i \in 1..(Len(n) - 1) : Leads(n[i], n[i + 1])
    BY <2>1
  <2>4. \A i \in DOMAIN n : n[i].do # "again"
    BY <1>1, <2>1
  <2>5. /\ n \o next \in Seq(Steps) /\ Planned(n \o next) /\ n \o next # <<>> /\ (n \o next)[1] = n[1]
        /\ (n \o next)[Len(n \o next)] = next[Len(next)]
    <3>1. Leads(n[Len(n)], next[1])
      BY <1>2, <2>1
    <3> QED
      BY <2>1, <2>3, <2>4, <3>1, PutBefore
  <2> QED
    BY <1>4, <2>1, <2>2, <2>5 DEF c
<1> QED
  BY <1>3, <1>4

\* What a process has to do, and what is left when the first of it is done.
LEMMA NowDoes ==
  ASSUME HostInv, NEW p \in Processes
  PROVE  /\ Proper(host[p], at[p]) /\ at[p] \in Seq(Steps) /\ Planned(at[p])
         /\ ~Host!Idle(p) => at[p] # <<>> /\ Host!Next1(p) = at[p][1]
         /\ ~Host!Idle(p) /\ Host!Goes(p, <<>>) => at' = [at EXCEPT ![p] = Tail(at[p])]
<1>1. Proper(host[p], at[p]) /\ at[p] \in Seq(Steps) /\ Planned(at[p]) /\ DOMAIN at = Processes
  BY DEF HostInv, Proper
<1>2. ASSUME ~Host!Idle(p)
      PROVE  at[p] # <<>> /\ Host!Next1(p) = at[p][1] /\ <<>> \o Tail(at[p]) = Tail(at[p])
  <2>1. at[p] # <<>>
    BY <1>2 DEF Host!Idle
  <2>2. Tail(at[p]) \in Seq(Steps) /\ Head(at[p]) = at[p][1]
    BY <1>1, <2>1, FirstDone
  <2> QED
    BY <2>1, <2>2, ConcatEmptySeq DEF Host!Next1
<1> QED
  BY <1>1, <1>2 DEF Host!Goes

LEMMA UnsetKeeps ==
  ASSUME HostInv, NEW p \in Processes, Host!Unset(p)
  PROVE  HostInv'
<1> DEFINE h == host[p]
           a == at[p]
           t == Tail(a)
           r == a[1].reg
<1>1. /\ Proper(h, a) /\ a \in Seq(Steps) /\ Planned(a) /\ a # <<>> /\ a[1].do = "unset"
      /\ at' = [at EXCEPT ![p] = t] /\ entries' = [entries EXCEPT ![Host!Programs[r]] = 0] /\ UNCHANGED host
  BY NowDoes DEF Host!Unset
<1>2. /\ t \in Seq(Steps) /\ Planned(t) /\ t # <<>> /\ Leads(a[1], a[2]) /\ t[1] = a[2] /\ t[Len(t)] = a[Len(a)]
      /\ a[2].do # "close" => Leads(a[2], a[3]) /\ t[2] = a[3] /\ (a[2].do = "unset" => a[3].do # "again")
  BY <1>1, FirstDone
<1>3. /\ r \in {1, 2} /\ a[2].do \in {"close", "again", "unset"} /\ (a[2].do = "again" => a[2].reg = r)
      /\ a[2].do = "unset" => r = 1 /\ a[2].reg = 2 /\ a[3].do = "close"
  BY <1>1, <1>2 DEF Leads
<1>4. h = host[p] /\ a = at[p] /\ host = [q \in Processes |-> host[q]]
  BY DEF HostInv
<1>5. Is(a, "unset") /\ ~Is(a, "announce") /\ ~Is(a, "set") /\ ~Is(a, "ask") /\ ~Is(a, "again") /\ ~Is(a, "registered")
  BY <1>1 DEF Is
<1>6. host' = [host EXCEPT ![p] = h]
  BY <1>1, <1>4
<1>7. /\ entries' = [g \in {"core", "abort"} |-> entries'[g]] /\ Host!Programs[1] = "core" /\ Host!Programs[2] = "abort"
      /\ \A g \in {1, 2} : entries'[Host!Programs[g]] = IF g = r THEN 0 ELSE entries[Host!Programs[g]]
  <2>1. entries = [g \in {"core", "abort"} |-> entries[g]] /\ Host!Programs[1] = "core" /\ Host!Programs[2] = "abort"
    BY DEF HostInv, Host!Programs
  <2>2. entries' = [entries EXCEPT ![Host!Programs[r]] = 0] /\ r \in {1, 2}
    BY <1>1, <1>3
  <2> HIDE DEF r
  <2> QED
    BY <2>1, <2>2
<1>8. \A g \in {1, 2} : Owns(h, a, g) => h.vxi # 0 /\ entries[Host!Programs[g]] = h.vxi
  BY DEF HostInv
<1>9. \A q \in Processes : Replacing(a) => ~Owns(host[q], at[q], r)
  BY DEF HostInv
<1> HIDE DEF h, a, t, r
<1>10. \A g \in {1, 2} : Owns(h, t, g) => Owns(h, a, g) /\ g # r
  BY <1>2, <1>3, <1>5 DEF Owns, Is, r
<1>11. Proper(h, t)
  <2>1. ~Is(t, "start") /\ ~Replacing(t)
    BY <1>2, <1>3 DEF Is, Replacing
  <2>2. Listens(h, t)
    BY <1>1, <1>2, <1>3, <1>5, <2>1 DEF Proper, Listens, Replacing, Is
  <2>3. Told(h, t)
    BY <1>1, <1>2, <1>5 DEF Proper, Told
  <2> QED
    BY <1>1, <1>2, <2>1, <2>2, <2>3 DEF Proper
<1>12. ASSUME NEW q \in Processes, NEW g \in {1, 2}, q # p, Owns(host[q], at[q], g)
       PROVE  entries'[Host!Programs[g]] = entries[Host!Programs[g]]
  <2> SUFFICES ASSUME g = r PROVE FALSE
    BY <1>7
  <2>1. ~Replacing(a)
    BY <1>9, <1>12
  <2>2. Owns(h, a, g)
    BY <1>3, <1>5, <2>1 DEF Owns, Replacing, Is, r
  <2>3. host[q].vxi # 0 /\ entries[Host!Programs[g]] = host[q].vxi
    BY <1>12 DEF HostInv
  <2>4. host[q].vxi = host[p].vxi
    BY <1>4, <1>8, <2>2, <2>3
  <2> QED
    BY <1>12, <2>3, <2>4 DEF HostInv
<1>13. ~Replacing(t)
  BY <1>2, <1>3 DEF Is, Replacing
<1>14. \A g \in {1, 2} : Owns(h, t, g) => h.vxi # 0 /\ entries'[Host!Programs[g]] = h.vxi
  BY <1>7, <1>8, <1>10
<1>15. \A g \in {1, 2} : Owns(h, t, g) => Owns(host[p], at[p], g)
  BY <1>4, <1>10
<1>16. at' = [at EXCEPT ![p] = t] /\ h.vxi \in {0, host[p].vxi} /\ entries' = [g \in {"core", "abort"} |-> entries'[g]]
  BY <1>1, <1>4, <1>7
<1> QED
  BY <1>6, <1>11, <1>12, <1>13, <1>14, <1>15, <1>16, OneActs

\* A step of a process that leaves the entries, and gains none.
LEMMA OneGoesOn ==
  ASSUME HostInv, NEW p \in Processes, NEW h, NEW a, Proper(h, a), UNCHANGED entries,
         host' = [host EXCEPT ![p] = h], at' = [at EXCEPT ![p] = a],
         h.vxi \in {0, host[p].vxi} \/ \A q \in Processes : h.vxi # host[q].vxi,
         \A g \in {1, 2} : Owns(h, a, g) => Owns(host[p], at[p], g) /\ h.vxi = host[p].vxi,
         Replacing(a) => \A q \in Processes : q # p => ~Owns(host[q], at[q], a[1].reg)
  PROVE  HostInv'
<1>1. \A g \in {1, 2} : Owns(h, a, g) => h.vxi # 0 /\ entries'[Host!Programs[g]] = h.vxi
  BY DEF HostInv
<1>2. entries' = [g \in {"core", "abort"} |-> entries'[g]]
  BY DEF HostInv
<1> QED
  BY <1>1, <1>2, OneActs

\* What comes before the last of apply() and of the end.
LEMMA FirstsIs ==
  ASSUME NEW h, NEW a, Proper(h, a), a # <<>>, a[1].do \notin {"announce", "gone"}
  PROVE  /\ a[1].do \in {"unset", "close", "start", "set", "ask", "again", "registered"}
         /\ Head(a) = a[1] /\ Tail(a) \in Seq(Steps) /\ Planned(Tail(a)) /\ Tail(a) # <<>> /\ Leads(a[1], a[2])
         /\ Tail(a)[1] = a[2] /\ Tail(a)[Len(Tail(a))] = a[Len(a)]
         /\ h.announced.vxi11 # 0 => a[Len(a)].do = "gone"
         /\ h.announced.scpi \in {0, h.scpi} /\ h.announced.hislip \in {0, h.hislip} /\ IsHost(h) /\ h.vxi \in Free \cup {0}
<1>1. a \in Seq(Steps) /\ Planned(a) /\ Told(h, a) /\ IsHost(h) /\ h.vxi \in Free \cup {0}
  BY DEF Proper
<1>2. /\ Head(a) = a[1] /\ a[1] \in Steps /\ Tail(a) \in Seq(Steps) /\ Planned(Tail(a)) /\ Tail(a) # <<>>
      /\ Leads(a[1], a[2]) /\ Tail(a)[1] = a[2] /\ Tail(a)[Len(Tail(a))] = a[Len(a)]
  BY <1>1, FirstDone
<1>3. a[1].do \in {"unset", "close", "start", "set", "ask", "again", "registered"}
  BY <1>2 DEF Steps
<1> QED
  BY <1>1, <1>2, <1>3 DEF Told, Is

\* After the last of them there is nothing.
LEMMA LastIs ==
  ASSUME NEW a \in Seq(Steps), Planned(a), a # <<>>, a[1].do \in {"announce", "gone"}
  PROVE  Tail(a) = <<>> /\ a[1] = a[Len(a)] /\ a = <<a[1]>> /\ Len(a) = 1
<1>1. Tail(a) = <<>>
  BY FirstDone
<1>2. Len(a) = 1
  <2> DEFINE t == Tail(a)
             n == Len(a)
  <2>1. t \in Seq(Steps) /\ Len(t) = n - 1 /\ n \in Nat /\ t = <<>>
    BY <1>1, TailOf
  <2> HIDE DEF t, n
  <2>2. Len(t) = 0
    BY <2>1, SeqOf
  <2>3. n = 1
    BY <2>1, <2>2
  <2> QED
    BY <2>3 DEF n
<1>3. a = <<a[1]>>
  <2> DEFINE x == a[1]
             b == <<x>>
  <2>1. x \in Steps
    BY <1>2, SeqOf
  <2> HIDE DEF x
  <2>2. b \in Seq(Steps) /\ Len(b) = 1 /\ b[1] = x
    BY <2>1
  <2>3. \A i \in 1..Len(a) : a[i] = b[i]
    BY <1>2, <2>2 DEF x
  <2> HIDE DEF b
  <2>4. a = b
    BY <1>2, <2>2, <2>3, SeqEqual
  <2> QED
    BY <2>4 DEF b, x
<1> QED
  BY <1>1, <1>2, <1>3

\* Whether it is the system's portmapper is one of the members.
LEMMA SystemSet ==
  ASSUME NEW h, IsHost(h), NEW v
  PROVE  LET e == [h EXCEPT !.system = v]
         IN IsHost(e) /\ e.vxi = h.vxi /\ e.announced = h.announced /\ e.scpi = h.scpi /\ e.hislip = h.hislip
<1>1. PICK f \in Fields \ {"announced"} : f = "system"
  BY DEF Fields
<1>2. [h EXCEPT !.system = v] = [h EXCEPT ![f] = v]
  BY <1>1
<1>3. IsHost([h EXCEPT ![f] = v]) /\ \A g \in Fields \ {f} : [h EXCEPT ![f] = v][g] = h[g]
  BY MemberSet
<1> DEFINE e == [h EXCEPT ![f] = v]
<1>4. IsHost(e) /\ \A g \in Fields \ {f} : e[g] = h[g]
  BY <1>3
<1> HIDE DEF e
<1>5. {"announced", "scpi", "hislip", "vxi"} \subseteq Fields \ {f}
  BY <1>1 DEF Fields
<1>6. IsHost(e) /\ e.vxi = h.vxi /\ e.announced = h.announced /\ e.scpi = h.scpi /\ e.hislip = h.hislip
  BY <1>4, <1>5
<1> QED
  BY <1>2, <1>6 DEF e

LEMMA CloseAllKeeps ==
  ASSUME HostInv, NEW p \in Processes, Host!CloseAll(p)
  PROVE  HostInv'
<1> DEFINE h == host[p]
           a == at[p]
           t == Tail(a)
           d == [h EXCEPT !.system = FALSE, !.mapper = FALSE, !.vxi = 0, !.running = FALSE]
<1>1. /\ Proper(h, a) /\ a # <<>> /\ a[1].do = "close"
      /\ at' = [at EXCEPT ![p] = t] /\ host' = [host EXCEPT ![p] = d] /\ UNCHANGED entries
  BY NowDoes DEF Host!CloseAll, Host!Becomes
<1>2. /\ t \in Seq(Steps) /\ Planned(t) /\ t # <<>> /\ Leads(a[1], a[2]) /\ t[1] = a[2] /\ t[Len(t)] = a[Len(a)]
      /\ h.announced.vxi11 # 0 => a[Len(a)].do = "gone"
      /\ h.announced.scpi \in {0, h.scpi} /\ h.announced.hislip \in {0, h.hislip} /\ IsHost(h)
  BY <1>1, FirstsIs
<1>3. t[1].do \in {"start", "announce", "gone"}
  BY <1>1, <1>2 DEF Leads
<1> HIDE DEF h, a, t
<1>4. /\ IsHost(d) /\ d.vxi = 0 /\ d.system = FALSE /\ d.announced = h.announced /\ d.scpi = h.scpi /\ d.hislip = h.hislip
  <2> DEFINE x == [h EXCEPT !.system = FALSE]
             y == [x EXCEPT !.mapper = FALSE]
             z == [y EXCEPT !.vxi = 0]
             w == [z EXCEPT !.running = FALSE]
  <2>1. d = w
    OBVIOUS
  <2>2. /\ IsHost(x) /\ x.announced = h.announced /\ x.scpi = h.scpi /\ x.hislip = h.hislip
    BY <1>2, SystemSet
  <2>0. x.system = FALSE
    BY <1>2 DEF IsHost, Fields
  <2> HIDE DEF x, d
  <2>3. /\ IsHost(y) /\ y.system = FALSE /\ y.announced = h.announced /\ y.scpi = h.scpi /\ y.hislip = h.hislip
    BY <2>0, <2>2, MemberSet DEF Fields
  <2> HIDE DEF y
  <2>4. /\ IsHost(z) /\ z.system = FALSE /\ z.announced = h.announced /\ z.scpi = h.scpi /\ z.hislip = h.hislip /\ z.vxi = 0
    BY <2>3, MemberSet DEF Fields
  <2> HIDE DEF z
  <2>5. /\ IsHost(w) /\ w.system = FALSE /\ w.announced = h.announced /\ w.scpi = h.scpi /\ w.hislip = h.hislip /\ w.vxi = 0
    BY <2>4, MemberSet DEF Fields
  <2> QED
    BY <2>1, <2>5
<1> HIDE DEF d
<1>5. Proper(d, t) /\ ~Replacing(t) /\ \A g \in {1, 2} : ~Owns(d, t, g)
  <2>1. ~Replacing(t) /\ \A g \in {1, 2} : ~Owns(d, t, g)
    BY <1>2, <1>3, <1>4 DEF Owns, Replacing, Is
  <2>2. Listens(d, t)
    BY <1>2, <1>3, <2>1 DEF Listens, Is
  <2>3. Told(d, t)
    BY <1>2, <1>4 DEF Told
  <2> QED
    BY <1>2, <1>4, <2>1, <2>2, <2>3 DEF Proper
<1> QED
  BY <1>1, <1>4, <1>5, OneGoesOn

LEMMA RegisteredKeeps ==
  ASSUME HostInv, NEW p \in Processes, Host!Registered(p)
  PROVE  HostInv'
<1> DEFINE h == host[p]
           a == at[p]
           t == Tail(a)
           d == [h EXCEPT !.system = TRUE, !.running = TRUE]
<1>1. /\ Proper(h, a) /\ a # <<>> /\ a[1].do = "registered"
      /\ at' = [at EXCEPT ![p] = t] /\ host' = [host EXCEPT ![p] = d] /\ UNCHANGED entries
  BY NowDoes DEF Host!Registered, Host!Becomes
<1>2. /\ t \in Seq(Steps) /\ Planned(t) /\ t # <<>> /\ Leads(a[1], a[2]) /\ t[1] = a[2] /\ t[Len(t)] = a[Len(a)]
      /\ h.announced.vxi11 # 0 => a[Len(a)].do = "gone"
      /\ h.announced.scpi \in {0, h.scpi} /\ h.announced.hislip \in {0, h.hislip} /\ IsHost(h) /\ h.vxi \in Free \cup {0}
  BY <1>1, FirstsIs
<1>3. t[1].do = "announce"
  BY <1>1, <1>2 DEF Leads
<1>0. h = host[p] /\ a = at[p]
  OBVIOUS
<1> HIDE DEF h, a, t
<1>4. IsHost(d) /\ d.vxi = h.vxi /\ d.announced = h.announced /\ d.scpi = h.scpi /\ d.hislip = h.hislip
  <2> DEFINE x == [h EXCEPT !.system = TRUE]
             w == [x EXCEPT !.running = TRUE]
  <2>1. d = w
    OBVIOUS
  <2>2. /\ IsHost(x) /\ x.vxi = h.vxi /\ x.announced = h.announced /\ x.scpi = h.scpi /\ x.hislip = h.hislip
    BY <1>2, SystemSet
  <2> HIDE DEF x, d
  <2>5. /\ IsHost(w) /\ w.vxi = h.vxi /\ w.announced = h.announced /\ w.scpi = h.scpi /\ w.hislip = h.hislip
    BY <2>2, MemberSet DEF Fields
  <2> QED
    BY <2>1, <2>5
<1> HIDE DEF d
<1>5. Proper(d, t) /\ ~Replacing(t)
  <2>1. ~Replacing(t) /\ ~Is(t, "start")
    BY <1>3 DEF Replacing, Is
  <2>2. Listens(d, t)
    BY <1>3, <2>1 DEF Listens, Is
  <2>3. Told(d, t)
    BY <1>2, <1>4 DEF Told
  <2> QED
    BY <1>2, <1>4, <2>1, <2>2, <2>3 DEF Proper
<1>6. \A g \in {1, 2} : Owns(h, a, g)
  BY <1>1 DEF Owns, Is
<1> QED
  BY <1>0, <1>1, <1>4, <1>5, <1>6, OneGoesOn

LEMMA AnnounceKeeps ==
  ASSUME HostInv, NEW p \in Processes, Host!Announce(p)
  PROVE  HostInv'
<1> DEFINE h == host[p]
           a == at[p]
           c == a[1].config
           tell(service, port) == IF ~c.mdns THEN 0
                                  ELSE IF port # 0 /\ h.announced[service] = 0 THEN port
                                  ELSE h.announced[service]
           told == [scpi |-> tell("scpi", h.scpi), hislip |-> tell("hislip", h.hislip),
                    vxi11 |-> tell("vxi11", IF h.running THEN Host!Portmapper ELSE 0)]
           d == [h EXCEPT !.announced = told]
<1>1. /\ Proper(h, a) /\ a # <<>> /\ a[1].do = "announce" /\ a \in Seq(Steps) /\ Planned(a)
      /\ at' = [at EXCEPT ![p] = Tail(a)] /\ host' = [host EXCEPT ![p] = d] /\ UNCHANGED entries
  BY NowDoes DEF Host!Announce, Host!Becomes, Host!AllAnnounced
<1>2. Tail(a) = <<>> /\ a[1] = a[Len(a)]
  BY <1>1, LastIs
<1>0. h = host[p] /\ a = at[p]
  OBVIOUS
<1>3. /\ IsHost(h) /\ h.vxi \in Free \cup {0} /\ h.announced.scpi \in {0, h.scpi} /\ h.announced.hislip \in {0, h.hislip}
      /\ h.announced.vxi11 # 0 => h.running
  BY <1>1, <1>2 DEF Proper, Told, Is
<1>4. /\ told.scpi \in {0, h.scpi} /\ told.hislip \in {0, h.hislip} /\ (told.vxi11 # 0 => h.running)
      /\ told = [f \in Services |-> told[f]]
  BY <1>3 DEF Services
<1> HIDE DEF h, a, told
<1>5. /\ IsHost(d) /\ d.vxi = h.vxi /\ d.announced = told /\ d.scpi = h.scpi /\ d.hislip = h.hislip /\ d.system = h.system
      /\ d.running = h.running
  BY <1>3, <1>4 DEF IsHost, Fields
<1> HIDE DEF d
<1>6. Proper(d, <<>>)
  <2>1. Told(d, <<>>)
    BY <1>4, <1>5 DEF Told
  <2>2. Listens(d, <<>>) /\ ~Is(<<>>, "start")
    BY DEF Listens, Is, Replacing
  <2>3. Planned(<<>>) /\ <<>> \in Seq(Steps)
    BY DEF Planned
  <2> QED
    BY <1>3, <1>5, <2>1, <2>2, <2>3 DEF Proper
<1>7. ~Replacing(<<>>) /\ \A g \in {1, 2} : Owns(d, <<>>, g) => Owns(h, a, g)
  BY <1>1, <1>5 DEF Owns, Is, Replacing
<1> QED
  BY <1>0, <1>1, <1>2, <1>5, <1>6, <1>7, OneGoesOn

LEMMA GoneKeeps ==
  ASSUME HostInv, NEW p \in Processes, Host!Gone(p) \/ Host!Crash(p)
  PROVE  HostInv'
<1>1. host' = [host EXCEPT ![p] = Host!NewHost] /\ at' = [at EXCEPT ![p] = <<>>] /\ UNCHANGED entries
  <2>1. CASE Host!Crash(p)
    BY <2>1 DEF Host!Crash, Host!Becomes
  <2>2. CASE Host!Gone(p)
    <3>1. /\ at[p] # <<>> /\ at[p][1].do = "gone" /\ at[p] \in Seq(Steps) /\ Planned(at[p])
          /\ at' = [at EXCEPT ![p] = Tail(at[p])]
      BY <2>2, NowDoes DEF Host!Gone
    <3>2. Tail(at[p]) = <<>>
      BY <3>1, LastIs
    <3> QED
      BY <2>2, <3>1, <3>2 DEF Host!Gone, Host!Becomes
  <2> QED
    BY <2>1, <2>2
<1> DEFINE d == Host!NewHost
<1>2. Proper(d, <<>>)
  <2>1. Told(d, <<>>)
    BY NewHostIs DEF Told
  <2>2. Listens(d, <<>>) /\ ~Is(<<>>, "start")
    BY DEF Listens, Is, Replacing
  <2>3. Planned(<<>>) /\ <<>> \in Seq(Steps)
    BY DEF Planned
  <2> QED
    BY NewHostIs, <2>1, <2>2, <2>3 DEF Proper
<1>3. ~Replacing(<<>>) /\ (\A g \in {1, 2} : ~Owns(d, <<>>, g)) /\ d.vxi = 0
  BY NewHostIs DEF Owns, Is, Replacing
<1> HIDE DEF d
<1> QED
  BY <1>1, <1>2, <1>3, OneGoesOn DEF d

LEMMA QuitKeeps ==
  ASSUME HostInv, NEW p \in Processes, Host!Quit(p)
  PROVE  HostInv'
<1> DEFINE h == host[p]
           next == <<Host!Step("gone", 0)>>
           a == Host!Stopping(h, next)
<1>1. /\ at[p] = <<>> /\ Proper(h, <<>>) /\ at' = [at EXCEPT ![p] = a] /\ UNCHANGED <<host, entries>>
  BY NowDoes DEF Host!Quit, Host!Idle
<1>2. next \in Seq(Steps) /\ next # <<>> /\ Len(next) = 1 /\ next[1].do = "gone" /\ DOMAIN next = 1..1
  BY DEF Host!Step, Steps
<1>3. host' = [host EXCEPT ![p] = h] /\ h = host[p]
  BY <1>1 DEF HostInv
<1> HIDE DEF next, h
<1>4. Planned(next) /\ \A i \in DOMAIN next : next[i].do # "again"
  BY <1>2 DEF Planned
<1>5. /\ a \in Seq(Steps) /\ Planned(a) /\ a # <<>> /\ a[Len(a)] = next[Len(next)]
      /\ IF h.system THEN a[1] = Host!Step("unset", 1) /\ a[2] = Host!Step("unset", 2) ELSE a[1] = Host!Step("close", 0)
  BY <1>2, <1>4, StoppingIs
<1> HIDE DEF a
<1>6. ~Replacing(a) /\ ~Is(a, "start") /\ \A g \in {1, 2} : Owns(h, a, g) => Owns(h, <<>>, g)
  BY <1>5 DEF Owns, Replacing, Is, Host!Step
<1>7. Proper(h, a)
  <2>1. Listens(h, a)
    BY <1>5, <1>6 DEF Listens, Is, Host!Step
  <2>2. Told(h, a)
    BY <1>1, <1>2, <1>5 DEF Told, Proper
  <2> QED
    BY <1>1, <1>5, <1>6, <2>1, <2>2 DEF Proper
<1> QED
  BY <1>1, <1>3, <1>6, <1>7, OneGoesOn

\* Channels get a port nobody else of the processes has.
LEMMA PortIsFree ==
  ASSUME NEW n \in Free \ UNION {Host!PortsOf(host[q]) : q \in Processes}
  PROVE  n # 0 /\ \A q \in Processes : n # host[q].vxi
<1>1. n # 0
  BY ServersAssumption DEF ServersAssumption
<1>2. ASSUME NEW q \in Processes, n = host[q].vxi PROVE FALSE
  <2>1. n \in Host!PortsOf(host[q])
    BY <1>1, <1>2 DEF Host!PortsOf
  <2> QED
    BY <2>1
<1> QED
  BY <1>1, <1>2

LEMMA VxiSet ==
  ASSUME NEW h, IsHost(h), NEW n
  PROVE  LET e == [h EXCEPT !.vxi = n]
         IN /\ IsHost(e) /\ e.vxi = n /\ e.announced = h.announced /\ e.scpi = h.scpi /\ e.hislip = h.hislip
            /\ e.system = h.system
BY DEF IsHost, Fields

LEMMA StartKeeps ==
  ASSUME HostInv, NEW p \in Processes, Host!Start(p)
  PROVE  HostInv'
<1> DEFINE h == host[p]
           a == at[p]
           t == Tail(a)
           s1 == Host!Step("set", 1)
           s2 == Host!Step("set", 2)
           s3 == Host!Step("registered", 0)
           sets == <<s1, s2, s3>>
<1>0. h = host[p] /\ a = at[p]
  OBVIOUS
<1>1. /\ Proper(h, a) /\ a # <<>> /\ a[1].do = "start" /\ UNCHANGED entries
      /\ ~Host!Idle(p) /\ Host!Goes(p, <<>>) => at' = [at EXCEPT ![p] = t]
  BY NowDoes DEF Host!Start
<1>2. /\ t \in Seq(Steps) /\ Planned(t) /\ t # <<>> /\ Leads(a[1], a[2]) /\ t[1] = a[2] /\ t[Len(t)] = a[Len(a)]
      /\ h.announced.vxi11 # 0 => a[Len(a)].do = "gone"
      /\ h.announced.scpi \in {0, h.scpi} /\ h.announced.hislip \in {0, h.hislip} /\ IsHost(h) /\ h.vxi \in Free \cup {0}
      /\ ~h.system
  BY <1>1, FirstsIs DEF Proper, Is
<1>3. t[1].do = "announce"
  BY <1>1, <1>2 DEF Leads
<1>4. Tail(t) = <<>> /\ t[1] = t[Len(t)] /\ t = <<t[1]>> /\ Len(t) = 1
  BY <1>2, <1>3, LastIs
<1>5. h.announced.vxi11 = 0
  BY <1>2, <1>3, <1>4
<1>6. PICK n \in Free \ UNION {Host!PortsOf(host[q]) : q \in Processes} :
        \/ /\ host' = [host EXCEPT ![p] = [h EXCEPT !.vxi = n]]
           /\ at' = [at EXCEPT ![p] = sets \o t]
        \/ Host!Goes(p, <<>>) /\ UNCHANGED host
        \/ /\ host' = [host EXCEPT ![p] = [h EXCEPT !.vxi = n, !.mapper = TRUE, !.running = TRUE]]
           /\ Host!Goes(p, <<>>)
  BY DEF Host!Start, Host!Becomes, Host!Goes
<1>7. n # 0 /\ n \in Free /\ \A q \in Processes : n # host[q].vxi
  BY PortIsFree
<1>8. Host!Goes(p, <<>>) => at' = [at EXCEPT ![p] = t]
  BY <1>1 DEF Host!Start
<1>9. h.vxi \in Free \cup {0} /\ DOMAIN host = Processes /\ host = [q \in Processes |-> host[q]]
  BY <1>2 DEF HostInv
<1>10. /\ s1 \in Steps /\ s2 \in Steps /\ s3 \in Steps /\ s1.do = "set" /\ s1.reg = 1 /\ s2.do = "set" /\ s2.reg = 2
       /\ s3.do = "registered"
  BY DEF Host!Step, Steps
<1>11. sets \in Seq(Steps) /\ sets # <<>> /\ Len(sets) = 3 /\ DOMAIN sets = 1..3 /\ sets[1] = s1 /\ sets[2] = s2 /\ sets[3] = s3
  BY <1>10
<1> HIDE DEF h, a, t, s1, s2, s3, sets
<1>12. \A g \in {1, 2} : ~Owns(h, a, g)
  BY <1>1 DEF Owns, Is
<1>20. CASE host' = [host EXCEPT ![p] = [h EXCEPT !.vxi = n]] /\ at' = [at EXCEPT ![p] = sets \o t]
  <2> DEFINE d == [h EXCEPT !.vxi = n]
             b == sets \o t
  <2>1. IsHost(d) /\ d.vxi = n /\ d.announced = h.announced /\ d.scpi = h.scpi /\ d.hislip = h.hislip
    BY <1>2, VxiSet
  <2>2. \A i \in 1..(Len(sets) - 1) : Leads(sets[i], sets[i + 1])
    <3>1. \A i \in 1..(Len(sets) - 1) : i = 1 \/ i = 2
      BY <1>11
    <3>2. Leads(sets[1], sets[1 + 1]) /\ Leads(sets[2], sets[2 + 1])
      BY <1>10, <1>11 DEF Leads
    <3> QED
      BY <3>1, <3>2
  <2>3. \A i \in DOMAIN sets : sets[i].do # "again"
    <3>1. \A i \in DOMAIN sets : i = 1 \/ i = 2 \/ i = 3
      BY <1>11
    <3> QED
      BY <1>10, <1>11, <3>1
  <2>4. Leads(sets[Len(sets)], t[1])
    BY <1>3, <1>10, <1>11 DEF Leads
  <2>5. \A i \in DOMAIN t : t[i].do # "again"
    <3>1. \A i \in DOMAIN t : i = 1
      BY <1>2, <1>4, SeqOf
    <3> QED
      BY <1>3, <3>1
  <2>6. /\ b \in Seq(Steps) /\ Planned(b) /\ b # <<>> /\ b[1] = sets[1]
    BY <1>2, <1>11, <2>2, <2>3, <2>4, <2>5, PutBefore
  <2> HIDE DEF d, b
  <2>7. /\ Is(b, "set") /\ b[1].reg = 1 /\ ~Replacing(b) /\ ~Is(b, "start")
        /\ \A g \in {1, 2} : ~Owns(d, b, g)
    BY <1>10, <1>11, <2>6 DEF Is, Owns, Replacing
  <2>8. Listens(d, b) /\ Told(d, b)
    BY <1>2, <1>5, <1>7, <2>1 DEF Listens, Told
  <2>9. Proper(d, b)
    BY <1>7, <2>1, <2>6, <2>7, <2>8 DEF Proper
  <2>10. host' = [host EXCEPT ![p] = d] /\ at' = [at EXCEPT ![p] = b]
    BY <1>20 DEF d, b
  <2> QED
    BY <1>1, <1>7, <2>1, <2>7, <2>9, <2>10, OneGoesOn
<1>21. CASE Host!Goes(p, <<>>) /\ UNCHANGED host
  <2>1. host' = [host EXCEPT ![p] = h] /\ at' = [at EXCEPT ![p] = t]
    BY <1>0, <1>8, <1>9, <1>21
  <2>2. /\ ~Replacing(t) /\ ~Is(t, "start") /\ \A g \in {1, 2} : ~Owns(h, t, g)
    BY <1>2, <1>3 DEF Is, Owns, Replacing
  <2>3. Listens(h, t) /\ Told(h, t)
    BY <1>2, <1>3, <1>5, <2>2 DEF Listens, Told, Is
  <2>4. Proper(h, t)
    BY <1>2, <2>2, <2>3 DEF Proper
  <2> QED
    BY <1>0, <1>1, <2>1, <2>2, <2>4, OneGoesOn
<1>22. CASE host' = [host EXCEPT ![p] = [h EXCEPT !.vxi = n, !.mapper = TRUE, !.running = TRUE]] /\ Host!Goes(p, <<>>)
  <2> DEFINE x == [h EXCEPT !.vxi = n]
             y == [x EXCEPT !.mapper = TRUE]
             d == [y EXCEPT !.running = TRUE]
  <2>1. host' = [host EXCEPT ![p] = d] /\ at' = [at EXCEPT ![p] = t]
    BY <1>8, <1>22
  <2>2. /\ IsHost(x) /\ x.vxi = n /\ x.announced = h.announced /\ x.scpi = h.scpi /\ x.hislip = h.hislip /\ x.system = h.system
    BY <1>2, VxiSet
  <2> HIDE DEF x
  <2>3. /\ IsHost(y) /\ y.vxi = n /\ y.announced = h.announced /\ y.scpi = h.scpi /\ y.hislip = h.hislip /\ y.system = h.system
    BY <2>2, MemberSet DEF Fields
  <2> HIDE DEF y
  <2>4. /\ IsHost(d) /\ d.vxi = n /\ d.announced = h.announced /\ d.scpi = h.scpi /\ d.hislip = h.hislip /\ d.system = h.system
    BY <2>3, MemberSet DEF Fields
  <2> HIDE DEF d
  <2>5. /\ ~Replacing(t) /\ ~Is(t, "start") /\ \A g \in {1, 2} : ~Owns(d, t, g)
    BY <1>2, <1>3, <2>4 DEF Is, Owns, Replacing
  <2>6. Listens(d, t) /\ Told(d, t)
    BY <1>2, <1>3, <1>5, <2>4, <2>5 DEF Listens, Told, Is
  <2>7. Proper(d, t)
    BY <1>2, <1>7, <2>4, <2>5, <2>6 DEF Proper
  <2> QED
    BY <1>1, <1>7, <2>1, <2>4, <2>5, <2>7, OneGoesOn
<1> QED
  BY <1>6, <1>20, <1>21, <1>22 DEF h, t

LEMMA PairIs ==
  ASSUME NEW u \in Steps, NEW c \in Steps
  PROVE  <<u>> \o <<c>> = <<u, c>>
<1> DEFINE d == <<u>>
           e == <<c>>
           n == <<u, c>>
           m == d \o e
<1>1. /\ d \in Seq(Steps) /\ Len(d) = 1 /\ d[1] = u /\ e \in Seq(Steps) /\ Len(e) = 1 /\ e[1] = c
      /\ n \in Seq(Steps) /\ Len(n) = 2 /\ n[1] = u /\ n[2] = c
  OBVIOUS
<1> HIDE DEF d, e, n
<1>2. /\ m \in Seq(Steps) /\ Len(m) = Len(d) + Len(e)
      /\ \A i \in 1..(Len(d) + Len(e)) : m[i] = IF i <= Len(d) THEN d[i] ELSE e[i - Len(d)]
  BY <1>1, ConcatProperties
<1> HIDE DEF m
<1>3. Len(m) = 2 /\ m[1] = u /\ m[2] = c
  BY <1>1, <1>2
<1>4. \A i \in 1..Len(m) : i = 1 \/ i = 2
  BY <1>3
<1>5. \A i \in 1..Len(m) : m[i] = n[i]
  BY <1>1, <1>3, <1>4
<1>6. m = n
  BY <1>1, <1>2, <1>3, <1>5, SeqEqual
<1> QED
  BY <1>6 DEF m, d, e, n

\* What is left when the portmapper refuses.
LEMMA RegisteredIs ==
  ASSUME NEW a \in Seq(Steps), Planned(a), a # <<>>, a[1].do \in {"set", "ask", "again"}
  PROVE  LET last == CHOOSE i \in DOMAIN a : a[i].do = "registered"
         IN /\ SubSeq(a, last + 1, Len(a)) = <<a[Len(a)]>>
            /\ a[Len(a)] \in Steps /\ a[Len(a)].do = "announce"
<1> DEFINE n == Len(a)
           last == CHOOSE i \in DOMAIN a : a[i].do = "registered"
<1>1. /\ DOMAIN a = 1..n /\ n \in Nat \ {0} /\ \A i \in 1..n : a[i] \in Steps
      /\ \A i \in 1..(n - 1) : Leads(a[i], a[i + 1])
      /\ a[n].do \in {"announce", "gone"}
  BY SeqOf DEF Planned
<1> HIDE DEF n
<1>2. \E i \in DOMAIN a : a[i].do = "registered"
  <2>1. n # 1 /\ Leads(a[1], a[1 + 1])
    <3>1. n # 1
      BY <1>1
    <3>2. 1 \in 1..(n - 1)
      BY <1>1, <3>1
    <3> QED
      BY <1>1, <3>1, <3>2
  <2>2. 2 \in 1..n /\ (a[2].do = "registered" \/ (a[2].do = "set" /\ a[2].reg = 2))
    BY <1>1, <2>1 DEF Leads
  <2>3. CASE a[2].do = "set" /\ a[2].reg = 2
    <3>1. n # 2
      BY <1>1, <2>3
    <3>2. 2 \in 1..(n - 1) /\ 3 \in 1..n
      BY <1>1, <2>2, <3>1
    <3>3. Leads(a[2], a[2 + 1])
      BY <1>1, <3>2
    <3>4. a[3].do = "registered"
      BY <2>3, <3>3 DEF Leads
    <3> QED
      BY <1>1, <3>2, <3>4
  <2> QED
    BY <1>1, <2>2, <2>3
<1>3. last \in DOMAIN a /\ a[last].do = "registered"
  BY <1>2
<1> HIDE DEF last
<1>4. last # n
  BY <1>1, <1>3
<1>5. last \in 1..(n - 1) /\ last + 1 \in 1..n
  BY <1>1, <1>3, <1>4
<1>6. a[last + 1].do = "announce"
  BY <1>1, <1>3, <1>5 DEF Leads
<1>7. last + 1 = n
  <2> SUFFICES ASSUME last + 1 # n PROVE FALSE
    OBVIOUS
  <2>1. PICK j \in 1..(n - 1) : j = last + 1
    BY <1>1, <1>5
  <2>2. Leads(a[j], a[j + 1]) /\ a[j].do = "announce"
    BY <1>1, <1>6, <2>1
  <2> QED
    BY <2>2 DEF Leads
<1>8. a[n] \in Steps /\ a[n].do = "announce"
  BY <1>1, <1>6, <1>7
<1>9. SubSeq(a, n, n) = <<a[n]>>
  <2> DEFINE s == SubSeq(a, n, n)
             x == a[n]
             b == <<x>>
  <2>1. n \in 1..Len(a) + 1 /\ n \in (n - 1)..Len(a)
    BY <1>1 DEF n
  <2>2. s \in Seq(Steps) /\ Len(s) = 1 /\ s[1] = x
    BY <1>1 DEF n
  <2>3. x \in Steps
    BY <1>8
  <2> HIDE DEF s, x
  <2>4. b \in Seq(Steps) /\ Len(b) = 1 /\ b[1] = x
    BY <2>3
  <2> HIDE DEF b
  <2>5. \A i \in 1..Len(s) : s[i] = b[i]
    BY <2>2, <2>4
  <2>6. s = b
    BY <2>2, <2>4, <2>5, SeqEqual
  <2> QED
    BY <2>6 DEF s, x, b
<1> QED
  BY <1>7, <1>8, <1>9 DEF n, last

\* What a process does, to whom the portmapper says no.
LEMMA RefusedKeeps ==
  ASSUME HostInv, NEW p \in Processes, ~Host!Idle(p), Host!Next1(p).do \in {"set", "ask", "again"}, Host!Refused(p),
         UNCHANGED host
  PROVE  HostInv'
<1> DEFINE h == host[p]
           a == at[p]
           u == Host!Step("unset", 1)
           c == Host!Step("close", 0)
           x == a[Len(a)]
           q == <<x>>
           undo == IF a[1].reg = 2 THEN <<u>> ELSE <<>>
           n == undo \o <<c>>
           b == n \o q
<1>0. h = host[p] /\ a = at[p]
  OBVIOUS
<1>1. /\ Proper(h, a) /\ a \in Seq(Steps) /\ Planned(a) /\ a # <<>> /\ Host!Next1(p) = a[1]
      /\ a[1].do \in {"set", "ask", "again"}
  BY NowDoes
<1>2. /\ Leads(a[1], a[2]) /\ (h.announced.vxi11 # 0 => a[Len(a)].do = "gone")
      /\ h.announced.scpi \in {0, h.scpi} /\ h.announced.hislip \in {0, h.hislip} /\ IsHost(h) /\ h.vxi \in Free \cup {0}
  BY <1>1, FirstsIs
<1>3. x \in Steps /\ x.do = "announce" /\ h.announced.vxi11 = 0
  BY <1>1, <1>2, RegisteredIs
<1>4. at' = [at EXCEPT ![p] = b] /\ UNCHANGED entries
  <2> DEFINE last == CHOOSE i \in DOMAIN a : a[i].do = "registered"
  <2>1. SubSeq(a, last + 1, Len(a)) = q
    BY <1>1, RegisteredIs
  <2>2. at' = [at EXCEPT ![p] = undo \o <<c>> \o SubSeq(a, last + 1, Len(a))] /\ UNCHANGED entries
    BY <1>1 DEF Host!Refused
  <2> QED
    BY <2>1, <2>2
<1>5. /\ u \in Steps /\ c \in Steps /\ u.do = "unset" /\ u.reg = 1 /\ c.do = "close"
  BY DEF Host!Step, Steps
<1>6. h.vxi # 0 /\ a[1].reg \in {1, 2}
  BY <1>1, <1>2 DEF Proper, Listens, Is, Leads
<1>7. host' = [host EXCEPT ![p] = h]
  BY <1>0 DEF HostInv
<1> HIDE DEF h, a, u, c, x
<1>8. q \in Seq(Steps) /\ q # <<>> /\ Len(q) = 1 /\ DOMAIN q = 1..1 /\ q[1] = x
  BY <1>3
<1>9. Planned(q) /\ \A i \in DOMAIN q : q[i].do # "again"
  BY <1>3, <1>8 DEF Planned
<1>10. n = IF a[1].reg = 2 THEN <<u, c>> ELSE <<c>>
  <2>1. <<>> \o <<c>> = <<c>>
    BY <1>5
  <2>2. <<u>> \o <<c>> = <<u, c>>
    BY <1>5, PairIs
  <2> QED
    BY <2>1, <2>2
<1> HIDE DEF q, n
<1>11. /\ n \in Seq(Steps) /\ n # <<>> /\ n[Len(n)] = c
       /\ IF a[1].reg = 2 THEN Len(n) = 2 /\ DOMAIN n = 1..2 /\ n[1] = u /\ n[2] = c
          ELSE Len(n) = 1 /\ DOMAIN n = 1..1 /\ n[1] = c
  BY <1>5, <1>10
<1>12. \A i \in 1..(Len(n) - 1) : Leads(n[i], n[i + 1])
  <2>1. \A i \in 1..(Len(n) - 1) : i = 1 /\ a[1].reg = 2
    BY <1>11
  <2>2. a[1].reg = 2 => Leads(n[1], n[1 + 1])
    BY <1>5, <1>11 DEF Leads
  <2> QED
    BY <2>1, <2>2
<1>13. \A i \in DOMAIN n : n[i].do # "again"
  <2>1. \A i \in DOMAIN n : i = 1 \/ (i = 2 /\ a[1].reg = 2)
    BY <1>11
  <2> QED
    BY <1>5, <1>11, <2>1
<1>14. Leads(n[Len(n)], q[1])
  BY <1>3, <1>5, <1>8, <1>11 DEF Leads
<1>15. /\ b \in Seq(Steps) /\ Planned(b) /\ b # <<>> /\ b[1] = n[1] /\ b[2] = (IF Len(n) = 1 THEN q[1] ELSE n[2])
  BY <1>8, <1>9, <1>11, <1>12, <1>13, <1>14, PutBefore
<1> HIDE DEF b
<1>16. ~Replacing(b) /\ ~Is(b, "start") /\ \A g \in {1, 2} : Owns(h, b, g) => Owns(h, a, g)
  <2>1. CASE a[1].reg = 2
    <3>1. b[1] = u /\ b[2] = c
      BY <1>11, <1>15, <2>1
    <3> QED
      BY <1>1, <1>5, <1>15, <2>1, <3>1 DEF Is, Owns, Replacing
  <2>2. CASE a[1].reg # 2
    <3>1. b[1] = c
      BY <1>11, <1>15, <2>2
    <3> QED
      BY <1>5, <1>15, <3>1 DEF Is, Owns, Replacing
  <2> QED
    BY <2>1, <2>2
<1>17. Proper(h, b)
  BY <1>2, <1>3, <1>6, <1>15, <1>16 DEF Proper, Listens, Told
<1> QED
  BY <1>0, <1>4, <1>7, <1>16, <1>17, OneGoesOn

\* A process has to ask, or to replace what it asked for, before it goes on.
LEMMA AsksIs ==
  ASSUME HostInv, NEW p \in Processes, NEW n \in Seq(Steps), n # <<>>,
         at[p] # <<>>, at[p][1].do \in {"set", "ask", "again"}, at' = [at EXCEPT ![p] = n \o Tail(at[p])],
         UNCHANGED <<host, entries>>,
         \A i \in 1..(Len(n) - 1) : Leads(n[i], n[i + 1]), \A i \in DOMAIN n : n[i].do = "again" => i <= 2,
         n[Len(n)].do \in {"ask", "again"}, n[Len(n)].reg = at[p][1].reg,
         n[1].reg = at[p][1].reg,
         \/ n[1].do = "ask"
         \/ /\ n[1].do = "unset" /\ Len(n) = 2 /\ n[2].do = "again"
            /\ \A q \in Processes : ~Owns(host[q], at[q], at[p][1].reg)
  PROVE  HostInv'
<1> DEFINE h == host[p]
           a == at[p]
           t == Tail(a)
           b == n \o t
<1>0. h = host[p] /\ a = at[p]
  OBVIOUS
<1>1. /\ Proper(h, a) /\ a \in Seq(Steps) /\ Planned(a) /\ a # <<>> /\ a[1].do \in {"set", "ask", "again"}
  BY NowDoes
<1>2. /\ t \in Seq(Steps) /\ Planned(t) /\ t # <<>> /\ Leads(a[1], a[2]) /\ t[1] = a[2] /\ t[Len(t)] = a[Len(a)]
      /\ h.announced.vxi11 # 0 => a[Len(a)].do = "gone"
      /\ h.announced.scpi \in {0, h.scpi} /\ h.announced.hislip \in {0, h.hislip} /\ IsHost(h) /\ h.vxi \in Free \cup {0}
  BY <1>1, FirstsIs
<1>3. \A i \in DOMAIN t : t[i].do # "again"
  BY <1>1, FirstDone
<1>4. /\ n[Len(n)].do \in {"ask", "again"} /\ n[Len(n)].reg = a[1].reg /\ n[1].reg = a[1].reg
      /\ \/ n[1].do = "ask"
         \/ n[1].do = "unset" /\ Len(n) = 2 /\ n[2].do = "again" /\ \A q \in Processes : ~Owns(host[q], at[q], a[1].reg)
      /\ at' = [at EXCEPT ![p] = b] /\ UNCHANGED <<host, entries>>
  OBVIOUS
<1>5. host' = [host EXCEPT ![p] = h]
  BY <1>0, <1>4 DEF HostInv
<1> HIDE DEF h, a, t, b
<1>6. Leads(n[Len(n)], t[1])
  BY <1>1, <1>2, <1>4 DEF Leads
<1>7. /\ b \in Seq(Steps) /\ Planned(b) /\ b # <<>> /\ b[1] = n[1] /\ b[2] = (IF Len(n) = 1 THEN t[1] ELSE n[2])
      /\ b[Len(b)] = t[Len(t)]
  BY <1>2, <1>3, <1>6, PutBefore DEF b
<1>8. h.vxi # 0
  BY <1>1 DEF Proper, Listens, Is
<1>9. ~Is(b, "start") /\ \A g \in {1, 2} : Owns(h, b, g) => Owns(h, a, g)
  BY <1>1, <1>4, <1>7 DEF Is, Owns
<1>10. Replacing(b) => \A q \in Processes : q # p => ~Owns(host[q], at[q], b[1].reg)
  BY <1>4, <1>7 DEF Replacing, Is
<1>11. Proper(h, b)
  <2>1. Listens(h, b)
    BY <1>8 DEF Listens
  <2>2. Told(h, b)
    BY <1>2, <1>7 DEF Told
  <2> QED
    BY <1>2, <1>7, <1>9, <2>1, <2>2 DEF Proper
<1>12. at' = [at EXCEPT ![p] = b] /\ UNCHANGED entries
  BY <1>4
<1> QED
  BY <1>0, <1>5, <1>9, <1>10, <1>11, <1>12, OneGoesOn

LEMMA AskKeeps ==
  ASSUME HostInv, NEW p \in Processes, Host!Ask(p)
  PROVE  HostInv'
<1> DEFINE a == at[p]
           r == a[1].reg
           other == entries[Host!Programs[r]]
           u == Host!Step("unset", r)
           s == Host!Step("again", r)
           n == <<u, s>>
<1>1. /\ Proper(host[p], a) /\ a \in Seq(Steps) /\ Planned(a) /\ a # <<>> /\ Host!Next1(p) = a[1] /\ a[1].do = "ask"
      /\ ~Host!Idle(p) /\ UNCHANGED host
  BY NowDoes DEF Host!Ask
<1>2. r \in {1, 2}
  BY <1>1, FirstsIs DEF Leads
<1>3. \/ Host!Refused(p)
      \/ /\ other # 0 /\ ~Host!PortAnswers(other) /\ at' = [at EXCEPT ![p] = n \o Tail(a)] /\ UNCHANGED entries
  BY <1>1 DEF Host!Ask, Host!Goes
<1>4. CASE Host!Refused(p)
  BY <1>1, <1>4, RefusedKeeps
<1>5. CASE other # 0 /\ ~Host!PortAnswers(other) /\ at' = [at EXCEPT ![p] = n \o Tail(a)] /\ UNCHANGED entries
  <2>1. \A q \in Processes : ~Owns(host[q], at[q], r)
    BY <1>2, <1>5 DEF HostInv, Host!PortAnswers
  <2>2. u \in Steps /\ s \in Steps /\ u.do = "unset" /\ u.reg = r /\ s.do = "again" /\ s.reg = r
    BY <1>2 DEF Host!Step, Steps
  <2> HIDE DEF u, s
  <2>3. n \in Seq(Steps) /\ n # <<>> /\ Len(n) = 2 /\ DOMAIN n = 1..2 /\ n[1] = u /\ n[2] = s
    BY <2>2
  <2> HIDE DEF n
  <2>4. \A i \in 1..(Len(n) - 1) : Leads(n[i], n[i + 1])
    <3>1. \A i \in 1..(Len(n) - 1) : i = 1
      BY <2>3
    <3>2. Leads(n[1], n[1 + 1])
      BY <1>2, <2>2, <2>3 DEF Leads
    <3> QED
      BY <3>1, <3>2
  <2>5. \A i \in DOMAIN n : n[i].do = "again" => i <= 2
    BY <2>3
  <2> QED
    BY <1>1, <1>5, <2>1, <2>2, <2>3, <2>4, <2>5, AsksIs
<1> QED
  BY <1>3, <1>4, <1>5

\* Nobody replaces an entry while another talks to the portmapper.
LEMMA NobodyReplaces ==
  ASSUME HostInv, ~Split, NEW p \in Processes, Host!MayTalk(p), NEW q \in Processes, q # p
  PROVE  ~Replacing(at[q])
<1> SUFFICES ASSUME Replacing(at[q]) PROVE FALSE
  OBVIOUS
<1> DEFINE a == at[q]
<1>1. /\ a \in Seq(Steps) /\ Planned(a) /\ a # <<>> /\ a[1].do = "unset" /\ a[2].do = "again"
      /\ ~\E i \in DOMAIN a : a[i].do \in {"ask", "again"}
  BY NowDoes DEF Host!MayTalk, Host!Replaces, Replacing, Is
<1> HIDE DEF a
<1>2. Tail(a) # <<>>
  BY <1>1, FirstDone
<1>3. 2 \in DOMAIN a
  <2> DEFINE t == Tail(a)
             n == Len(a)
  <2>1. t \in Seq(Steps) /\ Len(t) = n - 1 /\ n \in Nat /\ t # <<>> /\ DOMAIN a = 1..n /\ n # 0
    BY <1>1, <1>2, TailOf, SeqOf
  <2> HIDE DEF t, n
  <2>2. Len(t) \in Nat /\ Len(t) # 0
    BY <2>1, SeqOf
  <2>3. n - 1 # 0
    BY <2>1, <2>2
  <2> QED
    BY <2>1, <2>3
<1> QED
  BY <1>1, <1>3

LEMMA SetKeeps ==
  ASSUME HostInv, ~Split, NEW p \in Processes, Host!Set(p)
  PROVE  HostInv'
<1> DEFINE h == host[p]
           a == at[p]
           t == Tail(a)
           r == a[1].reg
           s == Host!Step("ask", r)
           n == <<s>>
<1>0. h = host[p] /\ a = at[p]
  OBVIOUS
<1>1. /\ Proper(h, a) /\ a \in Seq(Steps) /\ Planned(a) /\ a # <<>> /\ Host!Next1(p) = a[1] /\ a[1].do \in {"set", "again"}
      /\ ~Host!Idle(p) /\ UNCHANGED host
      /\ Host!Goes(p, <<>>) => at' = [at EXCEPT ![p] = t]
  BY NowDoes DEF Host!Set
<1>2. /\ t \in Seq(Steps) /\ Planned(t) /\ t # <<>> /\ Leads(a[1], a[2]) /\ t[1] = a[2] /\ t[Len(t)] = a[Len(a)]
      /\ h.announced.vxi11 # 0 => a[Len(a)].do = "gone"
      /\ h.announced.scpi \in {0, h.scpi} /\ h.announced.hislip \in {0, h.hislip} /\ IsHost(h) /\ h.vxi \in Free \cup {0}
  BY <1>1, FirstsIs
<1>3. r \in {1, 2} /\ (IF r = 1 THEN t[1].do = "set" /\ t[1].reg = 2 ELSE t[1].do = "registered")
  BY <1>1, <1>2 DEF Leads
<1>4. \/ /\ entries[Host!Programs[r]] = 0 /\ entries' = [entries EXCEPT ![Host!Programs[r]] = h.vxi] /\ Host!Goes(p, <<>>)
      \/ Host!Refused(p)
      \/ at' = [at EXCEPT ![p] = n \o t] /\ UNCHANGED entries
  BY <1>1 DEF Host!Set, Host!Enters, Host!Goes
<1>5. CASE Host!Refused(p)
  BY <1>1, <1>5, RefusedKeeps
<1>6. CASE at' = [at EXCEPT ![p] = n \o t] /\ UNCHANGED entries
  <2>1. s \in Steps /\ s.do = "ask" /\ s.reg = r
    BY <1>3 DEF Host!Step, Steps
  <2> HIDE DEF s
  <2>2. n \in Seq(Steps) /\ n # <<>> /\ Len(n) = 1 /\ DOMAIN n = 1..1 /\ n[1] = s
    BY <2>1
  <2> HIDE DEF n
  <2>3. \A i \in 1..(Len(n) - 1) : Leads(n[i], n[i + 1])
    BY <2>2
  <2>4. \A i \in DOMAIN n : n[i].do = "again" => i <= 2
    BY <2>2
  <2> QED
    BY <1>1, <1>6, <2>1, <2>2, <2>3, <2>4, AsksIs
<1>7. CASE /\ entries[Host!Programs[r]] = 0 /\ entries' = [entries EXCEPT ![Host!Programs[r]] = h.vxi]
           /\ Host!Goes(p, <<>>)
  <2>1. /\ entries' = [g \in {"core", "abort"} |-> entries'[g]] /\ Host!Programs[1] = "core" /\ Host!Programs[2] = "abort"
        /\ \A g \in {1, 2} : entries'[Host!Programs[g]] = IF g = r THEN h.vxi ELSE entries[Host!Programs[g]]
    <3>1. entries = [g \in {"core", "abort"} |-> entries[g]] /\ Host!Programs[1] = "core" /\ Host!Programs[2] = "abort"
      BY DEF HostInv, Host!Programs
    <3>2. entries' = [entries EXCEPT ![Host!Programs[r]] = h.vxi] /\ r \in {1, 2}
      BY <1>3, <1>7
    <3> HIDE DEF r, h
    <3> QED
      BY <3>1, <3>2
  <2>2. host' = [host EXCEPT ![p] = h] /\ at' = [at EXCEPT ![p] = t]
    BY <1>1, <1>7 DEF HostInv
  <2>3. h.vxi # 0
    BY <1>1 DEF Proper, Listens, Is
  <2>4. \A g \in {1, 2} : Owns(h, a, g) => entries[Host!Programs[g]] = h.vxi
    BY DEF HostInv
  <2>5. \A q \in Processes : q # p => ~Replacing(at[q])
    BY NobodyReplaces DEF Host!Set
  <2>6. \A q \in Processes, g \in {1, 2} : Owns(host[q], at[q], g) => g # r
    BY <1>7 DEF HostInv
  <2> HIDE DEF h, a, t, r
  <2>7. ~Replacing(t) /\ ~Is(t, "start")
    BY <1>3 DEF Replacing, Is
  <2>8. \A g \in {1, 2} : Owns(h, t, g) => g = r \/ Owns(h, a, g)
    BY <1>1, <1>2, <1>3 DEF Owns, Is, r
  <2>9. \A g \in {1, 2} : Owns(h, t, g) => h.vxi # 0 /\ entries'[Host!Programs[g]] = h.vxi
    BY <2>1, <2>3, <2>4, <2>8
  <2>10. \A q \in Processes, g \in {1, 2} :
           q # p /\ Owns(host[q], at[q], g) => entries'[Host!Programs[g]] = entries[Host!Programs[g]]
    BY <2>1, <2>6
  <2>11. Proper(h, t)
    <3>1. Listens(h, t) /\ Told(h, t)
      BY <1>2, <2>3 DEF Listens, Told
    <3> QED
      BY <1>2, <2>7, <3>1 DEF Proper
  <2> QED
    BY <1>0, <2>1, <2>2, <2>5, <2>7, <2>9, <2>10, <2>11, OneActs
<1> QED
  BY <1>4, <1>5, <1>6, <1>7

LEMMA ApplyKeeps ==
  ASSUME HostInv, NEW p \in Processes, NEW c \in Configs, Host!Apply(p, c)
  PROVE  HostInv'
<1> DEFINE o == host[p]
           m == Host!ScpiApplied(o, c, Host!Held(p))
           h == Host!HislipApplied(m, c, Host!Held(p))
           want == c.enabled /\ c.vxi11 /\ h.scpi # 0
           x == [do |-> "announce", config |-> c]
           s == Host!Step("start", 0)
           tell == <<x>>
           next == IF want THEN <<s>> \o tell ELSE tell
           k == [h EXCEPT !.mode = IF want THEN c.rpc ELSE @, !.vxiAll = IF want THEN c.all ELSE @]
           d == Host!Announced(k, "vxi11", 0)
           b == Host!Stopping(h, next)
<1>0. o = host[p]
  OBVIOUS
<1>1. at[p] = <<>> /\ Proper(o, <<>>) /\ UNCHANGED entries
  BY NowDoes DEF Host!Apply, Host!Idle
<1>2. \/ host' = [host EXCEPT ![p] = h] /\ at' = [at EXCEPT ![p] = tell]
      \/ host' = [host EXCEPT ![p] = d] /\ at' = [at EXCEPT ![p] = b]
  BY DEF Host!Apply
<1>3. Beside(h, o)
  <2>1. /\ IsHost(o) /\ o.announced.scpi \in {0, o.scpi} /\ o.announced.hislip \in {0, o.hislip}
    BY <1>1 DEF Proper, Told
  <2> HIDE DEF o
  <2>2. Beside(m, o)
    BY <2>1, ScpiBeside
  <2> HIDE DEF m
  <2>3. Beside(h, m)
    BY <2>2, HislipBeside DEF Beside
  <2> HIDE DEF h
  <2> QED
    BY <2>2, <2>3 DEF Beside
<1>4. x \in Steps /\ x.do = "announce" /\ s \in Steps /\ s.do = "start"
  BY DEF Host!Step, Steps
<1> HIDE DEF o, m, h, x, s
<1>5. /\ IsHost(h) /\ h.vxi \in Free \cup {0} /\ h.vxi = o.vxi /\ h.system = o.system
      /\ h.announced.scpi \in {0, h.scpi} /\ h.announced.hislip \in {0, h.hislip}
      /\ h.announced.vxi11 # 0 => h.running
  <2>1. o.announced.vxi11 # 0 => o.running
    BY <1>1 DEF Proper, Told, Is
  <2>2. o.vxi \in Free \cup {0}
    BY <1>1 DEF Proper
  <2> QED
    BY <1>3, <2>1, <2>2 DEF Beside
<1>6. tell \in Seq(Steps) /\ tell # <<>> /\ Len(tell) = 1 /\ DOMAIN tell = 1..1 /\ tell[1] = x
  BY <1>4
<1> HIDE DEF tell
<1>7. Planned(tell) /\ \A i \in DOMAIN tell : tell[i].do # "again"
  BY <1>4, <1>6 DEF Planned
<1>8. \A g \in {1, 2} : h.system => Owns(o, <<>>, g)
  BY <1>5 DEF Owns
<1>9. CASE host' = [host EXCEPT ![p] = h] /\ at' = [at EXCEPT ![p] = tell]
  <2>1. /\ ~Replacing(tell) /\ ~Is(tell, "start") /\ Is(tell, "announce")
        /\ \A g \in {1, 2} : Owns(h, tell, g) => h.system
    BY <1>4, <1>6 DEF Is, Owns, Replacing
  <2>2. Listens(h, tell)
    BY <1>4, <1>6, <2>1 DEF Listens, Is
  <2>3. Told(h, tell)
    BY <1>5, <2>1 DEF Told
  <2>4. Proper(h, tell)
    BY <1>5, <1>6, <1>7, <2>1, <2>2, <2>3 DEF Proper
  <2>5. \A g \in {1, 2} : Owns(h, tell, g) => Owns(host[p], at[p], g) /\ h.vxi = host[p].vxi
    BY <1>0, <1>1, <1>5, <1>8, <2>1
  <2> QED
    BY <1>0, <1>1, <1>5, <1>9, <2>1, <2>4, <2>5, OneGoesOn
<1>10. CASE host' = [host EXCEPT ![p] = d] /\ at' = [at EXCEPT ![p] = b]
  <2>1. /\ next \in Seq(Steps) /\ next # <<>> /\ Planned(next) /\ next[1].do \in {"start", "announce"}
        /\ \A i \in DOMAIN next : next[i].do # "again"
    <3>1. CASE ~want
      <4>1. next = tell
        BY <3>1
      <4> QED
        BY <1>4, <1>6, <1>7, <4>1
    <3>2. CASE want
      <4> DEFINE n == <<s>>
      <4>1. n \in Seq(Steps) /\ n # <<>> /\ Len(n) = 1 /\ DOMAIN n = 1..1 /\ n[1] = s
        BY <1>4
      <4>2. next = n \o tell
        BY <3>2
      <4> HIDE DEF n, next
      <4>3. \A i \in 1..(Len(n) - 1) : Leads(n[i], n[i + 1])
        BY <4>1
      <4>4. \A i \in DOMAIN n : n[i].do # "again"
        BY <1>4, <4>1
      <4>5. Leads(n[Len(n)], tell[1])
        BY <1>4, <1>6, <4>1 DEF Leads
      <4>6. /\ next \in Seq(Steps) /\ Planned(next) /\ next # <<>> /\ next[1] = s
        BY <1>6, <1>7, <4>1, <4>2, <4>3, <4>4, <4>5, PutBefore
      <4>7. /\ Len(next) = 2 /\ next[2] = x
        <5>1. next[2] = tell[1] /\ Len(next) = Len(n) + Len(tell)
          BY <1>6, <1>7, <4>1, <4>2, <4>3, <4>4, <4>5, PutBefore, ConcatProperties
        <5> QED
          BY <1>6, <4>1, <5>1
      <4>8. \A i \in DOMAIN next : i = 1 \/ i = 2
        BY <4>6, <4>7, SeqOf
      <4> QED
        BY <1>4, <4>6, <4>7, <4>8
    <3> QED
      BY <3>1, <3>2
  <2>2. /\ IsHost(k) /\ k.vxi = h.vxi /\ k.system = h.system /\ k.announced = h.announced /\ k.scpi = h.scpi
        /\ k.hislip = h.hislip
    <3> DEFINE u == IF want THEN c.rpc ELSE h.mode
               v == IF want THEN c.all ELSE h.vxiAll
               y == [h EXCEPT !.mode = u]
               z == [y EXCEPT !.vxiAll = v]
    <3>1. k = z
      OBVIOUS
    <3> HIDE DEF u, v, k
    <3>2. /\ IsHost(y) /\ y.vxi = h.vxi /\ y.system = h.system /\ y.announced = h.announced /\ y.scpi = h.scpi
          /\ y.hislip = h.hislip
      BY <1>5, MemberSet DEF Fields
    <3> HIDE DEF y
    <3>3. /\ IsHost(z) /\ z.vxi = h.vxi /\ z.system = h.system /\ z.announced = h.announced /\ z.scpi = h.scpi
          /\ z.hislip = h.hislip
      BY <3>2, MemberSet DEF Fields
    <3> QED
      BY <3>1, <3>3
  <2> HIDE DEF k, next
  <2>3. /\ IsHost(d) /\ d.announced["vxi11"] = 0 /\ \A g \in Services \ {"vxi11"} : d.announced[g] = k.announced[g]
        /\ \A g \in Fields \ {"announced"} : d[g] = k[g]
    BY <2>2, AnnouncedSet DEF Services
  <2> HIDE DEF d
  <2>4. /\ d.vxi = h.vxi /\ d.system = h.system /\ d.scpi = h.scpi /\ d.hislip = h.hislip /\ d.announced.vxi11 = 0
        /\ d.announced.scpi = h.announced.scpi /\ d.announced.hislip = h.announced.hislip
    BY <2>2, <2>3 DEF Fields, Services
  <2>5. /\ b \in Seq(Steps) /\ Planned(b) /\ b # <<>>
        /\ IF h.system THEN b[1] = Host!Step("unset", 1) /\ b[2] = Host!Step("unset", 2) ELSE b[1] = Host!Step("close", 0)
    BY <2>1, StoppingIs
  <2> HIDE DEF b
  <2>6. ~Replacing(b) /\ ~Is(b, "start") /\ \A g \in {1, 2} : Owns(d, b, g) => h.system
    BY <2>5 DEF Owns, Replacing, Is, Host!Step
  <2>7. Listens(d, b)
    BY <2>5, <2>6 DEF Listens, Is, Host!Step
  <2>8. Told(d, b)
    BY <1>5, <2>4 DEF Told
  <2>9. Proper(d, b)
    BY <1>5, <2>3, <2>4, <2>5, <2>6, <2>7, <2>8 DEF Proper
  <2>10. \A g \in {1, 2} : Owns(d, b, g) => Owns(host[p], at[p], g) /\ d.vxi = host[p].vxi
    BY <1>0, <1>1, <1>5, <1>8, <2>4, <2>6
  <2> QED
    BY <1>0, <1>1, <1>5, <1>10, <2>4, <2>6, <2>9, <2>10, OneGoesOn
<1> QED
  BY <1>2, <1>9, <1>10 DEF h

LEMMA HostInvNext ==
  ASSUME HostInv, ~Split, [HostNext]_mcVars
  PROVE  HostInv'
<1>1. CASE Host!Next
  <2>1. CASE Host!OthersPort
    BY <2>1 DEF HostInv, Host!OthersPort
  <2>2. CASE \E p \in Processes : \/ \E c \in Configs : Host!Apply(p, c)
                                  \/ Host!Unset(p) \/ Host!CloseAll(p) \/ Host!Start(p) \/ Host!Set(p) \/ Host!Ask(p)
                                  \/ Host!Registered(p) \/ Host!Announce(p) \/ Host!Quit(p) \/ Host!Gone(p) \/ Host!Crash(p)
    BY <2>2, ApplyKeeps, UnsetKeeps, CloseAllKeeps, StartKeeps, SetKeeps, AskKeeps, RegisteredKeeps, AnnounceKeeps,
       QuitKeeps, GoneKeeps
  <2> QED
    BY <1>1, <2>1, <2>2 DEF Host!Next
<1>2. CASE UNCHANGED <<host, at, entries>>
  BY <1>2 DEF HostInv
<1>3. Host!Next \/ UNCHANGED <<host, at, entries>>
  BY DEF HostNext, mcVars, hostVars, Host!vars
<1> QED
  BY <1>1, <1>2, <1>3

LEMMA HostInvInit ==
  ASSUME Host!Init
  PROVE  HostInv
<1>1. /\ host = [p \in Processes |-> Host!NewHost] /\ at = [p \in Processes |-> <<>>]
      /\ entries = [g \in {"core", "abort"} |-> 0]
  BY DEF Host!Init
<1> DEFINE d == Host!NewHost
<1>2. Proper(d, <<>>)
  <2>1. Told(d, <<>>)
    BY NewHostIs DEF Told
  <2>2. Listens(d, <<>>) /\ ~Is(<<>>, "start")
    BY DEF Listens, Is, Replacing
  <2>3. Planned(<<>>) /\ <<>> \in Seq(Steps)
    BY DEF Planned
  <2> QED
    BY NewHostIs, <2>1, <2>2, <2>3 DEF Proper
<1>3. ~Replacing(<<>>) /\ (\A g \in {1, 2} : ~Owns(d, <<>>, g)) /\ d.vxi = 0
  BY NewHostIs DEF Owns, Is, Replacing
<1> HIDE DEF d
<1>4. \A p \in Processes : host[p] = d /\ at[p] = <<>>
  BY <1>1 DEF d
<1> QED
  BY <1>1, <1>2, <1>3, <1>4 DEF HostInv

HostHolds == ~Split /\ server = "host" => HostInv

\* ServiceHost: a VXI-11 server that runs with the system's portmapper is the one its entries lead to, and mDNS tells of
\* what runs, whatever other processes of the program start, end or crash meanwhile, when a stale entry is replaced
\* before another process acts (Vxi11Server::registerWithRpcbind(), stop(), ServiceHost::apply()).
THEOREM ServicesAreReached == Spec => [](~Split => ServicesAreFound)
<1>1. Init => HostHolds
  BY HostInvInit DEF Init, HostInit, HostHolds
<1>2. HostHolds /\ [Next]_mcVars => HostHolds'
  <2> SUFFICES ASSUME HostHolds, ~Split, [Next]_mcVars, server' = "host" PROVE HostInv'
    BY DEF HostHolds
  <2>1. server = "host" /\ [HostNext]_mcVars
    BY DEF Next, HostNext, mcVars, hostVars
  <2> QED
    BY <2>1, HostInvNext DEF HostHolds
<1>3. HostHolds => (~Split => ServicesAreFound)
  <2> SUFFICES ASSUME HostInv PROVE Host!RegisteredAsServed /\ Host!AnnouncedAsServed
    BY DEF HostHolds, ServicesAreFound, Host!ServicesAreFound
  <2>1. ASSUME NEW p \in Processes, Host!Idle(p), host[p].system, NEW g \in {"core", "abort"}
        PROVE  entries[g] = host[p].vxi
    <3>1. \A i \in {1, 2} : Owns(host[p], at[p], i)
      BY <2>1 DEF Owns, Host!Idle
    <3>2. PICK i \in {1, 2} : Host!Programs[i] = g
      BY DEF Host!Programs
    <3> QED
      BY <3>1, <3>2 DEF HostInv
  <2>2. ASSUME NEW p \in Processes, Host!Idle(p)
        PROVE  /\ host[p].announced.scpi \in {0, host[p].scpi} /\ host[p].announced.hislip \in {0, host[p].hislip}
               /\ host[p].announced.vxi11 # 0 => host[p].running
    BY <2>2 DEF HostInv, Proper, Told, Is, Host!Idle
  <2> QED
    BY <2>1, <2>2 DEF Host!RegisteredAsServed, Host!AnnouncedAsServed
<1>4. Spec => []HostHolds
  BY <1>1, <1>2, PTL DEF Spec
<1> QED
  BY <1>3, <1>4, PTL

-----------------------------------------------------------------------------
(* HiSLIP: its sessions and their channels, the sockets under the handlers that run, and messages that stay whole. *)

SocketStates == {"free", "open", "leaving", "released", "doomed"}
SetupTypes   == {"Initialize", "Other", "AsyncInitialize"}
Types        == SetupTypes \cup {"Data", "DataEnd", "AsyncDeviceClear", "DeviceClearComplete"}
Msgs         == [type : Types, id : Nat, n : Nat, i : Nat]
ConnsOf      == [in : Seq(Msgs), kind : {"Unknown", "Sync", "Async"}, session : Nat, closing : BOOLEAN]
SessionsOf   == [sync : Sockets, async : Sockets \cup {0}, msgBuf : Seq(Msgs)]
Clients      == [n : Nat, i : Nat, clear : {"no", "asked", "granted"}, given : Nat]
Handlers     == [s : Sockets, at : {"loop", "command"}, pieces : Seq(Msgs)]

HTyped ==
  /\ socket \in [Sockets -> SocketStates] /\ unread \in [Sockets -> Seq(Msgs)] /\ client \in [Sockets -> Clients]
  /\ DOMAIN conns \subseteq Sockets /\ \A s \in DOMAIN conns : conns[s] \in ConnsOf
  /\ DOMAIN sessions \subseteq Nat \ {0} /\ \A id \in DOMAIN sessions : sessions[id] \in SessionsOf
  /\ calls \in Seq(Handlers) /\ fresh \subseteq DOMAIN conns
  /\ \A s \in Sockets : client[s].given <= client[s].n

\* All handlers but the innermost run a command. No socket of one is deleted; one that is about to be is that of the
\* last, whose command is done.
HStack ==
  /\ \A k \in DOMAIN calls : k < Len(calls) => calls[k].at = "command"
  /\ \A k \in DOMAIN calls : /\ socket[calls[k].s] # "free"
                             /\ socket[calls[k].s] = "doomed" => Len(calls) = 1 /\ calls[k].at = "loop"

Stands(s) == conns[s].kind # "Unknown" /\ conns[s].session \in DOMAIN sessions

\* Sessions and channels belong together both ways.
HChannels ==
  /\ DOMAIN conns = {s \in Sockets : socket[s] \in {"open", "leaving"}}
  /\ \A id \in DOMAIN sessions :
       /\ Hislip!Channel(sessions[id].sync, "Sync", id)
       /\ sessions[id].async # 0 => Hislip!Channel(sessions[id].async, "Async", id)
  /\ \A s \in DOMAIN conns : Stands(s) =>
       s = (IF conns[s].kind = "Sync" THEN sessions[conns[s].session].sync ELSE sessions[conns[s].session].async)

HLimits ==
  /\ IsFiniteSet(DOMAIN sessions) /\ Cardinality(DOMAIN sessions) <= MaxSessions
  /\ IsFiniteSet(DOMAIN conns) /\ Cardinality(DOMAIN conns) <= 2 * MaxSessions + MaxPending

-----------------------------------------------------------------------------
(* What the steps do. *)

LEMMA HislipCountsAgree ==
  ASSUME NEW S
  PROVE  Hislip!Cardinality(S) = Cardinality(S)
BY DEF Hislip!Cardinality, Cardinality

LEMMA MessageTyped ==
  ASSUME NEW type \in Types
  PROVE  Hislip!Message(type) \in Msgs /\ Hislip!Message(type).type = type
BY DEF Msgs, Hislip!Message

LEMMA PieceIs ==
  ASSUME NEW type, NEW n, NEW i
  PROVE  [Hislip!Message(type) EXCEPT !.n = n, !.i = i] = [type |-> type, id |-> 0, n |-> n, i |-> i]
<1> DEFINE m == [Hislip!Message(type) EXCEPT !.n = n]
<1>1. m = [type |-> type, id |-> 0, n |-> n, i |-> 0]
  BY DEF Hislip!Message
<1>2. [Hislip!Message(type) EXCEPT !.n = n, !.i = i] = [m EXCEPT !.i = i]
  OBVIOUS
<1> HIDE DEF m
<1> QED
  BY <1>1, <1>2

LEMMA NewOnesTyped ==
  ASSUME NEW s \in Sockets
  PROVE  Hislip!NewConn \in ConnsOf /\ Hislip!NewSession(s) \in SessionsOf /\ Hislip!NewClient \in Clients
<1>1. <<>> \in Seq(Msgs)
  OBVIOUS
<1> QED
  BY <1>1 DEF Hislip!NewConn, Hislip!NewSession, Hislip!NewClient, ConnsOf, SessionsOf, Clients

\* A client sends m; what it knows of that channel r becomes d.
Sends(s, m, r, d) ==
  /\ socket[s] = "open" /\ m \in Msgs /\ r \in Sockets /\ d \in Clients /\ d.given <= d.n
  /\ unread' = [unread EXCEPT ![s] = Append(@, m)] /\ client' = [client EXCEPT ![r] = d]
  /\ fresh' = fresh \cup {s} /\ Hislip!EventLoop /\ uses < HislipUses /\ uses' = uses + 1
  /\ UNCHANGED <<conns, sessions, nextSession, socket, calls>>

SendsPiece(s, m, d) ==
  /\ Sends(s, m, s, d) /\ conns[s].kind = "Sync" /\ client[s].clear = "no" /\ d.clear = "no"
  /\ m.type \in {"Data", "DataEnd"} /\ m.n = client[s].n /\ m.i = client[s].i + 1 /\ d.given = client[s].given
  /\ IF m.type = "Data" THEN d.n = client[s].n /\ d.i = client[s].i + 1 ELSE d.n = client[s].n + 1 /\ d.i = 0

SendsClear(s, m, d) ==
  /\ Stands(s) /\ conns[s].kind = "Async" /\ m.type = "AsyncDeviceClear"
  /\ LET sync == sessions[conns[s].session].sync
     IN /\ Sends(s, m, sync, d) /\ client[sync].clear = "no" /\ d.clear = "asked" /\ d.given = client[sync].n
        /\ d.n = client[sync].n /\ d.i = client[sync].i

SendsComplete(s, m, d) ==
  /\ Sends(s, m, s, d) /\ conns[s].kind = "Sync" /\ client[s].clear = "granted" /\ m.type = "DeviceClearComplete"
  /\ d.clear = "no" /\ d.n = client[s].n + 1 /\ d.i = 0 /\ d.given = client[s].given

SendsSetup(s, m) ==
  /\ Sends(s, m, s, client[s]) /\ conns[s].kind = "Unknown" /\ m.type \in SetupTypes

LEMMA SendIs ==
  ASSUME HTyped, NEW s \in Sockets, Hislip!Send(s)
  PROVE  \E m \in Msgs : \/ \E d \in Clients : SendsPiece(s, m, d) \/ SendsClear(s, m, d) \/ SendsComplete(s, m, d)
                        \/ SendsSetup(s, m)
<1>1. /\ socket[s] = "open" /\ fresh' = fresh \cup {s} /\ Hislip!EventLoop /\ uses < HislipUses /\ uses' = uses + 1
      /\ UNCHANGED <<conns, sessions, nextSession, socket, calls>>
  BY DEF Hislip!Send, Hislip!Use
<1>2. client[s] \in Clients /\ client[s].given <= client[s].n
  BY DEF HTyped
<1> DEFINE c == client[s]
<1>3. ASSUME NEW type \in {"Data", "DataEnd"}, Hislip!SendPiece(s, type)
      PROVE  \E m \in Msgs : \E d \in Clients : SendsPiece(s, m, d)
  <2> DEFINE m == [Hislip!Message(type) EXCEPT !.n = c.n, !.i = c.i + 1]
             d == IF type = "Data" THEN [c EXCEPT !.i = @ + 1] ELSE [c EXCEPT !.n = @ + 1, !.i = 0]
  <2>1. m \in Msgs /\ m.type = type /\ m.n = c.n /\ m.i = c.i + 1
    <3>1. c.n \in Nat /\ c.i + 1 \in Nat
      BY <1>2 DEF Clients
    <3>2. m = [type |-> type, id |-> 0, n |-> c.n, i |-> c.i + 1]
      BY PieceIs
    <3> HIDE DEF m, c
    <3> QED
      BY <3>1, <3>2 DEF Msgs, Types
  <2>2. /\ d \in Clients /\ d.given <= d.n /\ d.given = c.given /\ d.clear = c.clear
        /\ IF type = "Data" THEN d.n = c.n /\ d.i = c.i + 1 ELSE d.n = c.n + 1 /\ d.i = 0
    <3>0. c \in Clients /\ c.given <= c.n
      BY <1>2
    <3> HIDE DEF c
    <3>1. CASE type = "Data"
      BY <3>0, <3>1 DEF Clients
    <3>2. CASE type # "Data"
      <4>1. d = [n |-> c.n + 1, i |-> 0, clear |-> c.clear, given |-> c.given]
        BY <3>0, <3>2 DEF Clients
      <4> HIDE DEF d
      <4> QED
        BY <3>0, <3>2, <4>1 DEF Clients
    <3> QED
      BY <3>1, <3>2
  <2>3. /\ conns[s].kind = "Sync" /\ c.clear = "no" /\ unread' = [unread EXCEPT ![s] = Append(@, m)]
        /\ client' = [client EXCEPT ![s] = d]
    <3>1. /\ conns[s].kind = "Sync" /\ c.clear = "no" /\ unread' = [unread EXCEPT ![s] = Append(@, m)]
      BY <1>3 DEF Hislip!SendPiece
    <3>2. client' = [client EXCEPT ![s] = d]
      BY <1>3 DEF Hislip!SendPiece
    <3> QED
      BY <3>1, <3>2
  <2> HIDE DEF m, d
  <2>4. SendsPiece(s, m, d)
    BY <1>1, <2>1, <2>2, <2>3 DEF SendsPiece, Sends
  <2> QED
    BY <2>1, <2>2, <2>4
<1>4. ASSUME Hislip!SendClear(s) PROVE \E m \in Msgs : \E d \in Clients : SendsClear(s, m, d)
  <2> DEFINE sync == sessions[conns[s].session].sync
             m == Hislip!Message("AsyncDeviceClear")
             d == [n |-> client[sync].n, i |-> client[sync].i, clear |-> "asked", given |-> client[sync].n]
  <2>1. Stands(s) /\ conns[s].kind = "Async" /\ client[sync].clear = "no" /\ unread' = [unread EXCEPT ![s] = Append(@, m)]
    BY <1>4 DEF Hislip!SendClear, Stands
  <2>2. sync \in Sockets /\ client[sync] \in Clients
    BY <2>1 DEF HTyped, Stands, SessionsOf
  <2>3. client' = [client EXCEPT ![sync] = d]
    <3>1. client' = [client EXCEPT ![sync].clear = "asked", ![sync].given = client[sync].n]
      BY <1>4 DEF Hislip!SendClear
    <3> DEFINE asked == [client EXCEPT ![sync].clear = "asked"]
    <3>2. /\ DOMAIN asked = DOMAIN client /\ asked[sync] = [client[sync] EXCEPT !.clear = "asked"]
          /\ \A r \in DOMAIN client : r # sync => asked[r] = client[r]
      BY <2>2 DEF HTyped
    <3>3. client' = [asked EXCEPT ![sync].given = client[sync].n]
      BY <3>1
    <3> HIDE DEF asked, sync
    <3>4. client'[sync] = d /\ DOMAIN client' = DOMAIN client /\ \A r \in DOMAIN client : r # sync => client'[r] = client[r]
      BY <2>2, <3>2, <3>3 DEF HTyped, Clients
    <3> QED
      BY <2>2, <3>3, <3>4 DEF HTyped
  <2>4. m \in Msgs /\ m.type = "AsyncDeviceClear"
    BY MessageTyped DEF Types
  <2>5. d \in Clients /\ d.given <= d.n /\ d.clear = "asked" /\ d.given = client[sync].n /\ d.n = client[sync].n
        /\ d.i = client[sync].i
    BY <2>2 DEF Clients
  <2> HIDE DEF m, d
  <2>6. SendsClear(s, m, d)
    BY <1>1, <2>1, <2>2, <2>3, <2>4, <2>5 DEF SendsClear, Sends
  <2> QED
    BY <2>4, <2>5, <2>6
<1>5. ASSUME Hislip!SendClearComplete(s) PROVE \E m \in Msgs : \E d \in Clients : SendsComplete(s, m, d)
  <2> DEFINE m == Hislip!Message("DeviceClearComplete")
             d == [n |-> c.n + 1, i |-> 0, clear |-> "no", given |-> c.given]
  <2>1. conns[s].kind = "Sync" /\ c.clear = "granted" /\ unread' = [unread EXCEPT ![s] = Append(@, m)]
    BY <1>5 DEF Hislip!SendClearComplete
  <2>2. client' = [client EXCEPT ![s] = d]
    <3>1. client' = [client EXCEPT ![s].clear = "no", ![s].n = @ + 1, ![s].i = 0]
      BY <1>5 DEF Hislip!SendClearComplete
    <3> DEFINE ended == [client EXCEPT ![s].clear = "no"]
               next  == [ended EXCEPT ![s].n = @ + 1]
    <3>2. /\ DOMAIN ended = DOMAIN client /\ ended[s] = [client[s] EXCEPT !.clear = "no"]
          /\ \A r \in DOMAIN client : r # s => ended[r] = client[r]
      BY DEF HTyped
    <3>3. client' = [next EXCEPT ![s].i = 0]
      BY <3>1
    <3> HIDE DEF ended
    <3>4. /\ DOMAIN next = DOMAIN client /\ next[s] = [ended[s] EXCEPT !.n = @ + 1]
          /\ \A r \in DOMAIN client : r # s => next[r] = client[r]
      BY <3>2 DEF HTyped
    <3> HIDE DEF next
    <3>5. client'[s] = d /\ DOMAIN client' = DOMAIN client /\ \A r \in DOMAIN client : r # s => client'[r] = client[r]
      BY <1>2, <3>2, <3>3, <3>4 DEF HTyped, Clients
    <3> QED
      BY <3>3, <3>5 DEF HTyped
  <2>3. m \in Msgs /\ m.type = "DeviceClearComplete"
    BY MessageTyped DEF Types
  <2>4. d \in Clients /\ d.given <= d.n /\ d.clear = "no" /\ d.given = c.given /\ d.n = c.n + 1 /\ d.i = 0
    BY <1>2 DEF Clients
  <2> HIDE DEF m, d
  <2>5. SendsComplete(s, m, d)
    BY <1>1, <2>1, <2>2, <2>3, <2>4 DEF SendsComplete, Sends
  <2> QED
    BY <2>3, <2>4, <2>5
<1>6. ASSUME Hislip!SendSetup(s) PROVE \E m \in Msgs : SendsSetup(s, m)
  <2>1. /\ conns[s].kind = "Unknown" /\ client' = client
        /\ \E m \in {Hislip!Message(type) : type \in {"Initialize", "Other"}}
                    \cup {[Hislip!Message("AsyncInitialize") EXCEPT !.id = id] : id \in DOMAIN sessions} :
             unread' = [unread EXCEPT ![s] = Append(@, m)]
    BY <1>6 DEF Hislip!SendSetup
  <2>2. PICK m \in Msgs : m.type \in SetupTypes /\ unread' = [unread EXCEPT ![s] = Append(@, m)]
    BY <2>1 DEF Hislip!Message, Msgs, Types, SetupTypes, HTyped
  <2>3. client' = [client EXCEPT ![s] = client[s]]
    BY <2>1 DEF HTyped
  <2> QED
    BY <1>1, <1>2, <2>1, <2>2, <2>3 DEF SendsSetup, Sends
<1> QED
  BY <1>3, <1>4, <1>5, <1>6 DEF Hislip!Send
-----------------------------------------------------------------------------
(* What the handler does with a message. *)

\* The loop of socket s takes m; what m_conns holds of s becomes what is said.
Takes1(s, m, kind, session, closing) ==
  /\ calls # <<>> /\ s = Hislip!Top.s /\ Hislip!Top.at = "loop" /\ s \in DOMAIN conns
  /\ ~conns[s].closing /\ conns[s].in # <<>> /\ m = Head(conns[s].in)
  /\ DOMAIN conns' = DOMAIN conns /\ \A r \in DOMAIN conns : r # s => conns'[r] = conns[r]
  /\ conns'[s] = [in |-> IF closing THEN <<>> ELSE Tail(conns[s].in), kind |-> kind, session |-> session,
                  closing |-> closing]
  /\ UNCHANGED <<socket, unread, fresh, uses>>

Buffers(id, b) ==
  /\ id \in DOMAIN sessions /\ DOMAIN sessions' = DOMAIN sessions
  /\ \A j \in DOMAIN sessions : j # id => sessions'[j] = sessions[j]
  /\ sessions'[id] = [sync |-> sessions[id].sync, async |-> sessions[id].async, msgBuf |-> b]

LEMMA TakesIs ==
  ASSUME HTyped, Hislip!Handling, NEW m, NEW kind, NEW session, NEW closing, NEW in,
         Hislip!Takes(m, [in |-> in, kind |-> kind, session |-> session, closing |-> closing])
  PROVE  Takes1(Hislip!Top.s, m, kind, session, closing)
<1> DEFINE s == Hislip!Top.s
           c == [in |-> in, kind |-> kind, session |-> session, closing |-> closing]
<1>1. calls # <<>> /\ Hislip!Top.at = "loop" /\ s \in DOMAIN conns /\ ~conns[s].closing /\ conns[s].in # <<>>
  BY DEF Hislip!Handling, Hislip!InLoop, Hislip!Ended
<1>2. /\ m = Head(conns[s].in) /\ UNCHANGED <<socket, unread, fresh, uses>>
      /\ conns' = [conns EXCEPT ![s] = [c EXCEPT !.in = IF c.closing THEN <<>> ELSE Tail(conns[s].in)]]
  BY DEF Hislip!Takes
<1> DEFINE rest == IF closing THEN <<>> ELSE Tail(conns[s].in)
<1> HIDE DEF s
<1>3. [c EXCEPT !.in = IF c.closing THEN <<>> ELSE Tail(conns[s].in)]
        = [in |-> IF closing THEN <<>> ELSE Tail(conns[s].in), kind |-> kind, session |-> session, closing |-> closing]
  <2>1. c.closing = closing
    OBVIOUS
  <2>2. [c EXCEPT !.in = IF c.closing THEN <<>> ELSE Tail(conns[s].in)] = [c EXCEPT !.in = rest]
    BY <2>1
  <2> HIDE DEF rest
  <2>3. [c EXCEPT !.in = rest] = [in |-> rest, kind |-> kind, session |-> session, closing |-> closing]
    OBVIOUS
  <2> QED
    BY <2>2, <2>3 DEF rest
<1> HIDE DEF c
<1> QED
  BY <1>1, <1>2, <1>3 DEF Takes1, s

LEMMA ConnIs ==
  ASSUME NEW c \in ConnsOf, NEW kind, NEW session, NEW closing
  PROVE  /\ c = [in |-> c.in, kind |-> c.kind, session |-> c.session, closing |-> c.closing]
         /\ [c EXCEPT !.kind = kind, !.session = session]
              = [in |-> c.in, kind |-> kind, session |-> session, closing |-> c.closing]
         /\ [c EXCEPT !.closing = closing]
              = [in |-> c.in, kind |-> c.kind, session |-> c.session, closing |-> closing]
<1>1. c = [in |-> c.in, kind |-> c.kind, session |-> c.session, closing |-> c.closing]
  BY DEF ConnsOf
<1> DEFINE d == [c EXCEPT !.kind = kind]
<1>2. d = [in |-> c.in, kind |-> kind, session |-> c.session, closing |-> c.closing]
  BY DEF ConnsOf
<1>3. [c EXCEPT !.kind = kind, !.session = session] = [d EXCEPT !.session = session]
  OBVIOUS
<1> HIDE DEF d
<1>4. [d EXCEPT !.session = session] = [in |-> c.in, kind |-> kind, session |-> session, closing |-> c.closing]
  BY <1>2
<1>5. [c EXCEPT !.closing = closing] = [in |-> c.in, kind |-> c.kind, session |-> c.session, closing |-> closing]
  BY DEF ConnsOf
<1> QED
  BY <1>1, <1>3, <1>4, <1>5

LEMMA ClosingIs ==
  ASSUME NEW c \in ConnsOf, ~c.closing
  PROVE  c.closing = FALSE
BY DEF ConnsOf

LEMMA HandlerTyped ==
  ASSUME HTyped, Hislip!Handling
  PROVE  /\ Hislip!Top.s \in DOMAIN conns /\ conns[Hislip!Top.s] \in ConnsOf
         /\ ~conns[Hislip!Top.s].closing /\ conns[Hislip!Top.s].in # <<>> /\ conns[Hislip!Top.s].in \in Seq(Msgs)
         /\ Head(conns[Hislip!Top.s].in) \in Msgs /\ Tail(conns[Hislip!Top.s].in) \in Seq(Msgs)
<1> DEFINE s == Hislip!Top.s
<1>1. s \in DOMAIN conns /\ ~conns[s].closing /\ conns[s].in # <<>>
  BY DEF Hislip!Handling, Hislip!Ended
<1> HIDE DEF s
<1>2. conns[s] \in ConnsOf
  BY <1>1 DEF HTyped
<1>3. conns[s].in \in Seq(Msgs)
  BY <1>2 DEF ConnsOf
<1>4. Head(conns[s].in) \in Msgs /\ Tail(conns[s].in) \in Seq(Msgs)
  BY <1>1, <1>3
<1> QED
  BY <1>1, <1>2, <1>3, <1>4 DEF s

LEMMA BuffersIs ==
  ASSUME HTyped, NEW id \in DOMAIN sessions, NEW b, sessions' = [sessions EXCEPT ![id].msgBuf = b]
  PROVE  Buffers(id, b)
BY DEF HTyped, SessionsOf, Buffers

LEMMA InitializeIs ==
  ASSUME HTyped, Hislip!Initialize
  PROVE  \E s, m : /\ Takes1(s, m, "Sync", Hislip!NewSessionId, FALSE) /\ conns[s].kind = "Unknown"
                   /\ Cardinality(DOMAIN sessions) < MaxSessions
                   /\ sessions' = Hislip!With(sessions, Hislip!NewSessionId, Hislip!NewSession(s))
                   /\ nextSession' = (Hislip!NewSessionId + 1) % Ids /\ UNCHANGED <<calls, client>>
<1> DEFINE s == Hislip!Top.s
           c == conns[s]
           id == Hislip!NewSessionId
<1>1. /\ Hislip!Handling /\ c.kind = "Unknown" /\ Cardinality(DOMAIN sessions) < MaxSessions
      /\ Hislip!Takes(Hislip!Message("Initialize"), [c EXCEPT !.kind = "Sync", !.session = id])
      /\ sessions' = Hislip!With(sessions, id, Hislip!NewSession(s))
      /\ nextSession' = (id + 1) % Ids /\ UNCHANGED <<calls, client>>
  BY HislipCountsAgree DEF Hislip!Initialize
<1> HIDE DEF id
<1>2. c \in ConnsOf /\ c.closing = FALSE
  BY <1>1, HandlerTyped, ClosingIs
<1>3. [c EXCEPT !.kind = "Sync", !.session = id] = [in |-> c.in, kind |-> "Sync", session |-> id, closing |-> FALSE]
  <2>1. [c EXCEPT !.kind = "Sync", !.session = id]
          = [in |-> c.in, kind |-> "Sync", session |-> id, closing |-> c.closing]
    BY <1>2, ConnIs
  <2> HIDE DEF c
  <2> QED
    BY <1>2, <2>1
<1>4. Takes1(s, Hislip!Message("Initialize"), "Sync", id, FALSE)
  BY <1>1, <1>3, TakesIs
<1> QED
  BY <1>1, <1>4 DEF id

LEMMA AsyncInitializeIs ==
  ASSUME HTyped, Hislip!AsyncInitialize
  PROVE  \E s, m : \E id \in DOMAIN sessions :
           /\ Takes1(s, m, "Async", id, FALSE) /\ conns[s].kind = "Unknown" /\ sessions[id].async = 0
           /\ DOMAIN sessions' = DOMAIN sessions /\ \A j \in DOMAIN sessions : j # id => sessions'[j] = sessions[j]
           /\ sessions'[id] = [sync |-> sessions[id].sync, async |-> s, msgBuf |-> sessions[id].msgBuf]
           /\ UNCHANGED <<nextSession, calls, client>>
<1> DEFINE s == Hislip!Top.s
           c == conns[s]
<1>1. Hislip!Handling /\ c.kind = "Unknown" /\ UNCHANGED <<nextSession, calls, client>>
  BY DEF Hislip!AsyncInitialize
<1>2. PICK id \in DOMAIN sessions :
        /\ sessions[id].async = 0
        /\ Hislip!Takes([Hislip!Message("AsyncInitialize") EXCEPT !.id = id], [c EXCEPT !.kind = "Async", !.session = id])
        /\ sessions' = [sessions EXCEPT ![id].async = s]
  BY DEF Hislip!AsyncInitialize
<1>3. c \in ConnsOf /\ c.closing = FALSE
  BY <1>1, HandlerTyped, ClosingIs
<1>4. [c EXCEPT !.kind = "Async", !.session = id] = [in |-> c.in, kind |-> "Async", session |-> id, closing |-> FALSE]
  <2>1. [c EXCEPT !.kind = "Async", !.session = id]
          = [in |-> c.in, kind |-> "Async", session |-> id, closing |-> c.closing]
    BY <1>3, ConnIs
  <2> HIDE DEF c
  <2> QED
    BY <1>3, <2>1
<1> DEFINE m == [Hislip!Message("AsyncInitialize") EXCEPT !.id = id]
           d == [in |-> c.in, kind |-> "Async", session |-> id, closing |-> FALSE]
<1>5. Takes1(s, m, "Async", id, FALSE)
  <2>1. Hislip!Takes(m, d)
    BY <1>2, <1>4
  <2> HIDE DEF m
  <2> QED
    BY <1>1, <2>1, TakesIs
<1> HIDE DEF m, d
<1>6. /\ DOMAIN sessions' = DOMAIN sessions /\ \A j \in DOMAIN sessions : j # id => sessions'[j] = sessions[j]
      /\ sessions'[id] = [sync |-> sessions[id].sync, async |-> s, msgBuf |-> sessions[id].msgBuf]
  BY <1>2 DEF HTyped, SessionsOf
<1> QED
  BY <1>1, <1>2, <1>5, <1>6

LEMMA FatalIs ==
  ASSUME HTyped, Hislip!Fatal
  PROVE  \E s, m : /\ Takes1(s, m, conns[s].kind, conns[s].session, TRUE)
                   /\ UNCHANGED <<sessions, nextSession, calls, client>>
<1> DEFINE s == Hislip!Top.s
           c == conns[s]
<1>1. /\ Hislip!Handling /\ Hislip!Takes(Head(c.in), [c EXCEPT !.closing = TRUE])
      /\ UNCHANGED <<sessions, nextSession, calls, client>>
  BY DEF Hislip!Fatal
<1>2. [c EXCEPT !.closing = TRUE] = [in |-> c.in, kind |-> c.kind, session |-> c.session, closing |-> TRUE]
  BY <1>1, HandlerTyped, ConnIs
<1>3. Takes1(s, Head(c.in), c.kind, c.session, TRUE)
  BY <1>1, <1>2, TakesIs
<1> QED
  BY <1>1, <1>3

LEMMA AnsweredIs ==
  ASSUME HTyped, Hislip!Answered
  PROVE  \E s, m : /\ Takes1(s, m, conns[s].kind, conns[s].session, FALSE) /\ m.type = "Other" /\ Stands(s)
                   /\ UNCHANGED <<sessions, nextSession, calls, client>>
<1> DEFINE s == Hislip!Top.s
           c == conns[s]
<1>1. /\ Hislip!Handling /\ Hislip!Takes(Hislip!Message("Other"), c) /\ Stands(s)
      /\ UNCHANGED <<sessions, nextSession, calls, client>>
  BY DEF Hislip!Answered, Hislip!Stands, Stands
<1>2. c = [in |-> c.in, kind |-> c.kind, session |-> c.session, closing |-> FALSE]
  <2>1. c \in ConnsOf /\ c.closing = FALSE
    BY <1>1, HandlerTyped, ClosingIs
  <2> QED
    BY <2>1, ConnIs
<1> DEFINE d == [in |-> c.in, kind |-> c.kind, session |-> c.session, closing |-> FALSE]
<1>3. Takes1(s, Hislip!Message("Other"), c.kind, c.session, FALSE)
  <2>1. Hislip!Takes(Hislip!Message("Other"), d)
    BY <1>1, <1>2
  <2> QED
    BY <1>1, <2>1, TakesIs
<1> HIDE DEF d
<1> QED
  BY <1>1, <1>3, MessageTyped DEF Types, SetupTypes

LEMMA TooLargeIs ==
  ASSUME HTyped, Hislip!TooLarge
  PROVE  \E s, m : /\ Takes1(s, m, conns[s].kind, conns[s].session, TRUE) /\ Buffers(conns[s].session, <<>>)
                   /\ conns[s].kind = "Sync" /\ Stands(s)
                   /\ UNCHANGED <<nextSession, calls, client>>
<1> DEFINE s == Hislip!Top.s
           c == conns[s]
<1>1. /\ Hislip!Handling /\ Hislip!Takes(Head(c.in), [c EXCEPT !.closing = TRUE]) /\ c.session \in DOMAIN sessions
      /\ c.kind = "Sync"
      /\ sessions' = [sessions EXCEPT ![c.session].msgBuf = <<>>]
      /\ UNCHANGED <<nextSession, calls, client>>
  BY DEF Hislip!TooLarge, Hislip!Synced, Hislip!Stands
<1>2. [c EXCEPT !.closing = TRUE] = [in |-> c.in, kind |-> c.kind, session |-> c.session, closing |-> TRUE]
  BY <1>1, HandlerTyped, ConnIs
<1> DEFINE d == [in |-> c.in, kind |-> c.kind, session |-> c.session, closing |-> TRUE]
<1>3. Takes1(s, Head(c.in), c.kind, c.session, TRUE)
  <2>1. Hislip!Takes(Head(c.in), d)
    BY <1>1, <1>2
  <2> QED
    BY <1>1, <2>1, TakesIs
<1> HIDE DEF d
<1> QED
  BY <1>1, <1>3, BuffersIs DEF Stands

\* A piece of a message, and what the handler runs with the last.
LEMMA DataIs ==
  ASSUME HTyped, Hislip!Data
  PROVE  \E s, m, msg : /\ Takes1(s, m, "Sync", conns[s].session, FALSE) /\ conns[s].kind = "Sync" /\ Stands(s)
                        /\ m.type \in {"Data", "DataEnd"} /\ msg = Append(sessions[conns[s].session].msgBuf, m)
                        /\ Buffers(conns[s].session, IF m.type = "Data" THEN msg ELSE <<>>)
                        /\ UNCHANGED <<nextSession, client>>
                        /\ calls' = IF m.type = "Data" THEN calls
                                    ELSE [calls EXCEPT ![Len(calls)] = [s |-> s, at |-> "command", pieces |-> msg]]
<1> DEFINE s == Hislip!Top.s
           c == conns[s]
           m == Head(c.in)
           msg == Append(sessions[c.session].msgBuf, m)
           b == IF m.type = "Data" THEN msg ELSE <<>>
<1>1. /\ Hislip!Handling /\ Hislip!Takes(m, c) /\ c.session \in DOMAIN sessions /\ c.kind = "Sync"
      /\ sessions' = [sessions EXCEPT ![c.session].msgBuf = b] /\ Hislip!IsPiece(m) /\ UNCHANGED <<nextSession, client>>
      /\ calls' = IF m.type = "Data" THEN calls
                  ELSE [calls EXCEPT ![Len(calls)] = [@ EXCEPT !.at = "command", !.pieces = msg]]
  BY DEF Hislip!Data, Hislip!Synced, Hislip!Stands
<1>2. m.type \in {"Data", "DataEnd"}
  BY <1>1 DEF Hislip!IsPiece
<1>3. c = [in |-> c.in, kind |-> "Sync", session |-> c.session, closing |-> FALSE]
  <2>1. c \in ConnsOf /\ c.closing = FALSE
    BY <1>1, HandlerTyped, ClosingIs
  <2> QED
    BY <1>1, <2>1, ConnIs
<1>4. calls' = IF m.type = "Data" THEN calls
               ELSE [calls EXCEPT ![Len(calls)] = [s |-> s, at |-> "command", pieces |-> msg]]
  <2>1. calls # <<>> /\ calls \in Seq(Handlers)
    BY <1>1 DEF HTyped, Hislip!Handling, Hislip!InLoop
  <2>2. Len(calls) \in DOMAIN calls /\ calls[Len(calls)] \in Handlers
    BY <2>1
  <2> DEFINE top == calls[Len(calls)]
             ran == [top EXCEPT !.at = "command"]
  <2>3. ran = [s |-> s, at |-> "command", pieces |-> top.pieces]
    BY <2>2 DEF Handlers, Hislip!Top
  <2>4. [top EXCEPT !.at = "command", !.pieces = msg] = [ran EXCEPT !.pieces = msg]
    OBVIOUS
  <2> HIDE DEF ran, msg, m
  <2>5. [ran EXCEPT !.pieces = msg] = [s |-> s, at |-> "command", pieces |-> msg]
    BY <2>3
  <2> QED
    BY <1>1, <2>4, <2>5
<1> HIDE DEF m, b
<1>5. Takes1(s, m, "Sync", c.session, FALSE)
  BY <1>1, <1>3, TakesIs
<1>6. Buffers(c.session, b)
  BY <1>1, BuffersIs
<1>7. Buffers(c.session, IF m.type = "Data" THEN msg ELSE <<>>) /\ Stands(s)
  BY <1>1, <1>6 DEF b, Stands
<1>8. msg = Append(sessions[c.session].msgBuf, m) /\ c.kind = "Sync" /\ UNCHANGED <<nextSession, client>>
  BY <1>1
<1> HIDE DEF msg
<1> QED
  BY <1>2, <1>4, <1>5, <1>7, <1>8

LEMMA ClearCompleteIs ==
  ASSUME HTyped, Hislip!ClearComplete
  PROVE  \E s, m : /\ Takes1(s, m, "Sync", conns[s].session, FALSE) /\ conns[s].kind = "Sync" /\ Stands(s)
                   /\ m.type = "DeviceClearComplete" /\ Buffers(conns[s].session, <<>>)
                   /\ UNCHANGED <<nextSession, calls, client>>
<1> DEFINE s == Hislip!Top.s
           c == conns[s]
           m == Hislip!Message("DeviceClearComplete")
<1>1. /\ Hislip!Handling /\ Hislip!Takes(m, c) /\ c.session \in DOMAIN sessions /\ c.kind = "Sync"
      /\ sessions' = [sessions EXCEPT ![c.session].msgBuf = <<>>] /\ UNCHANGED <<nextSession, calls, client>>
  BY DEF Hislip!ClearComplete, Hislip!Synced, Hislip!Stands
<1>2. m.type = "DeviceClearComplete"
  BY MessageTyped DEF Types
<1>3. c = [in |-> c.in, kind |-> "Sync", session |-> c.session, closing |-> FALSE]
  <2>1. c \in ConnsOf /\ c.closing = FALSE
    BY <1>1, HandlerTyped, ClosingIs
  <2> QED
    BY <1>1, <2>1, ConnIs
<1> HIDE DEF m
<1>4. Takes1(s, m, "Sync", c.session, FALSE)
  BY <1>1, <1>3, TakesIs
<1>5. Buffers(c.session, <<>>)
  BY <1>1, BuffersIs
<1> QED
  BY <1>1, <1>2, <1>4, <1>5 DEF Stands

LEMMA AsyncClearIs ==
  ASSUME HTyped, Hislip!AsyncDeviceClear
  PROVE  \E s, m : /\ Takes1(s, m, "Async", conns[s].session, FALSE) /\ conns[s].kind = "Async" /\ Stands(s)
                   /\ m.type = "AsyncDeviceClear" /\ Buffers(conns[s].session, <<>>)
                   /\ UNCHANGED <<nextSession, calls>>
                   /\ client' = [client EXCEPT ![sessions[conns[s].session].sync].clear = "granted"]
<1> DEFINE s == Hislip!Top.s
           c == conns[s]
           m == Hislip!Message("AsyncDeviceClear")
<1>1. /\ Hislip!Handling /\ Hislip!Takes(m, c) /\ c.session \in DOMAIN sessions /\ c.kind = "Async"
      /\ sessions' = [sessions EXCEPT ![c.session].msgBuf = <<>>] /\ UNCHANGED <<nextSession, calls>>
      /\ client' = [client EXCEPT ![sessions[c.session].sync].clear = "granted"]
  BY DEF Hislip!AsyncDeviceClear, Hislip!Stands
<1>2. m.type = "AsyncDeviceClear"
  BY MessageTyped DEF Types
<1>3. c = [in |-> c.in, kind |-> "Async", session |-> c.session, closing |-> FALSE]
  <2>1. c \in ConnsOf /\ c.closing = FALSE
    BY <1>1, HandlerTyped, ClosingIs
  <2> QED
    BY <1>1, <2>1, ConnIs
<1> HIDE DEF m
<1>4. Takes1(s, m, "Async", c.session, FALSE)
  BY <1>1, <1>3, TakesIs
<1>5. Buffers(c.session, <<>>)
  BY <1>1, BuffersIs
<1> QED
  BY <1>1, <1>2, <1>4, <1>5 DEF Stands
-----------------------------------------------------------------------------
(* The types. *)

\* The steps of the server and its clients.
LEMMA HislipSteps ==
  ASSUME Hislip!Next
  PROVE  \/ \E on \in BOOLEAN : Hislip!Listen(on)
         \/ Hislip!NewConnection
         \/ \E s \in Sockets : \/ Hislip!Send(s) \/ Hislip!Leave(s) \/ Hislip!ReadyRead(s) \/ Hislip!SetupTimeout(s)
                               \/ Hislip!Linger(s) \/ Hislip!Disconnected(s) \/ Hislip!Delete(s)
         \/ Hislip!Initialize \/ Hislip!AsyncInitialize \/ Hislip!Fatal \/ Hislip!TooLarge \/ Hislip!Data
         \/ Hislip!ClearComplete \/ Hislip!AsyncDeviceClear \/ Hislip!Answered \/ Hislip!LoopEnds
         \/ Hislip!CommandEnds
BY DEF Hislip!Next, Hislip!Handled

\* A socket that is open begins to leave.
Leaves(s) == socket[s] = "open" /\ socket' = [socket EXCEPT ![s] = "leaving"]

LEMMA QuietSteps ==
  ASSUME NEW s \in Sockets, Hislip!Leave(s) \/ Hislip!SetupTimeout(s) \/ Hislip!Linger(s)
  PROVE  /\ Leaves(s) \/ UNCHANGED socket
         /\ unread' = unread \/ (unread' = [unread EXCEPT ![s] = <<>>] /\ conns[s].closing)
         /\ UNCHANGED <<conns, sessions, nextSession, calls, fresh, client>>
         /\ uses' = uses \/ (uses < HislipUses /\ uses' = uses + 1)
BY DEF Hislip!Leave, Hislip!SetupTimeout, Hislip!Linger, Leaves, Hislip!Use

LEMMA TakesTypes ==
  ASSUME HTyped, NEW s, NEW m, NEW kind, NEW session, NEW closing \in BOOLEAN, Takes1(s, m, kind, session, closing),
         kind \in {"Unknown", "Sync", "Async"}, session \in Nat
  PROVE  /\ DOMAIN conns' \subseteq Sockets /\ \A r \in DOMAIN conns' : conns'[r] \in ConnsOf
         /\ fresh' \subseteq DOMAIN conns' /\ socket' \in [Sockets -> SocketStates]
         /\ unread' \in [Sockets -> Seq(Msgs)] /\ m \in Msgs /\ s \in Sockets /\ conns[s] \in ConnsOf
         /\ conns[s].in \in Seq(Msgs)
<1>1. s \in DOMAIN conns /\ conns[s] \in ConnsOf /\ s \in Sockets
  BY DEF HTyped, Takes1
<1>2. conns[s].in \in Seq(Msgs) /\ conns[s].in # <<>>
  BY <1>1 DEF ConnsOf, Takes1
<1>3. m \in Msgs /\ Tail(conns[s].in) \in Seq(Msgs)
  BY <1>2 DEF Takes1
<1> DEFINE rest == IF closing THEN <<>> ELSE Tail(conns[s].in)
<1>4. rest \in Seq(Msgs)
  BY <1>3
<1>5. conns'[s] = [in |-> rest, kind |-> kind, session |-> session, closing |-> closing]
  BY DEF Takes1
<1> HIDE DEF rest
<1>6. conns'[s] \in ConnsOf
  BY <1>4, <1>5 DEF ConnsOf
<1> QED
  BY <1>1, <1>2, <1>3, <1>6 DEF HTyped, Takes1

LEMMA BuffersTypes ==
  ASSUME HTyped, NEW id, NEW b \in Seq(Msgs), Buffers(id, b)
  PROVE  DOMAIN sessions' \subseteq Nat \ {0} /\ \A j \in DOMAIN sessions' : sessions'[j] \in SessionsOf
BY DEF HTyped, Buffers, SessionsOf

LEMMA HTypedNext ==
  ASSUME HTyped, HChannels, Hislip!Initialize => Hislip!NewSessionId \in Nat \ {0}, [Hislip!Next]_(Hislip!vars)
  PROVE  HTyped'
<1>1. ASSUME NEW on, Hislip!Listen(on) PROVE HTyped'
  <2>1. /\ conns' = <<>> /\ DOMAIN conns' = {} /\ sessions' = <<>> /\ DOMAIN sessions' = {} /\ fresh' = {}
        /\ socket' = [s \in Sockets |-> IF s \in DOMAIN conns THEN Hislip!Release(s) ELSE socket[s]]
        /\ UNCHANGED <<calls, unread, client>>
    BY <1>1 DEF Hislip!Listen, HTyped
  <2>2. socket' \in [Sockets -> SocketStates]
    BY <2>1 DEF HTyped, Hislip!Release, SocketStates
  <2> QED
    BY <2>1, <2>2 DEF HTyped
<1>2. CASE Hislip!NewConnection
  <2>1. PICK s \in Sockets :
          /\ unread' = [unread EXCEPT ![s] = <<>>] /\ client' = [client EXCEPT ![s] = Hislip!NewClient]
          /\ \/ socket' = [socket EXCEPT ![s] = "doomed"] /\ UNCHANGED conns
             \/ socket' = [socket EXCEPT ![s] = "open"] /\ conns' = Hislip!With(conns, s, Hislip!NewConn)
          /\ UNCHANGED <<sessions, calls, fresh>>
    BY <1>2 DEF Hislip!NewConnection
  <2>2. Hislip!NewClient \in Clients /\ Hislip!NewClient.given <= Hislip!NewClient.n /\ Hislip!NewConn \in ConnsOf
    BY NewOnesTyped DEF Hislip!NewClient
  <2>3. <<>> \in Seq(Msgs)
    OBVIOUS
  <2>4. /\ client' \in [Sockets -> Clients] /\ unread' \in [Sockets -> Seq(Msgs)]
        /\ \A r \in Sockets : client'[r].given <= client'[r].n
    BY <2>1, <2>2, <2>3 DEF HTyped
  <2>5. CASE socket' = [socket EXCEPT ![s] = "doomed"] /\ UNCHANGED conns
    BY <2>1, <2>4, <2>5 DEF HTyped, SocketStates
  <2>6. CASE socket' = [socket EXCEPT ![s] = "open"] /\ conns' = Hislip!With(conns, s, Hislip!NewConn)
    <3>1. /\ DOMAIN conns' = DOMAIN conns \cup {s} /\ conns'[s] = Hislip!NewConn
          /\ \A r \in DOMAIN conns : r # s => conns'[r] = conns[r]
      BY <2>6 DEF Hislip!With
    <3> QED
      BY <2>1, <2>2, <2>4, <2>6, <3>1 DEF HTyped, SocketStates
  <2> QED
    BY <2>1, <2>5, <2>6
<1>3. ASSUME NEW s \in Sockets, Hislip!Send(s) PROVE HTyped'
  <2>1. PICK m, r, d : Sends(s, m, r, d)
    BY <1>3, SendIs DEF SendsPiece, SendsClear, SendsComplete, SendsSetup
  <2>2. s \in DOMAIN conns
    BY <2>1 DEF Sends, HChannels
  <2>3. unread' \in [Sockets -> Seq(Msgs)]
    BY <2>1 DEF Sends, HTyped
  <2>4. client' \in [Sockets -> Clients] /\ \A q \in Sockets : client'[q].given <= client'[q].n
    BY <2>1 DEF Sends, HTyped
  <2> QED
    BY <2>1, <2>2, <2>3, <2>4 DEF HTyped, Sends
<1>4. ASSUME NEW s \in Sockets, Hislip!Leave(s) \/ Hislip!SetupTimeout(s) \/ Hislip!Linger(s) PROVE HTyped'
  <2>1. <<>> \in Seq(Msgs)
    OBVIOUS
  <2>2. unread' \in [Sockets -> Seq(Msgs)] /\ socket' \in [Sockets -> SocketStates]
    BY <1>4, <2>1, QuietSteps DEF HTyped, SocketStates, Leaves
  <2> QED
    BY <1>4, <2>2, QuietSteps DEF HTyped
<1>5. ASSUME NEW s \in Sockets, Hislip!ReadyRead(s) PROVE HTyped'
  <2>1. /\ s \in DOMAIN conns /\ fresh' \subseteq fresh /\ UNCHANGED <<sessions, socket, client>>
        /\ unread' = unread \/ unread' = [unread EXCEPT ![s] = <<>>]
        /\ \/ UNCHANGED <<conns, calls>>
           \/ /\ conns' = [conns EXCEPT ![s].in = @ \o unread[s]]
              /\ calls' = Append(calls, [s |-> s, at |-> "loop", pieces |-> <<>>])
    BY <1>5 DEF Hislip!ReadyRead, HTyped
  <2>2. <<>> \in Seq(Msgs)
    OBVIOUS
  <2>3. unread' \in [Sockets -> Seq(Msgs)]
    BY <2>1, <2>2 DEF HTyped
  <2>4. ASSUME conns' = [conns EXCEPT ![s].in = @ \o unread[s]]
        PROVE  DOMAIN conns' = DOMAIN conns /\ \A r \in DOMAIN conns' : conns'[r] \in ConnsOf
    <3>1. conns[s] \in ConnsOf /\ unread[s] \in Seq(Msgs)
      BY <2>1 DEF HTyped
    <3> DEFINE in == conns[s].in \o unread[s]
    <3>2. in \in Seq(Msgs)
      BY <3>1 DEF ConnsOf
    <3>3. conns' = [conns EXCEPT ![s].in = in]
      BY <2>4
    <3> HIDE DEF in
    <3> QED
      BY <2>1, <3>1, <3>2, <3>3 DEF HTyped, ConnsOf
  <2>5. [s |-> s, at |-> "loop", pieces |-> <<>>] \in Handlers
    BY <2>2 DEF Handlers
  <2> DEFINE call == [s |-> s, at |-> "loop", pieces |-> <<>>]
  <2>6. calls' \in Seq(Handlers)
    <3>1. call \in Handlers /\ (calls' = calls \/ calls' = Append(calls, call))
      BY <2>1, <2>5
    <3>2. calls \in Seq(Handlers)
      BY DEF HTyped
    <3> HIDE DEF call
    <3> QED
      BY <3>1, <3>2
  <2> QED
    BY <2>1, <2>3, <2>4, <2>6 DEF HTyped
<1>6. ASSUME NEW s \in Sockets, Hislip!Disconnected(s) PROVE HTyped'
  <2>1. /\ conns' = Hislip!Without(conns, s) /\ fresh' = fresh \ {s} /\ UNCHANGED <<calls, unread, client>>
        /\ sessions' = sessions \/ \E id : sessions' = Hislip!Without(sessions, id)
    BY <1>6 DEF Hislip!Disconnected
  <2>2. PICK other : socket' = [r \in Sockets |-> IF r = s THEN Hislip!Release(s)
                                             ELSE IF r = other /\ socket[r] = "open" THEN "leaving" ELSE socket[r]]
    BY <1>6 DEF Hislip!Disconnected
  <2>3. socket' \in [Sockets -> SocketStates]
    BY <2>2 DEF HTyped, SocketStates, Hislip!Release
  <2> QED
    BY <2>1, <2>3 DEF HTyped, Hislip!Without
<1>7. ASSUME NEW s \in Sockets, Hislip!Delete(s) PROVE HTyped'
  BY <1>7 DEF Hislip!Delete, HTyped, SocketStates
<1>8. CASE Hislip!LoopEnds
  <2>1. UNCHANGED <<conns, sessions, socket, unread, fresh, client>> /\ calls # <<>>
        /\ calls' = SubSeq(calls, 1, Len(calls) - 1)
    BY <1>8 DEF Hislip!LoopEnds, Hislip!InLoop
  <2>2. calls' \in Seq(Handlers)
    BY <2>1 DEF HTyped
  <2> QED
    BY <2>1, <2>2 DEF HTyped
<1>9. CASE Hislip!CommandEnds
  <2>1. /\ UNCHANGED <<conns, sessions, unread, fresh, client>>
        /\ calls' = [calls EXCEPT ![Len(calls)] = [@ EXCEPT !.at = "loop", !.pieces = <<>>]]
        /\ socket' \in [Sockets -> SocketStates]
    BY <1>9 DEF Hislip!CommandEnds, HTyped, SocketStates
  <2>2. calls' \in Seq(Handlers)
    <3> DEFINE k == Len(calls)
               half == [calls[k] EXCEPT !.at = "loop"]
               done == [half EXCEPT !.pieces = <<>>]
    <3>1. calls' = [calls EXCEPT ![k] = done]
      BY <2>1
    <3>2. CASE k \in DOMAIN calls
      <4>1. calls[k] \in Handlers
        BY <3>2 DEF HTyped
      <4>2. half = [s |-> calls[k].s, at |-> "loop", pieces |-> calls[k].pieces]
        BY <4>1 DEF Handlers
      <4> HIDE DEF half
      <4>3. done = [s |-> calls[k].s, at |-> "loop", pieces |-> <<>>]
        BY <4>2
      <4>4. <<>> \in Seq(Msgs)
        OBVIOUS
      <4>5. done \in Handlers
        BY <4>1, <4>3, <4>4 DEF Handlers
      <4> HIDE DEF k, done
      <4> QED
        BY <3>1, <3>2, <4>5 DEF HTyped
    <3>3. CASE k \notin DOMAIN calls
      <4> HIDE DEF done
      <4>1. DOMAIN calls = 1..k /\ calls \in Seq(Handlers)
        BY DEF HTyped
      <4>2. calls' = calls
        BY <3>1, <3>3, <4>1
      <4> QED
        BY <4>1, <4>2
    <3> QED
      BY <3>2, <3>3
  <2> QED
    BY <2>1, <2>2 DEF HTyped
<1>10. CASE Hislip!Initialize
  <2>1. PICK s, m : /\ Takes1(s, m, "Sync", Hislip!NewSessionId, FALSE)
                    /\ sessions' = Hislip!With(sessions, Hislip!NewSessionId, Hislip!NewSession(s))
                    /\ UNCHANGED <<calls, client>>
    BY <1>10, InitializeIs
  <2> DEFINE id == Hislip!NewSessionId
  <2>2. id \in Nat \ {0}
    BY <1>10
  <2>3. s \in Sockets
    BY <2>1, <2>2, TakesTypes
  <2>4. /\ DOMAIN sessions' = DOMAIN sessions \cup {id} /\ sessions'[id] = Hislip!NewSession(s)
        /\ \A j \in DOMAIN sessions : j # id => sessions'[j] = sessions[j]
    BY <2>1 DEF Hislip!With
  <2>5. Hislip!NewSession(s) \in SessionsOf
    BY <2>3, NewOnesTyped
  <2> HIDE DEF id
  <2>6. DOMAIN sessions' \subseteq Nat \ {0} /\ \A j \in DOMAIN sessions' : sessions'[j] \in SessionsOf
    BY <2>2, <2>4, <2>5 DEF HTyped
  <2> QED
    BY <2>1, <2>2, <2>6, TakesTypes DEF HTyped, id
<1>11. CASE Hislip!AsyncInitialize
  <2>0. PICK s, m : \E id \in DOMAIN sessions :
           /\ Takes1(s, m, "Async", id, FALSE)
           /\ DOMAIN sessions' = DOMAIN sessions /\ \A j \in DOMAIN sessions : j # id => sessions'[j] = sessions[j]
           /\ sessions'[id] = [sync |-> sessions[id].sync, async |-> s, msgBuf |-> sessions[id].msgBuf]
           /\ UNCHANGED <<calls, client>>
    BY <1>11, AsyncInitializeIs
  <2>1. PICK id \in DOMAIN sessions :
           /\ Takes1(s, m, "Async", id, FALSE)
           /\ DOMAIN sessions' = DOMAIN sessions /\ \A j \in DOMAIN sessions : j # id => sessions'[j] = sessions[j]
           /\ sessions'[id] = [sync |-> sessions[id].sync, async |-> s, msgBuf |-> sessions[id].msgBuf]
           /\ UNCHANGED <<calls, client>>
    BY <2>0
  <2>2. id \in Nat
    BY DEF HTyped
  <2>3. s \in Sockets
    BY <2>1, <2>2, TakesTypes
  <2>4. DOMAIN sessions' \subseteq Nat \ {0} /\ \A j \in DOMAIN sessions' : sessions'[j] \in SessionsOf
    <3>1. sessions[id] \in SessionsOf
      BY DEF HTyped
    <3>2. sessions'[id] \in SessionsOf
      BY <2>1, <2>3, <3>1 DEF SessionsOf
    <3> QED
      BY <2>1, <3>2 DEF HTyped
  <2> QED
    BY <2>1, <2>2, <2>4, TakesTypes DEF HTyped
<1>12. ASSUME NEW s, NEW m, NEW closing \in BOOLEAN, Takes1(s, m, conns[s].kind, conns[s].session, closing),
              UNCHANGED sessions \/ \E b \in Seq(Msgs) : Buffers(conns[s].session, b),
              calls' \in Seq(Handlers), client' \in [Sockets -> Clients],
              \A r \in Sockets : client'[r].given <= client'[r].n
       PROVE  HTyped'
  <2>1. conns[s].kind \in {"Unknown", "Sync", "Async"} /\ conns[s].session \in Nat
    BY <1>12 DEF HTyped, ConnsOf, Takes1
  <2>2. DOMAIN sessions' \subseteq Nat \ {0} /\ \A j \in DOMAIN sessions' : sessions'[j] \in SessionsOf
    BY <1>12, BuffersTypes DEF HTyped
  <2> QED
    BY <1>12, <2>1, <2>2, TakesTypes DEF HTyped
<1>13. calls \in Seq(Handlers) /\ client \in [Sockets -> Clients] /\ \A r \in Sockets : client[r].given <= client[r].n
  BY DEF HTyped
<1>14. <<>> \in Seq(Msgs)
  OBVIOUS
<1>15. CASE Hislip!Fatal \/ Hislip!Answered \/ Hislip!TooLarge
  BY <1>12, <1>13, <1>14, <1>15, FatalIs, AnsweredIs, TooLargeIs
<1>16. CASE Hislip!Data
  <2>1. PICK s, m, msg : /\ Takes1(s, m, conns[s].kind, conns[s].session, FALSE) /\ Stands(s)
                         /\ m.type \in {"Data", "DataEnd"} /\ msg = Append(sessions[conns[s].session].msgBuf, m)
                         /\ Buffers(conns[s].session, IF m.type = "Data" THEN msg ELSE <<>>) /\ UNCHANGED client
                         /\ calls' = IF m.type = "Data" THEN calls
                                     ELSE [calls EXCEPT ![Len(calls)] = [s |-> s, at |-> "command", pieces |-> msg]]
    BY <1>16, DataIs
  <2>2. conns[s].kind \in {"Unknown", "Sync", "Async"} /\ conns[s].session \in Nat
    BY <2>1 DEF HTyped, ConnsOf, Takes1
  <2>3. s \in Sockets /\ m \in Msgs
    BY <2>1, <2>2, TakesTypes
  <2>4. msg \in Seq(Msgs)
    <3>1. sessions[conns[s].session].msgBuf \in Seq(Msgs)
      BY <2>1 DEF Stands, HTyped, SessionsOf
    <3> QED
      BY <2>1, <2>3, <3>1
  <2> DEFINE call == [s |-> s, at |-> "command", pieces |-> msg]
             b == IF m.type = "Data" THEN msg ELSE <<>>
  <2>5. call \in Handlers
    BY <2>3, <2>4 DEF Handlers
  <2>6. b \in Seq(Msgs) /\ Buffers(conns[s].session, b)
    BY <1>14, <2>1, <2>4
  <2> HIDE DEF call
  <2>7. calls' \in Seq(Handlers)
    <3>1. calls' = calls \/ calls' = [calls EXCEPT ![Len(calls)] = call]
      BY <2>1 DEF call
    <3> QED
      BY <1>13, <2>5, <3>1
  <2> HIDE DEF b
  <2> QED
    BY <1>12, <1>13, <2>1, <2>6, <2>7
<1>17. CASE Hislip!ClearComplete
  <2>1. PICK s, m : /\ Takes1(s, m, conns[s].kind, conns[s].session, FALSE) /\ Buffers(conns[s].session, <<>>)
                    /\ UNCHANGED <<calls, client>>
    BY <1>17, ClearCompleteIs
  <2> QED
    BY <1>12, <1>13, <1>14, <2>1
<1>18. CASE Hislip!AsyncDeviceClear
  <2>1. PICK s, m : /\ Takes1(s, m, conns[s].kind, conns[s].session, FALSE) /\ Buffers(conns[s].session, <<>>)
                    /\ client' = [client EXCEPT ![sessions[conns[s].session].sync].clear = "granted"] /\ UNCHANGED calls
    BY <1>18, AsyncClearIs
  <2>2. client' \in [Sockets -> Clients] /\ \A r \in Sockets : client'[r].given <= client'[r].n
    BY <1>13, <2>1 DEF Clients
  <2> QED
    BY <1>12, <1>13, <1>14, <2>1, <2>2
<1>19. CASE UNCHANGED Hislip!vars
  BY <1>19 DEF HTyped, Hislip!vars
<1> QED
  BY <1>1, <1>2, <1>3, <1>4, <1>5, <1>6, <1>7, <1>8, <1>9, <1>10, <1>11, <1>15, <1>16, <1>17, <1>18, <1>19, HislipSteps
-----------------------------------------------------------------------------
(* The handlers on the stack. *)

\* What runs while the event loop does are commands.
LEMMA CommandsRun ==
  ASSUME HTyped, HStack, Hislip!EventLoop
  PROVE  /\ calls \in Seq(Handlers) /\ DOMAIN calls = 1..Len(calls) /\ Len(calls) \in Nat
         /\ \A k \in DOMAIN calls : calls[k].at = "command" /\ socket[calls[k].s] \notin {"free", "doomed"}
         /\ Hislip!Running = Len(calls)
<1>1. calls \in Seq(Handlers) /\ DOMAIN calls = 1..Len(calls) /\ Len(calls) \in Nat
  BY DEF HTyped
<1>2. ASSUME NEW k \in DOMAIN calls
      PROVE  calls[k].at = "command"
  <2>1. CASE k < Len(calls)
    BY <2>1 DEF HStack
  <2>2. CASE ~(k < Len(calls))
    <3>1. k = Len(calls) /\ calls # <<>>
      BY <1>1, <2>2
    <3>2. calls[k].at # "loop" /\ calls[k] \in Handlers
      BY <1>1, <3>1 DEF Hislip!EventLoop, Hislip!InLoop, Hislip!Top
    <3> QED
      BY <3>2 DEF Handlers
  <2> QED
    BY <2>1, <2>2
<1>3. {k \in DOMAIN calls : calls[k].at = "command"} = 1..Len(calls)
  BY <1>1, <1>2
<1>4. Hislip!Running = Len(calls)
  <2>1. Cardinality(1..Len(calls)) = Len(calls)
    BY <1>1, FS_Interval
  <2>2. Hislip!Cardinality(1..Len(calls)) = Cardinality(1..Len(calls))
    BY HislipCountsAgree
  <2> QED
    BY <1>3, <2>1, <2>2 DEF Hislip!Running
<1>5. \A k \in DOMAIN calls : socket[calls[k].s] \notin {"free", "doomed"}
  BY <1>2 DEF HStack
<1> QED
  BY <1>1, <1>2, <1>4, <1>5

\* While handlers run, a socket that goes is kept for them.
LEMMA ReleaseKeeps ==
  ASSUME HTyped, HStack, Hislip!EventLoop, NEW s
  PROVE  Hislip!Release(s) \in {"released", "doomed"} /\ (DOMAIN calls # {} => Hislip!Release(s) = "released")
<1>1. DOMAIN calls # {} => Hislip!Running > 0
  BY CommandsRun
<1> QED
  BY <1>1 DEF Hislip!Release

\* A handler that takes a message goes on, or runs it.
LEMMA HandlersTake ==
  ASSUME HTyped,
         \/ Hislip!Initialize \/ Hislip!AsyncInitialize \/ Hislip!Fatal \/ Hislip!TooLarge \/ Hislip!Data
         \/ Hislip!ClearComplete \/ Hislip!AsyncDeviceClear \/ Hislip!Answered
  PROVE  \E s, m, kind, session, closing :
           /\ Takes1(s, m, kind, session, closing)
           /\ calls' = calls \/ \E msg : calls' = [calls EXCEPT ![Len(calls)] = [s |-> s, at |-> "command", pieces |-> msg]]
<1>1. CASE Hislip!Initialize
  BY <1>1, InitializeIs
<1>2. CASE Hislip!AsyncInitialize
  BY <1>2, AsyncInitializeIs
<1>3. CASE Hislip!Fatal
  BY <1>3, FatalIs
<1>4. CASE Hislip!TooLarge
  BY <1>4, TooLargeIs
<1>5. CASE Hislip!Data
  BY <1>5, DataIs
<1>6. CASE Hislip!ClearComplete
  BY <1>6, ClearCompleteIs
<1>7. CASE Hislip!AsyncDeviceClear
  BY <1>7, AsyncClearIs
<1>8. CASE Hislip!Answered
  BY <1>8, AnsweredIs
<1> QED
  BY <1>1, <1>2, <1>3, <1>4, <1>5, <1>6, <1>7, <1>8

LEMMA HStackNext ==
  ASSUME HTyped, HStack, HChannels, [Hislip!Next]_(Hislip!vars)
  PROVE  HStack'
<1>0. calls \in Seq(Handlers) /\ DOMAIN calls = 1..Len(calls) /\ Len(calls) \in Nat
  BY DEF HTyped
<1>c. ASSUME NEW k \in DOMAIN calls PROVE calls[k].s \in Sockets
  <2>1. calls[k] \in Handlers
    BY <1>0
  <2> QED
    BY <2>1 DEF Handlers
<1>2. ASSUME NEW on, Hislip!Listen(on) PROVE HStack'
  <2>1. /\ Hislip!EventLoop /\ UNCHANGED calls
        /\ socket' = [s \in Sockets |-> IF s \in DOMAIN conns THEN Hislip!Release(s) ELSE socket[s]]
    BY <1>2 DEF Hislip!Listen
  <2> QED
    BY <1>c, <2>1, ReleaseKeeps DEF HStack
<1>3. CASE Hislip!NewConnection
  <2>1. /\ UNCHANGED calls
        /\ \E s \in Sockets : /\ socket[s] = "free"
                              /\ \/ socket' = [socket EXCEPT ![s] = "doomed"]
                                 \/ socket' = [socket EXCEPT ![s] = "open"]
    BY <1>3 DEF Hislip!NewConnection
  <2> QED
    BY <1>c, <2>1 DEF HStack, HTyped
<1>4. ASSUME NEW s \in Sockets, Hislip!Send(s) PROVE HStack'
  BY <1>4 DEF Hislip!Send, HStack
<1>5. ASSUME NEW s \in Sockets, Hislip!Leave(s) \/ Hislip!SetupTimeout(s) \/ Hislip!Linger(s) PROVE HStack'
  BY <1>c, <1>5, QuietSteps DEF HStack, HTyped, Leaves
<1>6. ASSUME NEW s \in Sockets, Hislip!ReadyRead(s) PROVE HStack'
  <2> DEFINE call == [s |-> s, at |-> "loop", pieces |-> <<>>]
  <2>1. /\ Hislip!EventLoop /\ s \in fresh /\ UNCHANGED socket
        /\ calls' = calls \/ calls' = Append(calls, call)
    BY <1>6 DEF Hislip!ReadyRead
  <2>2. socket[s] \in {"open", "leaving"}
    BY <2>1 DEF HTyped, HChannels
  <2>3. \A k \in DOMAIN calls : calls[k].at = "command" /\ socket[calls[k].s] \notin {"free", "doomed"}
    BY <2>1, CommandsRun
  <2>4. call.s = s
    OBVIOUS
  <2> HIDE DEF call
  <2>5. CASE calls' = Append(calls, call)
    <3>1. /\ DOMAIN calls' = 1..(Len(calls) + 1) /\ Len(calls') = Len(calls) + 1 /\ calls'[Len(calls) + 1] = call
          /\ \A k \in DOMAIN calls : calls'[k] = calls[k]
      BY <1>0, <2>5
    <3> QED
      BY <1>0, <2>1, <2>2, <2>3, <2>4, <3>1 DEF HStack
  <2> QED
    BY <2>1, <2>5 DEF HStack
<1>7. ASSUME NEW s \in Sockets, Hislip!Disconnected(s) PROVE HStack'
  <2>1. Hislip!EventLoop /\ UNCHANGED calls
    BY <1>7 DEF Hislip!Disconnected
  <2>2. PICK other : socket' = [r \in Sockets |-> IF r = s THEN Hislip!Release(s)
                                             ELSE IF r = other /\ socket[r] = "open" THEN "leaving" ELSE socket[r]]
    BY <1>7 DEF Hislip!Disconnected
  <2> QED
    BY <1>c, <2>1, <2>2, ReleaseKeeps DEF HStack
<1>8. ASSUME NEW s \in Sockets, Hislip!Delete(s) PROVE HStack'
  <2>1. Hislip!EventLoop /\ UNCHANGED calls /\ socket[s] = "doomed" /\ socket' = [socket EXCEPT ![s] = "free"]
    BY <1>8 DEF Hislip!Delete
  <2>2. \A k \in DOMAIN calls : socket[calls[k].s] \notin {"free", "doomed"}
    BY <2>1, CommandsRun
  <2> QED
    BY <1>c, <2>1, <2>2 DEF HStack, HTyped
<1>9. CASE Hislip!LoopEnds
  <2>1. calls # <<>> /\ UNCHANGED socket /\ calls' = SubSeq(calls, 1, Len(calls) - 1)
    BY <1>9 DEF Hislip!LoopEnds, Hislip!InLoop
  <2>2. /\ DOMAIN calls' = 1..(Len(calls) - 1) /\ Len(calls') = Len(calls) - 1
        /\ \A k \in DOMAIN calls' : calls'[k] = calls[k]
    BY <1>0, <2>1
  <2> QED
    BY <1>0, <2>1, <2>2 DEF HStack
<1>10. CASE Hislip!CommandEnds
  <2> DEFINE k == Len(calls)
             half == [calls[k] EXCEPT !.at = "loop"]
             done == [half EXCEPT !.pieces = <<>>]
  <2>1. /\ Hislip!EventLoop /\ Hislip!Running > 0 /\ calls' = [calls EXCEPT ![k] = done]
        /\ socket' = [s \in Sockets |-> IF Hislip!Running = 1 /\ socket[s] = "released" THEN "doomed" ELSE socket[s]]
    BY <1>10 DEF Hislip!CommandEnds
  <2>2. Hislip!Running = k /\ \A i \in DOMAIN calls : calls[i].at = "command" /\ socket[calls[i].s] \notin {"free", "doomed"}
    BY <2>1, CommandsRun
  <2>3. k \in DOMAIN calls /\ calls[k] \in Handlers
    BY <1>0, <2>1, <2>2
  <2>4. done.s = calls[k].s /\ done.at = "loop"
    BY <2>3 DEF Handlers
  <2> HIDE DEF done
  <2>5. /\ DOMAIN calls' = 1..k /\ Len(calls') = k /\ calls'[k] = done
        /\ \A i \in DOMAIN calls : i # k => calls'[i] = calls[i]
    BY <1>0, <2>1, <2>3
  <2> HIDE DEF k
  <2>6. \A i \in DOMAIN calls' : calls'[i].s = calls[i].s /\ calls[i].s \in Sockets
    BY <1>c, <1>0, <2>4, <2>5 DEF k
  <2>7. \A i \in DOMAIN calls' : i < k => calls'[i].at = "command"
    BY <1>0, <2>2, <2>5 DEF k
  <2>8. ASSUME NEW i \in DOMAIN calls'
        PROVE  socket'[calls'[i].s] # "free" /\ (socket'[calls'[i].s] = "doomed" => k = 1 /\ calls'[i].at = "loop")
    <3>1. i \in DOMAIN calls /\ socket[calls[i].s] \notin {"free", "doomed"}
      BY <1>0, <2>2, <2>5 DEF k
    <3>2. socket'[calls[i].s] # "free" /\ (socket'[calls[i].s] = "doomed" => k = 1)
      BY <2>1, <2>2, <2>6, <3>1
    <3>3. k = 1 => calls'[i].at = "loop"
      BY <2>4, <2>5
    <3> QED
      BY <2>6, <3>2, <3>3
  <2> QED
    BY <2>5, <2>7, <2>8 DEF HStack
<1>11. ASSUME NEW s, NEW m, NEW kind, NEW session, NEW closing, Takes1(s, m, kind, session, closing),
              calls' = calls \/ \E msg : calls' = [calls EXCEPT ![Len(calls)] = [s |-> s, at |-> "command", pieces |-> msg]]
       PROVE  HStack'
  <2>1. calls # <<>> /\ s = calls[Len(calls)].s /\ s \in DOMAIN conns /\ UNCHANGED socket
    BY <1>11 DEF Takes1, Hislip!Top
  <2>2. socket[s] \in {"open", "leaving"}
    BY <2>1 DEF HChannels
  <2>3. ASSUME NEW msg, calls' = [calls EXCEPT ![Len(calls)] = [s |-> s, at |-> "command", pieces |-> msg]]
        PROVE  HStack'
    <3> DEFINE call == [s |-> s, at |-> "command", pieces |-> msg]
    <3>1. call.s = s /\ call.at = "command"
      OBVIOUS
    <3> HIDE DEF call
    <3>2. /\ DOMAIN calls' = DOMAIN calls /\ Len(calls') = Len(calls) /\ calls'[Len(calls)] = call
          /\ \A k \in DOMAIN calls : k # Len(calls) => calls'[k] = calls[k]
      BY <1>0, <2>1, <2>3 DEF call
    <3>3. \A k \in DOMAIN calls : k # Len(calls) => socket[calls[k].s] \notin {"free", "doomed"}
      BY <1>0 DEF HStack
    <3> QED
      BY <1>0, <2>1, <2>2, <3>1, <3>2, <3>3 DEF HStack
  <2> QED
    BY <1>11, <2>1, <2>3 DEF HStack
<1>12. CASE \/ Hislip!Initialize \/ Hislip!AsyncInitialize \/ Hislip!Fatal \/ Hislip!TooLarge \/ Hislip!Data
            \/ Hislip!ClearComplete \/ Hislip!AsyncDeviceClear \/ Hislip!Answered
  BY <1>11, <1>12, HandlersTake
<1>13. CASE UNCHANGED Hislip!vars
  BY <1>13 DEF HStack, Hislip!vars
<1> QED
  BY <1>2, <1>3, <1>4, <1>5, <1>6, <1>7, <1>8, <1>9, <1>10, <1>12, <1>13, HislipSteps
-----------------------------------------------------------------------------
(* Sessions and their channels. *)

\* All but the two that initialise leave the channel what it is.
LEMMA OthersTake ==
  ASSUME HTyped,
         Hislip!Fatal \/ Hislip!TooLarge \/ Hislip!Data \/ Hislip!ClearComplete \/ Hislip!AsyncDeviceClear
         \/ Hislip!Answered
  PROVE  \E s, m, closing : /\ Takes1(s, m, conns[s].kind, conns[s].session, closing) /\ UNCHANGED nextSession
                            /\ sessions' = sessions \/ \E b : Buffers(conns[s].session, b)
<1>1. CASE Hislip!Fatal
  BY <1>1, FatalIs
<1>2. CASE Hislip!TooLarge
  BY <1>2, TooLargeIs
<1>3. CASE Hislip!Data
  BY <1>3, DataIs
<1>4. CASE Hislip!ClearComplete
  BY <1>4, ClearCompleteIs
<1>5. CASE Hislip!AsyncDeviceClear
  BY <1>5, AsyncClearIs
<1>6. CASE Hislip!Answered
  BY <1>6, AnsweredIs
<1> QED
  BY <1>1, <1>2, <1>3, <1>4, <1>5, <1>6

\* Steps that leave channels and sessions what they are.
LEMMA SameChannels ==
  ASSUME HTyped, HChannels, DOMAIN conns' = DOMAIN conns, DOMAIN sessions' = DOMAIN sessions,
         \A s \in DOMAIN conns : conns'[s].kind = conns[s].kind /\ conns'[s].session = conns[s].session,
         \A id \in DOMAIN sessions : sessions'[id].sync = sessions[id].sync /\ sessions'[id].async = sessions[id].async,
         \A s \in Sockets : socket'[s] \in {"open", "leaving"} <=> socket[s] \in {"open", "leaving"}
  PROVE  HChannels'
<1>1. DOMAIN conns' = {s \in Sockets : socket'[s] \in {"open", "leaving"}}
  BY DEF HChannels
<1>2. ASSUME NEW id \in DOMAIN sessions'
      PROVE  /\ Hislip!Channel(sessions[id].sync, "Sync", id)'
             /\ sessions'[id].async # 0 => Hislip!Channel(sessions[id].async, "Async", id)'
  BY DEF HChannels, Hislip!Channel
<1>3. ASSUME NEW s \in DOMAIN conns', Stands(s)'
      PROVE  s = (IF conns'[s].kind = "Sync" THEN sessions'[conns'[s].session].sync ELSE sessions'[conns'[s].session].async)
  BY <1>3 DEF HChannels, Stands
<1> QED
  BY <1>1, <1>2, <1>3 DEF HChannels

\* A number no session and no channel has.
NewNumber(id) ==
  id \in Nat \ {0} /\ id \notin DOMAIN sessions /\ \A s \in DOMAIN conns : conns[s].kind # "Unknown" => conns[s].session # id

LEMMA HChannelsNext ==
  ASSUME HTyped, HChannels, Hislip!Initialize => NewNumber(Hislip!NewSessionId), [Hislip!Next]_(Hislip!vars)
  PROVE  HChannels'
<1>0. 0 \notin Sockets
  BY ServersAssumption
<1>1. ASSUME NEW on, Hislip!Listen(on) PROVE HChannels'
  <2>1. /\ DOMAIN conns' = {} /\ DOMAIN sessions' = {}
        /\ socket' = [s \in Sockets |-> IF s \in DOMAIN conns THEN Hislip!Release(s) ELSE socket[s]]
    BY <1>1 DEF Hislip!Listen
  <2>2. \A s \in Sockets : socket'[s] \notin {"open", "leaving"}
    BY <2>1 DEF Hislip!Release, HChannels
  <2> QED
    BY <2>1, <2>2 DEF HChannels
<1>2. CASE Hislip!NewConnection
  <2>1. PICK s \in Sockets :
          /\ socket[s] = "free" /\ UNCHANGED sessions
          /\ \/ socket' = [socket EXCEPT ![s] = "doomed"] /\ UNCHANGED conns
             \/ socket' = [socket EXCEPT ![s] = "open"] /\ conns' = Hislip!With(conns, s, Hislip!NewConn)
    BY <1>2 DEF Hislip!NewConnection
  <2>2. CASE socket' = [socket EXCEPT ![s] = "doomed"] /\ UNCHANGED conns
    <3>1. \A r \in Sockets : socket'[r] \in {"open", "leaving"} <=> socket[r] \in {"open", "leaving"}
      BY <2>1, <2>2 DEF HTyped
    <3> QED
      BY <2>1, <2>2, <3>1, SameChannels
  <2>3. CASE socket' = [socket EXCEPT ![s] = "open"] /\ conns' = Hislip!With(conns, s, Hislip!NewConn)
    <3>1. s \notin DOMAIN conns
      BY <2>1 DEF HChannels
    <3>2. /\ DOMAIN conns' = DOMAIN conns \cup {s} /\ conns'[s].kind = "Unknown"
          /\ \A r \in DOMAIN conns : conns'[r] = conns[r]
      BY <2>3, <3>1 DEF Hislip!With, Hislip!NewConn
    <3>3. DOMAIN conns' = {r \in Sockets : socket'[r] \in {"open", "leaving"}}
      BY <2>1, <2>3, <3>2 DEF HChannels, HTyped
    <3>4. ASSUME NEW id \in DOMAIN sessions'
          PROVE  /\ Hislip!Channel(sessions[id].sync, "Sync", id)'
                 /\ sessions'[id].async # 0 => Hislip!Channel(sessions[id].async, "Async", id)'
      BY <2>1, <3>2 DEF HChannels, Hislip!Channel
    <3>5. ASSUME NEW r \in DOMAIN conns', Stands(r)'
          PROVE  r = (IF conns'[r].kind = "Sync" THEN sessions'[conns'[r].session].sync
                      ELSE sessions'[conns'[r].session].async)
      BY <2>1, <3>2, <3>5 DEF HChannels, Stands
    <3> QED
      BY <3>3, <3>4, <3>5 DEF HChannels
  <2> QED
    BY <2>1, <2>2, <2>3
<1>3. ASSUME NEW s \in Sockets, Hislip!Send(s) PROVE HChannels'
  BY <1>3, SameChannels DEF Hislip!Send
<1>4. ASSUME NEW s \in Sockets, Hislip!Leave(s) \/ Hislip!SetupTimeout(s) \/ Hislip!Linger(s) PROVE HChannels'
  <2>1. UNCHANGED <<conns, sessions>> /\ (Leaves(s) \/ UNCHANGED socket)
    BY <1>4, QuietSteps
  <2>2. \A r \in Sockets : socket'[r] \in {"open", "leaving"} <=> socket[r] \in {"open", "leaving"}
    BY <2>1 DEF HTyped, Leaves
  <2> QED
    BY <2>1, <2>2, SameChannels
<1>5. ASSUME NEW s \in Sockets, Hislip!ReadyRead(s) PROVE HChannels'
  <2>1. /\ s \in DOMAIN conns /\ UNCHANGED <<sessions, socket>>
        /\ conns' = conns \/ conns' = [conns EXCEPT ![s].in = @ \o unread[s]]
    BY <1>5 DEF Hislip!ReadyRead, HTyped
  <2>2. /\ DOMAIN conns' = DOMAIN conns
        /\ \A r \in DOMAIN conns : conns'[r].kind = conns[r].kind /\ conns'[r].session = conns[r].session
    <3>1. conns[s] \in ConnsOf
      BY <2>1 DEF HTyped
    <3> DEFINE in == conns[s].in \o unread[s]
    <3>2. CASE conns' = [conns EXCEPT ![s].in = @ \o unread[s]]
      <4>1. conns' = [conns EXCEPT ![s].in = in]
        BY <3>2
      <4> HIDE DEF in
      <4> QED
        BY <2>1, <3>1, <4>1 DEF ConnsOf
    <3> QED
      BY <2>1, <3>2
  <2> QED
    BY <2>1, <2>2, SameChannels
<1>6. ASSUME NEW s \in Sockets, Hislip!Disconnected(s) PROVE HChannels'
  <2> DEFINE over == conns[s].kind # "Unknown" /\ conns[s].session \in DOMAIN sessions
  <2>1. /\ socket[s] = "leaving" /\ conns' = Hislip!Without(conns, s)
        /\ sessions' = IF over THEN Hislip!Without(sessions, conns[s].session) ELSE sessions
    BY <1>6 DEF Hislip!Disconnected
  <2>2. PICK other : socket' = [r \in Sockets |-> IF r = s THEN Hislip!Release(s)
                                             ELSE IF r = other /\ socket[r] = "open" THEN "leaving" ELSE socket[r]]
    BY <1>6 DEF Hislip!Disconnected
  <2>3. s \in DOMAIN conns /\ Hislip!Release(s) \in {"released", "doomed"}
    BY <2>1 DEF HChannels, Hislip!Release
  <2>4. DOMAIN conns' = DOMAIN conns \ {s} /\ \A r \in DOMAIN conns' : conns'[r] = conns[r]
    BY <2>1 DEF Hislip!Without
  <2>5. DOMAIN conns' = {r \in Sockets : socket'[r] \in {"open", "leaving"}}
    BY <2>2, <2>3, <2>4 DEF HChannels
  <2>6. /\ DOMAIN sessions' = IF over THEN DOMAIN sessions \ {conns[s].session} ELSE DOMAIN sessions
        /\ \A id \in DOMAIN sessions' : sessions'[id] = sessions[id]
    BY <2>1 DEF Hislip!Without
  <2>7. ASSUME NEW id \in DOMAIN sessions'
        PROVE  /\ Hislip!Channel(sessions[id].sync, "Sync", id)'
               /\ sessions'[id].async # 0 => Hislip!Channel(sessions[id].async, "Async", id)'
    <3>1. id \in DOMAIN sessions /\ ~(over /\ conns[s].session = id)
      BY <2>6
    <3>2. sessions[id].sync # s /\ sessions[id].sync \in DOMAIN conns
      BY <3>1 DEF HChannels, Hislip!Channel
    <3>3. sessions[id].async # 0 => sessions[id].async # s /\ sessions[id].async \in DOMAIN conns
      BY <3>1 DEF HChannels, Hislip!Channel
    <3> QED
      BY <2>4, <2>6, <3>1, <3>2, <3>3 DEF HChannels, Hislip!Channel
  <2>8. ASSUME NEW r \in DOMAIN conns', Stands(r)'
        PROVE  r = (IF conns'[r].kind = "Sync" THEN sessions'[conns'[r].session].sync
                    ELSE sessions'[conns'[r].session].async)
    BY <2>4, <2>6, <2>8 DEF HChannels, Stands
  <2> QED
    BY <2>5, <2>7, <2>8 DEF HChannels
<1>7. ASSUME NEW s \in Sockets, Hislip!Delete(s) PROVE HChannels'
  <2>1. UNCHANGED <<conns, sessions>> /\ socket[s] = "doomed" /\ socket' = [socket EXCEPT ![s] = "free"]
    BY <1>7 DEF Hislip!Delete
  <2>2. \A r \in Sockets : socket'[r] \in {"open", "leaving"} <=> socket[r] \in {"open", "leaving"}
    BY <2>1 DEF HTyped
  <2> QED
    BY <2>1, <2>2, SameChannels
<1>8. CASE Hislip!LoopEnds
  BY <1>8, SameChannels DEF Hislip!LoopEnds
<1>9. CASE Hislip!CommandEnds
  <2>1. /\ UNCHANGED <<conns, sessions>>
        /\ socket' = [s \in Sockets |-> IF Hislip!Running = 1 /\ socket[s] = "released" THEN "doomed" ELSE socket[s]]
    BY <1>9 DEF Hislip!CommandEnds
  <2>2. \A r \in Sockets : socket'[r] \in {"open", "leaving"} <=> socket[r] \in {"open", "leaving"}
    BY <2>1
  <2> QED
    BY <2>1, <2>2, SameChannels
<1>10. CASE Hislip!Initialize
  <2> DEFINE id == Hislip!NewSessionId
  <2>1. PICK s, m : /\ Takes1(s, m, "Sync", id, FALSE) /\ conns[s].kind = "Unknown"
                    /\ sessions' = Hislip!With(sessions, id, Hislip!NewSession(s))
    BY <1>10, InitializeIs
  <2>2. NewNumber(id)
    BY <1>10
  <2> HIDE DEF id
  <2>3. /\ DOMAIN sessions' = DOMAIN sessions \cup {id} /\ sessions'[id] = Hislip!NewSession(s)
        /\ \A j \in DOMAIN sessions : sessions'[j] = sessions[j]
    BY <2>1, <2>2 DEF Hislip!With, NewNumber
  <2>4. /\ s \in DOMAIN conns /\ DOMAIN conns' = DOMAIN conns /\ conns'[s].kind = "Sync" /\ conns'[s].session = id
        /\ \A r \in DOMAIN conns : r # s => conns'[r] = conns[r]
    BY <2>1 DEF Takes1
  <2>5. DOMAIN conns' = {r \in Sockets : socket'[r] \in {"open", "leaving"}}
    BY <2>1, <2>4 DEF Takes1, HChannels
  <2>6. ASSUME NEW j \in DOMAIN sessions'
        PROVE  /\ Hislip!Channel(sessions[j].sync, "Sync", j)'
               /\ sessions'[j].async # 0 => Hislip!Channel(sessions[j].async, "Async", j)'
    <3>1. CASE j = id
      BY <2>3, <2>4, <3>1 DEF Hislip!NewSession, Hislip!Channel
    <3>2. CASE j # id
      <4>1. j \in DOMAIN sessions /\ sessions[j].sync # s /\ (sessions[j].async # 0 => sessions[j].async # s)
        BY <2>1, <2>3, <3>2 DEF HChannels, Hislip!Channel
      <4> QED
        BY <2>3, <2>4, <4>1 DEF HChannels, Hislip!Channel
    <3> QED
      BY <3>1, <3>2
  <2>7. ASSUME NEW r \in DOMAIN conns', Stands(r)'
        PROVE  r = (IF conns'[r].kind = "Sync" THEN sessions'[conns'[r].session].sync
                    ELSE sessions'[conns'[r].session].async)
    <3>1. CASE r = s
      BY <2>3, <2>4, <3>1 DEF Hislip!NewSession
    <3>2. CASE r # s
      <4>1. r \in DOMAIN conns /\ conns'[r] = conns[r] /\ conns[r].kind # "Unknown" /\ conns[r].session # id
        BY <2>2, <2>4, <2>7, <3>2 DEF NewNumber, Stands
      <4>2. Stands(r)
        BY <2>3, <2>7, <4>1 DEF Stands
      <4> QED
        BY <2>3, <4>1, <4>2 DEF HChannels, Stands
    <3> QED
      BY <3>1, <3>2
  <2> QED
    BY <2>5, <2>6, <2>7 DEF HChannels
<1>11. CASE Hislip!AsyncInitialize
  <2>0. PICK s, m : \E id \in DOMAIN sessions :
           /\ Takes1(s, m, "Async", id, FALSE) /\ conns[s].kind = "Unknown" /\ sessions[id].async = 0
           /\ DOMAIN sessions' = DOMAIN sessions /\ \A j \in DOMAIN sessions : j # id => sessions'[j] = sessions[j]
           /\ sessions'[id] = [sync |-> sessions[id].sync, async |-> s, msgBuf |-> sessions[id].msgBuf]
    BY <1>11, AsyncInitializeIs
  <2>1. PICK id \in DOMAIN sessions :
           /\ Takes1(s, m, "Async", id, FALSE) /\ conns[s].kind = "Unknown" /\ sessions[id].async = 0
           /\ DOMAIN sessions' = DOMAIN sessions /\ \A j \in DOMAIN sessions : j # id => sessions'[j] = sessions[j]
           /\ sessions'[id] = [sync |-> sessions[id].sync, async |-> s, msgBuf |-> sessions[id].msgBuf]
    BY <2>0
  <2>2. /\ s \in DOMAIN conns /\ DOMAIN conns' = DOMAIN conns /\ conns'[s].kind = "Async" /\ conns'[s].session = id
        /\ \A r \in DOMAIN conns : r # s => conns'[r] = conns[r]
    BY <2>1 DEF Takes1
  <2>3. DOMAIN conns' = {r \in Sockets : socket'[r] \in {"open", "leaving"}}
    BY <2>1, <2>2 DEF Takes1, HChannels
  <2>4. ASSUME NEW j \in DOMAIN sessions'
        PROVE  /\ Hislip!Channel(sessions[j].sync, "Sync", j)'
               /\ sessions'[j].async # 0 => Hislip!Channel(sessions[j].async, "Async", j)'
    <3>1. j \in DOMAIN sessions /\ sessions[j].sync # s /\ (sessions[j].async # 0 => sessions[j].async # s)
      BY <2>1 DEF HChannels, Hislip!Channel
    <3>2. CASE j = id
      BY <2>1, <2>2, <3>1, <3>2 DEF HChannels, Hislip!Channel
    <3>3. CASE j # id
      BY <2>1, <2>2, <3>1, <3>3 DEF HChannels, Hislip!Channel
    <3> QED
      BY <3>2, <3>3
  <2>5. ASSUME NEW r \in DOMAIN conns', Stands(r)'
        PROVE  r = (IF conns'[r].kind = "Sync" THEN sessions'[conns'[r].session].sync
                    ELSE sessions'[conns'[r].session].async)
    <3>1. CASE r = s
      BY <2>1, <2>2, <3>1
    <3>2. CASE r # s
      <4>1. r \in DOMAIN conns /\ conns'[r] = conns[r] /\ Stands(r) /\ r # 0
        BY <1>0, <2>1, <2>2, <2>5, <3>2 DEF Stands, HTyped
      <4>2. r = (IF conns[r].kind = "Sync" THEN sessions[conns[r].session].sync ELSE sessions[conns[r].session].async)
        BY <4>1 DEF HChannels
      <4>3. CASE conns[r].session = id
        BY <2>1, <4>1, <4>2, <4>3
      <4>4. CASE conns[r].session # id
        BY <2>1, <4>1, <4>2, <4>4 DEF Stands
      <4> QED
        BY <4>3, <4>4
    <3> QED
      BY <3>1, <3>2
  <2> QED
    BY <2>3, <2>4, <2>5 DEF HChannels
<1>12. CASE Hislip!Fatal \/ Hislip!TooLarge \/ Hislip!Data \/ Hislip!ClearComplete \/ Hislip!AsyncDeviceClear
            \/ Hislip!Answered
  <2>1. PICK s, m, closing : /\ Takes1(s, m, conns[s].kind, conns[s].session, closing)
                             /\ sessions' = sessions \/ \E b : Buffers(conns[s].session, b)
    BY <1>12, OthersTake
  <2>2. /\ DOMAIN conns' = DOMAIN conns /\ UNCHANGED socket
        /\ \A r \in DOMAIN conns : conns'[r].kind = conns[r].kind /\ conns'[r].session = conns[r].session
    BY <2>1 DEF Takes1
  <2>3. /\ DOMAIN sessions' = DOMAIN sessions
        /\ \A id \in DOMAIN sessions : sessions'[id].sync = sessions[id].sync /\ sessions'[id].async = sessions[id].async
    <3> DEFINE j == conns[s].session
    <3>1. ASSUME NEW b, Buffers(j, b)
          PROVE  /\ DOMAIN sessions' = DOMAIN sessions
                 /\ \A id \in DOMAIN sessions :
                      sessions'[id].sync = sessions[id].sync /\ sessions'[id].async = sessions[id].async
      <4> HIDE DEF j
      <4>1. sessions'[j].sync = sessions[j].sync /\ sessions'[j].async = sessions[j].async
        BY <3>1 DEF Buffers
      <4> QED
        BY <3>1, <4>1 DEF Buffers
    <3> QED
      BY <2>1, <3>1
  <2> QED
    BY <2>2, <2>3, SameChannels
<1>13. CASE UNCHANGED Hislip!vars
  BY <1>13, SameChannels DEF Hislip!vars
<1> QED
  BY <1>1, <1>2, <1>3, <1>4, <1>5, <1>6, <1>7, <1>8, <1>9, <1>10, <1>11, <1>12, <1>13, HislipSteps
-----------------------------------------------------------------------------
(* The limits. *)

\* A set that keeps its bound, or takes one more while it is below.
LEMMA BoundStays ==
  ASSUME NEW S, NEW T, NEW bound \in Nat, IsFiniteSet(S), Cardinality(S) <= bound,
         T \subseteq S \/ (Cardinality(S) < bound /\ \E x : T = S \cup {x})
  PROVE  IsFiniteSet(T) /\ Cardinality(T) <= bound
<1>1. Cardinality(S) \in Nat
  BY FS_CardinalityType
<1>2. CASE T \subseteq S
  <2>1. IsFiniteSet(T) /\ Cardinality(T) <= Cardinality(S)
    BY <1>2, FS_Subset
  <2>2. Cardinality(T) \in Nat
    BY <2>1, FS_CardinalityType
  <2> QED
    BY <1>1, <2>1, <2>2
<1>3. ASSUME Cardinality(S) < bound, NEW x, T = S \cup {x}
      PROVE  IsFiniteSet(T) /\ Cardinality(T) <= bound
  <2>1. IsFiniteSet(T) /\ Cardinality(T) \in {Cardinality(S), Cardinality(S) + 1}
    BY <1>3, FS_AddElement
  <2> QED
    BY <1>1, <1>3, <2>1
<1> QED
  BY <1>2, <1>3

\* Which steps make a connection or a session more.
LEMMA OneMore ==
  ASSUME HTyped, HLimits, [Hislip!Next]_(Hislip!vars)
  PROVE  /\ \/ DOMAIN conns' \subseteq DOMAIN conns
            \/ Cardinality(DOMAIN conns) < 2 * MaxSessions + MaxPending /\ \E s : DOMAIN conns' = DOMAIN conns \cup {s}
         /\ \/ DOMAIN sessions' \subseteq DOMAIN sessions
            \/ Cardinality(DOMAIN sessions) < MaxSessions /\ \E id : DOMAIN sessions' = DOMAIN sessions \cup {id}
<1>1. ASSUME NEW on, Hislip!Listen(on) PROVE DOMAIN conns' = {} /\ DOMAIN sessions' = {}
  BY <1>1 DEF Hislip!Listen
<1>2. ASSUME Hislip!NewConnection
      PROVE  /\ sessions' = sessions
             /\ \/ DOMAIN conns' \subseteq DOMAIN conns
                \/ /\ Cardinality(DOMAIN conns) < 2 * MaxSessions + MaxPending
                   /\ \E s : DOMAIN conns' = DOMAIN conns \cup {s}
  <2>1. /\ sessions' = sessions
        /\ \/ conns' = conns
           \/ /\ ~(Hislip!Cardinality(DOMAIN conns) >= 2 * MaxSessions + MaxPending)
              /\ \E s \in Sockets : conns' = Hislip!With(conns, s, Hislip!NewConn)
    BY <1>2 DEF Hislip!NewConnection
  <2>2. CASE conns' = conns
    BY <2>1, <2>2
  <2>3. CASE /\ ~(Hislip!Cardinality(DOMAIN conns) >= 2 * MaxSessions + MaxPending)
             /\ \E s \in Sockets : conns' = Hislip!With(conns, s, Hislip!NewConn)
    <3>1. ~(Cardinality(DOMAIN conns) >= 2 * MaxSessions + MaxPending)
      BY <2>3, HislipCountsAgree
    <3>2. \E s : DOMAIN conns' = DOMAIN conns \cup {s}
      BY <2>3 DEF Hislip!With
    <3>3. Cardinality(DOMAIN conns) \in Nat /\ MaxSessions \in Nat /\ MaxPending \in Nat
      BY ServersAssumption, FS_CardinalityType DEF HLimits
    <3> QED
      BY <2>1, <3>1, <3>2, <3>3
  <2> QED
    BY <2>1, <2>2, <2>3
<1>3. ASSUME NEW s \in Sockets, \/ Hislip!Send(s) \/ Hislip!Leave(s) \/ Hislip!ReadyRead(s) \/ Hislip!SetupTimeout(s)
                                \/ Hislip!Linger(s) \/ Hislip!Delete(s)
      PROVE  DOMAIN conns' = DOMAIN conns /\ sessions' = sessions
  <2>1. CASE Hislip!ReadyRead(s)
    BY <2>1 DEF Hislip!ReadyRead
  <2> QED
    BY <1>3, <2>1, QuietSteps DEF Hislip!Send, Hislip!Delete
<1>4. ASSUME NEW s \in Sockets, Hislip!Disconnected(s)
      PROVE  DOMAIN conns' \subseteq DOMAIN conns /\ DOMAIN sessions' \subseteq DOMAIN sessions
  <2>1. /\ conns' = Hislip!Without(conns, s)
        /\ sessions' = sessions \/ \E id : sessions' = Hislip!Without(sessions, id)
    BY <1>4 DEF Hislip!Disconnected
  <2> QED
    BY <2>1 DEF Hislip!Without
<1>5. ASSUME Hislip!LoopEnds \/ Hislip!CommandEnds
      PROVE  DOMAIN conns' = DOMAIN conns /\ sessions' = sessions
  BY <1>5 DEF Hislip!LoopEnds, Hislip!CommandEnds
<1>6. ASSUME Hislip!Initialize
      PROVE  /\ DOMAIN conns' = DOMAIN conns
             /\ Cardinality(DOMAIN sessions) < MaxSessions /\ \E id : DOMAIN sessions' = DOMAIN sessions \cup {id}
  <2>1. PICK s, m : /\ Takes1(s, m, "Sync", Hislip!NewSessionId, FALSE) /\ Cardinality(DOMAIN sessions) < MaxSessions
                    /\ sessions' = Hislip!With(sessions, Hislip!NewSessionId, Hislip!NewSession(s))
    BY <1>6, InitializeIs
  <2>2. DOMAIN conns' = DOMAIN conns
    BY <2>1 DEF Takes1
  <2>3. DOMAIN sessions' = DOMAIN sessions \cup {Hislip!NewSessionId}
    BY <2>1 DEF Hislip!With
  <2> QED
    BY <2>1, <2>2, <2>3
<1>7. ASSUME Hislip!AsyncInitialize
      PROVE  DOMAIN conns' = DOMAIN conns /\ DOMAIN sessions' = DOMAIN sessions
  BY <1>7, AsyncInitializeIs DEF Takes1
<1>8. ASSUME Hislip!Fatal \/ Hislip!TooLarge \/ Hislip!Data \/ Hislip!ClearComplete \/ Hislip!AsyncDeviceClear
             \/ Hislip!Answered
      PROVE  DOMAIN conns' = DOMAIN conns /\ DOMAIN sessions' = DOMAIN sessions
  BY <1>8, OthersTake DEF Takes1, Buffers
<1>9. ASSUME UNCHANGED Hislip!vars PROVE DOMAIN conns' = DOMAIN conns /\ sessions' = sessions
  BY <1>9 DEF Hislip!vars
<1> QED
  BY <1>1, <1>2, <1>3, <1>4, <1>5, <1>6, <1>7, <1>8, <1>9, HislipSteps

LEMMA HLimitsNext ==
  ASSUME HTyped, HLimits, [Hislip!Next]_(Hislip!vars)
  PROVE  HLimits'
<1>1. MaxSessions \in Nat /\ 2 * MaxSessions + MaxPending \in Nat
  BY ServersAssumption
<1> DEFINE bound == 2 * MaxSessions + MaxPending
<1> HIDE DEF bound
<1>2. bound \in Nat /\ Cardinality(DOMAIN conns) <= bound /\ IsFiniteSet(DOMAIN conns)
  BY <1>1 DEF HLimits, bound
<1>3. \/ DOMAIN conns' \subseteq DOMAIN conns
      \/ Cardinality(DOMAIN conns) < bound /\ \E s : DOMAIN conns' = DOMAIN conns \cup {s}
  BY OneMore DEF bound
<1>4. IsFiniteSet(DOMAIN conns') /\ Cardinality(DOMAIN conns') <= bound
  BY <1>2, <1>3, BoundStays
<1>5. IsFiniteSet(DOMAIN sessions') /\ Cardinality(DOMAIN sessions') <= MaxSessions
  <2>1. \/ DOMAIN sessions' \subseteq DOMAIN sessions
        \/ Cardinality(DOMAIN sessions) < MaxSessions /\ \E id : DOMAIN sessions' = DOMAIN sessions \cup {id}
    BY OneMore
  <2>2. IsFiniteSet(DOMAIN sessions) /\ Cardinality(DOMAIN sessions) <= MaxSessions
    BY DEF HLimits
  <2> QED
    BY <1>1, <2>1, <2>2, BoundStays
<1> QED
  BY <1>4, <1>5 DEF HLimits, bound
-----------------------------------------------------------------------------
(* The numbers of the sessions. *)

LEMMA RemainderIs ==
  ASSUME NEW d \in Nat \ {0}, NEW x \in 0..(2 * d - 1)
  PROVE  x % d = IF x < d THEN x ELSE x - d
<1>1. x \in Nat /\ d \in Nat /\ d > 0
  OBVIOUS
<1>2. x % d \in 0..(d - 1) /\ x = d * (x \div d) + (x % d)
  BY <1>1
<1> DEFINE q == x \div d
           r == x % d
<1>3. q \in Int /\ r \in Int /\ 0 <= r /\ r < d /\ x = d * q + r
  BY <1>1, <1>2
<1> HIDE DEF q, r
<1>4. CASE q >= 2
  BY <1>1, <1>3, <1>4
<1>5. CASE q <= -1
  BY <1>1, <1>3, <1>5
<1>6. CASE q = 0
  BY <1>1, <1>3, <1>6 DEF r
<1>7. CASE q = 1
  BY <1>1, <1>3, <1>7 DEF r
<1> QED
  BY <1>3, <1>4, <1>5, <1>6, <1>7

\* The j-th number after the first one, f.
Number(f, j)  == (f + j) % Ids
Numbers(f, p) == {Number(f, j) : j \in 0..(p - 1)}
Unknowns      == {s \in DOMAIN conns : conns[s].kind = "Unknown"}

\* p numbers are gone since f: one per connection that became a channel, and 0.
Numbered(f, p) ==
  /\ nextSession = Number(f, p)
  /\ p + Cardinality(Unknowns) <= uses + (IF 0 \in Numbers(f, p) THEN 1 ELSE 0)
  /\ DOMAIN sessions \subseteq Numbers(f, p) \cup {9}
  /\ \A s \in DOMAIN conns : conns[s].kind # "Unknown" => conns[s].session \in Numbers(f, p) \cup {9}

HNumbers == uses \in 0..HislipUses /\ \E f \in FirstIds, p \in Nat : Numbered(f, p)

LEMMA NumberIs ==
  ASSUME NEW f \in FirstIds, NEW j \in 0..(HislipUses + 2)
  PROVE  /\ Number(f, j) = IF f + j < Ids THEN f + j ELSE f + j - Ids
         /\ Number(f, j) \in 0..(Ids - 1) /\ (Number(f, j) + 1) % Ids = Number(f, j + 1)
<1>1. /\ HislipUses \in Nat /\ Ids \in Nat \ {0} /\ Ids > HislipUses + 3 /\ f \in 0..(Ids - 1)
  BY ServersAssumption
<1>2. j \in Nat /\ f + j \in 0..(2 * Ids - 1) /\ f + (j + 1) \in 0..(2 * Ids - 1)
  BY <1>1
<1>a. ASSUME NEW k, NEW y \in 0..(2 * Ids - 1), y = f + k
      PROVE  Number(f, k) = (IF y < Ids THEN y ELSE y - Ids)
  <2>1. Number(f, k) = y % Ids
    BY <1>a DEF Number
  <2> QED
    BY <1>1, <2>1, RemainderIs
<1>3. Number(f, j) = (IF f + j < Ids THEN f + j ELSE f + j - Ids)
  BY <1>1, <1>2, <1>a
<1>4. Number(f, j + 1) = (IF f + (j + 1) < Ids THEN f + (j + 1) ELSE f + (j + 1) - Ids)
  BY <1>1, <1>2, <1>a
<1>5. Number(f, j) \in 0..(Ids - 1)
  BY <1>1, <1>2, <1>3
<1> DEFINE x == Number(f, j) + 1
<1>6. x \in 0..(2 * Ids - 1)
  BY <1>1, <1>5
<1>7. x % Ids = (IF x < Ids THEN x ELSE x - Ids)
  BY <1>1, <1>6, RemainderIs
<1>8. x % Ids = Number(f, j + 1)
  BY <1>1, <1>2, <1>3, <1>4, <1>7
<1> QED
  BY <1>3, <1>5, <1>8

LEMMA NumbersDiffer ==
  ASSUME NEW f \in FirstIds, NEW p \in 0..(HislipUses + 2)
  PROVE  /\ Number(f, p) \notin Numbers(f, p) \cup {9}
         /\ p < HislipUses + 2 => Number(f, p + 1) \notin Numbers(f, p) \cup {9, Number(f, p)}
<1>1. HislipUses \in Nat /\ Ids \in Nat /\ Ids > HislipUses + 3 /\ f \in 0..(Ids - 1)
  BY ServersAssumption
<1>2. ASSUME NEW j \in 0..(HislipUses + 2), NEW k \in 0..(HislipUses + 2), j < k
      PROVE  Number(f, j) # Number(f, k)
  BY <1>1, <1>2, NumberIs
<1>3. \A k \in 0..(HislipUses + 2) : Number(f, k) # 9
  BY ServersAssumption DEF Number
<1>4. Number(f, p) \notin Numbers(f, p) \cup {9}
  BY <1>1, <1>2, <1>3 DEF Numbers
<1>5. ASSUME p < HislipUses + 2
      PROVE  Number(f, p + 1) \notin Numbers(f, p) \cup {9, Number(f, p)}
  <2>1. p + 1 \in 0..(HislipUses + 2)
    BY <1>1, <1>5
  <2>2. \A j \in 0..p : Number(f, j) # Number(f, p + 1)
    BY <1>1, <1>2, <2>1
  <2> QED
    BY <1>1, <1>3, <2>1, <2>2 DEF Numbers
<1> QED
  BY <1>4, <1>5

\* newSessionId() takes the next number, or the one after it when that is 0.
LEMMA NewSessionIdIs ==
  ASSUME NEW f \in FirstIds, NEW p \in 0..HislipUses, Numbered(f, p)
  PROVE  \E k \in {0, 1} : /\ Hislip!NewSessionId = Number(f, p + k) /\ Number(f, p + k) \in Nat \ {0}
                           /\ Number(f, p + k) \notin Numbers(f, p) \cup {9}
                           /\ k = 1 => Number(f, p) = 0
<1>1. HislipUses \in Nat /\ Ids \in Nat /\ Ids > HislipUses + 3 /\ MaxSessions \in Nat
  BY ServersAssumption
<1> DEFINE number(k) == (nextSession + k) % Ids
           fits(k)   == number(k) # 0 /\ number(k) \notin DOMAIN sessions
           K         == 0..(MaxSessions + 1)
           first(k)  == fits(k) /\ \A j \in 0..(k - 1) : ~fits(j)
           chosen1   == CHOOSE k \in K : first(k)
<1>2. Hislip!NewSessionId = number(chosen1)
  BY DEF Hislip!NewSessionId
<1>3. p \in 0..(HislipUses + 2) /\ p + 1 \in 0..(HislipUses + 2) /\ p < HislipUses + 2 /\ p + 0 = p /\ p \in Nat
  BY <1>1
<1>4. number(0) = Number(f, p + 0) /\ number(1) = Number(f, p + 1)
  <2>1. nextSession \in 0..(Ids - 1) /\ nextSession = Number(f, p) /\ (nextSession + 1) % Ids = Number(f, p + 1)
    BY <1>3, NumberIs DEF Numbered
  <2>2. (nextSession + 0) % Ids = nextSession
    <3>1. nextSession + 0 = nextSession /\ nextSession \in 0..(2 * Ids - 1) /\ nextSession < Ids
      BY <1>1, <2>1
    <3> QED
      BY <1>1, <3>1, RemainderIs
  <2> QED
    BY <1>3, <2>1, <2>2
<1>5. Number(f, p) \in Nat /\ Number(f, p + 1) \in Nat
  BY <1>1, <1>3, NumberIs
<1>6. /\ Number(f, p) \notin Numbers(f, p) \cup {9}
      /\ Number(f, p + 1) \notin Numbers(f, p) \cup {9} /\ Number(f, p + 1) # Number(f, p)
  BY <1>3, NumbersDiffer
<1>7. number(0) \notin DOMAIN sessions /\ number(1) \notin DOMAIN sessions
  BY <1>3, <1>4, <1>6 DEF Numbered
<1>8. 0 \in K /\ 1 \in K /\ \A k \in K : k \in Nat
  BY <1>1
<1>9. CASE Number(f, p) # 0
  <2>1. fits(0)
    BY <1>3, <1>4, <1>7, <1>9
  <2> HIDE DEF fits
  <2>2. first(0)
    BY <2>1
  <2>3. \A k \in K : first(k) => k = 0
    BY <1>8, <2>1
  <2> HIDE DEF first, K
  <2>4. chosen1 = 0
    BY <1>8, <2>2, <2>3
  <2> HIDE DEF chosen1
  <2>5. Hislip!NewSessionId = Number(f, p + 0)
    BY <1>2, <1>4, <2>4
  <2> QED
    BY <1>3, <1>5, <1>6, <1>9, <2>5
<1>10. CASE Number(f, p) = 0
  <2>1. fits(1) /\ ~fits(0)
    BY <1>3, <1>4, <1>6, <1>7, <1>10
  <2> HIDE DEF fits
  <2>2. first(1)
    BY <2>1
  <2>3. \A k \in K : first(k) => k = 1
    BY <1>8, <2>1
  <2> HIDE DEF first, K
  <2>4. chosen1 = 1
    BY <1>8, <2>2, <2>3
  <2> HIDE DEF chosen1
  <2>5. Hislip!NewSessionId = Number(f, p + 1)
    BY <1>2, <1>4, <2>4
  <2> QED
    BY <1>5, <1>6, <1>10, <2>5
<1> QED
  BY <1>9, <1>10

\* When Initialize takes a message, a number is free, and no channel that lingers has it.
LEMMA NumberIsNew ==
  ASSUME HTyped, HLimits, HNumbers, Hislip!Initialize
  PROVE  \E f \in FirstIds, p \in 0..HislipUses :
           /\ Numbered(f, p) /\ NewNumber(Hislip!NewSessionId)
           /\ \E k \in {0, 1} : /\ Hislip!NewSessionId = Number(f, p + k) /\ Number(f, p + k) # 0
                                /\ k = 1 => Number(f, p) = 0
<1>1. PICK f \in FirstIds, p \in Nat : Numbered(f, p)
  BY DEF HNumbers
<1>2. uses \in 0..HislipUses /\ HislipUses \in Nat
  BY ServersAssumption DEF HNumbers
<1>3. PICK s : s \in Unknowns
  BY InitializeIs DEF Takes1, Unknowns
<1>4. p \in 0..HislipUses
  <2>1. IsFiniteSet(Unknowns)
    BY FS_Subset DEF HLimits, Unknowns
  <2>2. Cardinality(Unknowns) \in Nat /\ Cardinality(Unknowns) # 0
    BY <1>3, <2>1, FS_CardinalityType, FS_EmptySet
  <2>3. p + Cardinality(Unknowns) <= uses + 1
    BY <1>1, <1>2, <2>2 DEF Numbered
  <2> QED
    BY <1>2, <2>2, <2>3
<1>5. PICK k \in {0, 1} : /\ Hislip!NewSessionId = Number(f, p + k) /\ Number(f, p + k) \in Nat \ {0}
                          /\ Number(f, p + k) \notin Numbers(f, p) \cup {9}
                          /\ k = 1 => Number(f, p) = 0
  BY <1>1, <1>4, NewSessionIdIs
<1>6. NewNumber(Hislip!NewSessionId)
  BY <1>1, <1>5 DEF NewNumber, Numbered
<1> QED
  BY <1>1, <1>4, <1>5, <1>6

\* Steps that take no number: a connection more is a use more.
LEMMA NumbersStay ==
  ASSUME HLimits, HNumbers, UNCHANGED nextSession, DOMAIN sessions' \subseteq DOMAIN sessions,
         \A s \in DOMAIN conns' : conns'[s].kind # "Unknown" =>
           \/ conns'[s].session \in DOMAIN sessions
           \/ s \in DOMAIN conns /\ conns[s].kind # "Unknown" /\ conns'[s].session = conns[s].session,
         \/ Unknowns' \subseteq Unknowns /\ UNCHANGED uses
         \/ uses < HislipUses /\ uses' = uses + 1 /\ \E s : Unknowns' \subseteq Unknowns \cup {s}
  PROVE  HNumbers'
<1>1. PICK f \in FirstIds, p \in Nat : Numbered(f, p)
  BY DEF HNumbers
<1>2. uses \in 0..HislipUses /\ HislipUses \in Nat
  BY ServersAssumption DEF HNumbers
<1>3. IsFiniteSet(Unknowns)
  BY FS_Subset DEF HLimits, Unknowns
<1>4. Cardinality(Unknowns) \in Nat
  BY <1>3, FS_CardinalityType
<1> DEFINE skipped == IF 0 \in Numbers(f, p) THEN 1 ELSE 0
<1>5. skipped \in Nat /\ p + Cardinality(Unknowns) <= uses + skipped /\ nextSession' = Number(f, p)
  BY <1>1 DEF Numbered
<1>6. /\ DOMAIN sessions' \subseteq Numbers(f, p) \cup {9}
      /\ \A s \in DOMAIN conns' : conns'[s].kind # "Unknown" => conns'[s].session \in Numbers(f, p) \cup {9}
  BY <1>1 DEF Numbered
<1> HIDE DEF skipped
<1>7. uses' \in 0..HislipUses /\ p + Cardinality(Unknowns') <= uses' + skipped
  <2>1. CASE Unknowns' \subseteq Unknowns /\ UNCHANGED uses
    <3>1. IsFiniteSet(Unknowns') /\ Cardinality(Unknowns') <= Cardinality(Unknowns)
      BY <1>3, <2>1, FS_Subset
    <3>2. Cardinality(Unknowns') \in Nat
      BY <3>1, FS_CardinalityType
    <3> QED
      BY <1>2, <1>4, <1>5, <2>1, <3>1, <3>2
  <2>2. ASSUME uses < HislipUses, uses' = uses + 1, NEW s, Unknowns' \subseteq Unknowns \cup {s}
        PROVE  uses' \in 0..HislipUses /\ p + Cardinality(Unknowns') <= uses' + skipped
    <3>1. /\ IsFiniteSet(Unknowns \cup {s})
          /\ Cardinality(Unknowns \cup {s}) \in {Cardinality(Unknowns), Cardinality(Unknowns) + 1}
      BY <1>3, FS_AddElement
    <3>2. IsFiniteSet(Unknowns') /\ Cardinality(Unknowns') <= Cardinality(Unknowns \cup {s})
      BY <2>2, <3>1, FS_Subset
    <3>3. Cardinality(Unknowns') \in Nat
      BY <3>2, FS_CardinalityType
    <3>4. Cardinality(Unknowns') <= Cardinality(Unknowns) + 1
      BY <1>4, <3>1, <3>2, <3>3
    <3>5. uses' \in 0..HislipUses
      BY <1>2, <2>2
    <3>6. p + Cardinality(Unknowns') <= uses' + skipped
      BY <1>2, <1>4, <1>5, <2>2, <3>3, <3>4
    <3> QED
      BY <3>5, <3>6
  <2> QED
    BY <2>1, <2>2
<1> QED
  BY <1>5, <1>6, <1>7 DEF HNumbers, Numbered, skipped

LEMMA HNumbersNext ==
  ASSUME HTyped, HChannels, HLimits, HNumbers, [Hislip!Next]_(Hislip!vars)
  PROVE  HNumbers'
\* Steps after which every connection is one of before.
<1>1. ASSUME UNCHANGED nextSession, DOMAIN sessions' \subseteq DOMAIN sessions, DOMAIN conns' \subseteq DOMAIN conns,
             \A s \in DOMAIN conns' : conns'[s].kind = conns[s].kind /\ conns'[s].session = conns[s].session,
             UNCHANGED uses \/ (uses < HislipUses /\ uses' = uses + 1)
      PROVE  HNumbers'
  <2>1. Unknowns' \subseteq Unknowns
    BY <1>1 DEF Unknowns
  <2>2. \E s : Unknowns' \subseteq Unknowns \cup {s}
    BY <2>1
  <2>3. \/ Unknowns' \subseteq Unknowns /\ UNCHANGED uses
        \/ uses < HislipUses /\ uses' = uses + 1 /\ \E s : Unknowns' \subseteq Unknowns \cup {s}
    BY <1>1, <2>1, <2>2
  <2>4. \A s \in DOMAIN conns' : conns'[s].kind # "Unknown" =>
           s \in DOMAIN conns /\ conns[s].kind # "Unknown" /\ conns'[s].session = conns[s].session
    BY <1>1
  <2> QED
    BY <1>1, <2>3, <2>4, NumbersStay
<1>2. ASSUME NEW on, Hislip!Listen(on) PROVE HNumbers'
  <2>1. /\ DOMAIN conns' = {} /\ DOMAIN sessions' = {} /\ UNCHANGED nextSession
        /\ uses < HislipUses /\ uses' = uses + 1
    BY <1>2 DEF Hislip!Listen, Hislip!Use
  <2> QED
    BY <1>1, <2>1
<1>3. CASE Hislip!NewConnection
  <2>1. PICK s \in Sockets :
          /\ UNCHANGED <<sessions, nextSession>> /\ uses < HislipUses /\ uses' = uses + 1
          /\ UNCHANGED conns \/ conns' = Hislip!With(conns, s, Hislip!NewConn)
    BY <1>3 DEF Hislip!NewConnection, Hislip!Use
  <2>2. CASE UNCHANGED conns
    BY <1>1, <2>1, <2>2
  <2>3. CASE conns' = Hislip!With(conns, s, Hislip!NewConn)
    <3>1. /\ DOMAIN conns' = DOMAIN conns \cup {s} /\ conns'[s].kind = "Unknown"
          /\ \A r \in DOMAIN conns : r # s => conns'[r] = conns[r]
      BY <2>3 DEF Hislip!With, Hislip!NewConn
    <3>2. Unknowns' \subseteq Unknowns \cup {s}
      BY <3>1 DEF Unknowns
    <3>3. \A r \in DOMAIN conns' : conns'[r].kind # "Unknown" =>
            r \in DOMAIN conns /\ conns[r].kind # "Unknown" /\ conns'[r].session = conns[r].session
      BY <3>1
    <3> QED
      BY <2>1, <3>2, <3>3, NumbersStay
  <2> QED
    BY <2>1, <2>2, <2>3
<1>4. ASSUME NEW s \in Sockets, Hislip!Send(s) PROVE HNumbers'
  BY <1>1, <1>4 DEF Hislip!Send, Hislip!Use
<1>5. ASSUME NEW s \in Sockets, Hislip!Leave(s) \/ Hislip!SetupTimeout(s) \/ Hislip!Linger(s) PROVE HNumbers'
  BY <1>1, <1>5, QuietSteps
<1>6. ASSUME NEW s \in Sockets, Hislip!ReadyRead(s) PROVE HNumbers'
  <2>1. /\ s \in DOMAIN conns /\ UNCHANGED <<sessions, nextSession, uses>>
        /\ conns' = conns \/ conns' = [conns EXCEPT ![s].in = @ \o unread[s]]
    BY <1>6 DEF Hislip!ReadyRead, HTyped
  <2>2. /\ DOMAIN conns' = DOMAIN conns
        /\ \A r \in DOMAIN conns : conns'[r].kind = conns[r].kind /\ conns'[r].session = conns[r].session
    <3>1. conns[s] \in ConnsOf
      BY <2>1 DEF HTyped
    <3> DEFINE in == conns[s].in \o unread[s]
    <3>2. CASE conns' = [conns EXCEPT ![s].in = @ \o unread[s]]
      <4>1. conns' = [conns EXCEPT ![s].in = in]
        BY <3>2
      <4> HIDE DEF in
      <4> QED
        BY <2>1, <3>1, <4>1 DEF ConnsOf
    <3> QED
      BY <2>1, <3>2
  <2> QED
    BY <1>1, <2>1, <2>2
<1>7. ASSUME NEW s \in Sockets, Hislip!Disconnected(s) PROVE HNumbers'
  <2>1. /\ conns' = Hislip!Without(conns, s) /\ UNCHANGED <<nextSession, uses>>
        /\ sessions' = sessions \/ \E id : sessions' = Hislip!Without(sessions, id)
    BY <1>7 DEF Hislip!Disconnected
  <2>2. DOMAIN conns' \subseteq DOMAIN conns /\ \A r \in DOMAIN conns' : conns'[r] = conns[r]
    BY <2>1 DEF Hislip!Without
  <2>3. DOMAIN sessions' \subseteq DOMAIN sessions
    BY <2>1 DEF Hislip!Without
  <2> QED
    BY <1>1, <2>1, <2>2, <2>3
<1>8. ASSUME NEW s \in Sockets, Hislip!Delete(s) PROVE HNumbers'
  BY <1>1, <1>8 DEF Hislip!Delete
<1>9. CASE Hislip!LoopEnds \/ Hislip!CommandEnds
  BY <1>1, <1>9 DEF Hislip!LoopEnds, Hislip!CommandEnds
<1>10. CASE Hislip!Initialize
  <2> DEFINE id == Hislip!NewSessionId
  <2>1. PICK s, m : /\ Takes1(s, m, "Sync", id, FALSE) /\ conns[s].kind = "Unknown"
                    /\ sessions' = Hislip!With(sessions, id, Hislip!NewSession(s)) /\ nextSession' = (id + 1) % Ids
    BY <1>10, InitializeIs
  <2>2. PICK f \in FirstIds, p \in 0..HislipUses :
           /\ Numbered(f, p)
           /\ \E k \in {0, 1} : /\ id = Number(f, p + k) /\ Number(f, p + k) # 0
                                /\ k = 1 => Number(f, p) = 0
    BY <1>10, NumberIsNew
  <2>3. PICK k \in {0, 1} : id = Number(f, p + k) /\ Number(f, p + k) # 0 /\ (k = 1 => Number(f, p) = 0)
    BY <2>2
  <2> HIDE DEF id
  <2> DEFINE q == p + k + 1
  <2>4. /\ HislipUses \in Nat /\ p \in Nat /\ uses \in 0..HislipUses /\ q \in Nat /\ p + k \in 0..(HislipUses + 2)
        /\ q = (p + k) + 1
    BY ServersAssumption DEF HNumbers
  <2>5. nextSession' = Number(f, q)
    BY <2>1, <2>3, <2>4, NumberIs
  <2>6. /\ s \in DOMAIN conns /\ DOMAIN conns' = DOMAIN conns /\ conns'[s].kind = "Sync" /\ conns'[s].session = id
        /\ (\A r \in DOMAIN conns : r # s => conns'[r] = conns[r]) /\ UNCHANGED uses
    BY <2>1 DEF Takes1
  <2>7. Unknowns' = Unknowns \ {s} /\ s \in Unknowns
    BY <2>1, <2>6 DEF Unknowns
  <2>8. /\ Cardinality(Unknowns) \in Nat /\ Cardinality(Unknowns') = Cardinality(Unknowns) - 1
    <3>1. IsFiniteSet(Unknowns)
      BY FS_Subset DEF HLimits, Unknowns
    <3>2. Cardinality(Unknowns \ {s}) = Cardinality(Unknowns) - 1
      BY <2>7, <3>1, FS_RemoveElement
    <3> QED
      BY <2>7, <3>1, <3>2, FS_CardinalityType
  <2>9. Numbers(f, p) \subseteq Numbers(f, q) /\ id \in Numbers(f, q) /\ (k = 1 => 0 \in Numbers(f, q))
    <3>1. \A j \in 0..(p - 1) : j \in 0..(q - 1)
      BY <2>4
    <3>2. p + k \in 0..(q - 1) /\ p \in 0..(q - 1)
      BY <2>4
    <3> HIDE DEF q
    <3> QED
      BY <2>3, <3>1, <3>2 DEF Numbers
  <2>10. k = 1 => 0 \notin Numbers(f, p)
    <3>1. p \in 0..(HislipUses + 2)
      BY <2>4
    <3> QED
      BY <2>3, <3>1, NumbersDiffer
  <2>11. q + Cardinality(Unknowns') <= uses + (IF 0 \in Numbers(f, q) THEN 1 ELSE 0)
    <3>1. p + Cardinality(Unknowns) <= uses + (IF 0 \in Numbers(f, p) THEN 1 ELSE 0)
      BY <2>2 DEF Numbered
    <3>2. CASE k = 0
      <4>1. q = p + 1
        BY <2>4, <3>2
      <4> HIDE DEF q
      <4> QED
        BY <2>4, <2>8, <2>9, <3>1, <4>1
    <3>3. CASE k = 1
      <4>1. q = p + 2
        BY <2>4, <3>3
      <4>2. 0 \in Numbers(f, q) /\ 0 \notin Numbers(f, p)
        BY <2>9, <2>10, <3>3
      <4> HIDE DEF q
      <4> QED
        BY <2>4, <2>8, <3>1, <4>1, <4>2
    <3> QED
      BY <3>2, <3>3
  <2> HIDE DEF q
  <2>12. DOMAIN sessions' \subseteq Numbers(f, q) \cup {9}
    BY <2>1, <2>2, <2>9 DEF Numbered, Hislip!With
  <2>13. \A r \in DOMAIN conns' : conns'[r].kind # "Unknown" => conns'[r].session \in Numbers(f, q) \cup {9}
    BY <2>2, <2>6, <2>9 DEF Numbered
  <2>14. Numbered(f, q)'
    BY <2>5, <2>6, <2>11, <2>12, <2>13 DEF Numbered
  <2> QED
    BY <2>4, <2>6, <2>14 DEF HNumbers
<1>11. CASE Hislip!AsyncInitialize
  <2>0. PICK s, m : \E id \in DOMAIN sessions :
           /\ Takes1(s, m, "Async", id, FALSE) /\ DOMAIN sessions' = DOMAIN sessions /\ UNCHANGED nextSession
    BY <1>11, AsyncInitializeIs
  <2>1. PICK id \in DOMAIN sessions :
           /\ Takes1(s, m, "Async", id, FALSE) /\ DOMAIN sessions' = DOMAIN sessions /\ UNCHANGED nextSession
    BY <2>0
  <2>2. /\ s \in DOMAIN conns /\ DOMAIN conns' = DOMAIN conns /\ conns'[s].kind = "Async" /\ conns'[s].session = id
        /\ (\A r \in DOMAIN conns : r # s => conns'[r] = conns[r]) /\ UNCHANGED uses
    BY <2>1 DEF Takes1
  <2>3. Unknowns' \subseteq Unknowns
    BY <2>2 DEF Unknowns
  <2>4. \A r \in DOMAIN conns' : conns'[r].kind # "Unknown" =>
           \/ conns'[r].session \in DOMAIN sessions
           \/ r \in DOMAIN conns /\ conns[r].kind # "Unknown" /\ conns'[r].session = conns[r].session
    BY <2>2
  <2> QED
    BY <2>1, <2>2, <2>3, <2>4, NumbersStay
<1>12. CASE Hislip!Fatal \/ Hislip!TooLarge \/ Hislip!Data \/ Hislip!ClearComplete \/ Hislip!AsyncDeviceClear
            \/ Hislip!Answered
  <2>1. PICK s, m, closing : /\ Takes1(s, m, conns[s].kind, conns[s].session, closing) /\ UNCHANGED nextSession
                             /\ sessions' = sessions \/ \E b : Buffers(conns[s].session, b)
    BY <1>12, OthersTake
  <2>2. /\ DOMAIN conns' = DOMAIN conns /\ UNCHANGED uses
        /\ \A r \in DOMAIN conns : conns'[r].kind = conns[r].kind /\ conns'[r].session = conns[r].session
    BY <2>1 DEF Takes1
  <2>3. DOMAIN sessions' = DOMAIN sessions
    BY <2>1 DEF Buffers
  <2> QED
    BY <1>1, <2>1, <2>2, <2>3
<1>13. CASE UNCHANGED Hislip!vars
  BY <1>1, <1>13 DEF Hislip!vars
<1> QED
  BY <1>2, <1>3, <1>4, <1>5, <1>6, <1>7, <1>8, <1>9, <1>10, <1>11, <1>12, <1>13, HislipSteps
-----------------------------------------------------------------------------
(* Sessions hold. *)

HislipInv == server = "hislip" => HTyped /\ HStack /\ HChannels /\ HLimits /\ HNumbers

\* A server that just started, or has the session 9 of the sockets 1 and 2.
LEMMA HislipStarts ==
  ASSUME Hislip!Init
  PROVE  \/ DOMAIN conns = {} /\ DOMAIN sessions = {} /\ socket = [s \in Sockets |-> "free"]
         \/ /\ DOMAIN conns = {1, 2} /\ DOMAIN sessions = {9}
            /\ conns[1] = [in |-> <<>>, kind |-> "Sync", session |-> 9, closing |-> FALSE]
            /\ conns[2] = [in |-> <<>>, kind |-> "Async", session |-> 9, closing |-> FALSE]
            /\ sessions[9] = [sync |-> 1, async |-> 2, msgBuf |-> <<>>]
            /\ socket = [s \in Sockets |-> IF s \in {1, 2} THEN "open" ELSE "free"]
<1> DEFINE c(s) == [Hislip!NewConn EXCEPT !.kind = IF s = 1 THEN "Sync" ELSE "Async", !.session = 9]
           l    == [Hislip!NewSession(1) EXCEPT !.async = 2]
<1>1. CASE conns = <<>> /\ sessions = <<>> /\ socket = [s \in Sockets |-> "free"]
  BY <1>1
<1>2. CASE /\ conns = [s \in {1, 2} |-> c(s)] /\ sessions = Hislip!With(<<>>, 9, l)
           /\ socket = [s \in Sockets |-> IF s \in {1, 2} THEN "open" ELSE "free"]
  <2>0. ASSUME NEW kind
        PROVE  [Hislip!NewConn EXCEPT !.kind = kind, !.session = 9]
                 = [in |-> <<>>, kind |-> kind, session |-> 9, closing |-> FALSE]
    <3> DEFINE n == Hislip!NewConn
    <3>1. n \in ConnsOf /\ n.in = <<>> /\ n.closing = FALSE
      BY DEF Hislip!NewConn, ConnsOf
    <3> HIDE DEF n
    <3>2. [n EXCEPT !.kind = kind, !.session = 9] = [in |-> n.in, kind |-> kind, session |-> 9, closing |-> n.closing]
      BY <3>1, ConnIs
    <3> QED
      BY <3>1, <3>2 DEF n
  <2>1. c(1) = [in |-> <<>>, kind |-> "Sync", session |-> 9, closing |-> FALSE]
    <3>1. c(1) = [Hislip!NewConn EXCEPT !.kind = "Sync", !.session = 9]
      OBVIOUS
    <3> QED
      BY <2>0, <3>1
  <2>2. c(2) = [in |-> <<>>, kind |-> "Async", session |-> 9, closing |-> FALSE]
    <3>1. c(2) = [Hislip!NewConn EXCEPT !.kind = "Async", !.session = 9]
      OBVIOUS
    <3> QED
      BY <2>0, <3>1
  <2>3. l = [sync |-> 1, async |-> 2, msgBuf |-> <<>>]
    BY DEF Hislip!NewSession
  <2> HIDE DEF c, l
  <2>4. DOMAIN sessions = {9} /\ sessions[9] = l
    BY <1>2 DEF Hislip!With
  <2>5. DOMAIN conns = {1, 2} /\ conns[1] = c(1) /\ conns[2] = c(2)
    BY <1>2
  <2> QED
    BY <1>2, <2>1, <2>2, <2>3, <2>4, <2>5
<1> QED
  BY <1>1, <1>2 DEF Hislip!Init

LEMMA HislipInvInit == Hislip!Init => HTyped /\ HStack /\ HChannels /\ HLimits /\ HNumbers
<1> SUFFICES ASSUME Hislip!Init
             PROVE  HTyped /\ HStack /\ HChannels /\ HLimits /\ HNumbers
  OBVIOUS
<1>1. /\ calls = <<>> /\ fresh = {} /\ uses = 0 /\ nextSession \in FirstIds
      /\ unread = [s \in Sockets |-> <<>>] /\ client = [s \in Sockets |-> Hislip!NewClient]
  BY DEF Hislip!Init
<1>2. 1 \in Sockets /\ 2 \in Sockets /\ 0 \notin Sockets /\ MaxSessions \in Nat /\ MaxSessions >= 1 /\ MaxPending \in Nat
  BY ServersAssumption
<1>3. <<>> \in Seq(Msgs) /\ <<>> \in Seq(Handlers)
  OBVIOUS
<1>4. Hislip!NewClient \in Clients /\ Hislip!NewClient.given <= Hislip!NewClient.n
  BY DEF Hislip!NewClient, Clients
<1>5. /\ unread \in [Sockets -> Seq(Msgs)] /\ client \in [Sockets -> Clients]
      /\ \A s \in Sockets : client[s].given <= client[s].n
  BY <1>1, <1>3, <1>4
<1>6. HStack
  BY <1>1 DEF HStack
<1> DEFINE New     == DOMAIN conns = {} /\ DOMAIN sessions = {} /\ socket = [s \in Sockets |-> "free"]
           Running == /\ DOMAIN conns = {1, 2} /\ DOMAIN sessions = {9}
                      /\ conns[1] = [in |-> <<>>, kind |-> "Sync", session |-> 9, closing |-> FALSE]
                      /\ conns[2] = [in |-> <<>>, kind |-> "Async", session |-> 9, closing |-> FALSE]
                      /\ sessions[9] = [sync |-> 1, async |-> 2, msgBuf |-> <<>>]
                      /\ socket = [s \in Sockets |-> IF s \in {1, 2} THEN "open" ELSE "free"]
<1>7. New \/ Running
  BY HislipStarts
<1>8. HTyped /\ HChannels
  <2>1. CASE New
    BY <1>1, <1>3, <1>5, <2>1 DEF HTyped, HChannels, SocketStates
  <2>2. CASE Running
    <3>1. conns[1] \in ConnsOf /\ conns[2] \in ConnsOf /\ sessions[9] \in SessionsOf
      BY <1>2, <1>3, <2>2 DEF ConnsOf, SessionsOf
    <3>2. HTyped
      <4>1. DOMAIN conns \subseteq Sockets /\ \A s \in DOMAIN conns : conns[s] \in ConnsOf
        BY <1>2, <2>2, <3>1
      <4>2. DOMAIN sessions \subseteq Nat \ {0} /\ \A id \in DOMAIN sessions : sessions[id] \in SessionsOf
        BY <2>2, <3>1
      <4>3. socket \in [Sockets -> SocketStates]
        BY <2>2 DEF SocketStates
      <4> QED
        BY <1>1, <1>3, <1>5, <4>1, <4>2, <4>3 DEF HTyped
    <3>3. DOMAIN conns = {s \in Sockets : socket[s] \in {"open", "leaving"}}
      BY <1>2, <2>2
    <3>4. HChannels
      <4>1. /\ conns[1].kind = "Sync" /\ conns[1].session = 9 /\ conns[2].kind = "Async" /\ conns[2].session = 9
            /\ sessions[9].sync = 1 /\ sessions[9].async = 2
        BY <2>2
      <4>2. Hislip!Channel(1, "Sync", 9) /\ Hislip!Channel(2, "Async", 9)
        BY <2>2, <4>1 DEF Hislip!Channel
      <4>3. DOMAIN conns = {1, 2} /\ DOMAIN sessions = {9}
        BY <2>2
      <4> HIDE DEF Running, New
      <4> QED
        BY <3>3, <4>1, <4>2, <4>3 DEF HChannels, Stands
    <3> QED
      BY <3>2, <3>4
  <2> QED
    BY <1>7, <2>1, <2>2
<1>9. HLimits
  <2>1. IsFiniteSet(DOMAIN sessions) /\ Cardinality(DOMAIN sessions) <= 1
    <3>1. IsFiniteSet({9}) /\ Cardinality({9}) = 1 /\ IsFiniteSet({}) /\ Cardinality({}) = 0
      BY FS_Singleton, FS_EmptySet
    <3>2. DOMAIN sessions \in {{}, {9}}
      BY <1>7
    <3> QED
      BY <3>1, <3>2
  <2>2. IsFiniteSet(DOMAIN conns) /\ Cardinality(DOMAIN conns) <= 2
    <3>1. IsFiniteSet({1}) /\ Cardinality({1}) = 1 /\ IsFiniteSet({}) /\ Cardinality({}) = 0
      BY FS_Singleton, FS_EmptySet
    <3>2. IsFiniteSet({1} \cup {2}) /\ Cardinality({1} \cup {2}) \in {1, 2}
      BY <3>1, FS_AddElement
    <3>3. {1} \cup {2} = {1, 2}
      OBVIOUS
    <3>4. DOMAIN conns \in {{}, {1, 2}}
      BY <1>7
    <3>5. IsFiniteSet({1, 2}) /\ Cardinality({1, 2}) <= 2
      BY <3>2, <3>3
    <3> QED
      BY <3>1, <3>4, <3>5
  <2>3. Cardinality(DOMAIN sessions) \in Nat /\ Cardinality(DOMAIN conns) \in Nat
    BY <2>1, <2>2, FS_CardinalityType
  <2> QED
    BY <1>2, <2>1, <2>2, <2>3 DEF HLimits
<1>10. HNumbers
  <2>1. nextSession = Number(nextSession, 0)
    <3>1. 0 \in 0..(HislipUses + 2) /\ nextSession \in 0..(Ids - 1) /\ Ids \in Nat
      BY <1>1, ServersAssumption
    <3> QED
      BY <1>1, <3>1, NumberIs
  <2>2. Unknowns = {}
    BY <1>7 DEF Unknowns
  <2>3. Cardinality(Unknowns) = 0
    BY <2>2, FS_EmptySet
  <2>4. Numbers(nextSession, 0) = {}
    BY DEF Numbers
  <2>5. DOMAIN sessions \subseteq {9} /\ \A s \in DOMAIN conns : conns[s].kind # "Unknown" => conns[s].session = 9
    BY <1>7
  <2>6. Numbered(nextSession, 0)
    BY <1>1, <2>1, <2>3, <2>4, <2>5 DEF Numbered
  <2> QED
    BY <1>1, <2>6, ServersAssumption DEF HNumbers
<1> QED
  BY <1>6, <1>8, <1>9, <1>10

LEMMA HislipInvHolds == Spec => []HislipInv
<1>1. Init => HislipInv
  BY HislipInvInit DEF Init, HostInit, HislipInv
<1>2. HislipInv /\ [Next]_mcVars => HislipInv'
  <2> SUFFICES ASSUME HislipInv, [Next]_mcVars, server' = "hislip"
               PROVE  HTyped' /\ HStack' /\ HChannels' /\ HLimits' /\ HNumbers'
    BY DEF HislipInv
  <2>1. server = "hislip" /\ [Hislip!Next]_(Hislip!vars)
    BY DEF Next, HostNext, mcVars, hislipOnly, Hislip!vars
  <2>2. HTyped /\ HStack /\ HChannels /\ HLimits /\ HNumbers
    BY <2>1 DEF HislipInv
  <2>3. Hislip!Initialize => NewNumber(Hislip!NewSessionId)
    BY <2>2, NumberIsNew
  <2>4. Hislip!Initialize => Hislip!NewSessionId \in Nat \ {0}
    BY <2>3 DEF NewNumber
  <2> QED
    BY <2>1, <2>2, <2>3, <2>4, HTypedNext, HStackNext, HChannelsNext, HLimitsNext, HNumbersNext
<1> QED
  BY <1>1, <1>2, PTL DEF Spec

\* While commands run event loops of their own, in which clients come, go and initialise: in HiSLIP sessions and
\* channels belong together both ways, within the limits, and no socket is deleted under its handler; in VXI-11 links
\* are of open connections, and the lock of a link (m_sessions, m_conns, m_running; m_links, m_lockOwner).
THEOREM SessionsAreHeld == Spec => []SessionsHold
<1>1. HislipInv => (server = "hislip" => Hislip!SessionsHold)
  <2> SUFFICES ASSUME HTyped, HStack, HChannels, HLimits
               PROVE  Hislip!SessionsHold
    BY DEF HislipInv
  <2>1. ASSUME NEW id \in DOMAIN sessions
        PROVE  /\ id # 0 /\ Hislip!Channel(sessions[id].sync, "Sync", id)
               /\ sessions[id].async # 0 => Hislip!Channel(sessions[id].async, "Async", id)
    BY DEF HTyped, HChannels
  <2>2. ASSUME NEW s \in DOMAIN conns
        PROVE  /\ socket[s] \in {"open", "leaving"}
               /\ Hislip!Stands(conns[s]) => s = (IF conns[s].kind = "Sync" THEN sessions[conns[s].session].sync
                                                  ELSE sessions[conns[s].session].async)
    BY DEF HChannels, Stands, Hislip!Stands
  <2>3. /\ Hislip!Cardinality(DOMAIN sessions) <= MaxSessions
        /\ Hislip!Cardinality(DOMAIN conns) <= 2 * MaxSessions + MaxPending
    BY HislipCountsAgree DEF HLimits
  <2>4. \A s \in Hislip!Callers : socket[s] # "free"
    BY DEF HStack, Hislip!Callers
  <2> QED
    BY <2>1, <2>2, <2>3, <2>4 DEF Hislip!SessionsHold
<1> QED
  BY <1>1, HislipInvHolds, LinksAreOfClients, PTL DEF SessionsHold
-----------------------------------------------------------------------------
(* Messages that stay whole. What a client sent and nobody handled is a    *)
(* stream: what the connection holds, then what the socket holds. Its      *)
(* messages follow each other, the last by what the client sends next.     *)

Setup(m) == m.type \in SetupTypes
Piece(m) == m.type \in {"Data", "DataEnd"}

\* y is a first piece, or the end of a device clear.
Starts(y) == y.type = "DeviceClearComplete" \/ (Piece(y) /\ y.i = 1)

\* y may come after x on a synchronous channel.
Succeeds(x, y) ==
  /\ x.type # "AsyncDeviceClear"
  /\ x.type = "Data" => y.type = "DeviceClearComplete" \/ (Piece(y) /\ y.n = x.n /\ y.i = x.i + 1)
  /\ x.type \in {"DataEnd", "DeviceClearComplete"} => Starts(y)
  /\ Setup(x) => Setup(y) \/ Starts(y)

\* y may come when no piece is buffered: of a message given up the rest.
Begins(y, given) == Setup(y) \/ Starts(y) \/ (Piece(y) /\ y.n <= given)

\* What a client sends next.
NextOf(c) == [type |-> IF c.clear = "granted" THEN "DeviceClearComplete" ELSE "Data", id |-> 0, n |-> c.n, i |-> c.i + 1]

First(q, y)    == IF q = <<>> THEN y ELSE q[1]
After(q, y, k) == IF k = Len(q) THEN y ELSE q[k + 1]
Chain(q, y)    == \A k \in DOMAIN q : Succeeds(q[k], After(q, y, k))

\* Pieces of one message, in order unless the client gave it up.
OfOne(p, given) == \A j \in DOMAIN p : p[j].n = p[1].n /\ (p[j].i = j \/ p[1].n <= given)

\* A client c, what it sent, q, and what of it is buffered, b.
InOrder(q, b, c) ==
  /\ Chain(q, NextOf(c)) /\ \A k \in DOMAIN q : Piece(q[k]) => q[k].n <= c.n
  /\ b = <<>> => Begins(First(q, NextOf(c)), c.given)
  /\ b # <<>> => Succeeds(b[Len(b)], First(q, NextOf(c)))
  /\ OfOne(b, c.given) /\ \A j \in DOMAIN b : b[j].type = "Data"
  /\ c.clear # "no" => c.given = c.n

LEMMA SeqIs ==
  ASSUME NEW S, NEW q \in Seq(S)
  PROVE  /\ DOMAIN q = 1..Len(q) /\ Len(q) \in Nat /\ (q = <<>> <=> Len(q) = 0)
         /\ \A k \in DOMAIN q : q[k] \in S
OBVIOUS

LEMMA AppendIs ==
  ASSUME NEW S, NEW q \in Seq(S), NEW m \in S
  PROVE  /\ Append(q, m) \in Seq(S) /\ Append(q, m) # <<>> /\ Len(Append(q, m)) = Len(q) + 1
         /\ DOMAIN Append(q, m) = 1..(Len(q) + 1) /\ Append(q, m)[Len(q) + 1] = m
         /\ \A k \in DOMAIN q : Append(q, m)[k] = q[k]
OBVIOUS

LEMMA TailIs ==
  ASSUME NEW S, NEW q \in Seq(S), q # <<>>
  PROVE  /\ Tail(q) \in Seq(S) /\ Len(Tail(q)) = Len(q) - 1 /\ DOMAIN Tail(q) = 1..(Len(q) - 1) /\ Head(q) = q[1]
         /\ Len(q) \in Nat \ {0} /\ \A k \in DOMAIN Tail(q) : Tail(q)[k] = q[k + 1]
OBVIOUS

LEMMA ChainGrows ==
  ASSUME NEW q \in Seq(Msgs), NEW y, NEW m \in Msgs, NEW z, Chain(q, y),
         \A x \in Msgs : Succeeds(x, y) => Succeeds(x, m), Succeeds(m, z)
  PROVE  Chain(Append(q, m), z)
<1> DEFINE r == Append(q, m)
<1>1. /\ DOMAIN r = 1..(Len(q) + 1) /\ Len(r) = Len(q) + 1 /\ r[Len(q) + 1] = m
      /\ Len(q) \in Nat /\ DOMAIN q = 1..Len(q) /\ \A k \in DOMAIN q : q[k] \in Msgs /\ r[k] = q[k]
  BY AppendIs, SeqIs
<1> HIDE DEF r
<1> SUFFICES ASSUME NEW k \in DOMAIN r
             PROVE  Succeeds(r[k], After(r, z, k))
  BY DEF Chain, r
<1>2. CASE k = Len(q) + 1
  BY <1>1, <1>2 DEF After
<1>3. CASE k = Len(q)
  <2>0. k \in DOMAIN q /\ k # Len(r) /\ k + 1 = Len(q) + 1
    <3>1. k \in 1..(Len(q) + 1)
      BY <1>1
    <3>2. Len(q) \in Nat /\ DOMAIN q = 1..Len(q) /\ Len(r) = Len(q) + 1
      BY <1>1
    <3> DEFINE l == Len(q)
    <3> HIDE DEF l
    <3>3. l \in Nat /\ k \in 1..(l + 1) /\ k = l
      BY <1>3, <3>1, <3>2 DEF l
    <3>4. k \in 1..l /\ k # l + 1 /\ k + 1 = l + 1
      BY <3>3
    <3> QED
      BY <3>2, <3>4 DEF l
  <2>1. k \in DOMAIN q /\ After(q, y, k) = y /\ After(r, z, k) = m
    BY <1>1, <1>3, <2>0 DEF After
  <2>2. Succeeds(q[k], y)
    BY <2>1 DEF Chain
  <2> QED
    BY <1>1, <2>1, <2>2
<1>4. CASE k < Len(q)
  <2>1. k \in DOMAIN q /\ k + 1 \in DOMAIN q /\ After(q, y, k) = q[k + 1] /\ After(r, z, k) = r[k + 1]
    BY <1>1, <1>4 DEF After
  <2>2. Succeeds(q[k], q[k + 1])
    BY <2>1 DEF Chain
  <2> QED
    BY <1>1, <2>1, <2>2
<1> QED
  BY <1>1, <1>2, <1>3, <1>4

LEMMA ChainShrinks ==
  ASSUME NEW q \in Seq(Msgs), q # <<>>, NEW y, Chain(q, y)
  PROVE  Chain(Tail(q), y) /\ Succeeds(Head(q), First(Tail(q), y))
<1> DEFINE r == Tail(q)
<1>1. /\ DOMAIN r = 1..(Len(q) - 1) /\ Len(r) = Len(q) - 1 /\ r \in Seq(Msgs)
      /\ Len(q) \in Nat \ {0} /\ DOMAIN q = 1..Len(q) /\ Head(q) = q[1] /\ \A k \in DOMAIN r : r[k] = q[k + 1]
  BY TailIs, SeqIs
<1>2. r = <<>> <=> Len(q) = 1
  BY <1>1, SeqIs
<1> HIDE DEF r
<1>3. ASSUME NEW k \in DOMAIN r
      PROVE  Succeeds(r[k], After(r, y, k))
  <2>1. k + 1 \in DOMAIN q /\ r[k] = q[k + 1]
    BY <1>1
  <2>2. After(r, y, k) = After(q, y, k + 1)
    <3>1. CASE k = Len(r)
      BY <1>1, <3>1 DEF After
    <3>2. CASE k # Len(r)
      <4>1. k + 1 \in DOMAIN r /\ k + 1 # Len(q)
        BY <1>1, <3>2
      <4> QED
        BY <1>1, <3>2, <4>1 DEF After
    <3> QED
      BY <3>1, <3>2
  <2> QED
    BY <2>1, <2>2 DEF Chain
<1>4. Succeeds(q[1], After(q, y, 1))
  BY <1>1 DEF Chain
<1>5. After(q, y, 1) = First(r, y)
  <2>1. CASE Len(q) = 1
    BY <1>2, <2>1 DEF After, First
  <2>2. CASE Len(q) # 1
    <3>1. 1 \in DOMAIN r
      BY <1>1, <2>2
    <3> QED
      BY <1>1, <1>2, <2>2, <3>1 DEF After, First
  <2> QED
    BY <2>1, <2>2
<1> QED
  BY <1>1, <1>3, <1>4, <1>5 DEF Chain, r

LEMMA ChainEnds ==
  ASSUME NEW q \in Seq(Msgs), NEW y, NEW z, Chain(q, y), \A x \in Msgs : Succeeds(x, y) => Succeeds(x, z)
  PROVE  Chain(q, z)
BY SeqIs DEF Chain, After

\* What is before the first and after the last of a chain.
LEMMA FirstFollows ==
  ASSUME NEW q \in Seq(Msgs), NEW m \in Msgs, NEW y, NEW z
  PROVE  First(Append(q, m), z) = First(q, m) /\ (q # <<>> => First(q, y) = First(q, z) /\ First(q, y) = Head(q))
<1>1. CASE q = <<>>
  BY <1>1, AppendIs DEF First
<1>2. CASE q # <<>>
  BY <1>2, AppendIs, SeqIs, TailIs DEF First
<1> QED
  BY <1>1, <1>2

-----------------------------------------------------------------------------
(* What the steps of client and server do to that order. *)

LEMMA NextIs ==
  ASSUME NEW c \in Clients
  PROVE  /\ NextOf(c) \in Msgs /\ NextOf(c).n = c.n /\ NextOf(c).i = c.i + 1
         /\ NextOf(c).type = IF c.clear = "granted" THEN "DeviceClearComplete" ELSE "Data"
         /\ c.n \in Nat /\ c.i \in Nat /\ c.given \in Nat
BY DEF Clients, NextOf, Msgs, Types

\* The client sends m, what it was to send next, and goes on to d.
LEMMA SentInOrder ==
  ASSUME NEW q \in Seq(Msgs), NEW b \in Seq(Msgs), NEW c \in Clients, NEW d \in Clients, NEW m \in Msgs, InOrder(q, b, c),
         \/ Piece(m) /\ m.n = c.n /\ m.i = c.i + 1 /\ c.clear # "granted"
         \/ m.type = "DeviceClearComplete" /\ c.clear = "granted",
         d.clear = "no", d.n >= c.n, d.given = c.given, Succeeds(m, NextOf(d))
  PROVE  InOrder(Append(q, m), b, d)
<1>1. /\ NextOf(c).n = c.n /\ NextOf(c).i = c.i + 1 /\ c.n \in Nat /\ d.n \in Nat
      /\ NextOf(c).type = IF c.clear = "granted" THEN "DeviceClearComplete" ELSE "Data"
  BY NextIs
<1> DEFINE y == NextOf(c)
           z == NextOf(d)
<1> HIDE DEF y, z
<1>2. \A x \in Msgs : Succeeds(x, y) => Succeeds(x, m)
  BY <1>1 DEF y, Succeeds, Starts, Piece, Setup, SetupTypes
<1>3. Begins(y, c.given) => Begins(m, c.given)
  BY <1>1 DEF y, Begins, Starts, Piece, Setup, SetupTypes
<1>4. Chain(Append(q, m), z)
  BY <1>2, ChainGrows DEF InOrder, y, z
<1>5. \A k \in DOMAIN Append(q, m) : Piece(Append(q, m)[k]) => Append(q, m)[k].n <= d.n
  <2> SUFFICES ASSUME NEW k \in DOMAIN Append(q, m), Piece(Append(q, m)[k])
               PROVE  Append(q, m)[k].n <= d.n
    OBVIOUS
  <2>1. CASE k \in DOMAIN q
    <3>1. q[k].n <= c.n /\ q[k] \in Msgs /\ Append(q, m)[k] = q[k]
      BY <2>1, SeqIs, AppendIs DEF InOrder
    <3>2. q[k].n \in Nat
      BY <3>1 DEF Msgs
    <3> QED
      BY <1>1, <3>1, <3>2
  <2>2. CASE k \notin DOMAIN q
    <3>1. Append(q, m)[k] = m
      BY <2>2, SeqIs, AppendIs
    <3> QED
      BY <1>1, <3>1 DEF Piece
  <2> QED
    BY <2>1, <2>2
<1>6. First(Append(q, m), z) = First(q, m)
  BY FirstFollows
<1>7. CASE q = <<>>
  <2>1. First(q, y) = y /\ First(q, m) = m
    BY <1>7 DEF First
  <2>2. b # <<>> => b[Len(b)] \in Msgs
    BY SeqIs
  <2> QED
    BY <1>2, <1>3, <1>4, <1>5, <1>6, <2>1, <2>2 DEF InOrder, y, z
<1>8. CASE q # <<>>
  <2>1. First(q, m) = First(q, y)
    BY <1>8, FirstFollows
  <2> QED
    BY <1>4, <1>5, <1>6, <2>1 DEF InOrder, y, z
<1> QED
  BY <1>7, <1>8

\* A device clear gives up what is under way.
LEMMA AskedInOrder ==
  ASSUME NEW q \in Seq(Msgs), NEW b \in Seq(Msgs), NEW c \in Clients, NEW d \in Clients, InOrder(q, b, c),
         c.clear = "no", c.given <= c.n, d.clear = "asked", d.given = c.n, d.n = c.n, d.i = c.i
  PROVE  InOrder(q, b, d)
<1>1. NextOf(d) = NextOf(c)
  BY DEF NextOf
<1>2. c.given \in Nat /\ c.n \in Nat
  BY NextIs
<1>3. \A y \in Msgs : Begins(y, c.given) => Begins(y, d.given)
  BY <1>2 DEF Begins, Msgs
<1>4. OfOne(b, d.given)
  <2>1. \A j \in DOMAIN b : b[1] \in Msgs
    BY SeqIs
  <2>2. \A j \in DOMAIN b : b[1].n \in Nat
    BY <2>1 DEF Msgs
  <2> QED
    BY <1>2, <2>2 DEF InOrder, OfOne
<1>5. First(q, NextOf(c)) \in Msgs
  BY NextIs, SeqIs DEF First
<1> QED
  BY <1>1, <1>3, <1>4, <1>5 DEF InOrder

\* The server grants it and drops what it buffers.
LEMMA GrantedInOrder ==
  ASSUME NEW q \in Seq(Msgs), NEW b \in Seq(Msgs), NEW c \in Clients, NEW d \in Clients, InOrder(q, b, c),
         c.clear = "asked", d.clear = "granted", d.given = c.given, d.n = c.n, d.i = c.i
  PROVE  InOrder(q, <<>>, d)
<1>1. NextOf(d).type = "DeviceClearComplete"
  BY NextIs
<1> DEFINE z == NextOf(d)
<1> HIDE DEF z
<1>2. \A x \in Msgs : Succeeds(x, NextOf(c)) => Succeeds(x, z)
  BY <1>1 DEF z, Succeeds, Starts
<1>3. Chain(q, z)
  BY <1>2, ChainEnds DEF InOrder
<1>4. Begins(First(q, z), d.given)
  <2>1. CASE q = <<>>
    BY <1>1, <2>1 DEF First, Begins, Starts, z
  <2>2. CASE q # <<>>
    <3>1. 1 \in DOMAIN q /\ q[1] \in Msgs /\ First(q, z) = q[1]
      BY <2>2, SeqIs DEF First
    <3>2. q[1].type # "AsyncDeviceClear" /\ (Piece(q[1]) => q[1].n <= d.given)
      BY <3>1 DEF InOrder, Chain, Succeeds
    <3>3. q[1].type \in Types
      BY <3>1 DEF Msgs
    <3> QED
      BY <3>1, <3>2, <3>3 DEF Begins, Starts, Piece, Setup, Types
  <2> QED
    BY <2>1, <2>2
<1> QED
  BY <1>3, <1>4 DEF InOrder, OfOne, z

\* A channel that becomes synchronous.
LEMMA NewInOrder ==
  ASSUME NEW q \in Seq(Msgs), \A k \in DOMAIN q : Setup(q[k])
  PROVE  InOrder(q, <<>>, Hislip!NewClient)
<1> DEFINE c == Hislip!NewClient
<1>1. c \in Clients /\ c.n = 1 /\ c.i = 0 /\ c.clear = "no"
  BY DEF Hislip!NewClient, Clients
<1> HIDE DEF c
<1>2. NextOf(c).type = "Data" /\ NextOf(c).i = 1
  BY <1>1, NextIs
<1> DEFINE y == NextOf(c)
<1> HIDE DEF y
<1>3. Starts(y)
  BY <1>2 DEF y, Starts, Piece
<1>4. \A x, z : Setup(x) /\ (Setup(z) \/ Starts(z)) => Succeeds(x, z)
  BY DEF Succeeds, Setup, SetupTypes
<1>5. ASSUME NEW k \in DOMAIN q
      PROVE  Succeeds(q[k], After(q, y, k))
  <2>1. Setup(After(q, y, k)) \/ Starts(After(q, y, k))
    <3>1. k # Len(q) => k + 1 \in DOMAIN q
      BY SeqIs
    <3> QED
      BY <1>3, <3>1 DEF After
  <2> QED
    BY <1>4, <2>1
<1>6. Begins(First(q, y), c.given)
  <2>1. q # <<>> => 1 \in DOMAIN q
    BY SeqIs
  <2> QED
    BY <1>3, <2>1 DEF First, Begins
<1>7. \A k \in DOMAIN q : ~Piece(q[k])
  BY DEF Piece, Setup, SetupTypes
<1> QED
  BY <1>1, <1>5, <1>6, <1>7 DEF InOrder, Chain, OfOne, y, c

\* What is left when the first message is taken.
LEMMA RestInOrder ==
  ASSUME NEW q \in Seq(Msgs), q # <<>>, NEW b, NEW c \in Clients, InOrder(q, b, c)
  PROVE  /\ Chain(Tail(q), NextOf(c)) /\ Succeeds(Head(q), First(Tail(q), NextOf(c)))
         /\ \A k \in DOMAIN Tail(q) : Piece(Tail(q)[k]) => Tail(q)[k].n <= c.n
         /\ b = <<>> => Begins(Head(q), c.given)
         /\ b # <<>> => Succeeds(b[Len(b)], Head(q))
<1>1. Chain(Tail(q), NextOf(c)) /\ Succeeds(Head(q), First(Tail(q), NextOf(c)))
  BY ChainShrinks DEF InOrder
<1>2. First(q, NextOf(c)) = Head(q)
  BY TailIs DEF First
<1>3. \A k \in DOMAIN Tail(q) : k + 1 \in DOMAIN q /\ Tail(q)[k] = q[k + 1]
  BY TailIs, SeqIs
<1> QED
  BY <1>1, <1>2, <1>3 DEF InOrder

\* A piece is taken.
LEMMA PieceInOrder ==
  ASSUME NEW q \in Seq(Msgs), q # <<>>, NEW b \in Seq(Msgs), NEW c \in Clients, InOrder(q, b, c), Piece(Head(q))
  PROVE  /\ OfOne(Append(b, Head(q)), c.given)
         /\ InOrder(Tail(q), IF Head(q).type = "Data" THEN Append(b, Head(q)) ELSE <<>>, c)
<1> DEFINE m == Head(q)
           p == Append(b, m)
           y == NextOf(c)
<1>1. /\ Chain(Tail(q), y) /\ Succeeds(m, First(Tail(q), y))
      /\ \A k \in DOMAIN Tail(q) : Piece(Tail(q)[k]) => Tail(q)[k].n <= c.n
      /\ b = <<>> => Begins(m, c.given)
      /\ b # <<>> => Succeeds(b[Len(b)], m)
  BY RestInOrder
<1>2. m \in Msgs
  BY TailIs, SeqIs
<1>3. /\ DOMAIN p = 1..(Len(b) + 1) /\ Len(p) = Len(b) + 1 /\ p[Len(b) + 1] = m /\ p # <<>>
      /\ DOMAIN b = 1..Len(b) /\ Len(b) \in Nat /\ \A j \in DOMAIN b : p[j] = b[j] /\ b[j] \in Msgs
      /\ b = <<>> <=> Len(b) = 0
  BY <1>2, AppendIs, SeqIs
<1>4. OfOne(b, c.given) /\ \A j \in DOMAIN b : b[j].type = "Data"
  BY DEF InOrder
<1>p. Piece(m)
  OBVIOUS
<1> HIDE DEF m, p, y
<1>5. OfOne(p, c.given)
  <2>1. CASE b = <<>>
    <3>1. p[1] = m /\ DOMAIN p = {1}
      BY <1>3, <2>1
    <3>2. m.i = 1 \/ m.n <= c.given
      BY <1>1, <1>p, <2>1 DEF Begins, Starts, Setup, SetupTypes, Piece
    <3> QED
      BY <3>1, <3>2 DEF OfOne
  <2>2. CASE b # <<>>
    <3> DEFINE x == b[Len(b)]
    <3>1. Len(b) \in DOMAIN b /\ 1 \in DOMAIN b /\ x.type = "Data" /\ x \in Msgs
      BY <1>3, <1>4, <2>2
    <3>2. m.n = x.n /\ m.i = x.i + 1
      BY <1>1, <1>p, <2>2, <3>1 DEF Succeeds, Piece
    <3>3. x.n = b[1].n /\ (x.i = Len(b) \/ b[1].n <= c.given)
      BY <1>4, <3>1 DEF OfOne
    <3> HIDE DEF x
    <3>4. p[1] = b[1] /\ m.n = b[1].n /\ (m.i = Len(b) + 1 \/ b[1].n <= c.given)
      BY <1>3, <3>1, <3>2, <3>3
    <3>5. ASSUME NEW j \in DOMAIN p
          PROVE  p[j].n = p[1].n /\ (p[j].i = j \/ p[1].n <= c.given)
      <4>1. CASE j \in DOMAIN b
        BY <1>3, <1>4, <3>4, <4>1 DEF OfOne
      <4>2. CASE j \notin DOMAIN b
        BY <1>3, <3>4, <4>2
      <4> QED
        BY <4>1, <4>2
    <3> QED
      BY <3>5 DEF OfOne
  <2> QED
    BY <2>1, <2>2
<1>6. CASE m.type = "Data"
  <2>1. \A j \in DOMAIN p : p[j].type = "Data"
    BY <1>3, <1>4, <1>6
  <2>2. p[Len(p)] = m
    BY <1>3
  <2>3. InOrder(Tail(q), p, c)
    BY <1>1, <1>3, <1>5, <2>1, <2>2 DEF InOrder, y
  <2> QED
    BY <1>5, <1>6, <2>3 DEF m, p
<1>7. CASE m.type = "DataEnd"
  <2>1. Begins(First(Tail(q), y), c.given)
    BY <1>1, <1>7 DEF Succeeds, Begins
  <2>2. InOrder(Tail(q), <<>>, c)
    BY <1>1, <2>1 DEF InOrder, OfOne, y
  <2> QED
    BY <1>5, <1>7, <2>2 DEF m, p
<1> QED
  BY <1>6, <1>7, <1>p DEF Piece

\* The end of a device clear, or something else, is taken.
LEMMA OthersInOrder ==
  ASSUME NEW q \in Seq(Msgs), q # <<>>, NEW b \in Seq(Msgs), NEW c \in Clients, InOrder(q, b, c)
  PROVE  /\ Head(q).type = "DeviceClearComplete" => InOrder(Tail(q), <<>>, c)
         /\ Head(q).type = "Other" => InOrder(Tail(q), b, c)
<1> DEFINE m == Head(q)
           y == NextOf(c)
<1>1. /\ Chain(Tail(q), y) /\ Succeeds(m, First(Tail(q), y))
      /\ \A k \in DOMAIN Tail(q) : Piece(Tail(q)[k]) => Tail(q)[k].n <= c.n
      /\ b = <<>> => Begins(m, c.given)
      /\ b # <<>> => Succeeds(b[Len(b)], m)
  BY RestInOrder
<1> HIDE DEF m, y
<1>2. ASSUME m.type = "DeviceClearComplete" PROVE InOrder(Tail(q), <<>>, c)
  <2>1. Begins(First(Tail(q), y), c.given)
    BY <1>1, <1>2 DEF Succeeds, Begins
  <2> QED
    BY <1>1, <2>1 DEF InOrder, OfOne, y
<1>3. ASSUME m.type = "Other" PROVE InOrder(Tail(q), b, c)
  <2>1. b = <<>>
    <3>1. ASSUME b # <<>> PROVE FALSE
      <4>1. b[Len(b)].type = "Data"
        BY <3>1, SeqIs DEF InOrder
      <4> QED
        BY <1>1, <1>3, <3>1, <4>1 DEF Succeeds, Piece
    <3> QED
      BY <3>1
  <2>2. Begins(First(Tail(q), y), c.given)
    BY <1>1, <1>3 DEF Succeeds, Begins, Setup, SetupTypes
  <2> QED
    BY <1>1, <2>1, <2>2 DEF InOrder, OfOne, y
<1> QED
  BY <1>2, <1>3 DEF m
-----------------------------------------------------------------------------
(* The streams of the connections. *)

Stream(s) == conns[s].in \o unread[s]
Clears(q) == {k \in DOMAIN q : q[k].type = "AsyncDeviceClear"}

\* At most one device clear is under way, and only when it was asked for.
OneClear(q, clear) == (\A k, l \in Clears(q) : k = l) /\ (Clears(q) # {} => clear = "asked")

StreamInv(s) ==
  ~conns[s].closing =>
    /\ conns[s].kind = "Unknown" => client[s] = Hislip!NewClient /\ \A k \in DOMAIN Stream(s) : Setup(Stream(s)[k])
    /\ conns[s].kind = "Sync" /\ Stands(s) => InOrder(Stream(s), sessions[conns[s].session].msgBuf, client[s])
    /\ conns[s].kind = "Async" /\ Stands(s) =>
         OneClear(Stream(s), client[sessions[conns[s].session].sync].clear)

HStreams == \A s \in DOMAIN conns : StreamInv(s)

LEMMA TailOfConcat ==
  ASSUME NEW S, NEW q \in Seq(S), NEW r \in Seq(S), q # <<>>
  PROVE  q \o r \in Seq(S) /\ q \o r # <<>> /\ Head(q \o r) = Head(q) /\ Tail(q \o r) = Tail(q) \o r
<1>1. /\ q \o r \in Seq(S) /\ Len(q \o r) = Len(q) + Len(r) /\ Len(q) \in Nat \ {0} /\ Len(r) \in Nat
      /\ \A k \in 1..(Len(q) + Len(r)) : (q \o r)[k] = IF k <= Len(q) THEN q[k] ELSE r[k - Len(q)]
  BY ConcatProperties, SeqIs
<1>2. q \o r # <<>>
  BY <1>1
<1>3. /\ Tail(q) \in Seq(S) /\ Len(Tail(q)) = Len(q) - 1 /\ Head(q) = q[1]
      /\ \A k \in 1..(Len(q) - 1) : Tail(q)[k] = q[k + 1]
  BY TailIs
<1>4. Head(q \o r) = Head(q)
  BY <1>1, <1>2, <1>3, TailIs
<1>5. /\ Tail(q \o r) \in Seq(S) /\ Len(Tail(q \o r)) = Len(q) + Len(r) - 1
      /\ \A k \in 1..(Len(q) + Len(r) - 1) : Tail(q \o r)[k] = (q \o r)[k + 1]
  BY <1>1, <1>2, TailIs
<1>6. /\ Tail(q) \o r \in Seq(S) /\ Len(Tail(q) \o r) = Len(q) - 1 + Len(r)
      /\ \A k \in 1..(Len(q) - 1 + Len(r)) :
           (Tail(q) \o r)[k] = IF k <= Len(q) - 1 THEN Tail(q)[k] ELSE r[k - (Len(q) - 1)]
  BY <1>1, <1>3, ConcatProperties
<1> DEFINE t == Tail(q \o r)
           u == Tail(q) \o r
<1>7. ASSUME NEW k \in 1..Len(t)
      PROVE  t[k] = u[k]
  <2>1. k \in 1..(Len(q) + Len(r) - 1) /\ k + 1 \in 1..(Len(q) + Len(r))
    BY <1>1, <1>5
  <2>2. t[k] = IF k + 1 <= Len(q) THEN q[k + 1] ELSE r[k + 1 - Len(q)]
    BY <1>1, <1>5, <2>1
  <2>3. CASE k + 1 <= Len(q)
    <3>1. k \in 1..(Len(q) - 1) /\ k \in 1..(Len(q) - 1 + Len(r)) /\ k <= Len(q) - 1
      BY <1>1, <2>1, <2>3
    <3>2. u[k] = Tail(q)[k]
      BY <1>6, <3>1
    <3> QED
      BY <1>3, <2>2, <2>3, <3>1, <3>2
  <2>4. CASE ~(k + 1 <= Len(q))
    <3>1. k \in 1..(Len(q) - 1 + Len(r)) /\ ~(k <= Len(q) - 1) /\ k - (Len(q) - 1) = k + 1 - Len(q)
      BY <1>1, <2>1, <2>4
    <3>2. u[k] = r[k - (Len(q) - 1)]
      BY <1>6, <3>1
    <3> QED
      BY <2>2, <2>4, <3>1, <3>2
  <2> QED
    BY <2>3, <2>4
<1>8. t \in Seq(S) /\ u \in Seq(S) /\ Len(t) = Len(u)
  BY <1>1, <1>5, <1>6
<1> HIDE DEF t, u
<1>9. t = u
  BY <1>7, <1>8, SeqEqual
<1> QED
  BY <1>1, <1>2, <1>4, <1>9 DEF t, u

LEMMA AppendToConcat ==
  ASSUME NEW S, NEW q \in Seq(S), NEW r \in Seq(S), NEW m \in S
  PROVE  q \o Append(r, m) = Append(q \o r, m)
<1>1. Append(r, m) = r \o <<m>> /\ <<m>> \in Seq(S) /\ q \o r \in Seq(S)
  BY AppendIsConcat, ConcatProperties
<1>2. Append(q \o r, m) = (q \o r) \o <<m>>
  BY <1>1, AppendIsConcat
<1>3. (q \o r) \o <<m>> = q \o (r \o <<m>>)
  BY <1>1, ConcatAssociative
<1> QED
  BY <1>1, <1>2, <1>3

LEMMA StreamTyped ==
  ASSUME HTyped, NEW s \in DOMAIN conns
  PROVE  /\ s \in Sockets /\ conns[s] \in ConnsOf /\ conns[s].in \in Seq(Msgs) /\ unread[s] \in Seq(Msgs)
         /\ Stream(s) \in Seq(Msgs) /\ client[s] \in Clients
         /\ Stands(s) => sessions[conns[s].session] \in SessionsOf /\ sessions[conns[s].session].msgBuf \in Seq(Msgs)
<1>1. s \in Sockets /\ conns[s] \in ConnsOf /\ unread[s] \in Seq(Msgs) /\ client[s] \in Clients
  BY DEF HTyped
<1>2. conns[s].in \in Seq(Msgs)
  BY <1>1 DEF ConnsOf
<1>3. Stream(s) \in Seq(Msgs)
  BY <1>1, <1>2, ConcatProperties DEF Stream
<1>4. Stands(s) => sessions[conns[s].session] \in SessionsOf
  BY DEF HTyped, Stands
<1> QED
  BY <1>1, <1>2, <1>3, <1>4 DEF SessionsOf

\* Sending and handling, as the stream shows them.
LEMMA StreamSent ==
  ASSUME HTyped, NEW s \in DOMAIN conns, NEW m \in Msgs, unread' = [unread EXCEPT ![s] = Append(@, m)], UNCHANGED conns
  PROVE  Stream(s)' = Append(Stream(s), m) /\ \A r \in DOMAIN conns : r # s => Stream(r)' = Stream(r)
<1>1. /\ s \in Sockets /\ conns[s].in \in Seq(Msgs) /\ unread[s] \in Seq(Msgs) /\ DOMAIN unread = Sockets
      /\ DOMAIN conns \subseteq Sockets
  BY StreamTyped DEF HTyped
<1>2. unread'[s] = Append(unread[s], m) /\ \A r \in DOMAIN conns : r # s => unread'[r] = unread[r]
  BY <1>1
<1>3. conns[s].in \o Append(unread[s], m) = Append(conns[s].in \o unread[s], m)
  <2> DEFINE q == conns[s].in
             r == unread[s]
  <2>1. q \in Seq(Msgs) /\ r \in Seq(Msgs)
    BY <1>1
  <2> HIDE DEF q, r
  <2>2. q \o Append(r, m) = Append(q \o r, m)
    BY <2>1, AppendToConcat
  <2> QED
    BY <2>2 DEF q, r
<1> QED
  BY <1>2, <1>3 DEF Stream

LEMMA StreamTaken ==
  ASSUME HTyped, NEW s, NEW m, NEW kind, NEW session, Takes1(s, m, kind, session, FALSE)
  PROVE  /\ s \in DOMAIN conns /\ ~conns[s].closing /\ Stream(s) # <<>> /\ m = Head(Stream(s))
         /\ Stream(s)' = Tail(Stream(s))
<1>1. /\ s \in DOMAIN conns /\ ~conns[s].closing /\ conns[s].in # <<>> /\ m = Head(conns[s].in) /\ UNCHANGED unread
      /\ conns'[s].in = Tail(conns[s].in)
  BY DEF Takes1
<1>2. conns[s].in \in Seq(Msgs) /\ unread[s] \in Seq(Msgs)
  BY <1>1, StreamTyped
<1>3. /\ Stream(s) # <<>> /\ Head(Stream(s)) = Head(conns[s].in)
      /\ Tail(Stream(s)) = Tail(conns[s].in) \o unread[s]
  <2> DEFINE q == conns[s].in
             r == unread[s]
  <2>1. q \in Seq(Msgs) /\ r \in Seq(Msgs) /\ q # <<>>
    BY <1>1, <1>2
  <2> HIDE DEF q, r
  <2>2. q \o r # <<>> /\ Head(q \o r) = Head(q) /\ Tail(q \o r) = Tail(q) \o r
    BY <2>1, TailOfConcat
  <2> QED
    BY <2>2 DEF q, r, Stream
<1> QED
  BY <1>1, <1>3 DEF Stream

\* A connection the step is not about.
LEMMA StreamStays ==
  ASSUME NEW r \in DOMAIN conns, StreamInv(r), ~conns'[r].closing => ~conns[r].closing,
         conns'[r].kind = conns[r].kind, conns'[r].session = conns[r].session, Stream(r)' = Stream(r),
         client'[r] = client[r], Stands(r)' => Stands(r),
         conns[r].kind = "Sync" /\ Stands(r)' =>
           sessions'[conns[r].session].msgBuf = sessions[conns[r].session].msgBuf,
         conns[r].kind = "Async" /\ Stands(r)' =>
           /\ sessions'[conns[r].session].sync = sessions[conns[r].session].sync
           /\ client'[sessions[conns[r].session].sync].clear = client[sessions[conns[r].session].sync].clear
  PROVE  StreamInv(r)'
BY DEF StreamInv

LEMMA OtherStreams ==
  ASSUME HStreams, NEW s, NEW m, NEW kind, NEW session, NEW closing, Takes1(s, m, kind, session, closing),
         NEW r \in DOMAIN conns, r # s, Stands(r)' => Stands(r), UNCHANGED client,
         conns[r].kind = "Sync" /\ Stands(r) => sessions'[conns[r].session].msgBuf = sessions[conns[r].session].msgBuf,
         Stands(r) => sessions'[conns[r].session].sync = sessions[conns[r].session].sync
  PROVE  StreamInv(r)'
<1>1. conns'[r] = conns[r] /\ UNCHANGED unread
  BY DEF Takes1
<1>2. Stream(r)' = Stream(r)
  BY <1>1 DEF Stream
<1> QED
  BY <1>1, <1>2, StreamStays DEF HStreams

\* Channels of one session are the two it has.
LEMMA ChannelsOfOne ==
  ASSUME HChannels, NEW r \in DOMAIN conns, NEW s \in DOMAIN conns, Stands(r), Stands(s),
         conns[r].session = conns[s].session
  PROVE  /\ conns[r].kind = conns[s].kind => r = s
         /\ conns[r].kind = "Sync" => r = sessions[conns[s].session].sync
BY DEF HChannels, Stands

LEMMA ClearsOf ==
  ASSUME NEW q \in Seq(Msgs), NEW clear, OneClear(q, clear)
  PROVE  /\ \A m \in Msgs : clear # "asked" => OneClear(Append(q, m), "asked")
         /\ clear # "asked" => \A any : OneClear(q, any)
         /\ q # <<>> => OneClear(Tail(q), clear)
         /\ q # <<>> /\ Head(q).type = "AsyncDeviceClear" => clear = "asked" /\ \A any : OneClear(Tail(q), any)
<1>1. ASSUME NEW m \in Msgs, clear # "asked" PROVE OneClear(Append(q, m), "asked")
  <2>1. Clears(q) = {}
    BY <1>1 DEF OneClear
  <2>2. Clears(Append(q, m)) \subseteq {Len(q) + 1}
    BY <2>1, AppendIs, SeqIs DEF Clears
  <2> QED
    BY <2>2 DEF OneClear
<1>2. ASSUME clear # "asked" PROVE \A any : OneClear(q, any)
  BY <1>2 DEF OneClear
<1>3. ASSUME q # <<>>
      PROVE  /\ OneClear(Tail(q), clear)
             /\ Head(q).type = "AsyncDeviceClear" => clear = "asked" /\ \A any : OneClear(Tail(q), any)
  <2>1. /\ Head(q) = q[1] /\ 1 \in DOMAIN q
        /\ \A k \in DOMAIN Tail(q) : k \in Nat /\ k + 1 \in DOMAIN q /\ k + 1 # 1 /\ Tail(q)[k] = q[k + 1]
    BY <1>3, TailIs, SeqIs
  <2>2. \A k \in Clears(Tail(q)) : k \in Nat /\ k + 1 \in Clears(q) /\ k + 1 # 1
    BY <2>1 DEF Clears
  <2>3. \A k, l \in Clears(Tail(q)) : k = l
    <3> SUFFICES ASSUME NEW k \in Clears(Tail(q)), NEW l \in Clears(Tail(q))
                 PROVE  k = l
      OBVIOUS
    <3>1. k + 1 = l + 1 /\ k \in Nat /\ l \in Nat
      BY <2>2 DEF OneClear
    <3> QED
      BY <3>1
  <2>4. Head(q).type = "AsyncDeviceClear" => 1 \in Clears(q)
    BY <2>1 DEF Clears
  <2>5. Head(q).type = "AsyncDeviceClear" => Clears(Tail(q)) = {}
    BY <2>2, <2>4 DEF OneClear
  <2> QED
    BY <2>2, <2>3, <2>4, <2>5 DEF OneClear
<1> QED
  BY <1>1, <1>2, <1>3

LEMMA StreamsSent ==
  ASSUME HTyped, HChannels, HStreams, NEW s \in Sockets, Hislip!Send(s)
  PROVE  HStreams'
<1>1. PICK m \in Msgs : \/ \E d \in Clients : SendsPiece(s, m, d) \/ SendsClear(s, m, d) \/ SendsComplete(s, m, d)
                        \/ SendsSetup(s, m)
  BY SendIs
<1> DEFINE q == Stream(s)
           c == client[s]
           b == sessions[conns[s].session].msgBuf
\* A synchronous channel sends.
<1>2. ASSUME NEW d \in Clients, Sends(s, m, s, d), conns[s].kind = "Sync", c.clear # "asked", d.clear = "no",
             d.n >= c.n, d.given = c.given, Succeeds(m, NextOf(d)),
             \/ Piece(m) /\ m.n = c.n /\ m.i = c.i + 1 /\ c.clear # "granted"
             \/ m.type = "DeviceClearComplete" /\ c.clear = "granted"
      PROVE  HStreams'
  <2>1. /\ s \in DOMAIN conns /\ UNCHANGED <<conns, sessions>> /\ unread' = [unread EXCEPT ![s] = Append(@, m)]
        /\ client'[s] = d /\ \A r \in Sockets : r # s => client'[r] = client[r]
    BY <1>2 DEF Sends, HChannels, HTyped
  <2>2. Stream(s)' = Append(q, m) /\ \A r \in DOMAIN conns : r # s => Stream(r)' = Stream(r)
    BY <2>1, StreamSent
  <2>3. StreamInv(s)'
    <3> SUFFICES ASSUME ~conns[s].closing, Stands(s)
                 PROVE  InOrder(Stream(s)', b, d)
      BY <1>2, <2>1 DEF StreamInv, Stands
    <3>1. InOrder(q, b, c)
      BY <1>2, <2>1 DEF HStreams, StreamInv
    <3>2. q \in Seq(Msgs) /\ b \in Seq(Msgs) /\ c \in Clients
      BY <2>1, StreamTyped
    <3> HIDE DEF q, b, c
    <3>3. InOrder(Append(q, m), b, d)
      BY <1>2, <3>1, <3>2, SentInOrder
    <3> QED
      BY <2>2, <3>3
  <2>4. ASSUME NEW r \in DOMAIN conns, r # s PROVE StreamInv(r)'
    <3> DEFINE sync == sessions[conns[r].session].sync
    <3>1. r \in Sockets /\ StreamInv(r) /\ Stream(r)' = Stream(r) /\ client'[r] = client[r]
      BY <2>1, <2>2, <2>4, StreamTyped DEF HStreams
    <3>2. CASE conns[r].kind = "Async" /\ Stands(r) /\ sync = s /\ ~conns[r].closing
      <4>1. OneClear(Stream(r), c.clear)
        BY <3>1, <3>2 DEF StreamInv
      <4>2. OneClear(Stream(r), d.clear)
        BY <1>2, <4>1, StreamTyped, ClearsOf
      <4> QED
        BY <2>1, <3>1, <3>2, <4>2 DEF StreamInv, Stands
    <3>3. CASE ~(conns[r].kind = "Async" /\ Stands(r) /\ sync = s /\ ~conns[r].closing)
      <4>1. Stands(r) => sync \in Sockets
        BY StreamTyped DEF SessionsOf
      <4>2. conns[r].kind = "Async" /\ Stands(r) /\ ~conns[r].closing => client'[sync] = client[sync]
        BY <2>1, <3>3, <4>1
      <4> QED
        BY <2>1, <3>1, <4>2 DEF StreamInv, Stands
    <3> QED
      BY <3>2, <3>3
  <2> QED
    BY <2>1, <2>3, <2>4 DEF HStreams
<1>3. ASSUME NEW d \in Clients, SendsPiece(s, m, d) PROVE HStreams'
  <2>1. /\ Sends(s, m, s, d) /\ conns[s].kind = "Sync" /\ c.clear = "no" /\ d.clear = "no" /\ d.given = c.given
        /\ Piece(m) /\ m.n = c.n /\ m.i = c.i + 1
        /\ IF m.type = "Data" THEN d.n = c.n /\ d.i = c.i + 1 ELSE d.n = c.n + 1 /\ d.i = 0
    BY <1>3 DEF SendsPiece, Piece
  <2>2. c \in Clients
    BY DEF HTyped
  <2>3. /\ NextOf(d).type = "Data" /\ NextOf(d).n = d.n /\ NextOf(d).i = d.i + 1 /\ c.n \in Nat /\ d.n \in Nat /\ d.i \in Nat
        /\ c.i \in Nat
    BY <2>1, <2>2, NextIs
  <2> HIDE DEF c
  <2>4. d.n >= c.n
    BY <2>1, <2>3
  <2>5. Succeeds(m, NextOf(d))
    BY <2>1, <2>3 DEF Succeeds, Starts, Piece, Setup, SetupTypes
  <2> QED
    BY <1>2, <2>1, <2>4, <2>5 DEF c
<1>4. ASSUME NEW d \in Clients, SendsComplete(s, m, d) PROVE HStreams'
  <2>1. /\ Sends(s, m, s, d) /\ conns[s].kind = "Sync" /\ c.clear = "granted" /\ d.clear = "no" /\ d.given = c.given
        /\ m.type = "DeviceClearComplete" /\ d.n = c.n + 1 /\ d.i = 0
    BY <1>4 DEF SendsComplete
  <2>2. c \in Clients
    BY DEF HTyped
  <2>3. NextOf(d).type = "Data" /\ NextOf(d).i = d.i + 1 /\ c.n \in Nat /\ d.n \in Nat
    BY <2>1, <2>2, NextIs
  <2> HIDE DEF c
  <2>4. d.n >= c.n
    BY <2>1, <2>3
  <2>5. Succeeds(m, NextOf(d))
    BY <2>1, <2>3 DEF Succeeds, Starts, Piece, Setup, SetupTypes
  <2> QED
    BY <1>2, <2>1, <2>4, <2>5 DEF c
<1>5. ASSUME NEW d \in Clients, SendsClear(s, m, d) PROVE HStreams'
  <2>0. PICK sync : sync = sessions[conns[s].session].sync
    OBVIOUS
  <2>1. /\ Stands(s) /\ conns[s].kind = "Async" /\ Sends(s, m, sync, d) /\ client[sync].clear = "no" /\ d.clear = "asked"
        /\ d.given = client[sync].n /\ d.n = client[sync].n /\ d.i = client[sync].i
    BY <1>5, <2>0 DEF SendsClear
  <2>2. s \in DOMAIN conns /\ UNCHANGED <<conns, sessions>> /\ unread' = [unread EXCEPT ![s] = Append(@, m)]
    BY <2>1 DEF Sends, HChannels
  <2>3. /\ sync \in DOMAIN conns /\ conns[sync].kind = "Sync" /\ conns[sync].session = conns[s].session /\ Stands(sync)
        /\ sync \in Sockets /\ sync # s
    <3>1. sync \in DOMAIN conns /\ conns[sync].kind = "Sync" /\ conns[sync].session = conns[s].session
      BY <2>0, <2>1 DEF HChannels, Stands, Hislip!Channel
    <3> QED
      BY <2>1, <3>1, StreamTyped DEF Stands
  <2>4. client'[sync] = d /\ \A r \in Sockets : r # sync => client'[r] = client[r]
    BY <2>1, <2>3 DEF Sends, HTyped
  <2>5. Stream(s)' = Append(q, m) /\ \A r \in DOMAIN conns : r # s => Stream(r)' = Stream(r)
    BY <2>2, StreamSent
  <2>6. StreamInv(s)'
    <3> SUFFICES ASSUME ~conns[s].closing
                 PROVE  OneClear(Stream(s)', "asked")
      BY <2>0, <2>1, <2>2, <2>4 DEF StreamInv, Stands
    <3>1. OneClear(q, client[sync].clear)
      BY <2>0, <2>1, <2>2 DEF HStreams, StreamInv
    <3>2. q \in Seq(Msgs)
      BY <2>2, StreamTyped
    <3> HIDE DEF q
    <3>3. OneClear(Append(q, m), "asked")
      BY <2>1, <3>1, <3>2, ClearsOf
    <3> QED
      BY <2>5, <3>3
  <2>7. StreamInv(sync)'
    <3> DEFINE p == Stream(sync)
               x == sessions[conns[sync].session].msgBuf
               e == client[sync]
    <3> SUFFICES ASSUME ~conns[sync].closing
                 PROVE  InOrder(Stream(sync)', x, d)
      BY <2>2, <2>3, <2>4 DEF StreamInv, Stands
    <3>1. InOrder(p, x, e)
      BY <2>3 DEF HStreams, StreamInv
    <3>2. p \in Seq(Msgs) /\ x \in Seq(Msgs) /\ e \in Clients /\ Stream(sync)' = p
      BY <2>3, <2>5, StreamTyped
    <3>3. e.given <= e.n /\ e.clear = "no" /\ d.given = e.n /\ d.n = e.n /\ d.i = e.i
      BY <2>1, <2>3 DEF HTyped
    <3> HIDE DEF p, x, e
    <3>4. InOrder(p, x, d)
      BY <2>1, <3>1, <3>2, <3>3, AskedInOrder
    <3> QED
      BY <3>2, <3>4
  <2>8. ASSUME NEW r \in DOMAIN conns, r # s, r # sync PROVE StreamInv(r)'
    <3>1. r \in Sockets /\ StreamInv(r) /\ Stream(r)' = Stream(r) /\ client'[r] = client[r]
      BY <2>4, <2>5, <2>8, StreamTyped DEF HStreams
    <3> DEFINE other == sessions[conns[r].session].sync
    <3>2. ASSUME conns[r].kind = "Async", Stands(r)
          PROVE  client'[other] = client[other]
      <4>1. other \in Sockets
        BY <3>2, StreamTyped DEF SessionsOf
      <4>2. other # sync
        <5>1. conns[other].session = conns[r].session
          BY <3>2 DEF HChannels, Stands, Hislip!Channel
        <5> HIDE DEF other
        <5>2. conns[r].session # conns[s].session
          BY <2>1, <2>2, <2>8, <3>2, ChannelsOfOne
        <5> QED
          BY <2>3, <5>1, <5>2
      <4> QED
        BY <2>4, <4>1, <4>2
    <3> QED
      BY <2>2, <3>1, <3>2 DEF StreamInv, Stands
  <2> QED
    BY <2>2, <2>6, <2>7, <2>8 DEF HStreams
<1>6. ASSUME SendsSetup(s, m) PROVE HStreams'
  <2>1. /\ s \in DOMAIN conns /\ UNCHANGED <<conns, sessions, client>> /\ unread' = [unread EXCEPT ![s] = Append(@, m)]
        /\ conns[s].kind = "Unknown" /\ Setup(m)
    BY <1>6 DEF SendsSetup, Sends, HChannels, HTyped, Setup
  <2>2. Stream(s)' = Append(q, m) /\ \A r \in DOMAIN conns : r # s => Stream(r)' = Stream(r)
    BY <2>1, StreamSent
  <2>3. StreamInv(s)'
    <3> SUFFICES ASSUME ~conns[s].closing
                 PROVE  c = Hislip!NewClient /\ \A k \in DOMAIN Stream(s)' : Setup(Stream(s)'[k])
      BY <2>1 DEF StreamInv
    <3>1. c = Hislip!NewClient /\ \A k \in DOMAIN q : Setup(q[k])
      BY <2>1 DEF HStreams, StreamInv
    <3>2. q \in Seq(Msgs)
      BY <2>1, StreamTyped
    <3> HIDE DEF q
    <3>3. \A k \in DOMAIN Append(q, m) : Setup(Append(q, m)[k])
      BY <2>1, <3>1, <3>2, AppendIs, SeqIs
    <3> QED
      BY <2>2, <3>1, <3>3
  <2>4. ASSUME NEW r \in DOMAIN conns, r # s PROVE StreamInv(r)'
    <3>1. StreamInv(r) /\ Stream(r)' = Stream(r)
      BY <2>2, <2>4 DEF HStreams
    <3> QED
      BY <2>1, <3>1 DEF StreamInv, Stands
  <2> QED
    BY <2>1, <2>3, <2>4 DEF HStreams
<1> QED
  BY <1>1, <1>3, <1>4, <1>5, <1>6

\* A handler with a message that leaves the channel what it is.
LEMMA StreamsTaken ==
  ASSUME HTyped, HChannels, HStreams,
         Hislip!Fatal \/ Hislip!TooLarge \/ Hislip!Data \/ Hislip!ClearComplete \/ Hislip!Answered
  PROVE  HStreams'
\* What is buffered for others stays.
<1>1. ASSUME NEW s, NEW m, NEW closing, Takes1(s, m, conns[s].kind, conns[s].session, closing), UNCHANGED client,
             UNCHANGED sessions \/ (conns[s].kind = "Sync" /\ Stands(s) /\ \E x : Buffers(conns[s].session, x)),
             StreamInv(s)'
      PROVE  HStreams'
  <2>1. /\ s \in DOMAIN conns /\ DOMAIN conns' = DOMAIN conns /\ DOMAIN sessions' = DOMAIN sessions
        /\ \A r \in DOMAIN conns : r # s => conns'[r] = conns[r]
    BY <1>1 DEF Takes1, Buffers
  <2>2. ASSUME NEW r \in DOMAIN conns, r # s PROVE StreamInv(r)'
    <3>1. Stands(r)' => Stands(r)
      BY <2>1, <2>2 DEF Stands
    <3>2. ASSUME Stands(r) PROVE sessions'[conns[r].session].sync = sessions[conns[r].session].sync
      <4> DEFINE id == conns[s].session
                 j  == conns[r].session
      <4>1. j \in DOMAIN sessions
        BY <3>2 DEF Stands
      <4>2. UNCHANGED sessions \/ \E x : Buffers(id, x)
        BY <1>1
      <4> HIDE DEF id, j
      <4>3. ASSUME NEW x, Buffers(id, x) PROVE sessions'[j].sync = sessions[j].sync
        BY <4>1, <4>3 DEF Buffers
      <4>4. sessions'[j].sync = sessions[j].sync
        BY <4>2, <4>3
      <4> QED
        BY <4>4 DEF j
    <3>3. ASSUME conns[r].kind = "Sync", Stands(r)
          PROVE  sessions'[conns[r].session].msgBuf = sessions[conns[r].session].msgBuf
      <4>1. conns[s].kind = "Sync" /\ Stands(s) => conns[r].session # conns[s].session
        BY <2>1, <2>2, <3>3, ChannelsOfOne
      <4> QED
        BY <1>1, <3>3, <4>1 DEF Buffers, Stands
    <3> QED
      BY <1>1, <2>2, <3>1, <3>2, <3>3, OtherStreams
  <2> QED
    BY <1>1, <2>1, <2>2 DEF HStreams
<1>2. ASSUME NEW s, NEW m, Takes1(s, m, conns[s].kind, conns[s].session, TRUE)
      PROVE  StreamInv(s)'
  BY <1>2 DEF Takes1, StreamInv
<1>3. CASE Hislip!Fatal
  BY <1>1, <1>2, <1>3, FatalIs
<1>4. CASE Hislip!TooLarge
  BY <1>1, <1>2, <1>4, TooLargeIs
\* A synchronous channel that buffers x from now on.
<1>5. ASSUME NEW s, NEW m, NEW x, Takes1(s, m, "Sync", conns[s].session, FALSE), conns[s].kind = "Sync", UNCHANGED client,
             Stands(s) => sessions'[conns[s].session].msgBuf = x, DOMAIN sessions' = DOMAIN sessions,
             Stands(s) => InOrder(Tail(Stream(s)), x, client[s])
      PROVE  StreamInv(s)'
  <2>1. Stream(s)' = Tail(Stream(s))
    BY <1>5, StreamTaken
  <2>2. conns'[s].kind = "Sync" /\ conns'[s].session = conns[s].session
    BY <1>5 DEF Takes1
  <2>3. Stands(s)' => Stands(s)
    BY <1>5, <2>2 DEF Stands
  <2> QED
    BY <1>5, <2>1, <2>2, <2>3 DEF StreamInv
<1>6. ASSUME NEW s, NEW m, Takes1(s, m, conns[s].kind, conns[s].session, FALSE), conns[s].kind = "Sync", Stands(s)
      PROVE  /\ Stream(s) \in Seq(Msgs) /\ Stream(s) # <<>> /\ m = Head(Stream(s)) /\ client[s] \in Clients
             /\ sessions[conns[s].session].msgBuf \in Seq(Msgs)
             /\ InOrder(Stream(s), sessions[conns[s].session].msgBuf, client[s])
  <2>1. s \in DOMAIN conns /\ ~conns[s].closing /\ Stream(s) # <<>> /\ m = Head(Stream(s))
    BY <1>6, StreamTaken
  <2>2. InOrder(Stream(s), sessions[conns[s].session].msgBuf, client[s])
    BY <1>6, <2>1 DEF HStreams, StreamInv
  <2> QED
    BY <1>6, <2>1, <2>2, StreamTyped
<1>7. CASE Hislip!Data
  <2>1. PICK s, m, msg : /\ Takes1(s, m, "Sync", conns[s].session, FALSE) /\ conns[s].kind = "Sync" /\ Stands(s)
                         /\ m.type \in {"Data", "DataEnd"} /\ msg = Append(sessions[conns[s].session].msgBuf, m)
                         /\ Buffers(conns[s].session, IF m.type = "Data" THEN msg ELSE <<>>) /\ UNCHANGED client
    BY <1>7, DataIs
  <2> DEFINE x == IF m.type = "Data" THEN msg ELSE <<>>
             b == sessions[conns[s].session].msgBuf
             q == Stream(s)
             c == client[s]
  <2>2. q \in Seq(Msgs) /\ q # <<>> /\ m = Head(q) /\ c \in Clients /\ b \in Seq(Msgs) /\ InOrder(q, b, c)
    BY <1>6, <2>1
  <2>3. Piece(Head(q))
    BY <2>1, <2>2 DEF Piece
  <2>4. sessions'[conns[s].session].msgBuf = x /\ DOMAIN sessions' = DOMAIN sessions
    BY <2>1 DEF Buffers
  <2>5. msg = Append(b, Head(q))
    BY <2>1, <2>2
  <2>6. x = IF Head(q).type = "Data" THEN Append(b, Head(q)) ELSE <<>>
    BY <2>2, <2>5
  <2> HIDE DEF x, b, q, c
  <2>7. InOrder(Tail(q), x, c)
    BY <2>2, <2>3, <2>6, PieceInOrder
  <2>8. StreamInv(s)'
    BY <1>5, <2>1, <2>4, <2>7 DEF q, c
  <2> QED
    BY <1>1, <2>1, <2>8
<1>8. CASE Hislip!ClearComplete
  <2>1. PICK s, m : /\ Takes1(s, m, "Sync", conns[s].session, FALSE) /\ conns[s].kind = "Sync" /\ Stands(s)
                    /\ m.type = "DeviceClearComplete" /\ Buffers(conns[s].session, <<>>) /\ UNCHANGED client
    BY <1>8, ClearCompleteIs
  <2>2. sessions'[conns[s].session].msgBuf = <<>> /\ DOMAIN sessions' = DOMAIN sessions
    BY <2>1 DEF Buffers
  <2> DEFINE b == sessions[conns[s].session].msgBuf
             q == Stream(s)
             c == client[s]
  <2>3. q \in Seq(Msgs) /\ q # <<>> /\ m = Head(q) /\ c \in Clients /\ b \in Seq(Msgs) /\ InOrder(q, b, c)
    BY <1>6, <2>1
  <2> HIDE DEF b, q, c
  <2>4. InOrder(Tail(q), <<>>, c)
    BY <2>1, <2>3, OthersInOrder
  <2>5. StreamInv(s)'
    BY <1>5, <2>1, <2>2, <2>4 DEF q, c
  <2> QED
    BY <1>1, <2>1, <2>5
<1>9. CASE Hislip!Answered
  <2>1. PICK s, m : /\ Takes1(s, m, conns[s].kind, conns[s].session, FALSE) /\ Stands(s) /\ m.type = "Other"
                    /\ UNCHANGED <<sessions, client>>
    BY <1>9, AnsweredIs
  <2>2. /\ s \in DOMAIN conns /\ ~conns[s].closing /\ Stream(s) # <<>> /\ Stream(s)' = Tail(Stream(s))
        /\ conns'[s].kind = conns[s].kind /\ conns'[s].session = conns[s].session
    BY <2>1, StreamTaken DEF Takes1
  <2> DEFINE b == sessions[conns[s].session].msgBuf
             q == Stream(s)
             c == client[s]
  <2>3. CASE conns[s].kind = "Sync"
    <3>1. q \in Seq(Msgs) /\ q # <<>> /\ m = Head(q) /\ c \in Clients /\ b \in Seq(Msgs) /\ InOrder(q, b, c)
      BY <1>6, <2>1, <2>3
    <3> HIDE DEF b, q, c
    <3>2. InOrder(Tail(q), b, c)
      BY <2>1, <3>1, OthersInOrder
    <3>3. StreamInv(s)'
      BY <1>5, <2>1, <2>3, <3>2 DEF q, c, b
    <3> QED
      BY <1>1, <2>1, <3>3
  <2>4. CASE conns[s].kind # "Sync"
    <3> DEFINE clear == client[sessions[conns[s].session].sync].clear
    <3>1. conns[s].kind = "Async"
      BY <2>1, <2>2, <2>4, StreamTyped DEF ConnsOf, Stands
    <3>2. OneClear(q, clear) /\ q \in Seq(Msgs) /\ q # <<>>
      BY <2>1, <2>2, <3>1, StreamTyped DEF HStreams, StreamInv
    <3> HIDE DEF q
    <3>3. OneClear(Tail(q), clear)
      BY <3>2, ClearsOf
    <3>4. StreamInv(s)'
      BY <2>1, <2>2, <3>1, <3>3 DEF StreamInv, q
    <3> QED
      BY <1>1, <2>1, <3>4
  <2> QED
    BY <2>3, <2>4
<1> QED
  BY <1>3, <1>4, <1>7, <1>8, <1>9

LEMMA StreamsCleared ==
  ASSUME HTyped, HChannels, HStreams, Hislip!AsyncDeviceClear
  PROVE  HStreams'
<1>1. PICK s, m : /\ Takes1(s, m, "Async", conns[s].session, FALSE) /\ conns[s].kind = "Async" /\ Stands(s)
                  /\ m.type = "AsyncDeviceClear" /\ Buffers(conns[s].session, <<>>)
                  /\ client' = [client EXCEPT ![sessions[conns[s].session].sync].clear = "granted"]
  BY AsyncClearIs
<1>2. PICK id, sync : id = conns[s].session /\ sync = sessions[conns[s].session].sync
  OBVIOUS
<1>3. /\ s \in DOMAIN conns /\ ~conns[s].closing /\ Stream(s) # <<>> /\ m = Head(Stream(s))
      /\ Stream(s)' = Tail(Stream(s)) /\ DOMAIN conns' = DOMAIN conns /\ UNCHANGED unread
      /\ \A r \in DOMAIN conns : r # s => conns'[r] = conns[r]
      /\ conns'[s].kind = "Async" /\ conns'[s].session = id
  BY <1>1, <1>2, StreamTaken DEF Takes1
<1>4. /\ id \in DOMAIN sessions /\ DOMAIN sessions' = DOMAIN sessions /\ sessions'[id].msgBuf = <<>>
      /\ \A j \in DOMAIN sessions : (j # id => sessions'[j] = sessions[j]) /\ sessions'[j].sync = sessions[j].sync
  BY <1>1, <1>2 DEF Buffers
<1>5. /\ sync \in DOMAIN conns /\ conns[sync].kind = "Sync" /\ conns[sync].session = id /\ Stands(sync)
      /\ sync \in Sockets /\ sync # s
  <2>1. sync \in DOMAIN conns /\ conns[sync].kind = "Sync" /\ conns[sync].session = id
    BY <1>1, <1>2 DEF HChannels, Stands, Hislip!Channel
  <2> QED
    BY <1>1, <1>4, <2>1, StreamTyped DEF Stands
<1> DEFINE d == [client[sync] EXCEPT !.clear = "granted"]
<1>6. /\ client[sync] \in Clients /\ d \in Clients /\ d.clear = "granted" /\ d.given = client[sync].given
      /\ d.n = client[sync].n /\ d.i = client[sync].i
  <2>1. client[sync] \in Clients
    BY <1>5, StreamTyped
  <2> QED
    BY <2>1 DEF Clients
<1>7. client'[sync] = d /\ \A r \in Sockets : r # sync => client'[r] = client[r]
  BY <1>1, <1>2, <1>5 DEF HTyped
<1> HIDE DEF d
<1>8. OneClear(Stream(s), client[sync].clear) /\ Stream(s) \in Seq(Msgs)
  BY <1>1, <1>2, <1>3, StreamTyped DEF HStreams, StreamInv
<1>9. client[sync].clear = "asked" /\ \A any : OneClear(Tail(Stream(s)), any)
  <2> DEFINE q == Stream(s)
             clear == client[sync].clear
  <2>1. q \in Seq(Msgs) /\ OneClear(q, clear) /\ q # <<>> /\ Head(q).type = "AsyncDeviceClear"
    BY <1>1, <1>3, <1>8
  <2> HIDE DEF q, clear
  <2>2. clear = "asked" /\ \A any : OneClear(Tail(q), any)
    BY <2>1, ClearsOf
  <2> QED
    BY <2>2 DEF q, clear
<1>10. StreamInv(s)'
  BY <1>3, <1>9 DEF StreamInv
<1>11. StreamInv(sync)'
  <2> DEFINE p == Stream(sync)
             x == sessions[id].msgBuf
             e == client[sync]
  <2>1. conns'[sync] = conns[sync] /\ Stream(sync)' = p
    BY <1>3, <1>5 DEF Stream
  <2> SUFFICES ASSUME ~conns[sync].closing
               PROVE  InOrder(Stream(sync)', <<>>, d)
    BY <1>4, <1>5, <1>7, <2>1 DEF StreamInv, Stands
  <2>2. InOrder(p, x, e)
    BY <1>5 DEF HStreams, StreamInv
  <2>3. p \in Seq(Msgs) /\ x \in Seq(Msgs)
    BY <1>5, StreamTyped
  <2>4. e \in Clients /\ e.clear = "asked" /\ d.given = e.given /\ d.n = e.n /\ d.i = e.i
    BY <1>6, <1>9
  <2> HIDE DEF p, x, e
  <2>5. InOrder(p, <<>>, d)
    BY <1>6, <2>2, <2>3, <2>4, GrantedInOrder
  <2> QED
    BY <2>1, <2>5
<1>12. ASSUME NEW r \in DOMAIN conns, r # s, r # sync PROVE StreamInv(r)'
  <2>1. r \in Sockets /\ StreamInv(r) /\ conns'[r] = conns[r] /\ Stream(r)' = Stream(r) /\ client'[r] = client[r]
    BY <1>3, <1>7, <1>12, StreamTyped DEF HStreams, Stream
  <2>2. Stands(r)' => Stands(r)
    BY <1>4, <2>1 DEF Stands
  <2>3. Stands(r) /\ conns[r].kind \in {"Sync", "Async"} => conns[r].session # id
    BY <1>1, <1>2, <1>3, <1>5, <1>12, ChannelsOfOne
  <2>4. Stands(r) /\ conns[r].kind \in {"Sync", "Async"} => sessions'[conns[r].session] = sessions[conns[r].session]
    BY <1>4, <2>3 DEF Stands
  <2> DEFINE other == sessions[conns[r].session].sync
  <2>5. ASSUME conns[r].kind = "Async", Stands(r)
        PROVE  client'[other] = client[other]
    <3>1. other \in Sockets
      BY <2>5, StreamTyped DEF SessionsOf
    <3>2. conns[other].session = conns[r].session
      BY <2>5 DEF HChannels, Stands, Hislip!Channel
    <3> HIDE DEF other
    <3>3. other # sync
      BY <1>5, <2>3, <2>5, <3>2
    <3> QED
      BY <1>7, <3>1, <3>3
  <2> QED
    BY <1>12, <2>1, <2>2, <2>4, <2>5, StreamStays
<1> QED
  BY <1>3, <1>10, <1>11, <1>12 DEF HStreams

LEMMA StreamsBegin ==
  ASSUME HTyped, HChannels, HStreams,
         \/ Hislip!Initialize /\ NewNumber(Hislip!NewSessionId)
         \/ Hislip!AsyncInitialize
  PROVE  HStreams'
<1>1. ASSUME NEW s, NEW m, NEW kind, NEW session, Takes1(s, m, kind, session, FALSE), conns[s].kind = "Unknown"
      PROVE  /\ s \in DOMAIN conns /\ client[s] = Hislip!NewClient /\ Stream(s)' = Tail(Stream(s))
             /\ Tail(Stream(s)) \in Seq(Msgs) /\ \A k \in DOMAIN Tail(Stream(s)) : Setup(Tail(Stream(s))[k])
             /\ conns'[s].kind = kind /\ conns'[s].session = session /\ DOMAIN conns' = DOMAIN conns
             /\ \A r \in DOMAIN conns : r # s => conns'[r] = conns[r]
  <2>1. /\ s \in DOMAIN conns /\ ~conns[s].closing /\ Stream(s) # <<>> /\ Stream(s)' = Tail(Stream(s))
        /\ conns'[s].kind = kind /\ conns'[s].session = session /\ DOMAIN conns' = DOMAIN conns
        /\ \A r \in DOMAIN conns : r # s => conns'[r] = conns[r]
    BY <1>1, StreamTaken DEF Takes1
  <2>2. client[s] = Hislip!NewClient /\ \A k \in DOMAIN Stream(s) : Setup(Stream(s)[k])
    BY <1>1, <2>1 DEF HStreams, StreamInv
  <2>3. Stream(s) \in Seq(Msgs)
    BY <2>1, StreamTyped
  <2> DEFINE q == Stream(s)
  <2> HIDE DEF q
  <2>4. q \in Seq(Msgs) /\ q # <<>> /\ \A k \in DOMAIN q : Setup(q[k])
    BY <2>1, <2>2, <2>3 DEF q
  <2>5. Tail(q) \in Seq(Msgs) /\ \A k \in DOMAIN Tail(q) : Setup(Tail(q)[k])
    BY <2>4, TailIs, SeqIs
  <2> QED
    BY <2>1, <2>2, <2>5 DEF q
<1>2. CASE Hislip!Initialize /\ NewNumber(Hislip!NewSessionId)
  <2>1. PICK id : id = Hislip!NewSessionId /\ NewNumber(id)
    BY <1>2
  <2>2. PICK s, m : /\ Takes1(s, m, "Sync", id, FALSE) /\ conns[s].kind = "Unknown" /\ UNCHANGED client
                    /\ sessions' = Hislip!With(sessions, id, Hislip!NewSession(s))
    BY <1>2, <2>1, InitializeIs
  <2>3. /\ DOMAIN sessions' = DOMAIN sessions \cup {id} /\ sessions'[id].msgBuf = <<>>
        /\ \A j \in DOMAIN sessions : sessions'[j] = sessions[j]
    BY <2>1, <2>2 DEF Hislip!With, NewNumber, Hislip!NewSession
  <2>4. /\ s \in DOMAIN conns /\ client[s] = Hislip!NewClient /\ Stream(s)' = Tail(Stream(s))
        /\ Tail(Stream(s)) \in Seq(Msgs) /\ \A k \in DOMAIN Tail(Stream(s)) : Setup(Tail(Stream(s))[k])
        /\ conns'[s].kind = "Sync" /\ conns'[s].session = id /\ DOMAIN conns' = DOMAIN conns
        /\ \A r \in DOMAIN conns : r # s => conns'[r] = conns[r]
    BY <1>1, <2>2
  <2>5. StreamInv(s)'
    <3>1. InOrder(Tail(Stream(s)), <<>>, Hislip!NewClient)
      BY <2>4, NewInOrder
    <3> QED
      BY <2>2, <2>3, <2>4, <3>1 DEF StreamInv
  <2>6. ASSUME NEW r \in DOMAIN conns, r # s PROVE StreamInv(r)'
    <3>1. Stands(r)' => Stands(r)
      BY <2>1, <2>3, <2>4, <2>6 DEF Stands, NewNumber
    <3>2. Stands(r) => sessions'[conns[r].session] = sessions[conns[r].session]
      BY <2>3 DEF Stands
    <3> QED
      BY <2>2, <2>6, <3>1, <3>2, OtherStreams
  <2> QED
    BY <2>4, <2>5, <2>6 DEF HStreams
<1>3. CASE Hislip!AsyncInitialize
  <2>1. PICK s, m : \E id \in DOMAIN sessions :
           /\ Takes1(s, m, "Async", id, FALSE) /\ conns[s].kind = "Unknown" /\ UNCHANGED client
           /\ DOMAIN sessions' = DOMAIN sessions /\ \A j \in DOMAIN sessions : j # id => sessions'[j] = sessions[j]
           /\ sessions'[id] = [sync |-> sessions[id].sync, async |-> s, msgBuf |-> sessions[id].msgBuf]
    BY <1>3, AsyncInitializeIs
  <2>2. PICK id \in DOMAIN sessions :
           /\ Takes1(s, m, "Async", id, FALSE) /\ conns[s].kind = "Unknown" /\ UNCHANGED client
           /\ DOMAIN sessions' = DOMAIN sessions /\ \A j \in DOMAIN sessions : j # id => sessions'[j] = sessions[j]
           /\ sessions'[id] = [sync |-> sessions[id].sync, async |-> s, msgBuf |-> sessions[id].msgBuf]
    BY <2>1
  <2>3. \A j \in DOMAIN sessions : sessions'[j].sync = sessions[j].sync /\ sessions'[j].msgBuf = sessions[j].msgBuf
    BY <2>2
  <2>7. Takes1(s, m, "Async", id, FALSE) /\ conns[s].kind = "Unknown" /\ UNCHANGED client
    BY <2>2
  <2>4. /\ s \in DOMAIN conns /\ Stream(s)' = Tail(Stream(s)) /\ \A k \in DOMAIN Tail(Stream(s)) : Setup(Tail(Stream(s))[k])
        /\ conns'[s].kind = "Async" /\ DOMAIN conns' = DOMAIN conns
        /\ \A r \in DOMAIN conns : r # s => conns'[r] = conns[r]
    BY <1>1, <2>7
  <2>5. StreamInv(s)'
    <3>1. \A any : OneClear(Tail(Stream(s)), any)
      <4>1. Clears(Tail(Stream(s))) = {}
        BY <2>4 DEF Clears, Setup, SetupTypes
      <4> QED
        BY <4>1 DEF OneClear
    <3> QED
      BY <2>4, <3>1 DEF StreamInv
  <2>6. ASSUME NEW r \in DOMAIN conns, r # s PROVE StreamInv(r)'
    <3>1. Stands(r)' => Stands(r)
      BY <2>2, <2>4, <2>6 DEF Stands
    <3> DEFINE j == conns[r].session
    <3>2. Stands(r) => j \in DOMAIN sessions
      BY DEF Stands
    <3> HIDE DEF j
    <3>3. Stands(r) => sessions'[j].sync = sessions[j].sync /\ sessions'[j].msgBuf = sessions[j].msgBuf
      BY <2>3, <3>2
    <3>4. /\ Stands(r) => sessions'[conns[r].session].sync = sessions[conns[r].session].sync
          /\ Stands(r) => sessions'[conns[r].session].msgBuf = sessions[conns[r].session].msgBuf
      BY <3>3 DEF j
    <3> QED
      BY <2>7, <2>6, <3>1, <3>4, OtherStreams
  <2> QED
    BY <2>4, <2>5, <2>6 DEF HStreams
<1> QED
  BY <1>2, <1>3

\* A step after which all connections are what they were and nothing is sent, but for what the closing ones are sent.
LEMMA StreamsStay ==
  ASSUME HStreams, DOMAIN conns' \subseteq DOMAIN conns, \A r \in DOMAIN conns' : conns'[r] = conns[r],
         UNCHANGED client, DOMAIN sessions' \subseteq DOMAIN sessions, \A id \in DOMAIN sessions' : sessions'[id] = sessions[id],
         \A r \in DOMAIN conns' : unread'[r] = unread[r] \/ conns[r].closing
  PROVE  HStreams'
<1> SUFFICES ASSUME NEW r \in DOMAIN conns'
             PROVE  StreamInv(r)'
  BY DEF HStreams
<1>1. r \in DOMAIN conns /\ conns'[r] = conns[r] /\ StreamInv(r)
  BY DEF HStreams
<1>2. CASE conns[r].closing
  BY <1>1, <1>2 DEF StreamInv
<1>3. CASE ~conns[r].closing
  <2>1. Stream(r)' = Stream(r)
    BY <1>1, <1>3 DEF Stream
  <2>2. Stands(r)' => Stands(r) /\ sessions'[conns[r].session] = sessions[conns[r].session]
    BY <1>1 DEF Stands
  <2> QED
    BY <1>1, <2>1, <2>2, StreamStays
<1> QED
  BY <1>2, <1>3

LEMMA HStreamsNext ==
  ASSUME HTyped, HChannels, HStreams, Hislip!Initialize => NewNumber(Hislip!NewSessionId), [Hislip!Next]_(Hislip!vars)
  PROVE  HStreams'
<1>1. ASSUME NEW on \in BOOLEAN, Hislip!Listen(on) PROVE HStreams'
  <2>1. DOMAIN conns' = {}
    BY <1>1 DEF Hislip!Listen
  <2> QED
    BY <2>1 DEF HStreams
<1>2. CASE Hislip!NewConnection
  <2>1. PICK s \in Sockets :
          /\ socket[s] = "free" /\ UNCHANGED sessions /\ unread' = [unread EXCEPT ![s] = <<>>]
          /\ client' = [client EXCEPT ![s] = Hislip!NewClient]
          /\ conns' = conns \/ conns' = Hislip!With(conns, s, Hislip!NewConn)
    BY <1>2 DEF Hislip!NewConnection
  <2>2. s \notin DOMAIN conns
    BY <2>1 DEF HChannels
  <2>3. /\ DOMAIN conns' \subseteq DOMAIN conns \cup {s} /\ \A r \in DOMAIN conns : conns'[r] = conns[r]
        /\ s \in DOMAIN conns' => conns'[s] = Hislip!NewConn
    BY <2>1, <2>2 DEF Hislip!With
  <2>4. /\ unread'[s] = <<>> /\ client'[s] = Hislip!NewClient
        /\ \A r \in Sockets : r # s => unread'[r] = unread[r] /\ client'[r] = client[r]
    BY <2>1 DEF HTyped
  <2>5. ASSUME s \in DOMAIN conns' PROVE StreamInv(s)'
    <3>1. Stream(s)' = <<>> /\ conns'[s].kind = "Unknown"
      <4>1. conns'[s].in = <<>> /\ conns'[s].kind = "Unknown"
        BY <2>3, <2>5 DEF Hislip!NewConn
      <4> QED
        BY <2>4, <4>1, ConcatEmptySeq DEF Stream
    <3> QED
      BY <2>4, <3>1 DEF StreamInv
  <2>6. ASSUME NEW r \in DOMAIN conns PROVE StreamInv(r)'
    <3>1. r \in Sockets /\ r # s /\ StreamInv(r) /\ conns'[r] = conns[r]
      BY <2>2, <2>3, <2>6 DEF HStreams, HTyped
    <3>2. Stream(r)' = Stream(r) /\ client'[r] = client[r]
      BY <2>4, <3>1 DEF Stream
    <3>3. Stands(r)' => Stands(r)
      BY <2>1, <3>1 DEF Stands
    <3> DEFINE sync == sessions[conns[r].session].sync
    <3>4. Stands(r) => sync \in DOMAIN conns
      BY DEF HChannels, Stands, Hislip!Channel
    <3> HIDE DEF sync
    <3>5. Stands(r) => client'[sync] = client[sync]
      BY <2>2, <2>4, <3>4 DEF HTyped
    <3> QED
      BY <2>1, <3>1, <3>2, <3>3, <3>5, StreamStays DEF sync
  <2> QED
    BY <2>3, <2>5, <2>6 DEF HStreams
<1>3. ASSUME NEW s \in Sockets, Hislip!Leave(s) \/ Hislip!SetupTimeout(s) \/ Hislip!Linger(s) PROVE HStreams'
  <2>1. /\ unread' = unread \/ (unread' = [unread EXCEPT ![s] = <<>>] /\ conns[s].closing)
        /\ UNCHANGED <<conns, sessions, client>>
    BY <1>3, QuietSteps
  <2>2. \A r \in DOMAIN conns : unread'[r] = unread[r] \/ conns[r].closing
    BY <2>1 DEF HTyped
  <2> QED
    BY <2>1, <2>2, StreamsStay
<1>4. ASSUME NEW s \in Sockets, Hislip!ReadyRead(s) PROVE HStreams'
  <2>1. s \in DOMAIN conns /\ UNCHANGED <<sessions, client>>
    BY <1>4 DEF Hislip!ReadyRead, HTyped
  <2>2. CASE UNCHANGED <<conns, unread>>
    BY <2>1, <2>2, StreamsStay
  <2>3. CASE conns[s].closing /\ UNCHANGED conns /\ unread' = [unread EXCEPT ![s] = <<>>]
    <3>1. \A r \in DOMAIN conns : unread'[r] = unread[r] \/ conns[r].closing
      BY <2>3 DEF HTyped
    <3> QED
      BY <2>1, <2>3, <3>1, StreamsStay
  <2>4. CASE unread' = [unread EXCEPT ![s] = <<>>] /\ conns' = [conns EXCEPT ![s].in = @ \o unread[s]]
    <3> DEFINE q == Stream(s)
    <3>1. conns' = [conns EXCEPT ![s].in = q] /\ conns[s] \in ConnsOf /\ q \in Seq(Msgs)
      BY <2>1, <2>4, StreamTyped DEF Stream
    <3> HIDE DEF q
    <3>2. /\ DOMAIN conns' = DOMAIN conns /\ conns'[s].in = q /\ conns'[s].kind = conns[s].kind
          /\ conns'[s].session = conns[s].session /\ conns'[s].closing = conns[s].closing
          /\ \A r \in DOMAIN conns : r # s => conns'[r] = conns[r]
      BY <2>1, <3>1 DEF ConnsOf
    <3>3. unread'[s] = <<>> /\ \A r \in DOMAIN conns : r # s => unread'[r] = unread[r]
      BY <2>1, <2>4 DEF HTyped
    <3>4. Stream(s)' = q
      BY <3>1, <3>2, <3>3, ConcatEmptySeq DEF Stream
    <3>5. ASSUME NEW r \in DOMAIN conns PROVE StreamInv(r)'
      <4>1. Stream(r)' = Stream(r)
        BY <3>2, <3>3, <3>4 DEF Stream, q
      <4>2. /\ conns'[r].kind = conns[r].kind /\ conns'[r].session = conns[r].session
            /\ conns'[r].closing = conns[r].closing
        BY <3>2
      <4>3. Stands(r)' => Stands(r)
        BY <2>1, <4>2 DEF Stands
      <4>4. StreamInv(r)
        BY DEF HStreams
      <4> QED
        BY <2>1, <4>1, <4>2, <4>3, <4>4, StreamStays
    <3> QED
      BY <3>2, <3>5 DEF HStreams
  <2> QED
    BY <1>4, <2>2, <2>3, <2>4 DEF Hislip!ReadyRead
<1>5. ASSUME NEW s \in Sockets, Hislip!Disconnected(s) PROVE HStreams'
  <2>1. /\ conns' = Hislip!Without(conns, s) /\ UNCHANGED <<unread, client>>
        /\ sessions' = Hislip!Without(sessions, conns[s].session) \/ sessions' = sessions
    BY <1>5 DEF Hislip!Disconnected
  <2>2. /\ DOMAIN conns' \subseteq DOMAIN conns /\ \A r \in DOMAIN conns' : conns'[r] = conns[r]
        /\ DOMAIN sessions' \subseteq DOMAIN sessions /\ \A id \in DOMAIN sessions' : sessions'[id] = sessions[id]
    BY <2>1 DEF Hislip!Without
  <2> QED
    BY <2>1, <2>2, StreamsStay
<1>6. CASE UNCHANGED <<conns, sessions, unread, client>>
  BY <1>6, StreamsStay
<1>7. ASSUME NEW s \in Sockets, Hislip!Delete(s) PROVE HStreams'
  BY <1>6, <1>7 DEF Hislip!Delete
<1>8. CASE Hislip!LoopEnds \/ Hislip!CommandEnds \/ UNCHANGED Hislip!vars
  BY <1>6, <1>8 DEF Hislip!LoopEnds, Hislip!CommandEnds, Hislip!vars
<1>9. CASE \/ Hislip!Initialize \/ Hislip!AsyncInitialize \/ Hislip!Fatal \/ Hislip!TooLarge \/ Hislip!Data
           \/ Hislip!ClearComplete \/ Hislip!AsyncDeviceClear \/ Hislip!Answered
  BY <1>9, StreamsTaken, StreamsCleared, StreamsBegin
<1> QED
  BY <1>1, <1>2, <1>3, <1>4, <1>5, <1>7, <1>8, <1>9, StreamsSent, HislipSteps

-----------------------------------------------------------------------------
(* What runs. *)

PiecesInv == \A k \in DOMAIN calls : OfOne(calls[k].pieces, client[calls[k].s].given)

\* Messages that a client gave up stay given up while a handler of its channel is on the stack.
LEMMA GivenStays ==
  ASSUME HTyped, [Hislip!Next]_(Hislip!vars), NEW s \in Sockets, socket[s] # "free"
  PROVE  client'[s].given >= client[s].given
<1>0. client[s] \in Clients /\ client[s].given \in Nat /\ DOMAIN client = Sockets /\ client[s].given <= client[s].n
  BY DEF HTyped, Clients
<1>1. CASE client' = client
  BY <1>0, <1>1
<1>2. CASE Hislip!NewConnection
  <2>1. PICK r \in Sockets : socket[r] = "free" /\ client' = [client EXCEPT ![r] = Hislip!NewClient]
    BY <1>2 DEF Hislip!NewConnection
  <2>2. client'[s] = client[s]
    BY <1>0, <2>1
  <2> QED
    BY <1>0, <2>2
<1>3. ASSUME NEW r \in Sockets, Hislip!Send(r)
      PROVE  client'[s].given >= client[s].given
  <2>1. ASSUME NEW t \in Sockets, NEW d \in Clients, NEW m, Sends(r, m, t, d), d.given >= client[t].given
        PROVE  client'[s].given >= client[s].given
    BY <1>0, <2>1 DEF Sends
  <2>2. PICK m \in Msgs : \/ \E d \in Clients : SendsPiece(r, m, d) \/ SendsClear(r, m, d) \/ SendsComplete(r, m, d)
                          \/ SendsSetup(r, m)
    BY <1>3, SendIs
  <2>3. ASSUME NEW d \in Clients, SendsPiece(r, m, d) \/ SendsComplete(r, m, d)
        PROVE  client'[s].given >= client[s].given
    <3>1. Sends(r, m, r, d) /\ d.given = client[r].given
      BY <2>3 DEF SendsPiece, SendsComplete
    <3>2. client[r].given \in Nat
      BY DEF HTyped, Clients
    <3> QED
      BY <2>1, <3>1, <3>2
  <2>4. ASSUME NEW d \in Clients, SendsClear(r, m, d)
        PROVE  client'[s].given >= client[s].given
    <3>1. PICK t \in Sockets : Sends(r, m, t, d) /\ d.given = client[t].n
      BY <2>4 DEF SendsClear, Sends
    <3>2. client[t] \in Clients /\ client[t].given <= client[t].n
      BY DEF HTyped
    <3>3. d.given >= client[t].given
      BY <3>1, <3>2 DEF Clients
    <3> QED
      BY <2>1, <3>1, <3>3
  <2>5. ASSUME SendsSetup(r, m)
        PROVE  client'[s].given >= client[s].given
    <3>1. Sends(r, m, r, client[r]) /\ client[r] \in Clients /\ client[r].given \in Nat
      BY <2>5 DEF SendsSetup, HTyped, Clients
    <3> DEFINE d == client[r]
    <3>2. d \in Clients /\ Sends(r, m, r, d) /\ d.given >= client[r].given
      BY <3>1
    <3> HIDE DEF d
    <3> QED
      BY <2>1, <3>2
  <2> QED
    BY <2>2, <2>3, <2>4, <2>5
<1>4. CASE Hislip!AsyncDeviceClear
  <2>1. PICK r : client' = [client EXCEPT ![r].clear = "granted"]
    BY <1>4, AsyncClearIs
  <2>2. client'[s].given = client[s].given
    BY <1>0, <2>1 DEF Clients
  <2> QED
    BY <1>0, <2>2
<1>5. CASE Hislip!Initialize \/ Hislip!AsyncInitialize
  BY <1>1, <1>5, InitializeIs, AsyncInitializeIs
<1>6. CASE Hislip!Fatal \/ Hislip!TooLarge \/ Hislip!Data \/ Hislip!ClearComplete \/ Hislip!Answered
  BY <1>1, <1>6, FatalIs, TooLargeIs, DataIs, ClearCompleteIs, AnsweredIs
<1>7. CASE Hislip!LoopEnds \/ Hislip!CommandEnds \/ UNCHANGED Hislip!vars
  BY <1>1, <1>7 DEF Hislip!LoopEnds, Hislip!CommandEnds, Hislip!vars
<1>8. ASSUME NEW r \in Sockets, Hislip!Leave(r) \/ Hislip!SetupTimeout(r) \/ Hislip!Linger(r)
      PROVE  client' = client
  BY <1>8, QuietSteps
<1>9. ASSUME NEW r \in Sockets, Hislip!ReadyRead(r) \/ Hislip!Disconnected(r) \/ Hislip!Delete(r)
      PROVE  client' = client
  BY <1>9 DEF Hislip!ReadyRead, Hislip!Disconnected, Hislip!Delete
<1>10. ASSUME NEW on \in BOOLEAN, Hislip!Listen(on)
       PROVE  client' = client
  BY <1>10 DEF Hislip!Listen
<1> QED
  BY <1>1, <1>2, <1>3, <1>4, <1>5, <1>6, <1>7, <1>8, <1>9, <1>10, HislipSteps

LEMMA PiecesInvNext ==
  ASSUME HTyped, HTyped', HStack, HStreams, PiecesInv, [Hislip!Next]_(Hislip!vars)
  PROVE  PiecesInv'
<1>1. /\ DOMAIN calls = 1..Len(calls) /\ Len(calls) \in Nat
      /\ \A k \in DOMAIN calls : calls[k] \in Handlers
  BY SeqIs DEF HTyped
\* What runs already is of one message as before.
<1>2. ASSUME NEW k \in DOMAIN calls
      PROVE  OfOne(calls[k].pieces, client'[calls[k].s].given)
  <2> DEFINE p == calls[k].pieces
             s == calls[k].s
             g == client[s].given
             h == client'[s].given
  <2>1. p \in Seq(Msgs) /\ s \in Sockets /\ socket[s] # "free" /\ OfOne(p, g)
    BY <1>1, <1>2 DEF Handlers, HStack, PiecesInv
  <2>2. client[s] \in Clients /\ client'[s].given >= client[s].given
    BY <2>1, GivenStays DEF HTyped
  <2>3. g \in Nat /\ h >= g
    BY <2>2 DEF Clients
  <2>5. h \in Nat
    <3>1. client' \in [Sockets -> Clients]
      BY DEF HTyped
    <3> QED
      BY <2>1, <3>1 DEF Clients
  <2>4. \A j \in DOMAIN p : p[j] \in Msgs
    BY <2>1, SeqIs
  <2> HIDE DEF p, s, g, h
  <2>6. OfOne(p, h)
    <3> SUFFICES ASSUME NEW j \in DOMAIN p
                 PROVE  p[j].n = p[1].n /\ (p[j].i = j \/ p[1].n <= h)
      BY DEF OfOne
    <3>1. p[j].n = p[1].n /\ (p[j].i = j \/ p[1].n <= g) /\ p[j].n \in Nat
      BY <2>1, <2>4 DEF OfOne, Msgs
    <3> QED
      BY <2>3, <2>5, <3>1
  <2> QED
    BY <2>6 DEF p, s, h
<1>3. ASSUME \A k \in DOMAIN calls' : calls'[k].pieces = <<>> \/ \E l \in DOMAIN calls : calls'[k] = calls[l]
      PROVE  PiecesInv'
  BY <1>2, <1>3 DEF PiecesInv, OfOne
<1>4. CASE Hislip!Data
  <2>1. PICK s, m, msg :
          /\ Takes1(s, m, "Sync", conns[s].session, FALSE) /\ conns[s].kind = "Sync" /\ Stands(s)
          /\ m.type \in {"Data", "DataEnd"} /\ msg = Append(sessions[conns[s].session].msgBuf, m) /\ UNCHANGED client
          /\ calls' = IF m.type = "Data" THEN calls
                      ELSE [calls EXCEPT ![Len(calls)] = [s |-> s, at |-> "command", pieces |-> msg]]
    BY <1>4, DataIs
  <2>2. s \in DOMAIN conns /\ ~conns[s].closing /\ Stream(s) # <<>> /\ m = Head(Stream(s))
    BY <2>1, StreamTaken
  <2>3. OfOne(msg, client[s].given)
    <3> DEFINE q == Stream(s)
               b == sessions[conns[s].session].msgBuf
               c == client[s]
    <3>1. q \in Seq(Msgs) /\ q # <<>> /\ b \in Seq(Msgs) /\ c \in Clients /\ InOrder(q, b, c) /\ Piece(Head(q))
      BY <2>1, <2>2, StreamTyped DEF HStreams, StreamInv, Piece
    <3>2. msg = Append(b, Head(q))
      BY <2>1, <2>2
    <3> HIDE DEF q, b, c
    <3>3. OfOne(msg, c.given)
      BY <3>1, <3>2, PieceInOrder
    <3> QED
      BY <3>3 DEF c
  <2>4. CASE calls' = calls
    BY <1>3, <2>4
  <2>5. CASE calls' = [calls EXCEPT ![Len(calls)] = [s |-> s, at |-> "command", pieces |-> msg]]
    <3>1. ASSUME NEW k \in DOMAIN calls' PROVE OfOne(calls'[k].pieces, client'[calls'[k].s].given)
      <4>1. k \in DOMAIN calls
        BY <2>5, <3>1
      <4>2. CASE k = Len(calls)
        <5>1. calls'[k].s = s /\ calls'[k].pieces = msg
          BY <2>5, <4>1, <4>2
        <5>2. client'[s].given = client[s].given
          BY <2>1
        <5>3. OfOne(calls'[k].pieces, client[s].given)
          BY <2>3, <5>1
        <5> QED
          BY <5>1, <5>2, <5>3
      <4>3. CASE k # Len(calls)
        BY <1>2, <2>5, <4>1, <4>3
      <4> QED
        BY <4>2, <4>3
    <3> QED
      BY <3>1 DEF PiecesInv
  <2> QED
    BY <2>1, <2>4, <2>5
<1>5. CASE Hislip!LoopEnds
  <2>1. calls' = SubSeq(calls, 1, Len(calls) - 1) /\ calls # <<>>
    BY <1>5 DEF Hislip!LoopEnds, Hislip!InLoop
  <2>2. ASSUME NEW k \in DOMAIN calls' PROVE k \in DOMAIN calls /\ calls'[k] = calls[k]
    BY <1>1, <2>1, <2>2, SubSeqProperties DEF HTyped
  <2> QED
    BY <1>3, <2>2
<1>6. CASE Hislip!CommandEnds
  <2> DEFINE c == [calls[Len(calls)] EXCEPT !.at = "loop", !.pieces = <<>>]
  <2>1. calls' = [calls EXCEPT ![Len(calls)] = c]
    BY <1>6 DEF Hislip!CommandEnds
  <2>2. Len(calls) \in DOMAIN calls => c.pieces = <<>>
    BY <1>1 DEF Handlers
  <2> HIDE DEF c
  <2>3. ASSUME NEW k \in DOMAIN calls' PROVE calls'[k].pieces = <<>> \/ \E l \in DOMAIN calls : calls'[k] = calls[l]
    BY <2>1, <2>2, <2>3
  <2> QED
    BY <1>3, <2>3
<1>7. ASSUME NEW s \in Sockets, Hislip!ReadyRead(s) PROVE PiecesInv'
  <2> DEFINE c == [s |-> s, at |-> "loop", pieces |-> <<>>]
  <2>1. calls' = calls \/ calls' = Append(calls, c)
    BY <1>7 DEF Hislip!ReadyRead
  <2>2. c \in Handlers /\ c.pieces = <<>>
    BY DEF Handlers
  <2> HIDE DEF c
  <2>3. CASE calls' = Append(calls, c)
    <3>1. ASSUME NEW k \in DOMAIN calls' PROVE calls'[k].pieces = <<>> \/ \E l \in DOMAIN calls : calls'[k] = calls[l]
      <4>1. /\ DOMAIN calls' = 1..(Len(calls) + 1) /\ calls'[Len(calls) + 1] = c
            /\ \A l \in DOMAIN calls : calls'[l] = calls[l]
        BY <2>2, <2>3, AppendIs DEF HTyped
      <4> QED
        BY <1>1, <2>2, <3>1, <4>1
    <3> QED
      BY <1>3, <3>1
  <2> QED
    BY <1>3, <2>1, <2>3
<1>8. CASE calls' = calls
  BY <1>3, <1>8
<1>9. CASE \/ Hislip!Initialize \/ Hislip!AsyncInitialize \/ Hislip!Fatal \/ Hislip!TooLarge
           \/ Hislip!ClearComplete \/ Hislip!AsyncDeviceClear \/ Hislip!Answered
  BY <1>8, <1>9, InitializeIs, AsyncInitializeIs, FatalIs, TooLargeIs, ClearCompleteIs, AsyncClearIs, AnsweredIs
<1>10. ASSUME NEW s \in Sockets, Hislip!Leave(s) \/ Hislip!SetupTimeout(s) \/ Hislip!Linger(s)
       PROVE  calls' = calls
  BY <1>10, QuietSteps
<1>11. ASSUME NEW s \in Sockets, Hislip!Send(s) \/ Hislip!Disconnected(s) \/ Hislip!Delete(s)
       PROVE  calls' = calls
  BY <1>11 DEF Hislip!Send, Hislip!Disconnected, Hislip!Delete
<1>12. CASE Hislip!NewConnection \/ (\E on \in BOOLEAN : Hislip!Listen(on)) \/ UNCHANGED Hislip!vars
  BY <1>8, <1>12 DEF Hislip!NewConnection, Hislip!Listen, Hislip!vars
<1> QED
  BY <1>4, <1>5, <1>6, <1>7, <1>8, <1>9, <1>10, <1>11, <1>12, HislipSteps

-----------------------------------------------------------------------------
HislipMessages == server = "hislip" => HStreams /\ PiecesInv

LEMMA HislipMessagesInit == Hislip!Init => HStreams /\ PiecesInv
<1> SUFFICES ASSUME Hislip!Init
             PROVE  HStreams /\ PiecesInv
  OBVIOUS
<1>1. /\ unread = [s \in Sockets |-> <<>>] /\ client = [s \in Sockets |-> Hislip!NewClient] /\ calls = <<>>
  BY DEF Hislip!Init
<1>2. PiecesInv
  BY <1>1 DEF PiecesInv
<1>3. CASE DOMAIN conns = {}
  BY <1>2, <1>3 DEF HStreams
<1>4. CASE /\ DOMAIN conns = {1, 2} /\ DOMAIN sessions = {9}
           /\ conns[1] = [in |-> <<>>, kind |-> "Sync", session |-> 9, closing |-> FALSE]
           /\ conns[2] = [in |-> <<>>, kind |-> "Async", session |-> 9, closing |-> FALSE]
           /\ sessions[9] = [sync |-> 1, async |-> 2, msgBuf |-> <<>>]
  <2>1. Stream(1) = <<>> /\ Stream(2) = <<>>
    BY <1>1, <1>4, ServersAssumption DEF Stream
  <2>2. client[1] = Hislip!NewClient
    BY <1>1, ServersAssumption
  <2>3. InOrder(<<>>, <<>>, Hislip!NewClient)
    <3>0. <<>> \in Seq(Msgs)
      OBVIOUS
    <3>1. PICK q \in Seq(Msgs) : q = <<>>
      BY <3>0, Zenon
    <3>2. \A k \in DOMAIN q : Setup(q[k])
      BY <3>1
    <3>3. InOrder(q, <<>>, Hislip!NewClient)
      BY <3>2, NewInOrder
    <3> QED
      BY <3>1, <3>3
  <2>4. StreamInv(1)
    BY <1>4, <2>1, <2>2, <2>3 DEF StreamInv
  <2>5. \A any : OneClear(<<>>, any)
    BY DEF OneClear, Clears
  <2>6. StreamInv(2)
    BY <1>4, <2>1, <2>5 DEF StreamInv
  <2> QED
    BY <1>2, <1>4, <2>4, <2>6 DEF HStreams
<1> QED
  BY <1>3, <1>4, HislipStarts

LEMMA HislipMessagesHold == Spec => []HislipMessages
<1>1. Init => HislipMessages
  BY HislipMessagesInit DEF Init, HostInit, HislipMessages
<1>2. HislipInv /\ HislipInv' /\ HislipMessages /\ [Next]_mcVars => HislipMessages'
  <2> SUFFICES ASSUME HislipInv, HislipInv', HislipMessages, [Next]_mcVars, server' = "hislip"
               PROVE  HStreams' /\ PiecesInv'
    BY DEF HislipMessages
  <2>1. server = "hislip" /\ [Hislip!Next]_(Hislip!vars)
    BY DEF Next, HostNext, mcVars, hislipOnly, Hislip!vars
  <2>2. HTyped /\ HTyped' /\ HStack /\ HChannels /\ HLimits /\ HNumbers /\ HStreams /\ PiecesInv
    BY <2>1 DEF HislipInv, HislipMessages
  <2>3. Hislip!Initialize => NewNumber(Hislip!NewSessionId)
    BY <2>2, NumberIsNew
  <2> QED
    BY <2>1, <2>2, <2>3, HStreamsNext, PiecesInvNext
<1> QED
  BY <1>1, <1>2, HislipInvHolds, PTL DEF Spec

\* What runs is whole: in HiSLIP all pieces of one message of its client in order and no other's, with device clears on
\* the other channel, but for the rest of a message that the client gave up (msgBuf, handleSync(), handleAsync()); in
\* VXI-11 all blocks of one link's message (the writeBuf of a link).
THEOREM MessagesAreWhole == Spec => []MessagesStayWhole
<1>1. HislipMessages => (server = "hislip" => Hislip!MessagesNeverMix)
  BY DEF HislipMessages, PiecesInv, OfOne, Hislip!MessagesNeverMix
<1> QED
  BY <1>1, HislipMessagesHold, BlocksRunWhole, PTL DEF MessagesStayWhole

=============================================================================
